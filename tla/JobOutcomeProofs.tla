-------------------------- MODULE JobOutcomeProofs --------------------------
(***************************************************************************)
(* What becomes of a job, proved for JobPipeline with any constants: a     *)
(* result belongs to the attempt that committed it, repairs work from      *)
(* stale scans without undoing a cancellation or setting a job and its     *)
(* outbox row at odds, no healthy lease is taken over, the pipeline        *)
(* implements JobContract, and its rows move as HandlerJobs lets them.     *)
(*                                                                         *)
(* Each part is an invariant on top of Core (module JobPipelineProofs),    *)
(* which says which attempt a lease, and so a commit, is of.               *)
(***************************************************************************)
EXTENDS JobPipelineProofs

-----------------------------------------------------------------------------
(* Results.  An attempt recorded as SUCCEEDED is never written again: every *)
(* write to an attempt is to one that is ACTIVE, or to a new one.          *)

\* Only where others can produce the result is it nobody's attempt.
ForeignResultsDeclared ==
  \A j \in Jobs : result[j] = Elsewhere => j \in SideResultJobs

\* A result that a reconciler has seen is still there when it repairs the job.
SeenResultsExist ==
  \A r \in Reconcilers : reconciler[r].pc = "repair" => result[reconciler[r].job] # 0

Results ==
  /\ ResultMatchesAttempt
  /\ ForeignResultsDeclared
  /\ SeenResultsExist

\* No reconciler starts a repair.
NoNewRepair ==
  \A r \in Reconcilers : reconciler'[r].pc = "repair" =>
    /\ reconciler[r].pc = "repair"
    /\ reconciler'[r].job = reconciler[r].job

\* What job k has come to is the same.
SameOutcome(k) ==
  /\ result'[k] = result[k]
  /\ job'[k].state = "SUCCEEDED" <=> job[k].state = "SUCCEEDED"
  /\ \A n \in AttemptNumbers : attempt[k][n] = "SUCCEEDED" => attempt'[k][n] = "SUCCEEDED"

LEMMA OutcomesKept ==
  ASSUME Typed, Results, NoNewRepair, \A k \in Jobs : SameOutcome(k)
  PROVE  Results'
<1>1. ResultMatchesAttempt'
    BY DEF Results, ResultMatchesAttempt, SameOutcome
<1>2. ForeignResultsDeclared'
    BY DEF Results, ForeignResultsDeclared, SameOutcome
<1>3. SeenResultsExist'
    BY DEF Results, SeenResultsExist, SameOutcome, NoNewRepair, Typed, ActorsHaveJobs
<1> QED
    BY <1>1, <1>2, <1>3 DEF Results

\* Steps that leave job rows, attempts and results alone.
LEMMA OutcomesUntouched ==
  ASSUME Typed, Results, NoNewRepair, UNCHANGED <<job, attempt, result>>
  PROVE  Results'
<1>1. \A k \in Jobs : SameOutcome(k)
    BY DEF SameOutcome
<1> QED
    BY <1>1, OutcomesKept

\* Steps that change one job row, and neither into nor out of SUCCEEDED.
LEMMA RowMovesResults ==
  ASSUME Typed, Results, UNCHANGED <<attempt, result>>, NoNewRepair, NEW j \in Jobs,
         \A k \in Jobs \ {j} : job'[k].state = job[k].state,
         job'[j].state = "SUCCEEDED" <=> job[j].state = "SUCCEEDED"
  PROVE  Results'
<1>1. \A k \in Jobs : SameOutcome(k)
    BY DEF SameOutcome
<1> QED
    BY <1>1, OutcomesKept

\* Steps that also write one attempt, which is not one that succeeded.
LEMMA AttemptWritesResults ==
  ASSUME Typed, Results, UNCHANGED result, NoNewRepair,
         NEW j \in Jobs, NEW n \in AttemptNumbers, NEW outcome,
         \A k \in Jobs \ {j} : job'[k].state = job[k].state,
         job'[j].state # "SUCCEEDED", job[j].state # "SUCCEEDED",
         attempt[j][n] # "SUCCEEDED",
         attempt' = [attempt EXCEPT ![j][n] = outcome]
  PROVE  Results'
<1>1. attempt \in [Jobs -> [AttemptNumbers -> jobAttemptStates \cup {"NONE"}]]
    BY DEF Typed, TypeOK
<1>2. \A k \in Jobs : SameOutcome(k)
    BY <1>1 DEF SameOutcome
<1> QED
    BY <1>2, OutcomesKept

\* A job in PROCESSING has an active attempt, the one its lease names.
LEMMA ActiveAttempt ==
  ASSUME Typed, Core, NEW j \in Jobs, job[j].state = "PROCESSING"
  PROVE  /\ job[j].leaseId \in AttemptNumbers
         /\ job[j].leaseId = job[j].attemptCount
         /\ attempt[j][job[j].leaseId] = "ACTIVE"
    BY ColumnsTyped DEF Core, OneActiveAttempt, AttemptNumbers

LEMMA SettleCancellationResults ==
  ASSUME Typed, Core, Results, UNCHANGED <<result, reconciler>>,
         NEW j \in Jobs, NEW code,
         job[j].state = "PROCESSING", SettleCancellation(j, code)
  PROVE  Results'
<1>1. /\ \A k \in Jobs \ {j} : job'[k].state = job[k].state
      /\ job'[j].state = "CANCELLED"
    BY DEF SettleCancellation, Typed, TypeOK, JobRows
<1>2. attempt' = [attempt EXCEPT ![j][job[j].leaseId] = "CANCELLED"]
    BY DEF SettleCancellation
<1>3. NoNewRepair
    BY DEF NoNewRepair
<1> QED
    BY <1>1, <1>2, <1>3, ActiveAttempt, AttemptWritesResults

\* commitJobSuccess writes the result and marks the attempt in one transaction.
LEMMA CommitJobSuccessResults ==
  ASSUME Typed, Core, Results, NEW w \in Workers, CommitJobSuccess(w)
  PROVE  Results'
<1> DEFINE j == worker[w].job
           n == worker[w].lease
<1>1. /\ j \in Jobs
      /\ job[j].state = "PROCESSING"
      /\ job[j].leaseId = n
      /\ n \in AttemptNumbers
    BY ActiveAttempt
    DEF Typed, ActorsHaveJobs, CommitJobSuccess, Settleable, HoldsLease
<1>2. /\ \A k \in Jobs \ {j} : job'[k] = job[k] /\ result'[k] = result[k]
                               /\ attempt'[k] = attempt[k]
      /\ job'[j].state = "SUCCEEDED"
      /\ result'[j] = IF result[j] = Elsewhere THEN Elsewhere ELSE n
      /\ attempt'[j][n] = "SUCCEEDED"
      /\ UNCHANGED reconciler
    BY <1>1 DEF Typed, TypeOK, JobRows, CommitJobSuccess
<1>3. n # 0 /\ Elsewhere # 0 /\ Elsewhere \notin AttemptNumbers
    BY <1>1, DomainAssumption, BoundAssumption DEF AttemptNumbers
<1> HIDE DEF j, n
<1>4. ResultMatchesAttempt'
    BY <1>1, <1>2, <1>3 DEF Results, ResultMatchesAttempt, ForeignResultsDeclared
<1>5. ForeignResultsDeclared'
    BY <1>1, <1>2, <1>3, DomainAssumption DEF Results, ForeignResultsDeclared, AttemptNumbers
<1>6. SeenResultsExist'
    BY <1>2, <1>3 DEF Results, SeenResultsExist, Typed, ActorsHaveJobs
<1> QED
    BY <1>4, <1>5, <1>6 DEF Results

LEMMA CommitJobFailureResults ==
  ASSUME Typed, Core, Results, NEW w \in Workers,
         NEW next \in {"RETRY_SCHEDULED", "FAILED_ATTENTION"},
         CommitJobFailure(w, next)
  PROVE  Results'
<1> DEFINE j == worker[w].job
<1>1. /\ j \in Jobs
      /\ job[j].state = "PROCESSING"
      /\ job[j].leaseId = worker[w].lease
    BY DEF Typed, ActorsHaveJobs, CommitJobFailure, Settleable, HoldsLease
<1>2. /\ \A k \in Jobs \ {j} : job'[k].state = job[k].state
      /\ job'[j].state = next
    BY <1>1 DEF Typed, TypeOK, JobRows, CommitJobFailure
<1>3. /\ attempt' = [attempt EXCEPT ![j][job[j].leaseId] = next]
      /\ UNCHANGED result
      /\ NoNewRepair
    BY <1>1 DEF CommitJobFailure, NoNewRepair
<1> QED
    BY <1>1, <1>2, <1>3, ActiveAttempt, AttemptWritesResults

\* The claim writes an attempt that does not exist yet.
LEMMA ClaimBackgroundJobResults ==
  ASSUME Typed, Core, Results, NEW w \in Workers, ClaimBackgroundJob(w)
  PROVE  Results'
<1> DEFINE j == worker[w].job
           n == job[j].attemptCount + 1
<1>1. j \in Jobs
    BY DEF Typed, ActorsHaveJobs, ClaimBackgroundJob
<1>2. /\ n \in AttemptNumbers
      /\ n > job[j].attemptCount
      /\ job[j].state = "QUEUED"
    BY <1>1, ColumnsTyped, BoundAssumption
    DEF ClaimBackgroundJob, Claimable, AttemptNumbers
<1>3. attempt[j][n] = "NONE"
    BY <1>1, <1>2 DEF Core, OneActiveAttempt
<1>4. /\ \A k \in Jobs \ {j} : job'[k].state = job[k].state
      /\ job'[j].state = "PROCESSING"
      /\ attempt' = [attempt EXCEPT ![j][n] = "ACTIVE"]
      /\ UNCHANGED result
      /\ NoNewRepair
    BY <1>1 DEF Typed, TypeOK, JobRows, ClaimBackgroundJob, NoNewRepair
<1> HIDE DEF n
<1> QED
    BY <1>1, <1>2, <1>3, <1>4, AttemptWritesResults

LEMMA RecoverExpiredLeaseResults ==
  ASSUME Typed, Core, Results, NEW j \in Jobs, RecoverExpiredLease(j)
  PROVE  Results'
<1>1. job[j].state = "PROCESSING"
    BY DEF RecoverExpiredLease, Recoverable
<1>2. /\ \A k \in Jobs \ {j} : job'[k].state = job[k].state
      /\ job'[j].state \in {"FAILED_ATTENTION", "QUEUED"}
      /\ attempt' = [attempt EXCEPT ![j][job[j].leaseId] = "LEASE_EXPIRED"]
      /\ UNCHANGED result
      /\ NoNewRepair
    BY DEF Typed, TypeOK, JobRows, RecoverExpiredLease, NoNewRepair
<1> QED
    BY <1>1, <1>2, ActiveAttempt, AttemptWritesResults

\* A repair of a job that is not SUCCEEDED is of a result no attempt committed.
LEMMA RepairCommittedResultResults ==
  ASSUME Typed, Core, Results, NEW r \in Reconcilers, RepairCommittedResult(r)
  PROVE  Results'
<1> DEFINE j == reconciler[r].job
<1>1. j \in Jobs /\ result[j] # 0
    BY DEF Typed, ActorsHaveJobs, RepairCommittedResult, Results, SeenResultsExist
<1>2. NoNewRepair /\ UNCHANGED result
    BY DEF RepairCommittedResult, NoNewRepair, Typed, TypeOK, IdleReconciler
<1>3. CASE ~Repairable(j)
    BY <1>2, <1>3, OutcomesUntouched DEF RepairCommittedResult
<1>4. CASE Repairable(j)
  <2>1. result[j] = Elsewhere /\ j \in SideResultJobs
    <3>1. job[j].state # "SUCCEEDED"
        BY <1>4 DEF Repairable
    <3>2. result[j] \notin AttemptNumbers
        BY <1>1, <3>1 DEF Results, ResultMatchesAttempt
    <3>3. result[j] = Elsewhere
      <4>1. result[j] \in (0..AttemptLimit) \cup {Elsewhere}
          BY <1>1 DEF Typed, TypeOK
      <4> QED
          BY <1>1, <3>2, <4>1 DEF AttemptNumbers
    <3> QED
        BY <1>1, <3>3 DEF Results, ForeignResultsDeclared
  <2>2. /\ \A k \in Jobs \ {j} : job'[k] = job[k] /\ attempt'[k] = attempt[k]
        /\ UNCHANGED result
      BY <1>1, <1>4 DEF Typed, TypeOK, RepairCommittedResult
  <2>3. Elsewhere \notin AttemptNumbers
      BY DomainAssumption, BoundAssumption DEF AttemptNumbers
  <2>4. ResultMatchesAttempt'
      BY <2>1, <2>2, <2>3 DEF Results, ResultMatchesAttempt
  <2>5. ForeignResultsDeclared'
      BY <2>2 DEF Results, ForeignResultsDeclared
  <2>6. SeenResultsExist'
      BY <1>2 DEF Results, SeenResultsExist, NoNewRepair
  <2> QED
      BY <2>4, <2>5, <2>6 DEF Results
<1> QED
    BY <1>3, <1>4

LEMMA SideResultResults ==
  ASSUME Typed, Results, NEW j \in Jobs, SideResult(j)
  PROVE  Results'
<1>1. /\ \A k \in Jobs \ {j} : result'[k] = result[k]
      /\ result'[j] = Elsewhere
      /\ j \in SideResultJobs
      /\ UNCHANGED <<job, attempt, reconciler>>
    BY DEF SideResult, Typed, TypeOK
<1>2. Elsewhere \notin AttemptNumbers /\ Elsewhere # 0
    BY DomainAssumption, BoundAssumption DEF AttemptNumbers
<1>3. ResultMatchesAttempt' /\ ForeignResultsDeclared'
    BY <1>1, <1>2 DEF Results, ResultMatchesAttempt, ForeignResultsDeclared
<1>4. SeenResultsExist'
    BY <1>1, <1>2 DEF Results, SeenResultsExist, Typed, ActorsHaveJobs
<1> QED
    BY <1>3, <1>4 DEF Results

\* A write of the dispatch status alone.
LEMMA OnlyDispatchStatus ==
  ASSUME Typed, NEW j \in Jobs, NEW s,
         \/ job' = job
         \/ job' = [job EXCEPT ![j].dispatchStatus = s]
  PROVE  /\ \A k \in Jobs \ {j} : job'[k] = job[k]
         /\ \A k \in Jobs : /\ SameColumns(k)
                           /\ job'[k].cancellationRequested = job[k].cancellationRequested
                           /\ job'[k].leaseExpired = job[k].leaseExpired
                           /\ job'[k].retryDue = job[k].retryDue
<1>1. CASE job' = job
    BY <1>1 DEF SameColumns
<1>2. CASE job' = [job EXCEPT ![j].dispatchStatus = s]
    BY <1>2 DEF SameColumns, Typed, TypeOK, JobRows
<1> QED
    BY <1>1, <1>2

\* A due retry goes back to the queue, or nothing happens.
LEMMA MakeRetryDueRow ==
  ASSUME Typed, NEW w \in Workers, MakeRetryDue(w)
  PROVE  \/ job' = job
         \/ /\ job[worker[w].job].state = "RETRY_SCHEDULED"
            /\ job' = [job EXCEPT ![worker[w].job] =
                         [@ EXCEPT !.state = "QUEUED", !.stage = "queued",
                                   !.retryDue = FALSE]]
    BY DEF MakeRetryDue

\* Every other step of a job row is neither into nor out of SUCCEEDED.
LEMMA OperateResults ==
  ASSUME Typed, Results, NEW j \in Jobs, Operate(j)
  PROVE  Results'
<1>1. NoNewRepair /\ UNCHANGED <<attempt, result>>
    BY DEF Operate, Enqueue, CancelWaiting, RequestCancellation,
           RetryBackgroundJob, NoNewRepair
<1>2. \A k \in Jobs \ {j} : job'[k].state = job[k].state
    BY DEF Operate, Enqueue, CancelWaiting, RequestCancellation,
           RetryBackgroundJob, Typed, TypeOK
<1>3. job'[j].state = "SUCCEEDED" <=> job[j].state = "SUCCEEDED"
  <2>1. CASE Enqueue(j)
      BY <2>1 DEF Enqueue, NewJob, Typed, TypeOK
  <2>2. CASE CancelWaiting(j)
      BY <2>2 DEF CancelWaiting, Typed, TypeOK, JobRows
  <2>3. CASE RequestCancellation(j)
      BY <2>3 DEF RequestCancellation, Typed, TypeOK, JobRows
  <2>4. CASE RetryBackgroundJob(j)
      BY <2>4 DEF RetryBackgroundJob, Retryable, Typed, TypeOK, JobRows
  <2> QED
      BY <2>1, <2>2, <2>3, <2>4 DEF Operate
<1> QED
    BY <1>1, <1>2, <1>3, RowMovesResults

LEMMA RepairResults ==
  ASSUME Typed, Core, Results, NEW j \in Jobs, Repair(j)
  PROVE  Results'
<1>1. CASE RecoverCancelledLease(j)
    BY <1>1, SettleCancellationResults
    DEF RecoverCancelledLease, CancelledRecoverable
<1>2. CASE RequeueDueRetry(j)
  <2>1. /\ \A k \in Jobs \ {j} : job'[k].state = job[k].state
        /\ job'[j].state = "QUEUED"
        /\ job[j].state = "RETRY_SCHEDULED"
        /\ NoNewRepair
        /\ UNCHANGED <<attempt, result>>
      BY <1>2 DEF RequeueDueRetry, NoNewRepair, Typed, TypeOK, JobRows
  <2> QED
      BY <2>1, RowMovesResults
<1>3. CASE RepairMissingOutbox(j)
  <2>1. NoNewRepair
      BY <1>3 DEF RepairMissingOutbox, NoNewRepair
  <2> QED
      BY <1>3, <2>1, OutcomesUntouched DEF RepairMissingOutbox
<1> QED
    BY <1>1, <1>2, <1>3, RecoverExpiredLeaseResults DEF Repair

LEMMA ClockResults ==
  ASSUME Typed, Results, NEW j \in Jobs, Clock(j)
  PROVE  Results'
<1>1. CASE LeaseExpires(j) \/ RetryBecomesDue(j)
  <2>1. /\ \A k \in Jobs \ {j} : job'[k].state = job[k].state
        /\ job'[j].state = job[j].state
        /\ NoNewRepair
        /\ UNCHANGED <<attempt, result>>
      BY <1>1 DEF LeaseExpires, RetryBecomesDue, NoNewRepair, Typed, TypeOK, JobRows
  <2> QED
      BY <2>1, RowMovesResults
<1>2. CASE \/ OutboxBecomesDue(j) \/ DispatchLeaseExpires(j)
           \/ DispatchOverrunsLease(j) \/ DispatchAges(j)
           \/ DeliveryExpires(j) \/ DeliveryPurged(j)
  <2>1. NoNewRepair /\ UNCHANGED <<job, attempt, result>>
      BY <1>2 DEF OutboxBecomesDue, DispatchLeaseExpires, DispatchOverrunsLease,
         DispatchAges, DeliveryExpires, DeliveryPurged, NoNewRepair
  <2> QED
      BY <2>1, OutcomesUntouched
<1> QED
    BY <1>1, <1>2, SideResultResults DEF Clock

LEMMA DispatchResults ==
  ASSUME Typed, Results, NEW d \in Dispatchers, Dispatch(d)
  PROVE  Results'
<1>1. NoNewRepair /\ UNCHANGED <<attempt, result>>
    BY DEF Dispatch, LeasePendingOutbox, Publish, MarkOutboxDispatched,
           FailDispatch, CrashDispatcher, NoNewRepair
<1>2. CASE MarkOutboxDispatched(d)
  <2>2. dispatcher[d].job \in Jobs
      BY <1>2 DEF MarkOutboxDispatched, Typed, ActorsHaveJobs
  <2>3. \/ job' = job
        \/ job' = [job EXCEPT ![dispatcher[d].job].dispatchStatus = "DISPATCHED"]
      BY <1>2 DEF MarkOutboxDispatched
  <2>1. \A k \in Jobs : job'[k].state = job[k].state
      BY <2>2, <2>3, OnlyDispatchStatus DEF SameColumns
  <2> QED
      BY <1>1, <2>1, <2>2, RowMovesResults
<1>3. CASE ~MarkOutboxDispatched(d)
  <2>1. UNCHANGED job
      BY <1>3 DEF Dispatch, LeasePendingOutbox, Publish, FailDispatch,
         CrashDispatcher
  <2> QED
      BY <1>1, <2>1, OutcomesUntouched
<1> QED
    BY <1>2, <1>3

LEMMA ReconcileResults ==
  ASSUME Typed, Core, Results, NEW r \in Reconcilers, Reconcile(r)
  PROVE  Results'
<1>1. CASE RequeueStrandedDelivery(r) \/ FlagAmbiguousJob(r)
  <2>1. /\ reconciler[r].job \in Jobs
        /\ NoNewRepair
        /\ UNCHANGED <<attempt, result>>
    <3>1. reconciler[r].job \in Jobs
        BY <1>1 DEF RequeueStrandedDelivery, FlagAmbiguousJob, Typed, ActorsHaveJobs
    <3>2. /\ reconciler' = [reconciler EXCEPT ![r] = IdleReconciler]
          /\ UNCHANGED <<attempt, result>>
        BY <1>1 DEF RequeueStrandedDelivery, FlagAmbiguousJob
    <3>3. NoNewRepair
        BY <3>2 DEF NoNewRepair, IdleReconciler, Typed, TypeOK
    <3> QED
        BY <3>1, <3>2, <3>3
  <2>2. CASE RequeueStrandedDelivery(r)
    <3>1. \/ job' = job
          \/ job' = [job EXCEPT ![reconciler[r].job].dispatchStatus = "PENDING"]
        BY <2>2 DEF RequeueStrandedDelivery
    <3>2. \A k \in Jobs : job'[k].state = job[k].state
        BY <2>1, <3>1, OnlyDispatchStatus DEF SameColumns
    <3> QED
        BY <2>1, <3>2, RowMovesResults
  <2>3. CASE FlagAmbiguousJob(r)
    <3>1. \A k \in Jobs : job'[k].state = job[k].state
        BY <2>1, <2>3 DEF FlagAmbiguousJob, Typed, TypeOK, JobRows
    <3> QED
        BY <2>1, <3>1, RowMovesResults
  <2> QED
      BY <1>1, <2>2, <2>3
<1>2. ASSUME NEW j \in Jobs, ScanStrandedDelivery(r, j) \/ ScanResultCandidate(r, j)
      PROVE  Results'
  <2>1. CASE ScanStrandedDelivery(r, j)
    <3>1. NoNewRepair
        BY <2>1 DEF ScanStrandedDelivery, NoNewRepair, IdleReconciler, Typed, TypeOK
    <3> QED
        BY <2>1, <3>1, OutcomesUntouched DEF ScanStrandedDelivery
  <2>2. CASE ScanResultCandidate(r, j)
    <3>1. NoNewRepair
        BY <2>2 DEF ScanResultCandidate, NoNewRepair, Typed, TypeOK
    <3> QED
        BY <2>2, <3>1, OutcomesUntouched DEF ScanResultCandidate
  <2> QED
      BY <1>2, <2>1, <2>2
<1>3. CASE InspectResult(r)
  <2>1. SeenResultsExist'
      BY <1>3 DEF InspectResult, CandidateVerdict, IdleReconciler, Results,
         SeenResultsExist, Typed, TypeOK, ReconcilerStates
  <2>2. ResultMatchesAttempt' /\ ForeignResultsDeclared'
      BY <1>3 DEF InspectResult, Results, ResultMatchesAttempt, ForeignResultsDeclared
  <2> QED
      BY <2>1, <2>2 DEF Results
<1> QED
    BY <1>1, <1>2, <1>3, RepairCommittedResultResults DEF Reconcile

LEMMA RunHandlerResults ==
  ASSUME Typed, Core, Results, NEW w \in Workers, RunHandler(w)
  PROVE  Results'
<1>1. CASE GuardCancels(w)
    BY <1>1, SettleCancellationResults
    DEF GuardCancels, HoldsLease, Typed, ActorsHaveJobs
<1>2. CASE \/ MakeRetryDue(w) \/ HeartbeatBackgroundJob(w)
           \/ \E s \in handlerStages : RecordBackgroundJobStage(w, s)
  <2> DEFINE j == worker[w].job
  <2>1. /\ j \in Jobs
        /\ NoNewRepair
        /\ UNCHANGED <<attempt, result>>
      BY <1>2 DEF MakeRetryDue, HeartbeatBackgroundJob, RecordBackgroundJobStage,
         NoNewRepair, Typed, ActorsHaveJobs
  <2>2. CASE MakeRetryDue(w)
    <3>1. CASE job' = job
        BY <2>1, <3>1, OutcomesUntouched
    <3>2. CASE /\ job[j].state = "RETRY_SCHEDULED"
               /\ job' = [job EXCEPT ![j] =
                            [@ EXCEPT !.state = "QUEUED", !.stage = "queued",
                                      !.retryDue = FALSE]]
      <4>1. /\ \A k \in Jobs \ {j} : job'[k].state = job[k].state
            /\ job'[j].state = "QUEUED"
          BY <2>1, <3>2 DEF Typed, TypeOK, JobRows
      <4> QED
          BY <2>1, <3>2, <4>1, RowMovesResults
    <3> QED
        BY <2>2, <3>1, <3>2, MakeRetryDueRow
  <2>3. CASE HeartbeatBackgroundJob(w)
    <3>1. \A k \in Jobs : job'[k].state = job[k].state
        BY <2>1, <2>3 DEF HeartbeatBackgroundJob, Typed, TypeOK, JobRows
    <3> QED
        BY <2>1, <3>1, RowMovesResults
  <2>4. ASSUME NEW s \in handlerStages, RecordBackgroundJobStage(w, s)
        PROVE  Results'
    <3>1. \A k \in Jobs : job'[k].state = job[k].state
        BY <2>1, <2>4 DEF RecordBackgroundJobStage, Typed, TypeOK, JobRows
    <3> QED
        BY <2>1, <3>1, RowMovesResults
  <2> QED
      BY <1>2, <2>2, <2>3, <2>4
<1>3. CASE /\ NoNewRepair
           /\ UNCHANGED <<job, attempt, result>>
    BY <1>3, OutcomesUntouched
<1>4. ASSUME UNCHANGED <<job, attempt, result, reconciler>> PROVE Results'
    BY <1>3, <1>4 DEF NoNewRepair
<1> QED
    BY <1>1, <1>2, <1>4, ClaimBackgroundJobResults, CommitJobSuccessResults,
       CommitJobFailureResults
    DEF RunHandler, ReceiveDelivery, LoadOwnedJob, CheckResult, IgnoreDelivery,
        Reload, ClaimRefused, CallGuard, GuardPasses, LeaseLost, HandlerReturns,
        HandlerThrows, SettlementRefused, AbandonLease, DeliveryFails, CrashWorker

LEMMA InitResults == Init => Results
<1> SUFFICES ASSUME Init PROVE Results
    OBVIOUS
<1>1. Elsewhere # 0 /\ 0 \notin AttemptNumbers
    BY DomainAssumption, BoundAssumption DEF AttemptNumbers
<1>2. \A j \in Jobs : job[j].state # "SUCCEEDED" /\ result[j] = 0
    BY DEF Init, NewJob
<1> QED
    BY <1>1, <1>2
    DEF Init, Results, ResultMatchesAttempt, ForeignResultsDeclared,
        SeenResultsExist, IdleReconciler

LEMMA NextResults == Typed /\ Core /\ Results /\ [Next]_vars => Results'
<1> SUFFICES ASSUME Typed, Core, Results, [Next]_vars PROVE Results'
    OBVIOUS
<1>1. CASE UNCHANGED vars
    BY <1>1, OutcomesUntouched DEF vars, NoNewRepair
<1> QED
    BY <1>1, DispatchResults, RunHandlerResults, ReconcileResults, RepairResults,
       OperateResults, ClockResults
    DEF Next

LEMMA ResultsInvariant == Spec => []Results
<1>1. Init => Results
    BY InitResults
<1>2. (Typed /\ Core) /\ Results /\ [Next]_vars => Results'
    BY NextResults
<1> QED
    BY <1>1, <1>2, CoreInvariant, PTL DEF Spec

\* A committed result belongs to a SUCCEEDED job and to the one attempt that is
\* recorded as SUCCEEDED, whatever stale workers and stale repairs still write;
\* and a job whose result only its handler makes succeeds only with it.
THEOREM ResultsAreCommittedOnce == Spec => []ResultMatchesAttempt
<1>1. Results => ResultMatchesAttempt
    BY DEF Results
<1> QED
    BY <1>1, ResultsInvariant, PTL

-----------------------------------------------------------------------------
(* Repairs.  DispatchStatusAgrees is kept because no two of the writes to  *)
(* the pair dispatch status and outbox row are made on different grounds:  *)
(* a row is cancelled exactly for the jobs somebody asked to cancel, and   *)
(* only a row that is not cancelled is ever sent again.                    *)

\* Only an enqueue makes an outbox row, and it makes job and row together.
RowsMadeTogether ==
  \A j \in Jobs :
    /\ job[j].state = "ABSENT" => ~outbox[j].present
    /\ job[j].state # "ABSENT" /\ j \notin LegacyJobs => outbox[j].present

\* The dispatch status of a job is CANCELLED only by a request.
CancelledStatusIsAsked ==
  \A j \in Jobs : job[j].dispatchStatus = "CANCELLED" => job[j].cancellationRequested

\* Only jobs with an inspector are candidates.
CandidatesInspected ==
  \A r \in Reconcilers : reconciler[r].pc \in {"candidate", "missing", "conflict", "repair"}
                           => reconciler[r].job \in InspectedJobs

Repairs ==
  /\ CancellationIsFinal
  /\ DispatchStatusAgrees
  /\ RowsMadeTogether
  /\ CancelledStatusIsAsked
  /\ CandidatesInspected

\* What the first four say of one job, so that a step has to be followed on
\* the one job it is about.
JobSound(j) ==
  /\ job[j].cancellationRequested => job[j].state \in {"PROCESSING", "CANCELLED"}
  /\ job[j].state = "ABSENT" => ~outbox[j].present
  /\ job[j].dispatchStatus = "CANCELLED" => job[j].cancellationRequested
  /\ job[j].state # "ABSENT" /\ j \notin LegacyJobs =>
       /\ outbox[j].present
       /\ RepairedJob(j) \/
            /\ outbox[j].cancelled <=> job[j].dispatchStatus = "CANCELLED"
            /\ job[j].dispatchStatus = "DISPATCHED"
                 <=> outbox[j].dispatched /\ ~outbox[j].cancelled

LEMMA RepairsByJob == Repairs <=> CandidatesInspected /\ \A j \in Jobs : JobSound(j)
    BY DEF Repairs, CancellationIsFinal, DispatchStatusAgrees, RowsMadeTogether,
           CancelledStatusIsAsked, JobSound, EnqueuedJobs

LEMMA RowsTyped ==
  ASSUME Typed, NEW j \in Jobs
  PROVE  job[j] \in JobRows /\ outbox[j] \in OutboxRows
    BY DEF Typed, TypeOK

LEMMA OneJobMoves ==
  ASSUME Repairs, CandidatesInspected', NEW j \in Jobs, JobSound(j)',
         \A k \in Jobs \ {j} : job'[k] = job[k] /\ outbox'[k] = outbox[k]
  PROVE  Repairs'
<1>1. \A k \in Jobs \ {j} : JobSound(k)'
    BY RepairsByJob DEF JobSound, RepairedJob
<1>2. Repairs' <=> CandidatesInspected' /\ \A k \in Jobs : JobSound(k)'
    BY DEF Repairs, CancellationIsFinal, DispatchStatusAgrees, RowsMadeTogether,
           CancelledStatusIsAsked, JobSound, EnqueuedJobs, RepairedJob
<1> QED
    BY <1>1, <1>2

\* A step of the job's own state machine.
LEMMA StateMovesSound ==
  ASSUME NEW j \in Jobs, JobSound(j),
         job'[j].state = "ABSENT" <=> job[j].state = "ABSENT",
         job[j].state = "SUCCEEDED" => job'[j].state = "SUCCEEDED",
         job[j].cancellationRequested => job'[j].state \in {"PROCESSING", "CANCELLED"},
         job'[j].cancellationRequested = job[j].cancellationRequested,
         job'[j].dispatchStatus = job[j].dispatchStatus,
         outbox'[j].present = outbox[j].present,
         outbox'[j].cancelled = outbox[j].cancelled,
         outbox'[j].dispatched = outbox[j].dispatched
  PROVE  JobSound(j)'
    BY DEF JobSound, RepairedJob

\* The job is sent, or sent again.
LEMMA PendingSound ==
  ASSUME NEW j \in Jobs, job'[j].state # "ABSENT",
         ~job'[j].cancellationRequested,
         job'[j].dispatchStatus = "PENDING", outbox'[j] = PendingOutbox
  PROVE  JobSound(j)'
    BY DEF JobSound, PendingOutbox

\* The job is asked to stop, or stops.
LEMMA CancelledSound ==
  ASSUME Typed, NEW j \in Jobs, JobSound(j), job[j].state # "ABSENT",
         job'[j].state \in {"PROCESSING", "CANCELLED"},
         job'[j].cancellationRequested,
         job'[j].dispatchStatus = "CANCELLED",
         outbox'[j] = CancelledOutbox(outbox[j])
  PROVE  JobSound(j)'
    BY RowsTyped DEF JobSound, CancelledOutbox, OutboxRows

LEMMA InitRepairs == Init => Repairs
<1> SUFFICES ASSUME Init PROVE Repairs
    OBVIOUS
<1>1. CandidatesInspected
    BY DEF Init, CandidatesInspected, IdleReconciler
<1>2. \A j \in Jobs : JobSound(j)
    BY DEF Init, JobSound, NewJob, NoOutbox, PendingOutbox
<1> QED
    BY <1>1, <1>2, RepairsByJob

LEMMA CandidatesKept ==
  ASSUME Typed, CandidatesInspected, [Next]_vars
  PROVE  CandidatesInspected'
<1>1. ASSUME NEW r \in Reconcilers, Reconcile(r) PROVE CandidatesInspected'
  <2>1. ASSUME NEW j \in Jobs, ScanStrandedDelivery(r, j) PROVE CandidatesInspected'
      BY <2>1 DEF ScanStrandedDelivery, CandidatesInspected, IdleReconciler, Typed, TypeOK
  <2>2. ASSUME NEW j \in Jobs, ScanResultCandidate(r, j) PROVE CandidatesInspected'
      BY <2>2 DEF ScanResultCandidate, CandidatesInspected, Typed, TypeOK
  <2>3. CASE InspectResult(r)
      BY <2>3 DEF InspectResult, CandidateVerdict, CandidatesInspected,
         IdleReconciler, Typed, TypeOK
  <2>4. CASE reconciler' = [reconciler EXCEPT ![r] = IdleReconciler]
      BY <2>4 DEF CandidatesInspected, IdleReconciler, Typed, TypeOK
  <2> QED
      BY <1>1, <2>1, <2>2, <2>3, <2>4
      DEF Reconcile, RequeueStrandedDelivery, FlagAmbiguousJob, RepairCommittedResult
<1>2. ASSUME UNCHANGED reconciler PROVE CandidatesInspected'
    BY <1>2 DEF CandidatesInspected
<1>3. ASSUME NEW w \in Workers, RunHandler(w) PROVE UNCHANGED reconciler
    BY <1>3 DEF RunHandler, ReceiveDelivery, LoadOwnedJob, CheckResult,
       IgnoreDelivery, MakeRetryDue, Reload, ClaimBackgroundJob, ClaimRefused,
       CallGuard, GuardPasses, GuardCancels, LeaseLost, HeartbeatBackgroundJob,
       RecordBackgroundJobStage, HandlerReturns, HandlerThrows,
       CommitJobSuccess, CommitJobFailure, SettlementRefused, AbandonLease,
       DeliveryFails, CrashWorker
<1>4. ASSUME NEW d \in Dispatchers, Dispatch(d) PROVE UNCHANGED reconciler
    BY <1>4 DEF Dispatch, LeasePendingOutbox, Publish, MarkOutboxDispatched,
       FailDispatch, CrashDispatcher
<1>5. ASSUME NEW j \in Jobs, Repair(j) \/ Operate(j) PROVE UNCHANGED reconciler
    BY <1>5 DEF Repair, RecoverExpiredLease, RecoverCancelledLease,
       RequeueDueRetry, RepairMissingOutbox, Operate, Enqueue, CancelWaiting,
       RequestCancellation, RetryBackgroundJob
<1>6. ASSUME NEW j \in Jobs, Clock(j) PROVE UNCHANGED reconciler
    BY <1>6 DEF Clock, OutboxBecomesDue, DispatchLeaseExpires,
       DispatchOverrunsLease, DispatchAges, DeliveryExpires, DeliveryPurged,
       LeaseExpires, RetryBecomesDue, SideResult
<1>7. CASE UNCHANGED vars
    BY <1>7 DEF vars, CandidatesInspected
<1> QED
    BY <1>1, <1>2, <1>3, <1>4, <1>5, <1>6, <1>7 DEF Next

\* Steps that leave job and outbox rows alone.
LEMMA RowsUntouched ==
  ASSUME Repairs, CandidatesInspected', UNCHANGED <<job, outbox>>
  PROVE  Repairs'
    BY DEF Repairs, CancellationIsFinal, DispatchStatusAgrees, RowsMadeTogether,
           CancelledStatusIsAsked, EnqueuedJobs, RepairedJob

\* Steps that write columns of one outbox row which say when it is sent.
LEMMA OutboxTimesSound ==
  ASSUME Typed, Repairs, CandidatesInspected', UNCHANGED job, NEW j \in Jobs,
         \A k \in Jobs \ {j} : outbox'[k] = outbox[k],
         outbox'[j].present = outbox[j].present,
         outbox'[j].cancelled = outbox[j].cancelled,
         outbox'[j].dispatched = outbox[j].dispatched
  PROVE  Repairs'
<1>1. JobSound(j)
    BY RepairsByJob
<1>2. JobSound(j)'
    BY <1>1 DEF JobSound, RepairedJob
<1> QED
    BY <1>2, OneJobMoves

LEMMA DispatchRepairs ==
  ASSUME Typed, Repairs, CandidatesInspected', NEW d \in Dispatchers, Dispatch(d)
  PROVE  Repairs'
<1>1. ASSUME NEW j \in Jobs, LeasePendingOutbox(d, j) PROVE Repairs'
  <2>1. /\ \A k \in Jobs \ {j} : outbox'[k] = outbox[k]
        /\ outbox'[j].present = outbox[j].present
        /\ outbox'[j].cancelled = outbox[j].cancelled
        /\ outbox'[j].dispatched = outbox[j].dispatched
        /\ UNCHANGED job
      BY <1>1 DEF LeasePendingOutbox, Typed, TypeOK, OutboxRows
  <2> QED
      BY <2>1, OutboxTimesSound
<1>2. CASE FailDispatch(d)
  <2> DEFINE j == dispatcher[d].job
  <2>1. j \in Jobs /\ UNCHANGED job
      BY <1>2 DEF FailDispatch, Typed, ActorsHaveJobs
  <2>2. CASE OwnsOutbox(d, j)
    <3>1. /\ \A k \in Jobs \ {j} : outbox'[k] = outbox[k]
          /\ outbox'[j].present = outbox[j].present
          /\ outbox'[j].cancelled = outbox[j].cancelled
          /\ outbox'[j].dispatched = outbox[j].dispatched
        BY <1>2, <2>1, <2>2 DEF FailDispatch, Typed, TypeOK, OutboxRows
    <3> QED
        BY <2>1, <3>1, OutboxTimesSound
  <2>3. CASE ~OwnsOutbox(d, j)
      BY <1>2, <2>3, RowsUntouched DEF FailDispatch
  <2> QED
      BY <2>2, <2>3
<1>3. CASE MarkOutboxDispatched(d)
  <2>1. PICK j \in Jobs : j = dispatcher[d].job
      BY <1>3 DEF MarkOutboxDispatched, Typed, ActorsHaveJobs
  <2>2. CASE OwnsOutbox(d, j)
    <3>1. /\ outbox' = [outbox EXCEPT ![j] =
                         [@ EXCEPT !.dispatched = TRUE, !.aged = FALSE,
                                   !.leaseId = None, !.leaseExpired = FALSE]]
          /\ job' = [job EXCEPT ![j].dispatchStatus = "DISPATCHED"]
        BY <1>3, <2>1, <2>2 DEF MarkOutboxDispatched
    <3>2. /\ \A k \in Jobs \ {j} : outbox'[k] = outbox[k]
          /\ outbox'[j].present /\ outbox'[j].dispatched /\ ~outbox'[j].cancelled
        BY <2>2, <3>1 DEF OwnsOutbox, Typed, TypeOK, OutboxRows
    <3>3. job'[j].dispatchStatus = "DISPATCHED"
        BY <3>1 DEF Typed, TypeOK, JobRows
    <3>4. /\ \A k \in Jobs \ {j} : job'[k] = job[k] /\ outbox'[k] = outbox[k]
          /\ outbox'[j].present /\ outbox'[j].dispatched /\ ~outbox'[j].cancelled
          /\ job'[j].dispatchStatus = "DISPATCHED"
          /\ job'[j].state = job[j].state
          /\ job'[j].cancellationRequested = job[j].cancellationRequested
        BY <3>1, <3>2, <3>3, OnlyDispatchStatus DEF SameColumns
    <3>5. JobSound(j) /\ outbox[j].present
        BY <2>1, <2>2, RepairsByJob DEF OwnsOutbox
    <3>6. JobSound(j)'
        BY <3>4, <3>5 DEF JobSound
    <3> QED
        BY <2>1, <3>4, <3>6, OneJobMoves
  <2>3. CASE ~OwnsOutbox(d, j)
      BY <1>3, <2>1, <2>3, RowsUntouched DEF MarkOutboxDispatched
  <2> QED
      BY <2>2, <2>3
<1> QED
    BY <1>1, <1>2, <1>3, RowsUntouched DEF Dispatch, Publish, CrashDispatcher

LEMMA OperateRepairs ==
  ASSUME Typed, Repairs, CandidatesInspected', NEW j \in Jobs, Operate(j)
  PROVE  Repairs'
<1>1. /\ \A k \in Jobs \ {j} : job'[k] = job[k] /\ outbox'[k] = outbox[k]
      /\ JobSound(j)
    BY RepairsByJob
    DEF Operate, Enqueue, CancelWaiting, RequestCancellation,
        RetryBackgroundJob, Typed, TypeOK
<1>2. CASE Enqueue(j)
  <2>1. CASE job[j].state = "ABSENT"
    <3>1. job'[j] = NewJob /\ outbox'[j] = PendingOutbox
        BY <1>1, <1>2, <2>1 DEF Enqueue, JobSound, Typed, TypeOK
    <3>2. JobSound(j)'
        BY <3>1, PendingSound DEF NewJob
    <3> QED
        BY <1>1, <3>2, OneJobMoves
  <2>2. CASE job[j].state # "ABSENT"
    <3>1. job'[j] = job[j] /\ outbox'[j] = PendingOutbox /\ ~outbox[j].present
        BY <1>2, <2>2 DEF Enqueue, Typed, TypeOK
    <3>2. JobSound(j)'
        BY <1>1, <2>2, <3>1 DEF JobSound, PendingOutbox
    <3> QED
        BY <1>1, <3>2, OneJobMoves
  <2> QED
      BY <2>1, <2>2
<1>3. CASE CancelWaiting(j)
  <2>1. /\ job[j].state # "ABSENT"
        /\ job'[j].state = "CANCELLED"
        /\ job'[j].cancellationRequested
        /\ job'[j].dispatchStatus = "CANCELLED"
        /\ outbox'[j] = CancelledOutbox(outbox[j])
      BY <1>3 DEF CancelWaiting, Typed, TypeOK, JobRows
  <2>2. JobSound(j)'
      BY <1>1, <2>1, CancelledSound
  <2> QED
      BY <1>1, <2>2, OneJobMoves
<1>4. CASE RequestCancellation(j)
  <2>1. /\ job[j].state = "PROCESSING"
        /\ job'[j].state = "PROCESSING"
        /\ job'[j].cancellationRequested
        /\ job'[j].dispatchStatus = "CANCELLED"
        /\ outbox'[j] = CancelledOutbox(outbox[j])
      BY <1>4 DEF RequestCancellation, Typed, TypeOK, JobRows
  <2>2. JobSound(j)'
      BY <1>1, <2>1, CancelledSound
  <2> QED
      BY <1>1, <2>2, OneJobMoves
<1>5. CASE RetryBackgroundJob(j)
  <2>1. /\ job'[j].state = "QUEUED"
        /\ ~job'[j].cancellationRequested
        /\ job'[j].dispatchStatus = "PENDING"
        /\ outbox'[j] = PendingOutbox
      BY <1>5 DEF RetryBackgroundJob, Typed, TypeOK, JobRows
  <2>2. JobSound(j)'
      BY <2>1, PendingSound
  <2> QED
      BY <1>1, <2>2, OneJobMoves
<1> QED
    BY <1>2, <1>3, <1>4, <1>5 DEF Operate

\* A requested cancellation takes effect.
LEMMA SettleCancellationRepairs ==
  ASSUME Typed, Repairs, CandidatesInspected', NEW j \in Jobs, NEW code,
         job[j].state = "PROCESSING", job[j].cancellationRequested,
         SettleCancellation(j, code)
  PROVE  Repairs'
<1>1. /\ \A k \in Jobs \ {j} : job'[k] = job[k] /\ outbox'[k] = outbox[k]
      /\ job'[j].state = "CANCELLED"
      /\ job'[j].cancellationRequested
      /\ job'[j].dispatchStatus = "CANCELLED"
      /\ outbox'[j] = CancelledOutbox(outbox[j])
    BY DEF SettleCancellation, Typed, TypeOK, JobRows
<1>2. JobSound(j)'
    BY <1>1, RepairsByJob, CancelledSound
<1> QED
    BY <1>1, <1>2, OneJobMoves

\* Steps of the state machine that leave the outbox alone.
LEMMA StateMovesRepairs ==
  ASSUME Typed, Repairs, CandidatesInspected', UNCHANGED outbox, NEW j \in Jobs,
         \A k \in Jobs \ {j} : job'[k] = job[k],
         job'[j].state = "ABSENT" <=> job[j].state = "ABSENT",
         job[j].state = "SUCCEEDED" => job'[j].state = "SUCCEEDED",
         job[j].cancellationRequested => job'[j].state \in {"PROCESSING", "CANCELLED"},
         job'[j].cancellationRequested = job[j].cancellationRequested,
         job'[j].dispatchStatus = job[j].dispatchStatus
  PROVE  Repairs'
<1>1. JobSound(j)'
    BY RepairsByJob, StateMovesSound
<1> QED
    BY <1>1, OneJobMoves

LEMMA RunHandlerRepairs ==
  ASSUME Typed, Core, Repairs, CandidatesInspected', NEW w \in Workers, RunHandler(w)
  PROVE  Repairs'
<1> DEFINE Moves(j) ==
      /\ \A k \in Jobs \ {j} : job'[k] = job[k]
      /\ job'[j].state = "ABSENT" <=> job[j].state = "ABSENT"
      /\ job[j].state = "SUCCEEDED" => job'[j].state = "SUCCEEDED"
      /\ job[j].cancellationRequested => job'[j].state \in {"PROCESSING", "CANCELLED"}
      /\ job'[j].cancellationRequested = job[j].cancellationRequested
      /\ job'[j].dispatchStatus = job[j].dispatchStatus
<1>1. ASSUME NEW j \in Jobs, j = worker[w].job, UNCHANGED outbox, Moves(j)
      PROVE  Repairs'
    BY <1>1, StateMovesRepairs
<1>2. \A j \in Jobs : job[j].cancellationRequested
                        => job[j].state \in {"PROCESSING", "CANCELLED"}
    BY DEF Repairs, CancellationIsFinal
<1>3. CASE worker[w].job \in Jobs
  <2>1. PICK j \in Jobs : j = worker[w].job
      BY <1>3
  <2>2. CASE MakeRetryDue(w)
    <3>1. CASE job' = job
        BY <2>2, <3>1, RowsUntouched DEF MakeRetryDue
    <3>2. CASE /\ job[j].state = "RETRY_SCHEDULED"
               /\ job' = [job EXCEPT ![j] =
                            [@ EXCEPT !.state = "QUEUED", !.stage = "queued",
                                      !.retryDue = FALSE]]
      <4>1. Moves(j)
          BY <1>2, <3>2 DEF Typed, TypeOK, JobRows
      <4> QED
          BY <1>1, <2>1, <2>2, <4>1 DEF MakeRetryDue
    <3> QED
        BY <2>1, <2>2, <3>1, <3>2, MakeRetryDueRow
  <2>3. CASE ClaimBackgroundJob(w)
    <3>1. Moves(j)
        BY <1>2, <2>1, <2>3 DEF ClaimBackgroundJob, Claimable, Typed, TypeOK, JobRows
    <3> QED
        BY <1>1, <2>1, <2>3, <3>1 DEF ClaimBackgroundJob
  <2>4. CASE GuardCancels(w)
      BY <2>1, <2>4, SettleCancellationRepairs DEF GuardCancels, HoldsLease
  <2>5. CASE HeartbeatBackgroundJob(w)
    <3>1. Moves(j)
        BY <1>2, <2>1, <2>5 DEF HeartbeatBackgroundJob, Typed, TypeOK, JobRows
    <3> QED
        BY <1>1, <2>1, <2>5, <3>1 DEF HeartbeatBackgroundJob
  <2>6. ASSUME NEW s \in handlerStages, RecordBackgroundJobStage(w, s)
        PROVE  Repairs'
    <3>1. Moves(j)
        BY <1>2, <2>1, <2>6 DEF RecordBackgroundJobStage, Typed, TypeOK, JobRows
    <3> QED
        BY <1>1, <2>1, <2>6, <3>1 DEF RecordBackgroundJobStage
  <2>7. CASE CommitJobSuccess(w)
    <3>1. Moves(j)
        BY <1>2, <2>1, <2>7
        DEF CommitJobSuccess, Settleable, HoldsLease, Typed, TypeOK, JobRows
    <3> QED
        BY <1>1, <2>1, <2>7, <3>1 DEF CommitJobSuccess
  <2>8. ASSUME NEW next \in {"RETRY_SCHEDULED", "FAILED_ATTENTION"},
               CommitJobFailure(w, next)
        PROVE  Repairs'
    <3>1. Moves(j)
        BY <1>2, <2>1, <2>8
        DEF CommitJobFailure, Settleable, HoldsLease, Typed, TypeOK, JobRows
    <3> QED
        BY <1>1, <2>1, <2>8, <3>1 DEF CommitJobFailure
  <2> QED
      BY <2>2, <2>3, <2>4, <2>5, <2>6, <2>7, <2>8, RowsUntouched
      DEF RunHandler, ReceiveDelivery, LoadOwnedJob, CheckResult, IgnoreDelivery,
          Reload, ClaimRefused, CallGuard, GuardPasses, LeaseLost, HandlerReturns,
          HandlerThrows, SettlementRefused, AbandonLease, DeliveryFails, CrashWorker
<1>4. CASE worker[w].job \notin Jobs
  <2>1. worker[w].pc = "idle"
      BY <1>4 DEF Typed, ActorsHaveJobs
  <2> QED
      BY <2>1, RowsUntouched
      DEF RunHandler, ReceiveDelivery, LoadOwnedJob, CheckResult, IgnoreDelivery,
          MakeRetryDue, Reload, ClaimBackgroundJob, ClaimRefused, CallGuard,
          GuardPasses, GuardCancels, LeaseLost, HeartbeatBackgroundJob,
          RecordBackgroundJobStage, HandlerReturns, HandlerThrows, CommitJobSuccess,
          CommitJobFailure, SettlementRefused, AbandonLease, DeliveryFails,
          CrashWorker, executingPcs
<1> QED
    BY <1>3, <1>4

\* The repairs of one job that a tick makes in one transaction.
LEMMA RepairRepairs ==
  ASSUME Typed, Repairs, CandidatesInspected', NEW j \in Jobs, Repair(j)
  PROVE  Repairs'
<1>1. JobSound(j)
    BY RepairsByJob
<1>2. CASE RecoverExpiredLease(j)
  <2>1. /\ \A k \in Jobs \ {j} : job'[k] = job[k] /\ outbox'[k] = outbox[k]
        /\ job[j].state = "PROCESSING"
        /\ ~job[j].cancellationRequested
        /\ job'[j].cancellationRequested = job[j].cancellationRequested
      BY <1>2 DEF RecoverExpiredLease, Recoverable, Typed, TypeOK, JobRows
  <2>2. CASE Exhausted(j)
    <3>1. /\ job'[j].state = "FAILED_ATTENTION"
          /\ job'[j].dispatchStatus = job[j].dispatchStatus
          /\ outbox' = outbox
        BY <1>2, <2>2 DEF RecoverExpiredLease, Typed, TypeOK, JobRows
    <3> QED
        BY <2>1, <3>1, StateMovesRepairs
  <2>3. CASE ~Exhausted(j)
    <3>1. /\ job'[j].state = "QUEUED"
          /\ job'[j].dispatchStatus = "PENDING"
        BY <1>2, <2>3 DEF RecoverExpiredLease, Typed, TypeOK, JobRows
    <3>2. CASE outbox[j].present /\ ~outbox[j].cancelled
      <4>1. outbox'[j] = PendingOutbox
          BY <1>2, <2>3, <3>2 DEF RecoverExpiredLease, Typed, TypeOK
      <4>2. JobSound(j)'
          BY <2>1, <3>1, <4>1, PendingSound
      <4> QED
          BY <2>1, <4>2, OneJobMoves
    <3>3. CASE ~outbox[j].present \/ outbox[j].cancelled
      <4>1. j \in LegacyJobs
          BY <1>1, <2>1, <3>3 DEF JobSound, RepairedJob
      <4>2. JobSound(j)'
          BY <2>1, <3>1, <4>1 DEF JobSound
      <4> QED
          BY <2>1, <4>2, OneJobMoves
    <3> QED
        BY <3>2, <3>3
  <2> QED
      BY <2>2, <2>3
<1>3. CASE RecoverCancelledLease(j)
    BY <1>3, SettleCancellationRepairs DEF RecoverCancelledLease, CancelledRecoverable
<1>4. CASE RequeueDueRetry(j)
  <2>1. /\ \A k \in Jobs \ {j} : job'[k] = job[k] /\ outbox'[k] = outbox[k]
        /\ job[j].state = "RETRY_SCHEDULED"
        /\ job'[j].state = "QUEUED"
        /\ job'[j].cancellationRequested = job[j].cancellationRequested
        /\ job'[j].dispatchStatus = "PENDING"
        /\ outbox'[j] = PendingOutbox
      BY <1>4 DEF RequeueDueRetry, Typed, TypeOK, JobRows
  <2>2. JobSound(j)'
      BY <1>1, <2>1, PendingSound, RowsTyped DEF JobSound, JobRows
  <2> QED
      BY <2>1, <2>2, OneJobMoves
<1>5. CASE RepairMissingOutbox(j)
  <2>1. /\ \A k \in Jobs \ {j} : job'[k] = job[k] /\ outbox'[k] = outbox[k]
        /\ job'[j] = job[j]
        /\ outbox'[j] = PendingOutbox
        /\ ~outbox[j].present
        /\ job[j].state = "QUEUED"
      BY <1>5 DEF RepairMissingOutbox, Typed, TypeOK
  <2>2. JobSound(j)'
      BY <1>1, <2>1 DEF JobSound
  <2> QED
      BY <2>1, <2>2, OneJobMoves
<1> QED
    BY <1>2, <1>3, <1>4, <1>5 DEF Repair

\* The repairs of what an earlier scan read.
LEMMA ReconcileRepairs ==
  ASSUME Typed, Repairs, CandidatesInspected', NEW r \in Reconcilers, Reconcile(r)
  PROVE  Repairs'
<1>1. CASE UNCHANGED <<job, outbox>>
    BY <1>1, RowsUntouched
<1>2. CASE RequeueStrandedDelivery(r)
  <2>1. PICK j \in Jobs : j = reconciler[r].job
      BY <1>2 DEF RequeueStrandedDelivery, Typed, ActorsHaveJobs
  <2>2. CASE Undelivered(j)
    <3>1. /\ job' = [job EXCEPT ![j].dispatchStatus = "PENDING"]
          /\ outbox' = [outbox EXCEPT ![j] = PendingOutbox]
        BY <1>2, <2>1, <2>2 DEF RequeueStrandedDelivery
    <3>2. /\ \A k \in Jobs \ {j} : job'[k] = job[k] /\ outbox'[k] = outbox[k]
          /\ job[j].state = "QUEUED"
          /\ job'[j].state = "QUEUED"
          /\ job'[j].cancellationRequested = job[j].cancellationRequested
          /\ job'[j].dispatchStatus = "PENDING"
          /\ outbox'[j] = PendingOutbox
        BY <2>2, <3>1 DEF Undelivered, Typed, TypeOK, JobRows
    <3>3. JobSound(j)'
        BY <3>2, PendingSound, RowsTyped, RepairsByJob DEF JobSound, JobRows
    <3> QED
        BY <3>2, <3>3, OneJobMoves
  <2>3. CASE ~Undelivered(j)
      BY <1>2, <2>1, <2>3, <1>1 DEF RequeueStrandedDelivery
  <2> QED
      BY <2>2, <2>3
<1>3. CASE FlagAmbiguousJob(r)
  <2>1. PICK j \in Jobs : j = reconciler[r].job
      BY <1>3 DEF FlagAmbiguousJob, Typed, ActorsHaveJobs
  <2>2. /\ \A k \in Jobs \ {j} : job'[k] = job[k]
        /\ job'[j].state = job[j].state
        /\ job'[j].cancellationRequested = job[j].cancellationRequested
        /\ job'[j].dispatchStatus = job[j].dispatchStatus
        /\ UNCHANGED outbox
      BY <1>3, <2>1 DEF FlagAmbiguousJob, Typed, TypeOK, JobRows
  <2> QED
      BY <2>2, StateMovesRepairs DEF Repairs, CancellationIsFinal
<1>4. CASE RepairCommittedResult(r)
  <2>1. PICK j \in Jobs : j = reconciler[r].job
      BY <1>4 DEF RepairCommittedResult, Typed, ActorsHaveJobs
  <2>2. CASE Repairable(j)
    <3>1. /\ job' = [job EXCEPT ![j] =
                      [@ EXCEPT !.state = "SUCCEEDED", !.stage = "completed",
                                !.leaseId = 0, !.leaseExpired = FALSE,
                                !.retryDue = FALSE,
                                !.reconciliationCode = "NONE"]]
          /\ outbox' = [outbox EXCEPT ![j] = CancelledOutbox(@)]
        BY <1>4, <2>1, <2>2 DEF RepairCommittedResult
    <3>2. /\ \A k \in Jobs \ {j} : job'[k] = job[k] /\ outbox'[k] = outbox[k]
          /\ job'[j].state = "SUCCEEDED"
          /\ job'[j].cancellationRequested = job[j].cancellationRequested
          /\ job'[j].dispatchStatus = job[j].dispatchStatus
          /\ outbox'[j] = CancelledOutbox(outbox[j])
        BY <3>1 DEF Typed, TypeOK, JobRows
    <3>3. outbox'[j].present = outbox[j].present
        BY <3>2, RowsTyped DEF CancelledOutbox, OutboxRows
    <3>4. j \in InspectedJobs /\ job[j].state # "ABSENT" /\ ~job[j].cancellationRequested
        BY <1>4, <2>1, <2>2 DEF RepairCommittedResult, Repairable, Repairs,
           CandidatesInspected
    <3>5. JobSound(j)
        BY RepairsByJob
    <3>6. JobSound(j)'
        BY <3>2, <3>3, <3>4, <3>5 DEF JobSound, RepairedJob
    <3> QED
        BY <3>2, <3>6, OneJobMoves
  <2>3. CASE ~Repairable(j)
      BY <1>4, <2>1, <2>3, <1>1 DEF RepairCommittedResult
  <2> QED
      BY <2>2, <2>3
<1> QED
    BY <1>1, <1>2, <1>3, <1>4
    DEF Reconcile, ScanStrandedDelivery, ScanResultCandidate, InspectResult

LEMMA ClockRepairs ==
  ASSUME Typed, Repairs, CandidatesInspected', NEW j \in Jobs, Clock(j)
  PROVE  Repairs'
<1>1. CASE LeaseExpires(j) \/ RetryBecomesDue(j)
  <2>1. /\ \A k \in Jobs \ {j} : job'[k] = job[k]
        /\ job'[j].state = job[j].state
        /\ job'[j].cancellationRequested = job[j].cancellationRequested
        /\ job'[j].dispatchStatus = job[j].dispatchStatus
        /\ UNCHANGED outbox
      BY <1>1 DEF LeaseExpires, RetryBecomesDue, Typed, TypeOK, JobRows
  <2> QED
      BY <2>1, StateMovesRepairs DEF Repairs, CancellationIsFinal
<1>2. CASE \/ OutboxBecomesDue(j) \/ DispatchLeaseExpires(j)
           \/ DispatchOverrunsLease(j) \/ DispatchAges(j)
  <2>1. /\ \A k \in Jobs \ {j} : outbox'[k] = outbox[k]
        /\ outbox'[j].present = outbox[j].present
        /\ outbox'[j].cancelled = outbox[j].cancelled
        /\ outbox'[j].dispatched = outbox[j].dispatched
        /\ UNCHANGED job
      BY <1>2 DEF OutboxBecomesDue, DispatchLeaseExpires, DispatchOverrunsLease,
         DispatchAges, Typed, TypeOK, OutboxRows
  <2> QED
      BY <2>1, OutboxTimesSound
<1>3. CASE DeliveryExpires(j) \/ DeliveryPurged(j) \/ SideResult(j)
    BY <1>3, RowsUntouched DEF DeliveryExpires, DeliveryPurged, SideResult
<1> QED
    BY <1>1, <1>2, <1>3 DEF Clock

LEMMA NextRepairs == Typed /\ Core /\ Repairs /\ [Next]_vars => Repairs'
<1> SUFFICES ASSUME Typed, Core, Repairs, [Next]_vars PROVE Repairs'
    OBVIOUS
<1>1. CandidatesInspected'
    BY CandidatesKept DEF Repairs
<1>2. CASE UNCHANGED vars
    BY <1>1, <1>2, RowsUntouched DEF vars
<1> QED
    BY <1>1, <1>2, DispatchRepairs, RunHandlerRepairs, ReconcileRepairs,
       RepairRepairs, OperateRepairs, ClockRepairs
    DEF Next

LEMMA RepairsInvariant == Spec => []Repairs
<1>1. Init => Repairs
    BY InitRepairs
<1>2. (Typed /\ Core) /\ Repairs /\ [Next]_vars => Repairs'
    BY NextRepairs
<1> QED
    BY <1>1, <1>2, CoreInvariant, PTL DEF Spec

\* No repair, publication or command that acts on what it read earlier undoes
\* an accepted cancellation, or leaves a job's dispatch status and its outbox
\* row telling different stories.
THEOREM RepairsNeverConflict == Spec => []RepairsAreSound
<1>1. Repairs => RepairsAreSound
    BY DEF Repairs, RepairsAreSound
<1> QED
    BY <1>1, RepairsInvariant, PTL

-----------------------------------------------------------------------------
(* Leases, and the contract.  Both rest on what the comment at ImplementsContract *)
(* says: no result inspector settles a job past its handler.  An inspector *)
(* can do so only for a job whose result somebody else can make.  The      *)
(* worker registers no inspector at all: apps/worker/src/index.ts gives    *)
(* createOutboxReconciler none, and its default finds every job            *)
(* UNSUPPORTED.                                                            *)

NoForeignInspection == InspectedJobs \cap SideResultJobs = {}

\* A repair then finds every job it could settle settled already.
LEMMA RepairSettlesNothing ==
  ASSUME Typed, Results, CandidatesInspected, NoForeignInspection,
         NEW r \in Reconcilers, RepairCommittedResult(r)
  PROVE  UNCHANGED <<job, attempt, outbox>>
<1> DEFINE j == reconciler[r].job
<1>1. j \in Jobs /\ result[j] # 0 /\ j \notin SideResultJobs
    BY DEF Typed, ActorsHaveJobs, RepairCommittedResult, Results, SeenResultsExist,
           CandidatesInspected, NoForeignInspection
<1>2. result[j] \in AttemptNumbers
    BY <1>1 DEF Results, ForeignResultsDeclared, Typed, TypeOK, AttemptNumbers
<1>3. job[j].state = "SUCCEEDED"
    BY <1>1, <1>2 DEF Results, ResultMatchesAttempt
<1> QED
    BY <1>3 DEF RepairCommittedResult, Repairable

LEMMA RunHandlerKeepsLeases ==
  ASSUME Typed, Core, NEW w \in Workers, RunHandler(w), NEW j \in Jobs
  PROVE  HealthyLeaseKept(j)
<1>1. CASE UNCHANGED job
    BY <1>1 DEF HealthyLeaseKept
<1>2. CASE MakeRetryDue(w)
  <2>1. worker[w].job \in Jobs
      BY <1>2 DEF MakeRetryDue, Typed, ActorsHaveJobs
  <2>2. CASE job' = [job EXCEPT ![worker[w].job] =
                       [@ EXCEPT !.state = "QUEUED", !.stage = "queued",
                                 !.retryDue = FALSE]]
    <3>1. job'[j].leaseId = job[j].leaseId
        BY <2>1, <2>2 DEF Typed, TypeOK, JobRows
    <3> QED
        BY <3>1 DEF HealthyLeaseKept
  <2> QED
      BY <1>1, <1>2, <2>2, MakeRetryDueRow
<1>3. CASE HeartbeatBackgroundJob(w)
  <2>1. job'[j].leaseId = job[j].leaseId
      BY <1>3 DEF HeartbeatBackgroundJob, Typed, TypeOK, JobRows
  <2> QED
      BY <2>1 DEF HealthyLeaseKept
<1>4. ASSUME NEW s \in handlerStages, RecordBackgroundJobStage(w, s)
      PROVE  HealthyLeaseKept(j)
  <2>1. job'[j].leaseId = job[j].leaseId
      BY <1>4 DEF RecordBackgroundJobStage, Typed, TypeOK, JobRows
  <2> QED
      BY <2>1 DEF HealthyLeaseKept
<1>5. CASE ClaimBackgroundJob(w)
  <2>1. \A k \in Jobs \ {worker[w].job} : job'[k] = job[k]
      BY <1>5 DEF ClaimBackgroundJob, Typed, TypeOK
  <2>2. j = worker[w].job => job[j].leaseId = 0
      BY <1>5 DEF ClaimBackgroundJob, Claimable, Core, OneActiveAttempt
  <2> QED
      BY <2>1, <2>2 DEF HealthyLeaseKept
\* The other writers are the worker that holds the lease.
<1>6. ASSUME HoldsLease(w), worker[w].pc # "idle", EndDelivery(w),
             \A k \in Jobs \ {worker[w].job} : job'[k] = job[k]
      PROVE  HealthyLeaseKept(j)
  <2>1. worker'[w] # worker[w]
      BY <1>6 DEF EndDelivery, IdleWorker, Typed, TypeOK, WorkerStates
  <2> QED
      BY <1>6, <2>1 DEF HealthyLeaseKept, HoldsLease
<1>7. CASE GuardCancels(w)
    BY <1>6, <1>7 DEF GuardCancels, SettleCancellation, Typed, TypeOK
<1>8. CASE CommitJobSuccess(w)
    BY <1>6, <1>8 DEF CommitJobSuccess, Settleable, Typed, TypeOK
<1>9. ASSUME NEW next \in {"RETRY_SCHEDULED", "FAILED_ATTENTION"},
             CommitJobFailure(w, next)
      PROVE  HealthyLeaseKept(j)
    BY <1>6, <1>9 DEF CommitJobFailure, Settleable, Typed, TypeOK
<1> QED
    BY <1>1, <1>2, <1>3, <1>4, <1>5, <1>7, <1>8, <1>9
    DEF RunHandler, ReceiveDelivery, LoadOwnedJob, CheckResult, IgnoreDelivery,
        Reload, ClaimRefused, CallGuard, GuardPasses, LeaseLost, HandlerReturns,
        HandlerThrows, SettlementRefused, AbandonLease, DeliveryFails, CrashWorker

\* Whoever is not a worker ends a lease only after it expired.
LEMMA OthersKeepLeases ==
  ASSUME Typed, Core, NEW k \in Jobs, Repair(k) \/ Operate(k) \/ Clock(k),
         NEW j \in Jobs
  PROVE  HealthyLeaseKept(j)
<1>1. ASSUME j # k \/ job'[j].leaseId = job[j].leaseId \/ job[j].leaseId = 0
                   \/ job[j].leaseExpired,
             \A i \in Jobs \ {k} : job'[i] = job[i]
      PROVE  HealthyLeaseKept(j)
    BY <1>1 DEF HealthyLeaseKept
<1>2. CASE UNCHANGED job
    BY <1>2 DEF HealthyLeaseKept
<1>3. CASE Enqueue(k)
  <2>1. CASE job[k].state = "ABSENT"
      BY <1>1, <1>3, <2>1 DEF Enqueue, Typed, TypeOK, Core, OneActiveAttempt
  <2>2. CASE job[k].state # "ABSENT"
      BY <1>2, <1>3, <2>2 DEF Enqueue, Typed, TypeOK
  <2> QED
      BY <2>1, <2>2
<1>4. CASE RecoverExpiredLease(k)
    BY <1>1, <1>4 DEF RecoverExpiredLease, Recoverable, Typed, TypeOK
<1>5. CASE RecoverCancelledLease(k)
    BY <1>1, <1>5 DEF RecoverCancelledLease, CancelledRecoverable,
       SettleCancellation, Typed, TypeOK
<1>6. CASE RequeueDueRetry(k)
    BY <1>1, <1>6 DEF RequeueDueRetry, Typed, TypeOK, JobRows
<1>7. CASE CancelWaiting(k)
    BY <1>1, <1>7 DEF CancelWaiting, Typed, TypeOK, JobRows
<1>8. CASE RequestCancellation(k)
    BY <1>1, <1>8 DEF RequestCancellation, Typed, TypeOK, JobRows
<1>9. CASE RetryBackgroundJob(k)
    BY <1>1, <1>9 DEF RetryBackgroundJob, Typed, TypeOK, JobRows
<1>10. CASE LeaseExpires(k) \/ RetryBecomesDue(k)
    BY <1>1, <1>10 DEF LeaseExpires, RetryBecomesDue, Typed, TypeOK, JobRows
<1> QED
    BY <1>2, <1>3, <1>4, <1>5, <1>6, <1>7, <1>8, <1>9, <1>10
    DEF Repair, Operate, Clock, RepairMissingOutbox, OutboxBecomesDue,
        DispatchLeaseExpires, DispatchOverrunsLease, DispatchAges,
        DeliveryExpires, DeliveryPurged, SideResult

LEMMA NextKeepsHealthyLeases ==
  ASSUME NoForeignInspection
  PROVE  Typed /\ Core /\ Results /\ Repairs /\ [Next]_vars
           => \A j \in Jobs : HealthyLeaseKept(j)
<1> SUFFICES ASSUME Typed, Core, Results, Repairs, [Next]_vars, NEW j \in Jobs
             PROVE  HealthyLeaseKept(j)
    OBVIOUS
<1>1. CASE UNCHANGED job
    BY <1>1 DEF HealthyLeaseKept
<1>2. ASSUME job'[j].leaseId = job[j].leaseId PROVE HealthyLeaseKept(j)
    BY <1>2 DEF HealthyLeaseKept
<1>3. ASSUME NEW d \in Dispatchers, Dispatch(d) PROVE HealthyLeaseKept(j)
  <2>1. CASE MarkOutboxDispatched(d)
    <3>1. /\ dispatcher[d].job \in Jobs
          /\ \/ job' = job
             \/ job' = [job EXCEPT ![dispatcher[d].job].dispatchStatus = "DISPATCHED"]
        BY <2>1 DEF MarkOutboxDispatched, Typed, ActorsHaveJobs
    <3> QED
        BY <1>2, <3>1, OnlyDispatchStatus DEF SameColumns
  <2>2. CASE ~MarkOutboxDispatched(d)
      BY <1>1, <1>3, <2>2
      DEF Dispatch, LeasePendingOutbox, Publish, FailDispatch, CrashDispatcher
  <2> QED
      BY <2>1, <2>2
<1>4. ASSUME NEW r \in Reconcilers, Reconcile(r) PROVE HealthyLeaseKept(j)
  <2>1. CASE RequeueStrandedDelivery(r)
    <3>1. /\ reconciler[r].job \in Jobs
          /\ \/ job' = job
             \/ job' = [job EXCEPT ![reconciler[r].job].dispatchStatus = "PENDING"]
        BY <2>1 DEF RequeueStrandedDelivery, Typed, ActorsHaveJobs
    <3> QED
        BY <1>2, <3>1, OnlyDispatchStatus DEF SameColumns
  <2>2. CASE FlagAmbiguousJob(r)
      BY <1>2, <2>2 DEF FlagAmbiguousJob, Typed, TypeOK, JobRows
  <2>3. CASE RepairCommittedResult(r)
      BY <1>1, <2>3, RepairSettlesNothing DEF Repairs
  <2> QED
      BY <1>1, <1>4, <2>1, <2>2, <2>3
      DEF Reconcile, ScanStrandedDelivery, ScanResultCandidate, InspectResult
<1> QED
    BY <1>1, <1>3, <1>4, RunHandlerKeepsLeases, OthersKeepLeases DEF Next, vars

\* No step but one of the worker that holds it ends a lease before it expires:
\* a redelivery, a second reconciler or an administrator cannot start a second
\* attempt beside a healthy one.
THEOREM HealthyLeasesAreKept ==
  ASSUME NoForeignInspection
  PROVE  Spec => NeverStealsHealthyLease
<1>1. Typed /\ Core /\ Results /\ Repairs /\ [Next]_vars
        => [\A j \in Jobs : HealthyLeaseKept(j)]_vars
    BY NextKeepsHealthyLeases
<1> QED
    BY <1>1, CoreInvariant, ResultsInvariant, RepairsInvariant, PTL
    DEF Spec, NeverStealsHealthyLease

-----------------------------------------------------------------------------
(* The pipeline implements JobContract.  What the contract sees of a job   *)
(* is five columns; a step either leaves them all as they are or changes   *)
(* one job's as an action of the contract does.                            *)

SeenCommitted(k) == k \notin SideResultJobs /\ result[k] # 0

SameView(k) ==
  /\ job'[k].state = job[k].state
  /\ job'[k].attemptCount = job[k].attemptCount
  /\ job'[k].maxAttempts = job[k].maxAttempts
  /\ job'[k].cancellationRequested = job[k].cancellationRequested
  /\ SeenCommitted(k)' = SeenCommitted(k)

\* An absent job has the budget it will be enqueued with.
AbsentJobsHaveDefaults ==
  \A j \in Jobs : job[j].state = "ABSENT" => job[j].maxAttempts = DefaultMaxAttempts

Step == [Contract!ContractNext]_(Contract!contractVars)

LEMMA ViewKept ==
  ASSUME \A k \in Jobs : SameView(k)
  PROVE  Step
    BY DEF Step, Contract!contractVars, SameView, SeenCommitted

\* The five variables of the contract, when all jobs but j look the same.
LEMMA ViewMoves ==
  ASSUME NEW j \in Jobs, \A k \in Jobs \ {j} : SameView(k)
  PROVE  /\ [k \in Jobs |-> job'[k].state]
              = [[k \in Jobs |-> job[k].state] EXCEPT ![j] = job'[j].state]
         /\ [k \in Jobs |-> job'[k].attemptCount]
              = [[k \in Jobs |-> job[k].attemptCount] EXCEPT ![j] = job'[j].attemptCount]
         /\ [k \in Jobs |-> job'[k].maxAttempts]
              = [[k \in Jobs |-> job[k].maxAttempts] EXCEPT ![j] = job'[j].maxAttempts]
         /\ [k \in Jobs |-> job'[k].cancellationRequested]
              = [[k \in Jobs |-> job[k].cancellationRequested]
                   EXCEPT ![j] = job'[j].cancellationRequested]
         /\ [k \in Jobs |-> k \notin SideResultJobs /\ result'[k] # 0]
              = [[k \in Jobs |-> k \notin SideResultJobs /\ result[k] # 0]
                   EXCEPT ![j] = j \notin SideResultJobs /\ result'[j] # 0]
    BY DEF SameView, SeenCommitted

LEMMA ViewColumnsKept ==
  ASSUME NEW j \in Jobs, \A k \in Jobs \ {j} : SameView(k)
  PROVE  /\ job'[j].state = job[j].state =>
              [k \in Jobs |-> job'[k].state] = [k \in Jobs |-> job[k].state]
         /\ job'[j].attemptCount = job[j].attemptCount =>
              [k \in Jobs |-> job'[k].attemptCount] = [k \in Jobs |-> job[k].attemptCount]
         /\ job'[j].maxAttempts = job[j].maxAttempts =>
              [k \in Jobs |-> job'[k].maxAttempts] = [k \in Jobs |-> job[k].maxAttempts]
         /\ job'[j].cancellationRequested = job[j].cancellationRequested =>
              [k \in Jobs |-> job'[k].cancellationRequested]
                = [k \in Jobs |-> job[k].cancellationRequested]
         /\ SeenCommitted(j)' = SeenCommitted(j) =>
              [k \in Jobs |-> k \notin SideResultJobs /\ result'[k] # 0]
                = [k \in Jobs |-> k \notin SideResultJobs /\ result[k] # 0]
    BY DEF SameView, SeenCommitted

LEMMA SubmitStep ==
  ASSUME Typed, Core, Repairs, AbsentJobsHaveDefaults, NEW j \in Jobs, Enqueue(j)
  PROVE  Step
<1>1. CASE job[j].state = "ABSENT"
  <2>1. /\ job' = [job EXCEPT ![j] = NewJob]
        /\ UNCHANGED result
      BY <1>1 DEF Enqueue
  <2>2. /\ \A k \in Jobs \ {j} : SameView(k)
        /\ job'[j].state = "QUEUED"
        /\ job'[j].attemptCount = job[j].attemptCount
        /\ job'[j].maxAttempts = job[j].maxAttempts
        /\ job'[j].cancellationRequested = job[j].cancellationRequested
        /\ SeenCommitted(j)' = SeenCommitted(j)
      BY <1>1, <2>1, RowsTyped
      DEF Core, AbsentJobsAreNew, Repairs, CancellationIsFinal,
          AbsentJobsHaveDefaults, NewJob, Typed, TypeOK, JobRows, SameView,
          SeenCommitted
  <2>3. Contract!Submit(j)
      BY <1>1, <2>2, ViewMoves, ViewColumnsKept DEF Contract!Submit
  <2> QED
      BY <2>3 DEF Step, Contract!ContractNext
<1>2. CASE job[j].state # "ABSENT"
  <2>1. job' = job /\ result' = result
      BY <1>2 DEF Enqueue, Typed, TypeOK
  <2> QED
      BY <2>1, ViewKept DEF SameView, SeenCommitted
<1> QED
    BY <1>1, <1>2

\* Only the state of job j changes.
Becomes(j, s) ==
  /\ \A k \in Jobs \ {j} : SameView(k)
  /\ job'[j].state = s
  /\ job'[j].attemptCount = job[j].attemptCount
  /\ job'[j].maxAttempts = job[j].maxAttempts
  /\ job'[j].cancellationRequested = job[j].cancellationRequested
  /\ SeenCommitted(j)' = SeenCommitted(j)

LEMMA AgainStep ==
  ASSUME NEW j \in Jobs, NEW s \in {"RETRY_SCHEDULED", "QUEUED"}, Becomes(j, s),
         job[j].state = "PROCESSING", ~job[j].cancellationRequested,
         job[j].attemptCount < job[j].maxAttempts
  PROVE  Step
<1>1. Contract!Again(j)
    BY ViewMoves, ViewColumnsKept DEF Becomes, Contract!Again
<1> QED
    BY <1>1 DEF Step, Contract!ContractNext

LEMMA FailStep ==
  ASSUME NEW j \in Jobs, Becomes(j, "FAILED_ATTENTION"),
         job[j].state = "PROCESSING", ~job[j].cancellationRequested
  PROVE  Step
<1>1. Contract!Fail(j)
    BY ViewMoves, ViewColumnsKept DEF Becomes, Contract!Fail
<1> QED
    BY <1>1 DEF Step, Contract!ContractNext

LEMMA ReleaseStep ==
  ASSUME NEW j \in Jobs, Becomes(j, "QUEUED"), job[j].state = "RETRY_SCHEDULED"
  PROVE  Step
<1>1. Contract!Release(j)
    BY ViewMoves, ViewColumnsKept DEF Becomes, Contract!Release
<1> QED
    BY <1>1 DEF Step, Contract!ContractNext

LEMMA SettleCancellationStep ==
  ASSUME Typed, UNCHANGED result, NEW j \in Jobs, NEW code,
         job[j].state = "PROCESSING", job[j].cancellationRequested,
         SettleCancellation(j, code)
  PROVE  Step
<1>1. Becomes(j, "CANCELLED")
    BY DEF SettleCancellation, Becomes, SameView, SeenCommitted, Typed, TypeOK, JobRows
<1>2. job[j].cancellationRequested = TRUE
    BY RowsTyped DEF JobRows
<1>3. \A k \in Jobs \ {j} : SameView(k)
    BY <1>1 DEF Becomes
<1>4. [k \in Jobs |-> job'[k].cancellationRequested]
        = [[k \in Jobs |-> job[k].cancellationRequested] EXCEPT ![j] = TRUE]
    BY <1>1, <1>2, <1>3, ViewMoves DEF Becomes
<1>5. [k \in Jobs |-> job'[k].state] = [[k \in Jobs |-> job[k].state] EXCEPT ![j] = "CANCELLED"]
    BY <1>1, <1>3, ViewMoves DEF Becomes
<1>6. UNCHANGED <<[k \in Jobs |-> job[k].attemptCount], [k \in Jobs |-> job[k].maxAttempts],
                  [k \in Jobs |-> k \notin SideResultJobs /\ result[k] # 0]>>
    BY <1>1, ViewColumnsKept DEF Becomes
<1>7. Contract!Cancel(j)
    BY <1>2, <1>4, <1>5, <1>6 DEF Contract!Cancel
<1> QED
    BY <1>7 DEF Step, Contract!ContractNext

LEMMA BeginStep ==
  ASSUME Typed, NEW w \in Workers, ClaimBackgroundJob(w)
  PROVE  Step
<1>1. PICK j \in Jobs : j = worker[w].job
    BY DEF ClaimBackgroundJob, Typed, ActorsHaveJobs
<1>2. /\ job[j].state = "QUEUED"
      /\ job[j].attemptCount < job[j].maxAttempts
      /\ \A k \in Jobs \ {j} : SameView(k)
      /\ job'[j].state = "PROCESSING"
      /\ job'[j].attemptCount = job[j].attemptCount + 1
      /\ job'[j].maxAttempts = job[j].maxAttempts
      /\ job'[j].cancellationRequested = job[j].cancellationRequested
      /\ SeenCommitted(j)' = SeenCommitted(j)
    BY <1>1 DEF ClaimBackgroundJob, Claimable, SameView, SeenCommitted, Typed,
       TypeOK, JobRows
<1>3. Contract!Begin(j)
    BY <1>2, ViewMoves, ViewColumnsKept DEF Contract!Begin
<1> QED
    BY <1>3 DEF Step, Contract!ContractNext

\* A job that runs has no committed result yet.
LEMMA SucceedStep ==
  ASSUME Typed, Core, Results, NEW w \in Workers, CommitJobSuccess(w)
  PROVE  Step
<1>1. PICK j \in Jobs : j = worker[w].job
    BY DEF CommitJobSuccess, Typed, ActorsHaveJobs
<1>2. /\ job[j].state = "PROCESSING"
      /\ ~job[j].cancellationRequested
      /\ job[j].leaseId = worker[w].lease
    BY <1>1 DEF CommitJobSuccess, Settleable, HoldsLease
<1>3. ~SeenCommitted(j)
    BY <1>2 DEF SeenCommitted, Results, ResultMatchesAttempt,
       ForeignResultsDeclared, Typed, TypeOK, AttemptNumbers
<1>4. worker[w].lease # 0 /\ Elsewhere # 0
    BY <1>2, ActiveAttempt, DomainAssumption, BoundAssumption DEF AttemptNumbers
<1>5. /\ job' = [job EXCEPT ![j] =
                   [@ EXCEPT !.state = "SUCCEEDED", !.stage = "completed",
                             !.leaseId = 0, !.leaseExpired = FALSE]]
      /\ result' = [result EXCEPT ![j] = IF @ = Elsewhere THEN @ ELSE worker[w].lease]
    BY <1>1 DEF CommitJobSuccess
<1>6. /\ \A k \in Jobs \ {j} : SameView(k)
      /\ job'[j].state = "SUCCEEDED"
      /\ job'[j].attemptCount = job[j].attemptCount
      /\ job'[j].maxAttempts = job[j].maxAttempts
      /\ job'[j].cancellationRequested = job[j].cancellationRequested
    BY <1>5 DEF SameView, SeenCommitted, Typed, TypeOK, JobRows
<1>7. (j \notin SideResultJobs /\ result'[j] # 0) = (j \notin SideResultJobs)
    BY <1>4, <1>5 DEF Typed, TypeOK
<1>8. Contract!Succeed(j)
    BY <1>2, <1>3, <1>6, <1>7, ViewMoves, ViewColumnsKept
    DEF SeenCommitted, Contract!Succeed
<1> QED
    BY <1>8 DEF Step, Contract!ContractNext

LEMMA CommitJobFailureStep ==
  ASSUME Typed, Core, NEW w \in Workers,
         NEW next \in {"RETRY_SCHEDULED", "FAILED_ATTENTION"},
         CommitJobFailure(w, next)
  PROVE  Step
<1>1. PICK j \in Jobs : j = worker[w].job
    BY DEF CommitJobFailure, Typed, ActorsHaveJobs
<1>2. /\ HoldsLease(w)
      /\ job[j].state = "PROCESSING"
      /\ ~job[j].cancellationRequested
      /\ job[j].leaseId = worker[w].lease
    BY <1>1 DEF CommitJobFailure, Settleable, HoldsLease
<1>3. Becomes(j, next)
    BY <1>1 DEF CommitJobFailure, Becomes, SameView, SeenCommitted, Typed, TypeOK,
       JobRows
<1>4. next = "RETRY_SCHEDULED" => job[j].attemptCount < job[j].maxAttempts
  <2>1. worker[w].budget = job[j].maxAttempts
      BY <1>1, <1>2 DEF Core, LeasesRemembered, CommitJobFailure, leasedPcs
  <2>2. worker[w].lease = job[j].attemptCount
      BY <1>2, ActiveAttempt
  <2> QED
      BY <2>1, <2>2 DEF CommitJobFailure
<1> QED
    BY <1>2, <1>3, <1>4, AgainStep, FailStep

LEMMA RunHandlerStep ==
  ASSUME Typed, Core, Results, NEW w \in Workers, RunHandler(w)
  PROVE  Step
<1>1. CASE UNCHANGED <<job, result>>
    BY <1>1, ViewKept DEF SameView, SeenCommitted
<1>2. CASE MakeRetryDue(w)
  <2>1. PICK j \in Jobs : j = worker[w].job
      BY <1>2 DEF MakeRetryDue, Typed, ActorsHaveJobs
  <2>2. UNCHANGED result
      BY <1>2 DEF MakeRetryDue
  <2>3. CASE /\ job[j].state = "RETRY_SCHEDULED"
             /\ job' = [job EXCEPT ![j] =
                          [@ EXCEPT !.state = "QUEUED", !.stage = "queued",
                                    !.retryDue = FALSE]]
    <3>1. Becomes(j, "QUEUED")
        BY <2>2, <2>3 DEF Becomes, SameView, SeenCommitted, Typed, TypeOK, JobRows
    <3> QED
        BY <2>3, <3>1, ReleaseStep
  <2> QED
      BY <1>1, <1>2, <2>1, <2>2, <2>3, MakeRetryDueRow
<1>3. CASE GuardCancels(w)
  <2>1. PICK j \in Jobs : j = worker[w].job
      BY <1>3 DEF GuardCancels, Typed, ActorsHaveJobs
  <2> QED
      BY <1>3, <2>1, SettleCancellationStep DEF GuardCancels, HoldsLease
<1>4. CASE HeartbeatBackgroundJob(w)
  <2>1. \A k \in Jobs : SameView(k)
      BY <1>4 DEF HeartbeatBackgroundJob, SameView, SeenCommitted, Typed, TypeOK,
         JobRows
  <2> QED
      BY <2>1, ViewKept
<1>5. ASSUME NEW s \in handlerStages, RecordBackgroundJobStage(w, s) PROVE Step
  <2>1. \A k \in Jobs : SameView(k)
      BY <1>5 DEF RecordBackgroundJobStage, SameView, SeenCommitted, Typed, TypeOK,
         JobRows
  <2> QED
      BY <2>1, ViewKept
<1> QED
    BY <1>1, <1>2, <1>3, <1>4, <1>5, BeginStep, SucceedStep, CommitJobFailureStep
    DEF RunHandler, ReceiveDelivery, LoadOwnedJob, CheckResult, IgnoreDelivery,
        Reload, ClaimRefused, CallGuard, GuardPasses, LeaseLost, HandlerReturns,
        HandlerThrows, SettlementRefused, AbandonLease, DeliveryFails, CrashWorker

LEMMA OperateStep ==
  ASSUME Typed, Core, Repairs, AbsentJobsHaveDefaults, NEW j \in Jobs, Operate(j)
  PROVE  Step
<1>1. CASE CancelWaiting(j)
  <2>1. /\ \A k \in Jobs \ {j} : SameView(k)
        /\ job[j].state \in {"QUEUED", "RETRY_SCHEDULED"}
        /\ job'[j].state = "CANCELLED"
        /\ job'[j].attemptCount = job[j].attemptCount
        /\ job'[j].maxAttempts = job[j].maxAttempts
        /\ job'[j].cancellationRequested = TRUE
        /\ SeenCommitted(j)' = SeenCommitted(j)
      BY <1>1 DEF CancelWaiting, SameView, SeenCommitted, Typed, TypeOK, JobRows
  <2>2. Contract!Cancel(j)
      BY <2>1, ViewMoves, ViewColumnsKept DEF Contract!Cancel
  <2> QED
      BY <2>2 DEF Step, Contract!ContractNext
<1>2. CASE RequestCancellation(j)
  <2>1. /\ \A k \in Jobs \ {j} : SameView(k)
        /\ job[j].state = "PROCESSING"
        /\ job'[j].state = job[j].state
        /\ job'[j].attemptCount = job[j].attemptCount
        /\ job'[j].maxAttempts = job[j].maxAttempts
        /\ job'[j].cancellationRequested = TRUE
        /\ SeenCommitted(j)' = SeenCommitted(j)
      BY <1>2 DEF RequestCancellation, SameView, SeenCommitted, Typed, TypeOK, JobRows
  <2>2. Contract!Ask(j)
      BY <2>1, ViewMoves, ViewColumnsKept DEF Contract!Ask
  <2> QED
      BY <2>2 DEF Step, Contract!ContractNext
<1>3. CASE RetryBackgroundJob(j)
  <2>1. /\ job[j].state = "FAILED_ATTENTION"
        /\ ~SeenCommitted(j)
        /\ GrantedAttempts(job[j]) <= AttemptLimit
      BY <1>3 DEF RetryBackgroundJob, Retryable, SeenCommitted
  <2>2. job[j].cancellationRequested = FALSE
      BY <2>1, RowsTyped DEF Repairs, CancellationIsFinal, JobRows
  <2>3. /\ \A k \in Jobs \ {j} : SameView(k)
        /\ job'[j].state = "QUEUED"
        /\ job'[j].attemptCount = job[j].attemptCount
        /\ job'[j].maxAttempts = GrantedAttempts(job[j])
        /\ job'[j].cancellationRequested = FALSE
        /\ SeenCommitted(j)' = SeenCommitted(j)
      BY <1>3 DEF RetryBackgroundJob, SameView, SeenCommitted, Typed, TypeOK, JobRows
  <2>4. /\ GrantedAttempts(job[j]) \in job[j].maxAttempts..AttemptLimit
        /\ job[j].attemptCount < GrantedAttempts(job[j])
      BY <2>1, ColumnsTyped, BoundAssumption DEF GrantedAttempts, AttemptNumbers
  <2>5. Contract!Grant(j)
    <3>1. /\ [k \in Jobs |-> job'[k].maxAttempts]
               = [[k \in Jobs |-> job[k].maxAttempts]
                    EXCEPT ![j] = GrantedAttempts(job[j])]
          /\ [k \in Jobs |-> job'[k].state]
               = [[k \in Jobs |-> job[k].state] EXCEPT ![j] = "QUEUED"]
        BY <2>3, ViewMoves
    <3>2. /\ [k \in Jobs |-> job'[k].attemptCount] = [k \in Jobs |-> job[k].attemptCount]
          /\ [k \in Jobs |-> job'[k].cancellationRequested]
               = [k \in Jobs |-> job[k].cancellationRequested]
          /\ [k \in Jobs |-> k \notin SideResultJobs /\ result'[k] # 0]
               = [k \in Jobs |-> k \notin SideResultJobs /\ result[k] # 0]
        BY <2>2, <2>3, ViewColumnsKept
    <3> HIDE DEF GrantedAttempts
    <3> QED
        BY <2>1, <2>4, <3>1, <3>2 DEF Contract!Grant, SeenCommitted
  <2> QED
      BY <2>5 DEF Step, Contract!ContractNext
<1> QED
    BY <1>1, <1>2, <1>3, SubmitStep DEF Operate

LEMMA RepairStep ==
  ASSUME Typed, Core, NEW j \in Jobs, Repair(j)
  PROVE  Step
<1>1. CASE RecoverExpiredLease(j)
  <2>1. /\ job[j].state = "PROCESSING"
        /\ ~job[j].cancellationRequested
        /\ Becomes(j, IF Exhausted(j) THEN "FAILED_ATTENTION" ELSE "QUEUED")
      BY <1>1 DEF RecoverExpiredLease, Recoverable, Becomes, SameView,
         SeenCommitted, Typed, TypeOK, JobRows
  <2>2. ~Exhausted(j) => job[j].attemptCount < job[j].maxAttempts
      BY ColumnsTyped DEF Exhausted, AttemptNumbers
  <2> QED
      BY <2>1, <2>2, AgainStep, FailStep
<1>2. CASE RecoverCancelledLease(j)
    BY <1>2, SettleCancellationStep DEF RecoverCancelledLease, CancelledRecoverable
<1>3. CASE RequeueDueRetry(j)
  <2>1. job[j].state = "RETRY_SCHEDULED" /\ Becomes(j, "QUEUED")
      BY <1>3 DEF RequeueDueRetry, Becomes, SameView, SeenCommitted, Typed, TypeOK,
         JobRows
  <2> QED
      BY <2>1, ReleaseStep
<1>4. CASE RepairMissingOutbox(j)
    BY <1>4, ViewKept DEF RepairMissingOutbox, SameView, SeenCommitted
<1> QED
    BY <1>1, <1>2, <1>3, <1>4 DEF Repair

\* Dispatching, the clock and the scans are not seen; neither is a repair that
\* has nothing left to settle.
LEMMA UnseenStep ==
  ASSUME Typed, Results, CandidatesInspected, NoForeignInspection,
         \/ \E d \in Dispatchers : Dispatch(d)
         \/ \E r \in Reconcilers : Reconcile(r)
         \/ \E j \in Jobs : Clock(j)
         \/ UNCHANGED vars
  PROVE  Step
<1>1. ASSUME UNCHANGED <<job, result>> PROVE Step
    BY <1>1, ViewKept DEF SameView, SeenCommitted
<1>2. ASSUME NEW j \in Jobs, NEW s, UNCHANGED result,
             \/ job' = job
             \/ job' = [job EXCEPT ![j].dispatchStatus = s]
      PROVE  Step
    BY <1>2, OnlyDispatchStatus, ViewKept DEF SameColumns, SameView, SeenCommitted
<1>3. ASSUME NEW d \in Dispatchers, Dispatch(d) PROVE Step
  <2>1. CASE MarkOutboxDispatched(d)
      BY <1>2, <2>1 DEF MarkOutboxDispatched, Typed, ActorsHaveJobs
  <2> QED
      BY <1>1, <1>3, <2>1
      DEF Dispatch, LeasePendingOutbox, Publish, FailDispatch, CrashDispatcher
<1>4. ASSUME NEW r \in Reconcilers, Reconcile(r) PROVE Step
  <2>1. CASE RequeueStrandedDelivery(r)
      BY <1>2, <2>1 DEF RequeueStrandedDelivery, Typed, ActorsHaveJobs
  <2>2. CASE FlagAmbiguousJob(r)
    <3>1. \A k \in Jobs : SameView(k)
        BY <2>2 DEF FlagAmbiguousJob, SameView, SeenCommitted, Typed, TypeOK, JobRows
    <3> QED
        BY <3>1, ViewKept
  <2>3. CASE RepairCommittedResult(r)
      BY <1>1, <2>3, RepairSettlesNothing DEF RepairCommittedResult
  <2> QED
      BY <1>1, <1>4, <2>1, <2>2, <2>3
      DEF Reconcile, ScanStrandedDelivery, ScanResultCandidate, InspectResult
<1>5. ASSUME NEW j \in Jobs, Clock(j) PROVE Step
  <2>1. CASE LeaseExpires(j) \/ RetryBecomesDue(j)
    <3>1. \A k \in Jobs : SameView(k)
        BY <2>1 DEF LeaseExpires, RetryBecomesDue, SameView, SeenCommitted, Typed,
           TypeOK, JobRows
    <3> QED
        BY <3>1, ViewKept
  <2>2. CASE SideResult(j)
    <3>1. \A k \in Jobs : SameView(k)
        BY <2>2 DEF SideResult, SameView, SeenCommitted, Typed, TypeOK
    <3> QED
        BY <3>1, ViewKept
  <2> QED
      BY <1>1, <1>5, <2>1, <2>2
      DEF Clock, OutboxBecomesDue, DispatchLeaseExpires, DispatchOverrunsLease,
          DispatchAges, DeliveryExpires, DeliveryPurged
<1> QED
    BY <1>1, <1>3, <1>4, <1>5 DEF vars

LEMMA NextStep ==
  ASSUME NoForeignInspection
  PROVE  Typed /\ Core /\ Results /\ Repairs /\ AbsentJobsHaveDefaults /\ [Next]_vars
           => Step
<1> SUFFICES ASSUME Typed, Core, Results, Repairs, AbsentJobsHaveDefaults, [Next]_vars
             PROVE  Step
    OBVIOUS
<1>1. CandidatesInspected
    BY DEF Repairs
<1> QED
    BY <1>1, RunHandlerStep, OperateStep, RepairStep, UnseenStep DEF Next

\* What the contract allows keeps an absent job's budget: only a grant moves it.
LEMMA DefaultsKept ==
  ASSUME AbsentJobsHaveDefaults, Step
  PROVE  AbsentJobsHaveDefaults'
<1> DEFINE st(k) == [i \in Jobs |-> job[i].state][k]
           gr(k) == [i \in Jobs |-> job[i].maxAttempts][k]
<1> SUFFICES ASSUME NEW j \in Jobs, job'[j].state = "ABSENT"
             PROVE  job'[j].maxAttempts = DefaultMaxAttempts
    BY DEF AbsentJobsHaveDefaults
<1>1. /\ st(j) = job[j].state /\ st(j)' = job'[j].state
      /\ gr(j) = job[j].maxAttempts /\ gr(j)' = job'[j].maxAttempts
    OBVIOUS
<1>2. CASE UNCHANGED Contract!contractVars
  <2>1. st(j)' = st(j) /\ gr(j)' = gr(j)
      BY <1>2 DEF Contract!contractVars
  <2> QED
      BY <1>1, <2>1 DEF AbsentJobsHaveDefaults
<1>3. ASSUME NEW i \in Jobs,
             \/ Contract!Submit(i) \/ Contract!Begin(i) \/ Contract!Succeed(i)
             \/ Contract!Again(i) \/ Contract!Release(i) \/ Contract!Fail(i)
             \/ Contract!Cancel(i)
      PROVE  job'[j].maxAttempts = DefaultMaxAttempts
  <2>1. gr(j)' = gr(j)
      BY <1>3 DEF Contract!Submit, Contract!Begin, Contract!Succeed, Contract!Again,
         Contract!Release, Contract!Fail, Contract!Cancel
  <2>2. st(j)' \in {st(j), "QUEUED", "PROCESSING", "SUCCEEDED", "RETRY_SCHEDULED",
                    "FAILED_ATTENTION", "CANCELLED"}
      BY <1>3 DEF Contract!Submit, Contract!Begin, Contract!Succeed, Contract!Again,
         Contract!Release, Contract!Fail, Contract!Cancel
  <2> QED
      BY <1>1, <2>1, <2>2 DEF AbsentJobsHaveDefaults
<1>4. ASSUME NEW i \in Jobs, Contract!Ask(i)
      PROVE  job'[j].maxAttempts = DefaultMaxAttempts
  <2>1. st(j)' = st(j) /\ gr(j)' = gr(j)
      BY <1>4 DEF Contract!Ask
  <2> QED
      BY <1>1, <2>1 DEF AbsentJobsHaveDefaults
<1>5. ASSUME NEW i \in Jobs, Contract!Grant(i)
      PROVE  job'[j].maxAttempts = DefaultMaxAttempts
  <2>1. st(j)' \in {st(j), "QUEUED"} /\ (j # i => gr(j)' = gr(j))
        /\ (j = i => st(j)' = "QUEUED")
      BY <1>5 DEF Contract!Grant
  <2> QED
      BY <1>1, <2>1 DEF AbsentJobsHaveDefaults
<1> QED
    BY <1>2, <1>3, <1>4, <1>5 DEF Step, Contract!ContractNext

LEMMA InitStep == Init => Contract!ContractInit /\ AbsentJobsHaveDefaults
<1> SUFFICES ASSUME Init PROVE Contract!ContractInit /\ AbsentJobsHaveDefaults
    OBVIOUS
<1>1. Contract!ContractInit
    BY DEF Init, NewJob, Contract!ContractInit
<1>2. AbsentJobsHaveDefaults
    BY DEF Init, NewJob, AbsentJobsHaveDefaults
<1> QED
    BY <1>1, <1>2

\* Every behaviour of the pipeline is one of the contract: a job is submitted
\* once, attempted only within its budget, succeeds at most once and with one
\* result, and stays cancelled, for any number of actors and faults.
THEOREM PipelineImplementsContract ==
  ASSUME NoForeignInspection
  PROVE  Spec => ImplementsContract
<1>1. Init => Contract!ContractInit /\ AbsentJobsHaveDefaults
    BY InitStep
<1>2. Typed /\ Core /\ Results /\ Repairs /\ AbsentJobsHaveDefaults /\ [Next]_vars
        => [Contract!ContractNext]_(Contract!contractVars) /\ AbsentJobsHaveDefaults'
    BY NextStep, DefaultsKept DEF Step
<1> QED
    BY <1>1, <1>2, CoreInvariant, ResultsInvariant, RepairsInvariant, PTL
    DEF Spec, ImplementsContract, Contract!Spec

-----------------------------------------------------------------------------
(* What the domain handlers see.  A step of the contract moves the state,  *)
(* the attempt and the request of a row as HandlerJobs lets it, provided   *)
(* that an attempt is left in the budget granted to the job exactly if one *)
(* is left in the budget it was enqueued with: a grant beyond that is for  *)
(* one attempt, which is the last.                                         *)

GrantIsForOneAttempt(j) ==
  job[j].maxAttempts # DefaultMaxAttempts =>
    /\ job[j].maxAttempts > DefaultMaxAttempts
    /\ job[j].attemptCount >= job[j].maxAttempts - 1
    /\ job[j].state \in {"PROCESSING", "FAILED_ATTENTION"}
         => job[j].attemptCount = job[j].maxAttempts

GrantsAreForOneAttempt == \A j \in Jobs : GrantIsForOneAttempt(j)

EverExpired(j) == \E n \in AttemptNumbers : attempt[j][n] = "LEASE_EXPIRED"

\* What of a job neither an operator's grant nor the recovery of an expired
\* lease changes.
HistoryKept(k) ==
  /\ EverExpired(k)' = EverExpired(k)
  /\ job'[k].maxAttempts = job[k].maxAttempts

\* An attempt that was not LEASE_EXPIRED and does not become so.
LEMMA AttemptWritesKeepExpiry ==
  ASSUME Typed, NEW j \in Jobs, NEW n \in AttemptNumbers, NEW outcome,
         attempt[j][n] # "LEASE_EXPIRED", outcome # "LEASE_EXPIRED",
         attempt' = [attempt EXCEPT ![j][n] = outcome], NEW k \in Jobs
  PROVE  EverExpired(k)' = EverExpired(k)
<1>1. /\ \A m \in AttemptNumbers : (k # j \/ m # n) => attempt'[k][m] = attempt[k][m]
      /\ attempt'[j][n] = outcome
    BY DEF Typed, TypeOK
<1>2. EverExpired(k)' <=> EverExpired(k)
    BY <1>1 DEF EverExpired
<1> QED
    BY <1>2 DEF EverExpired

LEMMA LeaseWritesKeepExpiry ==
  ASSUME Typed, Core, NEW j \in Jobs, job[j].state = "PROCESSING", NEW outcome,
         outcome # "LEASE_EXPIRED",
         attempt' = [attempt EXCEPT ![j][job[j].leaseId] = outcome], NEW k \in Jobs
  PROVE  EverExpired(k)' = EverExpired(k)
<1>1. job[j].leaseId \in AttemptNumbers /\ attempt[j][job[j].leaseId] = "ACTIVE"
    BY ActiveAttempt
<1> QED
    BY <1>1, AttemptWritesKeepExpiry

LEMMA HandlersKeepHistory ==
  ASSUME Typed, Core, NEW w \in Workers, RunHandler(w), NEW k \in Jobs
  PROVE  HistoryKept(k)
<1> DEFINE j == worker[w].job
<1>1. CASE UNCHANGED <<job, attempt>>
    BY <1>1 DEF HistoryKept, EverExpired
<1>2. ASSUME UNCHANGED attempt PROVE EverExpired(k)' = EverExpired(k)
    BY <1>2 DEF EverExpired
<1>3. CASE MakeRetryDue(w) \/ HeartbeatBackgroundJob(w)
           \/ \E s \in handlerStages : RecordBackgroundJobStage(w, s)
  <2>1. UNCHANGED attempt
      BY <1>3 DEF MakeRetryDue, HeartbeatBackgroundJob, RecordBackgroundJobStage
  <2>2. CASE MakeRetryDue(w)
    <3>1. job'[k].maxAttempts = job[k].maxAttempts
        BY <2>2 DEF MakeRetryDue, Typed, TypeOK, JobRows
    <3> QED
        BY <1>2, <2>1, <3>1 DEF HistoryKept
  <2>3. CASE HeartbeatBackgroundJob(w)
    <3>1. job'[k].maxAttempts = job[k].maxAttempts
        BY <2>3 DEF HeartbeatBackgroundJob, Typed, TypeOK, JobRows
    <3> QED
        BY <1>2, <2>1, <3>1 DEF HistoryKept
  <2>4. ASSUME NEW s \in handlerStages, RecordBackgroundJobStage(w, s) PROVE HistoryKept(k)
    <3>1. job'[k].maxAttempts = job[k].maxAttempts
        BY <2>4 DEF RecordBackgroundJobStage, Typed, TypeOK, JobRows
    <3> QED
        BY <1>2, <2>1, <3>1 DEF HistoryKept
  <2> QED
      BY <1>3, <2>2, <2>3, <2>4
<1>4. CASE ClaimBackgroundJob(w)
  <2>1. j \in Jobs /\ job[j].attemptCount + 1 \in AttemptNumbers
        /\ job[j].attemptCount + 1 > job[j].attemptCount
      BY <1>4, ColumnsTyped, BoundAssumption
      DEF ClaimBackgroundJob, Claimable, AttemptNumbers, Typed, ActorsHaveJobs
  <2>2. attempt[j][job[j].attemptCount + 1] = "NONE"
      BY <2>1 DEF Core, OneActiveAttempt
  <2>3. attempt' = [attempt EXCEPT ![j][job[j].attemptCount + 1] = "ACTIVE"]
      BY <1>4 DEF ClaimBackgroundJob
  <2>4. EverExpired(k)' = EverExpired(k)
      BY <2>1, <2>2, <2>3, AttemptWritesKeepExpiry
  <2>5. job'[k].maxAttempts = job[k].maxAttempts
      BY <1>4 DEF ClaimBackgroundJob, Typed, TypeOK, JobRows
  <2> QED
      BY <2>4, <2>5 DEF HistoryKept
<1>5. CASE \/ GuardCancels(w) \/ CommitJobSuccess(w)
           \/ \E next \in {"RETRY_SCHEDULED", "FAILED_ATTENTION"} : CommitJobFailure(w, next)
  <2>1. j \in Jobs /\ job[j].state = "PROCESSING" /\ job[j].leaseId = worker[w].lease
      BY <1>5
      DEF GuardCancels, CommitJobSuccess, CommitJobFailure, Settleable, HoldsLease, Typed,
          ActorsHaveJobs
  <2>2. PICK outcome \in {"CANCELLED", "SUCCEEDED", "RETRY_SCHEDULED", "FAILED_ATTENTION"} :
          attempt' = [attempt EXCEPT ![j][job[j].leaseId] = outcome]
      BY <1>5, <2>1 DEF GuardCancels, SettleCancellation, CommitJobSuccess, CommitJobFailure
  <2>3. EverExpired(k)' = EverExpired(k)
      BY <2>1, <2>2, LeaseWritesKeepExpiry
  <2>4. CASE GuardCancels(w)
    <3>1. job'[k].maxAttempts = job[k].maxAttempts
        BY <2>4 DEF GuardCancels, SettleCancellation, Typed, TypeOK, JobRows
    <3> QED
        BY <2>3, <3>1 DEF HistoryKept
  <2>5. CASE CommitJobSuccess(w)
    <3>1. job'[k].maxAttempts = job[k].maxAttempts
        BY <2>5 DEF CommitJobSuccess, Typed, TypeOK, JobRows
    <3> QED
        BY <2>3, <3>1 DEF HistoryKept
  <2>6. ASSUME NEW next \in {"RETRY_SCHEDULED", "FAILED_ATTENTION"}, CommitJobFailure(w, next)
        PROVE  HistoryKept(k)
    <3>1. job'[k].maxAttempts = job[k].maxAttempts
        BY <2>6 DEF CommitJobFailure, Typed, TypeOK, JobRows
    <3> QED
        BY <2>3, <3>1 DEF HistoryKept
  <2> QED
      BY <1>5, <2>4, <2>5, <2>6
<1> QED
    BY <1>1, <1>3, <1>4, <1>5
    DEF RunHandler, ReceiveDelivery, LoadOwnedJob, CheckResult, IgnoreDelivery,
        Reload, ClaimRefused, CallGuard, GuardPasses, LeaseLost, HandlerReturns,
        HandlerThrows, SettlementRefused, AbandonLease, DeliveryFails, CrashWorker

\* A step of anybody else, a recovery and a grant apart.
LEMMA OthersKeepHistory ==
  ASSUME Typed, Core, Results, CandidatesInspected, NoForeignInspection,
         AbsentJobsHaveDefaults,
         \/ \E d \in Dispatchers : Dispatch(d)
         \/ \E r \in Reconcilers : Reconcile(r)
         \/ \E j \in Jobs : \/ Enqueue(j) \/ CancelWaiting(j) \/ RequestCancellation(j)
                           \/ RecoverCancelledLease(j) \/ RequeueDueRetry(j)
                           \/ RepairMissingOutbox(j) \/ Clock(j)
         \/ UNCHANGED vars,
         NEW k \in Jobs
  PROVE  HistoryKept(k)
<1>1. ASSUME UNCHANGED <<job, attempt>> PROVE HistoryKept(k)
    BY <1>1 DEF HistoryKept, EverExpired
<1>2. ASSUME UNCHANGED attempt, job'[k].maxAttempts = job[k].maxAttempts PROVE HistoryKept(k)
    BY <1>2 DEF HistoryKept, EverExpired
<1>3. ASSUME NEW d \in Dispatchers, Dispatch(d) PROVE HistoryKept(k)
  <2>1. CASE MarkOutboxDispatched(d)
    <3>1. UNCHANGED attempt
        BY <2>1 DEF MarkOutboxDispatched
    <3>2. job'[k].maxAttempts = job[k].maxAttempts
        BY <2>1, OnlyDispatchStatus
        DEF MarkOutboxDispatched, SameColumns, Typed, ActorsHaveJobs
    <3> QED
        BY <1>2, <3>1, <3>2
  <2> QED
      BY <1>1, <1>3, <2>1
      DEF Dispatch, LeasePendingOutbox, Publish, FailDispatch, CrashDispatcher
<1>4. ASSUME NEW r \in Reconcilers, Reconcile(r) PROVE HistoryKept(k)
  <2>1. CASE RepairCommittedResult(r)
      BY <1>1, <2>1, RepairSettlesNothing
  <2>2. CASE RequeueStrandedDelivery(r)
    <3>1. UNCHANGED attempt
        BY <2>2 DEF RequeueStrandedDelivery
    <3>2. job'[k].maxAttempts = job[k].maxAttempts
        BY <2>2, OnlyDispatchStatus
        DEF RequeueStrandedDelivery, SameColumns, Typed, ActorsHaveJobs
    <3> QED
        BY <1>2, <3>1, <3>2
  <2>3. CASE FlagAmbiguousJob(r)
    <3>1. UNCHANGED attempt
        BY <2>3 DEF FlagAmbiguousJob
    <3>2. job'[k].maxAttempts = job[k].maxAttempts
        BY <2>3 DEF FlagAmbiguousJob, Typed, TypeOK, JobRows
    <3> QED
        BY <1>2, <3>1, <3>2
  <2> QED
      BY <1>1, <1>4, <2>1, <2>2, <2>3
      DEF Reconcile, ScanStrandedDelivery, ScanResultCandidate, InspectResult
<1>5. ASSUME NEW j \in Jobs, Enqueue(j) PROVE HistoryKept(k)
  <2>1. UNCHANGED attempt /\ job'[k].maxAttempts = job[k].maxAttempts
      BY <1>5 DEF Enqueue, NewJob, AbsentJobsHaveDefaults, Typed, TypeOK, JobRows
  <2> QED
      BY <1>2, <2>1
<1>6. ASSUME NEW j \in Jobs, RecoverCancelledLease(j) PROVE HistoryKept(k)
  <2>1. EverExpired(k)' = EverExpired(k)
      BY <1>6, LeaseWritesKeepExpiry
      DEF RecoverCancelledLease, CancelledRecoverable, SettleCancellation
  <2>2. job'[k].maxAttempts = job[k].maxAttempts
    <3>1. PICK code : SettleCancellation(j, code)
        BY <1>6 DEF RecoverCancelledLease
    <3>2. DOMAIN job = Jobs /\ DOMAIN job[j] = DOMAIN NewJob
        BY DEF Typed, TypeOK, JobRows, NewJob
    <3>3. k # j => job'[k] = job[k]
        BY <3>1, <3>2 DEF SettleCancellation
    <3>4. job'[j].maxAttempts = job[j].maxAttempts
        BY <3>1, <3>2 DEF SettleCancellation, NewJob
    <3> QED
        BY <3>3, <3>4
  <2> QED
      BY <2>1, <2>2 DEF HistoryKept
<1>7. ASSUME NEW j \in Jobs,
             \/ CancelWaiting(j) \/ RequestCancellation(j) \/ RequeueDueRetry(j)
             \/ LeaseExpires(j) \/ RetryBecomesDue(j)
      PROVE  HistoryKept(k)
  <2>1. UNCHANGED attempt
      BY <1>7
      DEF CancelWaiting, RequestCancellation, RequeueDueRetry, LeaseExpires, RetryBecomesDue
  <2>2. CASE CancelWaiting(j)
    <3>1. job'[k].maxAttempts = job[k].maxAttempts
        BY <2>2 DEF CancelWaiting, Typed, TypeOK, JobRows
    <3> QED
        BY <1>2, <2>1, <3>1
  <2>3. CASE RequestCancellation(j)
    <3>1. job'[k].maxAttempts = job[k].maxAttempts
        BY <2>3 DEF RequestCancellation, Typed, TypeOK, JobRows
    <3> QED
        BY <1>2, <2>1, <3>1
  <2>4. CASE RequeueDueRetry(j)
    <3>1. job'[k].maxAttempts = job[k].maxAttempts
        BY <2>4 DEF RequeueDueRetry, Typed, TypeOK, JobRows
    <3> QED
        BY <1>2, <2>1, <3>1
  <2>5. CASE LeaseExpires(j)
    <3>1. job'[k].maxAttempts = job[k].maxAttempts
        BY <2>5 DEF LeaseExpires, Typed, TypeOK, JobRows
    <3> QED
        BY <1>2, <2>1, <3>1
  <2>6. CASE RetryBecomesDue(j)
    <3>1. job'[k].maxAttempts = job[k].maxAttempts
        BY <2>6 DEF RetryBecomesDue, Typed, TypeOK, JobRows
    <3> QED
        BY <1>2, <2>1, <3>1
  <2> QED
      BY <1>7, <2>2, <2>3, <2>4, <2>5, <2>6
<1>8. ASSUME NEW j \in Jobs, RepairMissingOutbox(j) \/ Clock(j) PROVE HistoryKept(k)
    BY <1>1, <1>7, <1>8
    DEF RepairMissingOutbox, Clock, OutboxBecomesDue, DispatchLeaseExpires,
        DispatchOverrunsLease, DispatchAges, DeliveryExpires, DeliveryPurged, SideResult
<1> QED
    BY <1>1, <1>3, <1>4, <1>5, <1>6, <1>7, <1>8 DEF vars

\* A row of HandlerJobs, by what the pipeline knows.
SeenState(s) == IF s = "RETRY_SCHEDULED" THEN "QUEUED" ELSE s

SeenRow(s, count, asked, lost) ==
  [state |-> s, attempt |-> count, cancel |-> asked, expired |-> lost]

LEMMA RowOfRequestedJob ==
  ASSUME NEW s, NEW n, NEW c, NEW e
  PROVE  Handlers!RequestCancel(SeenRow(s, n, c, e)) = SeenRow(s, n, TRUE, e)
<1>1. PICK b : b = TRUE
    OBVIOUS
<1>2. \A row : Handlers!RequestCancel(row) = [row EXCEPT !.cancel = b]
    BY <1>1 DEF Handlers!RequestCancel
<1>3. SeenRow(s, n, TRUE, e) = SeenRow(s, n, b, e)
    BY <1>1
<1>4. \A x : [SeenRow(s, n, c, e) EXCEPT !.cancel = x] = SeenRow(s, n, x, e)
    BY DEF SeenRow
<1> QED
    BY <1>2, <1>3, <1>4

LEMMA RowOfCancelledJob ==
  ASSUME NEW s, NEW n, NEW c, NEW e
  PROVE  Handlers!CancelJob(SeenRow(s, n, c, e))
           = Handlers!RequestCancel(SeenRow("CANCELLED", n, c, e))
<1>1. [SeenRow(s, n, c, e) EXCEPT !.state = "CANCELLED"] = SeenRow("CANCELLED", n, c, e)
    BY DEF SeenRow
<1>2. \A row : Handlers!CancelJob(row)
                 = Handlers!RequestCancel([row EXCEPT !.state = "CANCELLED"])
    BY DEF Handlers!CancelJob, Handlers!RequestCancel
<1> QED
    BY <1>1, <1>2

LEMMA RowOfClaimedJob ==
  ASSUME NEW s, NEW n \in Nat, NEW c, NEW e
  PROVE  Handlers!Claim(SeenRow(s, n, c, e)) = SeenRow("PROCESSING", n + 1, c, e)
<1>1. [SeenRow(s, n, c, e) EXCEPT !.state = "PROCESSING"] = SeenRow("PROCESSING", n, c, e)
    BY DEF SeenRow
<1>2. [SeenRow("PROCESSING", n, c, e) EXCEPT !.attempt = @ + 1]
        = SeenRow("PROCESSING", n + 1, c, e)
    BY DEF SeenRow
<1>3. \A row : [row EXCEPT !.state = "PROCESSING", !.attempt = @ + 1]
                 = [[row EXCEPT !.state = "PROCESSING"] EXCEPT !.attempt = @ + 1]
    OBVIOUS
<1> QED
    BY <1>1, <1>2, <1>3 DEF Handlers!Claim

LEMMA RowsMove ==
  ASSUME NEW n \in Nat, NEW c \in BOOLEAN, NEW e \in BOOLEAN
  PROVE  /\ Handlers!JobMove(SeenRow("ABSENT", n, c, e), SeenRow("QUEUED", n, c, e))
         /\ Handlers!JobMove(SeenRow("QUEUED", n, c, e), SeenRow("PROCESSING", n + 1, c, e))
         /\ ~c => Handlers!JobMove(SeenRow("PROCESSING", n, c, e), SeenRow("SUCCEEDED", n, c, e))
         /\ ~c => Handlers!JobMove(SeenRow("PROCESSING", n, c, e),
                                   SeenRow("FAILED_ATTENTION", n, c, e))
         /\ ~c /\ n < DefaultMaxAttempts
              => Handlers!JobMove(SeenRow("PROCESSING", n, c, e), SeenRow("QUEUED", n, c, e))
         /\ Handlers!JobMove(SeenRow("PROCESSING", n, c, e), SeenRow("PROCESSING", n, TRUE, e))
         /\ Handlers!JobMove(SeenRow("QUEUED", n, c, e), SeenRow("CANCELLED", n, TRUE, e))
         /\ c => Handlers!JobMove(SeenRow("PROCESSING", n, c, e), SeenRow("CANCELLED", n, TRUE, e))
         /\ Handlers!JobMove(SeenRow("FAILED_ATTENTION", n, c, e), SeenRow("QUEUED", n, c, e))
<1>1. Handlers!JobMove(SeenRow("ABSENT", n, c, e), SeenRow("QUEUED", n, c, e))
    BY DEF SeenRow, Handlers!JobMove, Handlers!Enqueue
<1>2. Handlers!JobMove(SeenRow("QUEUED", n, c, e), SeenRow("PROCESSING", n + 1, c, e))
  <2>1. Handlers!Claimable(SeenRow("QUEUED", n, c, e))
      BY DEF SeenRow, Handlers!Claimable
  <2>2. Handlers!Claim(SeenRow("QUEUED", n, c, e)) = SeenRow("PROCESSING", n + 1, c, e)
      BY RowOfClaimedJob
  <2> QED
      BY <2>1, <2>2, Zenon DEF Handlers!JobMove
<1>3. ASSUME ~c
      PROVE  /\ Handlers!JobMove(SeenRow("PROCESSING", n, c, e), SeenRow("SUCCEEDED", n, c, e))
             /\ Handlers!JobMove(SeenRow("PROCESSING", n, c, e),
                                 SeenRow("FAILED_ATTENTION", n, c, e))
             /\ n < DefaultMaxAttempts
                  => Handlers!JobMove(SeenRow("PROCESSING", n, c, e), SeenRow("QUEUED", n, c, e))
    BY <1>3
    DEF SeenRow, Handlers!JobMove, Handlers!MayContinue, Handlers!HoldsLease,
        Handlers!Complete, Handlers!GiveUp, Handlers!RetryLater
<1>4. Handlers!JobMove(SeenRow("PROCESSING", n, c, e), SeenRow("PROCESSING", n, TRUE, e))
  <2>1. SeenRow("PROCESSING", n, c, e).state = "PROCESSING"
      BY DEF SeenRow
  <2>2. Handlers!RequestCancel(SeenRow("PROCESSING", n, c, e)) = SeenRow("PROCESSING", n, TRUE, e)
      BY RowOfRequestedJob, Zenon
  <2> QED
      BY <2>1, <2>2 DEF Handlers!JobMove
<1>5. /\ Handlers!JobMove(SeenRow("QUEUED", n, c, e), SeenRow("CANCELLED", n, TRUE, e))
      /\ c => Handlers!JobMove(SeenRow("PROCESSING", n, c, e), SeenRow("CANCELLED", n, TRUE, e))
  <2>1. /\ SeenRow("QUEUED", n, c, e).state = "QUEUED"
        /\ SeenRow("PROCESSING", n, c, e).state = "PROCESSING"
        /\ SeenRow("PROCESSING", n, c, e).cancel = c
      BY DEF SeenRow
  <2>2. \A s : Handlers!CancelJob(SeenRow(s, n, c, e))
                 = Handlers!RequestCancel(SeenRow("CANCELLED", n, c, e))
      BY RowOfCancelledJob
  <2>3. Handlers!RequestCancel(SeenRow("CANCELLED", n, c, e)) = SeenRow("CANCELLED", n, TRUE, e)
      BY RowOfRequestedJob, Zenon
  <2> QED
      BY <2>1, <2>2, <2>3 DEF Handlers!JobMove
<1>6. Handlers!JobMove(SeenRow("FAILED_ATTENTION", n, c, e), SeenRow("QUEUED", n, c, e))
    BY DEF SeenRow, Handlers!JobMove, Handlers!RetryByOperator
<1> QED
    BY <1>1, <1>2, <1>3, <1>4, <1>5, <1>6

\* An expired lease: TRUE for the attempt that was LEASE_EXPIRED.
LEMMA RecoveryMovesRow ==
  ASSUME NEW n \in Nat, NEW e \in BOOLEAN
  PROVE  Handlers!JobMove(SeenRow("PROCESSING", n, FALSE, e),
           SeenRow(IF n < DefaultMaxAttempts THEN "QUEUED" ELSE "FAILED_ATTENTION",
                   n, FALSE, TRUE))
<1> DEFINE row == SeenRow("PROCESSING", n, FALSE, e)
<1>1. row.state = "PROCESSING" /\ row.cancel = FALSE /\ row.attempt = n
    BY DEF SeenRow
<1>2. Handlers!RecoverLease(row)
        = [row EXCEPT !.expired = TRUE,
                      !.state = IF n < DefaultMaxAttempts THEN "QUEUED" ELSE "FAILED_ATTENTION"]
  <2>1. (row.expired \/ ~row.cancel) = TRUE
      BY <1>1
  <2> HIDE DEF row
  <2> QED
      BY <1>1, <2>1 DEF Handlers!RecoverLease
<1>3. Handlers!RecoverLease(row)
        = SeenRow(IF n < DefaultMaxAttempts THEN "QUEUED" ELSE "FAILED_ATTENTION", n, FALSE, TRUE)
    BY <1>2 DEF SeenRow
<1> HIDE DEF row
<1>4. QED
    BY <1>1, <1>3 DEF Handlers!JobMove, row

LEMMA RowsAreSeen ==
  ASSUME NEW j \in Jobs
  PROVE  /\ HandlerRow(j) = SeenRow(SeenState(job[j].state), job[j].attemptCount,
                                    job[j].cancellationRequested, EverExpired(j))
         /\ HandlerRow(j)' = SeenRow(SeenState(job'[j].state), job'[j].attemptCount,
                                     job'[j].cancellationRequested, EverExpired(j)')
    BY DEF HandlerRow, SeenRow, SeenState, EverExpired

\* Within a grant that is for one attempt, one is left exactly if one is left of
\* the default.
LEMMA BudgetsAgree ==
  ASSUME Typed, GrantsAreForOneAttempt, NEW j \in Jobs, job[j].state = "PROCESSING"
  PROVE  job[j].attemptCount < job[j].maxAttempts <=> job[j].attemptCount < DefaultMaxAttempts
    BY ColumnsTyped, BoundAssumption DEF GrantsAreForOneAttempt, GrantIsForOneAttempt, AttemptNumbers

LEMMA ContractMovesRows ==
  ASSUME Typed, GrantsAreForOneAttempt, Step, NEW j \in Jobs, EverExpired(j)' = EverExpired(j)
  PROVE  HandlerRowMoves(j)
<1> DEFINE st(k) == [i \in Jobs |-> job[i].state][k]
           us(k) == [i \in Jobs |-> job[i].attemptCount][k]
           gr(k) == [i \in Jobs |-> job[i].maxAttempts][k]
           as(k) == [i \in Jobs |-> job[i].cancellationRequested][k]
<1>1. /\ st(j) = job[j].state /\ st(j)' = job'[j].state
      /\ us(j) = job[j].attemptCount /\ us(j)' = job'[j].attemptCount
      /\ gr(j) = job[j].maxAttempts
      /\ as(j) = job[j].cancellationRequested /\ as(j)' = job'[j].cancellationRequested
    OBVIOUS
<1>2. /\ us(j) \in Nat /\ as(j) \in BOOLEAN /\ EverExpired(j) \in BOOLEAN
      /\ HandlerRow(j) = SeenRow(SeenState(st(j)), us(j), as(j), EverExpired(j))
      /\ HandlerRow(j)' = SeenRow(SeenState(st(j)'), us(j)', as(j)', EverExpired(j))
  <2>1. us(j) \in Nat /\ as(j) \in BOOLEAN
      BY ColumnsTyped, BoundAssumption, RowsTyped DEF JobRows
  <2>2. EverExpired(j) \in BOOLEAN
      BY DEF EverExpired
  <2> QED
      BY <1>1, <2>1, <2>2, RowsAreSeen
<1>3. ASSUME st(j)' = st(j), us(j)' = us(j), as(j)' = as(j) PROVE HandlerRowMoves(j)
    BY <1>2, <1>3 DEF HandlerRowMoves
<1>4. CASE UNCHANGED Contract!contractVars
    BY <1>3, <1>4 DEF Contract!contractVars
<1>5. ASSUME NEW i \in Jobs, i # j,
             \/ Contract!Submit(i) \/ Contract!Begin(i) \/ Contract!Succeed(i)
             \/ Contract!Again(i) \/ Contract!Release(i) \/ Contract!Fail(i)
             \/ Contract!Ask(i) \/ Contract!Cancel(i) \/ Contract!Grant(i)
      PROVE  HandlerRowMoves(j)
  <2>1. st(j)' = st(j) /\ us(j)' = us(j) /\ as(j)' = as(j)
      BY <1>5
      DEF Contract!Submit, Contract!Begin, Contract!Succeed, Contract!Again,
          Contract!Release, Contract!Fail, Contract!Ask, Contract!Cancel, Contract!Grant
  <2> QED
      BY <1>3, <2>1
<1>6. CASE Contract!Submit(j)
  <2>1. st(j) = "ABSENT" /\ st(j)' = "QUEUED" /\ us(j)' = us(j) /\ as(j)' = as(j)
      BY <1>6 DEF Contract!Submit
  <2>2. /\ HandlerRow(j) = SeenRow("ABSENT", us(j), as(j), EverExpired(j))
        /\ HandlerRow(j)' = SeenRow("QUEUED", us(j), as(j), EverExpired(j))
      BY <1>2, <2>1 DEF SeenState
  <2> QED
      BY <1>2, <2>2, RowsMove DEF HandlerRowMoves
<1>7. CASE Contract!Begin(j)
  <2>1. st(j) = "QUEUED" /\ st(j)' = "PROCESSING" /\ us(j)' = us(j) + 1 /\ as(j)' = as(j)
      BY <1>7 DEF Contract!Begin
  <2>2. /\ HandlerRow(j) = SeenRow("QUEUED", us(j), as(j), EverExpired(j))
        /\ HandlerRow(j)' = SeenRow("PROCESSING", us(j) + 1, as(j), EverExpired(j))
      BY <1>2, <2>1 DEF SeenState
  <2> QED
      BY <1>2, <2>2, RowsMove DEF HandlerRowMoves
<1>8. CASE Contract!Succeed(j) \/ Contract!Fail(j)
  <2>1. /\ st(j) = "PROCESSING" /\ ~as(j) /\ us(j)' = us(j) /\ as(j)' = as(j)
        /\ st(j)' \in {"SUCCEEDED", "FAILED_ATTENTION"}
      BY <1>8 DEF Contract!Succeed, Contract!Fail
  <2>2. /\ HandlerRow(j) = SeenRow("PROCESSING", us(j), as(j), EverExpired(j))
        /\ HandlerRow(j)' \in {SeenRow("SUCCEEDED", us(j), as(j), EverExpired(j)),
                               SeenRow("FAILED_ATTENTION", us(j), as(j), EverExpired(j))}
      BY <1>2, <2>1 DEF SeenState
  <2> QED
      BY <1>2, <2>1, <2>2, RowsMove DEF HandlerRowMoves
<1>9. CASE Contract!Again(j)
  <2>1. /\ st(j) = "PROCESSING" /\ ~as(j) /\ us(j) < gr(j)
        /\ us(j)' = us(j) /\ as(j)' = as(j) /\ st(j)' \in {"RETRY_SCHEDULED", "QUEUED"}
      BY <1>9 DEF Contract!Again
  <2>2. us(j) < DefaultMaxAttempts
      BY <1>1, <2>1, BudgetsAgree
  <2>3. HandlerRow(j) = SeenRow("PROCESSING", us(j), as(j), EverExpired(j))
      BY <1>2, <2>1 DEF SeenState
  <2>4. HandlerRow(j)' = SeenRow("QUEUED", us(j), as(j), EverExpired(j))
      BY <1>2, <2>1 DEF SeenState
  <2> QED
      BY <1>2, <2>1, <2>2, <2>3, <2>4, RowsMove DEF HandlerRowMoves
<1>10. CASE Contract!Release(j)
  <2>1. st(j) = "RETRY_SCHEDULED" /\ st(j)' = "QUEUED" /\ us(j)' = us(j) /\ as(j)' = as(j)
      BY <1>10 DEF Contract!Release
  <2>2. HandlerRow(j)' = HandlerRow(j)
      BY <1>2, <2>1 DEF SeenState
  <2> QED
      BY <2>2 DEF HandlerRowMoves
<1>11. CASE Contract!Ask(j)
  <2>1. st(j) = "PROCESSING" /\ st(j)' = st(j) /\ us(j)' = us(j) /\ as(j)' = TRUE
      BY <1>11 DEF Contract!Ask
  <2>2. /\ HandlerRow(j) = SeenRow("PROCESSING", us(j), as(j), EverExpired(j))
        /\ HandlerRow(j)' = SeenRow("PROCESSING", us(j), TRUE, EverExpired(j))
      BY <1>2, <2>1 DEF SeenState
  <2> QED
      BY <1>2, <2>2, RowsMove DEF HandlerRowMoves
<1>12. CASE Contract!Cancel(j)
  <2>1. /\ st(j) \in {"QUEUED", "RETRY_SCHEDULED"} \/ (st(j) = "PROCESSING" /\ as(j))
        /\ st(j)' = "CANCELLED" /\ us(j)' = us(j) /\ as(j)' = TRUE
      BY <1>12 DEF Contract!Cancel
  <2>2. HandlerRow(j)' = SeenRow("CANCELLED", us(j), TRUE, EverExpired(j))
      BY <1>2, <2>1 DEF SeenState
  <2>3. CASE st(j) \in {"QUEUED", "RETRY_SCHEDULED"}
    <3>1. HandlerRow(j) = SeenRow("QUEUED", us(j), as(j), EverExpired(j))
        BY <1>2, <2>3 DEF SeenState
    <3> QED
        BY <1>2, <2>2, <3>1, RowsMove DEF HandlerRowMoves
  <2>4. CASE st(j) = "PROCESSING" /\ as(j)
    <3>1. HandlerRow(j) = SeenRow("PROCESSING", us(j), as(j), EverExpired(j))
        BY <1>2, <2>4 DEF SeenState
    <3> QED
        BY <1>2, <2>2, <2>4, <3>1, RowsMove DEF HandlerRowMoves
  <2> QED
      BY <2>1, <2>3, <2>4
<1>13. CASE Contract!Grant(j)
  <2>1. /\ st(j) = "FAILED_ATTENTION" /\ st(j)' = "QUEUED" /\ us(j)' = us(j)
        /\ as(j)' = as(j)
      BY <1>13 DEF Contract!Grant
  <2>2. /\ HandlerRow(j) = SeenRow("FAILED_ATTENTION", us(j), as(j), EverExpired(j))
        /\ HandlerRow(j)' = SeenRow("QUEUED", us(j), as(j), EverExpired(j))
      BY <1>2, <2>1 DEF SeenState
  <2> QED
      BY <1>2, <2>2, RowsMove DEF HandlerRowMoves
<1> QED
    BY <1>4, <1>5, <1>6, <1>7, <1>8, <1>9, <1>10, <1>11, <1>12, <1>13
    DEF Step, Contract!ContractNext

\* A grant to a job that failed: its budget was used up, or it was the default.
LEMMA RetryGrantsOne ==
  ASSUME Typed, Core, GrantsAreForOneAttempt, NEW j \in Jobs, RetryBackgroundJob(j)
  PROVE  GrantsAreForOneAttempt'
<1>1. /\ job[j].state = "FAILED_ATTENTION"
      /\ job'[j].state = "QUEUED"
      /\ job'[j].attemptCount = job[j].attemptCount
      /\ job'[j].maxAttempts = GrantedAttempts(job[j])
      /\ \A k \in Jobs : k # j => job'[k] = job[k]
  <2> HIDE DEF GrantedAttempts
  <2> QED
      BY DEF RetryBackgroundJob, Retryable, Typed, TypeOK, JobRows
<1>2. /\ job[j].attemptCount \in Nat /\ job[j].maxAttempts \in Nat
      /\ DefaultMaxAttempts \in Nat
      /\ job[j].attemptCount <= job[j].maxAttempts
    BY ColumnsTyped, BoundAssumption DEF Core, WaitingJobsHaveBudget, AttemptNumbers
<1>3. GrantIsForOneAttempt(j)'
  <2>1. GrantIsForOneAttempt(j)
      BY DEF GrantsAreForOneAttempt
  <2> QED
      BY <1>1, <1>2, <2>1 DEF GrantIsForOneAttempt, GrantedAttempts
<1> QED
    BY <1>1, <1>3 DEF GrantsAreForOneAttempt, GrantIsForOneAttempt

LEMMA RecoveryKeepsGrants ==
  ASSUME Typed, Core, GrantsAreForOneAttempt, NEW j \in Jobs, RecoverExpiredLease(j)
  PROVE  GrantsAreForOneAttempt'
<1>1. /\ job[j].state = "PROCESSING"
      /\ \A k \in Jobs : /\ k # j => job'[k] = job[k]
                        /\ job'[k].maxAttempts = job[k].maxAttempts
                        /\ job'[k].attemptCount = job[k].attemptCount
    BY DEF RecoverExpiredLease, Recoverable, Typed, TypeOK, JobRows
<1>2. ASSUME NEW k \in Jobs PROVE GrantIsForOneAttempt(k)'
    BY <1>1 DEF GrantsAreForOneAttempt, GrantIsForOneAttempt
<1> QED
    BY <1>2 DEF GrantsAreForOneAttempt

\* Only an attempt uses the budget, and it starts from a row that waits.
LEMMA StepKeepsGrants ==
  ASSUME Typed, Core, GrantsAreForOneAttempt, Step,
         \A k \in Jobs : job'[k].maxAttempts = job[k].maxAttempts
  PROVE  GrantsAreForOneAttempt'
<1> SUFFICES ASSUME NEW j \in Jobs PROVE GrantIsForOneAttempt(j)'
    BY DEF GrantsAreForOneAttempt
<1> DEFINE st(k) == [i \in Jobs |-> job[i].state][k]
           us(k) == [i \in Jobs |-> job[i].attemptCount][k]
           gr(k) == [i \in Jobs |-> job[i].maxAttempts][k]
<1>1. /\ st(j) = job[j].state /\ st(j)' = job'[j].state
      /\ us(j) = job[j].attemptCount /\ us(j)' = job'[j].attemptCount
      /\ gr(j) = job[j].maxAttempts /\ job'[j].maxAttempts = gr(j)
    OBVIOUS
<1>2. us(j) \in Nat /\ gr(j) \in Nat /\ us(j) <= gr(j)
    BY <1>1, ColumnsTyped, BoundAssumption DEF Core, WaitingJobsHaveBudget, AttemptNumbers
<1>3. gr(j) # DefaultMaxAttempts =>
        /\ gr(j) > DefaultMaxAttempts
        /\ us(j) >= gr(j) - 1
        /\ st(j) \in {"PROCESSING", "FAILED_ATTENTION"} => us(j) = gr(j)
    BY <1>1 DEF GrantsAreForOneAttempt, GrantIsForOneAttempt
<1>4. ASSUME us(j)' = us(j),
             \/ st(j)' = st(j)
             \/ st(j) = "PROCESSING"
             \/ st(j)' \in {"QUEUED", "CANCELLED"}
      PROVE  GrantIsForOneAttempt(j)'
    BY <1>1, <1>2, <1>3, <1>4 DEF GrantIsForOneAttempt
<1>5. CASE UNCHANGED Contract!contractVars
    BY <1>4, <1>5 DEF Contract!contractVars
<1>6. ASSUME NEW i \in Jobs,
             \/ Contract!Submit(i) \/ Contract!Succeed(i) \/ Contract!Again(i)
             \/ Contract!Release(i) \/ Contract!Fail(i) \/ Contract!Cancel(i)
      PROVE  GrantIsForOneAttempt(j)'
  <2>1. /\ us(j)' = us(j)
        /\ i # j => st(j)' = st(j)
        /\ i = j => st(j) = "PROCESSING" \/ st(j)' \in {"QUEUED", "CANCELLED"}
      BY <1>6
      DEF Contract!Submit, Contract!Succeed, Contract!Again, Contract!Release,
          Contract!Fail, Contract!Cancel
  <2> QED
      BY <1>4, <2>1
<1>7. ASSUME NEW i \in Jobs, Contract!Ask(i) \/ Contract!Grant(i)
      PROVE  GrantIsForOneAttempt(j)'
  <2>1. us(j)' = us(j) /\ st(j)' \in {st(j), "QUEUED"}
      BY <1>7 DEF Contract!Ask, Contract!Grant
  <2> QED
      BY <1>4, <2>1
<1>8. ASSUME NEW i \in Jobs, Contract!Begin(i) PROVE GrantIsForOneAttempt(j)'
  <2>1. CASE i # j
    <3>1. us(j)' = us(j) /\ st(j)' = st(j)
        BY <1>8, <2>1 DEF Contract!Begin
    <3> QED
        BY <1>4, <3>1
  <2>2. CASE i = j
    <3>1. us(j) < gr(j) /\ us(j)' = us(j) + 1
        BY <1>8, <2>2 DEF Contract!Begin
    <3> QED
        BY <1>1, <1>2, <1>3, <3>1 DEF GrantIsForOneAttempt
  <2> QED
      BY <2>1, <2>2
<1> QED
    BY <1>5, <1>6, <1>7, <1>8 DEF Step, Contract!ContractNext

\* The recovery of an expired lease, which the contract sees as a failed attempt.
LEMMA RecoveryIsSeen ==
  ASSUME Typed, Core, GrantsAreForOneAttempt, NEW i \in Jobs, RecoverExpiredLease(i),
         NEW j \in Jobs
  PROVE  HandlerRowMoves(j)
<1>1. CASE j # i
  <2>1. job'[j] = job[j] /\ attempt'[j] = attempt[j]
      BY <1>1 DEF RecoverExpiredLease, Typed, TypeOK
  <2>2. HandlerRow(j)' = HandlerRow(j)
      BY <2>1 DEF HandlerRow
  <2> QED
      BY <2>2 DEF HandlerRowMoves
<1>2. CASE j = i
  <2>1. /\ job[j].state = "PROCESSING" /\ job[j].cancellationRequested = FALSE
        /\ job'[j].state = IF Exhausted(j) THEN "FAILED_ATTENTION" ELSE "QUEUED"
        /\ job'[j].attemptCount = job[j].attemptCount
        /\ job'[j].cancellationRequested = FALSE
    <3> HIDE DEF Exhausted
    <3> QED
        BY <1>2 DEF RecoverExpiredLease, Recoverable, Typed, TypeOK, JobRows
  <2>2. EverExpired(j)' = TRUE /\ EverExpired(j) \in BOOLEAN
    <3>1. job[j].leaseId \in AttemptNumbers
        BY <2>1, ActiveAttempt
    <3>2. attempt'[j][job[j].leaseId] = "LEASE_EXPIRED"
        BY <1>2, <3>1 DEF RecoverExpiredLease, Typed, TypeOK
    <3> QED
        BY <3>1, <3>2 DEF EverExpired
  <2>3. Exhausted(j) <=> ~(job[j].attemptCount < DefaultMaxAttempts)
      BY <2>1, BudgetsAgree, ColumnsTyped DEF Exhausted, AttemptNumbers
  <2>4. /\ job[j].attemptCount \in Nat
        /\ SeenState(job[j].state) = "PROCESSING"
        /\ SeenState(job'[j].state) = IF job[j].attemptCount < DefaultMaxAttempts
                                        THEN "QUEUED" ELSE "FAILED_ATTENTION"
      BY <2>1, <2>3, ColumnsTyped, BoundAssumption DEF SeenState
  <2>5. /\ HandlerRow(j) = SeenRow("PROCESSING", job[j].attemptCount, FALSE, EverExpired(j))
        /\ HandlerRow(j)'
             = SeenRow(IF job[j].attemptCount < DefaultMaxAttempts
                         THEN "QUEUED" ELSE "FAILED_ATTENTION",
                       job[j].attemptCount, FALSE, TRUE)
      BY <2>1, <2>2, <2>4, RowsAreSeen
  <2> QED
      BY <2>2, <2>4, <2>5, RecoveryMovesRow DEF HandlerRowMoves
<1> QED
    BY <1>1, <1>2

LEMMA RowsMoveByNext ==
  ASSUME NoForeignInspection,
         Typed, Core, Results, Repairs, AbsentJobsHaveDefaults, GrantsAreForOneAttempt,
         [Next]_vars
  PROVE  GrantsAreForOneAttempt' /\ \A j \in Jobs : HandlerRowMoves(j)
<1>1. Step /\ CandidatesInspected
    BY NextStep DEF Repairs
<1>2. ASSUME \A k \in Jobs : HistoryKept(k)
      PROVE  GrantsAreForOneAttempt' /\ \A j \in Jobs : HandlerRowMoves(j)
    BY <1>1, <1>2, StepKeepsGrants, ContractMovesRows DEF HistoryKept
<1>3. ASSUME NEW i \in Jobs, RecoverExpiredLease(i)
      PROVE  GrantsAreForOneAttempt' /\ \A j \in Jobs : HandlerRowMoves(j)
    BY <1>3, RecoveryKeepsGrants, RecoveryIsSeen
<1>4. ASSUME NEW i \in Jobs, RetryBackgroundJob(i)
      PROVE  GrantsAreForOneAttempt' /\ \A j \in Jobs : HandlerRowMoves(j)
  <2>1. \A j \in Jobs : EverExpired(j)' = EverExpired(j)
      BY <1>4 DEF RetryBackgroundJob, EverExpired
  <2> QED
      BY <1>1, <1>4, <2>1, RetryGrantsOne, ContractMovesRows
<1>5. ASSUME NEW w \in Workers, RunHandler(w) PROVE \A k \in Jobs : HistoryKept(k)
    BY <1>5, HandlersKeepHistory
<1>6. ASSUME \/ \E d \in Dispatchers : Dispatch(d)
             \/ \E r \in Reconcilers : Reconcile(r)
             \/ \E j \in Jobs : \/ Enqueue(j) \/ CancelWaiting(j) \/ RequestCancellation(j)
                               \/ RecoverCancelledLease(j) \/ RequeueDueRetry(j)
                               \/ RepairMissingOutbox(j) \/ Clock(j)
             \/ UNCHANGED vars
      PROVE  \A k \in Jobs : HistoryKept(k)
    BY <1>1, <1>6, OthersKeepHistory
<1> QED
    BY <1>2, <1>3, <1>4, <1>5, <1>6 DEF Next, Repair, Operate

LEMMA InitGrants == Init => GrantsAreForOneAttempt
    BY DEF Init, NewJob, GrantsAreForOneAttempt, GrantIsForOneAttempt

\* What the modules of the domain handlers assume of the pipeline, it keeps:
\* whatever leases expire, deliveries repeat and commands interleave, the row of
\* a handler's job takes only the steps of HandlerJobs, for any number of actors
\* and faults.
THEOREM HandlersSeeOnlyTheirMoves ==
  ASSUME NoForeignInspection
  PROVE  Spec => HandlersSeeTheirJobs
<1>1. Init => AbsentJobsHaveDefaults /\ GrantsAreForOneAttempt
    BY InitStep, InitGrants
<1>2. Typed /\ Core /\ Results /\ Repairs /\ AbsentJobsHaveDefaults
        /\ GrantsAreForOneAttempt /\ [Next]_vars
        => /\ AbsentJobsHaveDefaults' /\ GrantsAreForOneAttempt'
           /\ [\A j \in Jobs : HandlerRowMoves(j)]_vars
    BY NextStep, DefaultsKept, RowsMoveByNext
<1> QED
    BY <1>1, <1>2, CoreInvariant, ResultsInvariant, RepairsInvariant, PTL
    DEF Spec, HandlersSeeTheirJobs
=============================================================================
