------------------------- MODULE JobPipelineProofs -------------------------
(***************************************************************************)
(* One active attempt, and a budget for every job that waits: proved for   *)
(* any number of jobs, workers, dispatchers and reconcilers, any number of *)
(* attempts and any number of faults.                                      *)
(*                                                                         *)
(* The first part is about types.  TypeOK is inductive together with       *)
(* ActorsHaveJobs: an actor at work names a job, without which the row it  *)
(* is about to write could not be typed.  Its lemmas say that what a write *)
(* leaves of a row is a row; then there is one lemma per action, and in it *)
(* one step per variable that the action changes.                          *)
(*                                                                         *)
(* Neither of the two is inductive alone.  That commitJobFailure schedules *)
(* a retry only within the budget rests on the budget the worker read when *)
(* it claimed still being the job's, which holds as long as its lease      *)
(* does (LeasesRemembered); that a lease is never granted twice rests on   *)
(* attempt numbers only growing; and that an enqueue starts with a clean   *)
(* history rests on an absent job having none.  Core is the conjunction.   *)
(* It depends on four columns of a job only, so an action is one of: a     *)
(* step that keeps the columns, the settlement of the active attempt, a    *)
(* move of a job at rest, an enqueue, or a claim.                          *)
(***************************************************************************)
EXTENDS JobPipeline, TLAPS

\* Whoever is at work works on a job.
ActorsHaveJobs ==
  /\ \A w \in Workers : worker[w].pc # "idle" => worker[w].job \in Jobs
  /\ \A d \in Dispatchers : dispatcher[d].pc # "idle" => dispatcher[d].job \in Jobs
  /\ \A r \in Reconcilers : reconciler[r].pc # "idle" => reconciler[r].job \in Jobs

Typed == TypeOK /\ ActorsHaveJobs

-----------------------------------------------------------------------------
(* Rows.                                                                   *)

\* The rows as inserted, and the idle actors.
LEMMA NewRowsTyped ==
  /\ NewJob \in JobRows
  /\ [NewJob EXCEPT !.state = "ABSENT"] \in JobRows
  /\ PendingOutbox \in OutboxRows
  /\ NoOutbox \in OutboxRows
  /\ IdleWorker \in WorkerStates
  /\ IdleDispatcher \in DispatcherStates
  /\ IdleReconciler \in ReconcilerStates
<1>1. NewJob \in JobRows
    BY BoundAssumption
    DEF NewJob, JobRows, backgroundJobStates, stages, handlerStages,
        safeProcessingCancellationStages, reconciliationCodes, AttemptNumbers
<1>2. [NewJob EXCEPT !.state = "ABSENT"] \in JobRows
    BY <1>1 DEF JobRows
<1>3. PendingOutbox \in OutboxRows /\ NoOutbox \in OutboxRows
    BY DEF PendingOutbox, NoOutbox, OutboxRows
<1>4. IdleWorker \in WorkerStates
    BY BoundAssumption DEF IdleWorker, WorkerStates, workerPcs
<1>5. IdleDispatcher \in DispatcherStates
    BY DEF IdleDispatcher, DispatcherStates
<1>6. IdleReconciler \in ReconcilerStates
    BY DEF IdleReconciler, ReconcilerStates
<1> QED
    BY <1>1, <1>2, <1>3, <1>4, <1>5, <1>6

\* The values the writes below put into a background_job row.
LEMMA ColumnValues ==
  /\ {"QUEUED", "PROCESSING", "SUCCEEDED", "CANCELLED", "FAILED_ATTENTION",
      "RETRY_SCHEDULED"} \subseteq backgroundJobStates
  /\ {"queued", "starting", "completed", "cancelled", "failed_attention",
      "retry_scheduled"} \subseteq stages
  /\ handlerStages \subseteq stages
  /\ {"NONE", "SUCCEEDED_RESULT_MISSING", "TERMINAL_RESULT_CONFLICT"}
       \subseteq reconciliationCodes
  /\ AttemptNumbers \subseteq 0..AttemptLimit
  /\ 0 \in 0..AttemptLimit
    BY BoundAssumption
    DEF backgroundJobStates, stages, handlerStages,
        safeProcessingCancellationStages, reconciliationCodes, AttemptNumbers

\* A clock, a heartbeat, a stage, a dispatch or a flag changes one column.
LEMMA OneColumnTyped ==
  ASSUME NEW row \in JobRows
  PROVE  /\ \A b \in BOOLEAN : [row EXCEPT !.leaseExpired = b] \in JobRows
         /\ [row EXCEPT !.retryDue = TRUE] \in JobRows
         /\ \A d \in {"PENDING", "DISPATCHED"} :
              [row EXCEPT !.dispatchStatus = d] \in JobRows
         /\ \A s \in stages : [row EXCEPT !.stage = s] \in JobRows
         /\ \A c \in reconciliationCodes :
              [row EXCEPT !.reconciliationCode = c] \in JobRows
    BY DEF JobRows

\* claimBackgroundJob's update.
LEMMA ClaimedRowTyped ==
  ASSUME NEW row \in JobRows, NEW n \in AttemptNumbers
  PROVE  [row EXCEPT !.state = "PROCESSING", !.stage = "starting",
                     !.attemptCount = n, !.leaseId = n,
                     !.leaseExpired = FALSE] \in JobRows
    BY ColumnValues DEF JobRows

\* A retry that is due, released by a worker or by the reconciler.
LEMMA ReleasedRowTyped ==
  ASSUME NEW row \in JobRows
  PROVE  /\ [row EXCEPT !.state = "QUEUED", !.stage = "queued",
                        !.retryDue = FALSE] \in JobRows
         /\ [row EXCEPT !.state = "QUEUED", !.stage = "queued",
                        !.retryDue = FALSE, !.dispatchStatus = "PENDING"] \in JobRows
    BY ColumnValues DEF JobRows

\* An attempt that ends: commit, failure, recovery.
LEMMA SettledRowTyped ==
  ASSUME NEW row \in JobRows, NEW s \in backgroundJobStates, NEW g \in stages,
         NEW d \in {"PENDING", "DISPATCHED", "CANCELLED"}
  PROVE  /\ [row EXCEPT !.state = s, !.stage = g,
                        !.leaseId = 0, !.leaseExpired = FALSE] \in JobRows
         /\ [row EXCEPT !.state = s, !.stage = g, !.dispatchStatus = d,
                        !.leaseId = 0, !.leaseExpired = FALSE] \in JobRows
    BY ColumnValues DEF JobRows

\* repairCommittedResult's update.
LEMMA RepairedRowTyped ==
  ASSUME NEW row \in JobRows
  PROVE  [row EXCEPT !.state = "SUCCEEDED", !.stage = "completed",
                     !.leaseId = 0, !.leaseExpired = FALSE, !.retryDue = FALSE,
                     !.reconciliationCode = "NONE"] \in JobRows
    BY ColumnValues DEF JobRows

\* A cancellation that takes effect on a lease, or before one, or is requested.
LEMMA CancelledRowTyped ==
  ASSUME NEW row \in JobRows, NEW c \in reconciliationCodes
  PROVE  /\ [row EXCEPT !.state = "CANCELLED", !.stage = "cancelled",
                        !.leaseId = 0, !.leaseExpired = FALSE,
                        !.dispatchStatus = "CANCELLED",
                        !.reconciliationCode = c] \in JobRows
         /\ [row EXCEPT !.state = "CANCELLED", !.stage = "cancelled",
                        !.cancellationRequested = TRUE, !.retryDue = FALSE,
                        !.dispatchStatus = "CANCELLED",
                        !.reconciliationCode = "NONE"] \in JobRows
         /\ [row EXCEPT !.cancellationRequested = TRUE,
                        !.dispatchStatus = "CANCELLED"] \in JobRows
    BY ColumnValues DEF JobRows

\* retryBackgroundJob's update.
LEMMA RetriedRowTyped ==
  ASSUME NEW row \in JobRows, NEW n \in AttemptNumbers
  PROVE  [row EXCEPT !.state = "QUEUED", !.stage = "queued", !.maxAttempts = n,
                     !.cancellationRequested = FALSE,
                     !.dispatchStatus = "PENDING"] \in JobRows
    BY ColumnValues DEF JobRows

\* Every update of an outbox row.
LEMMA OutboxRowsClosed ==
  ASSUME NEW row \in OutboxRows
  PROVE  /\ \A d \in Dispatchers :
              [row EXCEPT !.leaseId = d, !.leaseExpired = FALSE] \in OutboxRows
         /\ [row EXCEPT !.dispatched = TRUE, !.aged = FALSE,
                        !.leaseId = None, !.leaseExpired = FALSE] \in OutboxRows
         /\ [row EXCEPT !.due = FALSE, !.leaseId = None,
                        !.leaseExpired = FALSE] \in OutboxRows
         /\ [row EXCEPT !.due = TRUE] \in OutboxRows
         /\ [row EXCEPT !.aged = TRUE] \in OutboxRows
         /\ [row EXCEPT !.leaseExpired = TRUE] \in OutboxRows
         /\ CancelledOutbox(row) \in OutboxRows
<1>1. [row EXCEPT !.cancelled = TRUE, !.leaseId = None,
                  !.leaseExpired = FALSE] \in OutboxRows
    BY DEF OutboxRows
<1>2. CancelledOutbox(row) \in OutboxRows
    BY <1>1 DEF CancelledOutbox
<1> QED
    BY <1>2 DEF OutboxRows

\* Every update of a worker's state.
LEMMA WorkerStatesClosed ==
  ASSUME NEW row \in WorkerStates, NEW p \in workerPcs
  PROVE  /\ [row EXCEPT !.pc = p] \in WorkerStates
         /\ \A t \in {"running", "heartbeat", "stage"} :
              [row EXCEPT !.pc = p, !.then = t] \in WorkerStates
         /\ \A s \in backgroundJobStates \cup {"ABSENT", "none"}, b \in BOOLEAN :
              [row EXCEPT !.pc = p, !.seen = s, !.seenDue = b] \in WorkerStates
         /\ \A j \in Jobs : [row EXCEPT !.pc = p, !.job = j] \in WorkerStates
         /\ \A t \in {"running", "heartbeat", "stage"}, n, m \in 0..AttemptLimit :
              [row EXCEPT !.pc = p, !.then = t, !.lease = n, !.budget = m]
                \in WorkerStates
    BY DEF WorkerStates

\* The pcs a worker moves to.
LEMMA WorkerPcs ==
  {"load", "check", "release", "reload", "claim", "guard", "running",
   "heartbeat", "stage", "settle", "commit"} \subseteq workerPcs
    BY DEF workerPcs, leasedPcs, executingPcs

\* The end of a delivery.
LEMMA EndDeliveryTyped ==
  ASSUME Typed, NEW w \in Workers, EndDelivery(w)
  PROVE  /\ worker' \in [Workers -> WorkerStates]
         /\ delivery' \in [Jobs -> Workers \cup {None, Created}]
         /\ \A v \in Workers : worker'[v].pc # "idle" => worker'[v].job \in Jobs
<1>1. worker' \in [Workers -> WorkerStates]
    BY NewRowsTyped DEF Typed, TypeOK, EndDelivery
<1>2. delivery' \in [Jobs -> Workers \cup {None, Created}]
    BY DEF Typed, TypeOK, EndDelivery
<1>3. \A v \in Workers : worker'[v].pc # "idle" => worker'[v].job \in Jobs
    BY DEF Typed, TypeOK, ActorsHaveJobs, EndDelivery, IdleWorker
<1> QED
    BY <1>1, <1>2, <1>3

-----------------------------------------------------------------------------
(* JobDispatch.                                                            *)

LEMMA EnqueueTyped ==
  ASSUME Typed, NEW j \in Jobs, Enqueue(j)
  PROVE  Typed'
<1>1. /\ job[j] \in JobRows
      /\ outbox[j] \in OutboxRows
    BY DEF Typed, TypeOK
<1>2. job' \in [Jobs -> JobRows]
    BY <1>1, NewRowsTyped DEF Typed, TypeOK, Enqueue
<1>3. outbox' \in [Jobs -> OutboxRows]
    BY <1>1, NewRowsTyped DEF Typed, TypeOK, Enqueue
<1>4. TypeOK'
    BY <1>2, <1>3 DEF Typed, TypeOK, Enqueue
<1>5. ActorsHaveJobs'
    BY DEF Typed, TypeOK, ActorsHaveJobs, Enqueue
<1> QED
    BY <1>4, <1>5 DEF Typed

LEMMA LeasePendingOutboxTyped ==
  ASSUME Typed, NEW d \in Dispatchers, NEW j \in Jobs, LeasePendingOutbox(d, j)
  PROVE  Typed'
<1>1. outbox[j] \in OutboxRows
    BY DEF Typed, TypeOK
<1>2. outbox' \in [Jobs -> OutboxRows]
    BY <1>1, OutboxRowsClosed DEF Typed, TypeOK, LeasePendingOutbox
<1>3. dispatcher' \in [Dispatchers -> DispatcherStates]
    BY <1>1 DEF Typed, TypeOK, LeasePendingOutbox, DispatcherStates
<1>4. TypeOK'
    BY <1>2, <1>3 DEF Typed, TypeOK, LeasePendingOutbox
<1>5. ActorsHaveJobs'
    BY <1>1 DEF Typed, TypeOK, ActorsHaveJobs, LeasePendingOutbox
<1> QED
    BY <1>4, <1>5 DEF Typed

LEMMA PublishTyped ==
  ASSUME Typed, NEW d \in Dispatchers, Publish(d)
  PROVE  Typed'
<1>1. /\ dispatcher[d].job \in Jobs
      /\ dispatcher[d] \in DispatcherStates
    BY DEF Typed, TypeOK, ActorsHaveJobs, Publish
<1>2. delivery' \in [Jobs -> Workers \cup {None, Created}]
    BY <1>1 DEF Typed, TypeOK, Publish
<1>3. dispatcher' \in [Dispatchers -> DispatcherStates]
    BY <1>1 DEF Typed, TypeOK, Publish, DispatcherStates
<1>4. TypeOK'
    BY <1>2, <1>3 DEF Typed, TypeOK, Publish
<1>5. ActorsHaveJobs'
    BY <1>1 DEF Typed, TypeOK, ActorsHaveJobs, Publish, DispatcherStates
<1> QED
    BY <1>4, <1>5 DEF Typed

LEMMA MarkOutboxDispatchedTyped ==
  ASSUME Typed, NEW d \in Dispatchers, MarkOutboxDispatched(d)
  PROVE  Typed'
<1>1. /\ dispatcher[d].job \in Jobs
      /\ job[dispatcher[d].job] \in JobRows
      /\ outbox[dispatcher[d].job] \in OutboxRows
    BY DEF Typed, TypeOK, ActorsHaveJobs, MarkOutboxDispatched
<1>2. outbox' \in [Jobs -> OutboxRows]
  <2>1. outbox \in [Jobs -> OutboxRows]
      BY DEF Typed, TypeOK
  <2>2. [outbox[dispatcher[d].job] EXCEPT !.dispatched = TRUE, !.aged = FALSE,
                                          !.leaseId = None, !.leaseExpired = FALSE]
          \in OutboxRows
      BY <1>1, OutboxRowsClosed
  <2> QED
      BY <2>1, <2>2 DEF MarkOutboxDispatched
<1>3. job' \in [Jobs -> JobRows]
    BY <1>1, OneColumnTyped DEF Typed, TypeOK, MarkOutboxDispatched
<1>4. dispatcher' \in [Dispatchers -> DispatcherStates]
    BY NewRowsTyped DEF Typed, TypeOK, MarkOutboxDispatched
<1>5. TypeOK'
    BY <1>2, <1>3, <1>4 DEF Typed, TypeOK, MarkOutboxDispatched
<1>6. ActorsHaveJobs'
    BY <1>1
    DEF Typed, TypeOK, ActorsHaveJobs, MarkOutboxDispatched, IdleDispatcher
<1> QED
    BY <1>5, <1>6 DEF Typed

LEMMA FailDispatchTyped ==
  ASSUME Typed, NEW d \in Dispatchers, FailDispatch(d)
  PROVE  Typed'
<1>1. /\ dispatcher[d].job \in Jobs
      /\ outbox[dispatcher[d].job] \in OutboxRows
    BY DEF Typed, TypeOK, ActorsHaveJobs, FailDispatch
<1>2. outbox' \in [Jobs -> OutboxRows]
    BY <1>1, OutboxRowsClosed DEF Typed, TypeOK, FailDispatch
<1>3. dispatcher' \in [Dispatchers -> DispatcherStates]
    BY NewRowsTyped DEF Typed, TypeOK, FailDispatch
<1>4. faults' \in 0..FaultBudget
    BY BoundAssumption DEF Typed, TypeOK, FailDispatch, Fault
<1>5. TypeOK'
    BY <1>2, <1>3, <1>4 DEF Typed, TypeOK, FailDispatch
<1>6. ActorsHaveJobs'
    BY <1>1 DEF Typed, TypeOK, ActorsHaveJobs, FailDispatch, IdleDispatcher
<1> QED
    BY <1>5, <1>6 DEF Typed

LEMMA CrashDispatcherTyped ==
  ASSUME Typed, NEW d \in Dispatchers, CrashDispatcher(d)
  PROVE  Typed'
<1>1. dispatcher' \in [Dispatchers -> DispatcherStates]
    BY NewRowsTyped DEF Typed, TypeOK, CrashDispatcher
<1>2. faults' \in 0..FaultBudget
    BY BoundAssumption DEF Typed, TypeOK, CrashDispatcher, Fault
<1>3. TypeOK'
    BY <1>1, <1>2 DEF Typed, TypeOK, CrashDispatcher
<1>4. ActorsHaveJobs'
    BY DEF Typed, TypeOK, ActorsHaveJobs, CrashDispatcher, IdleDispatcher
<1> QED
    BY <1>3, <1>4 DEF Typed

LEMMA OutboxBecomesDueTyped ==
  ASSUME Typed, NEW j \in Jobs, OutboxBecomesDue(j)
  PROVE  Typed'
<1>1. outbox[j] \in OutboxRows
    BY DEF Typed, TypeOK
<1>2. outbox' \in [Jobs -> OutboxRows]
    BY <1>1, OutboxRowsClosed DEF Typed, TypeOK, OutboxBecomesDue
<1>3. TypeOK'
    BY <1>2 DEF Typed, TypeOK, OutboxBecomesDue
<1>4. ActorsHaveJobs'
    BY DEF Typed, TypeOK, ActorsHaveJobs, OutboxBecomesDue
<1> QED
    BY <1>3, <1>4 DEF Typed

LEMMA DispatchLeaseExpiresTyped ==
  ASSUME Typed, NEW j \in Jobs, DispatchLeaseExpires(j)
  PROVE  Typed'
<1>1. outbox[j] \in OutboxRows
    BY DEF Typed, TypeOK
<1>2. outbox' \in [Jobs -> OutboxRows]
    BY <1>1, OutboxRowsClosed DEF Typed, TypeOK, DispatchLeaseExpires
<1>3. TypeOK'
    BY <1>2 DEF Typed, TypeOK, DispatchLeaseExpires
<1>4. ActorsHaveJobs'
    BY DEF Typed, TypeOK, ActorsHaveJobs, DispatchLeaseExpires
<1> QED
    BY <1>3, <1>4 DEF Typed

LEMMA DispatchOverrunsLeaseTyped ==
  ASSUME Typed, NEW j \in Jobs, DispatchOverrunsLease(j)
  PROVE  Typed'
<1>1. outbox[j] \in OutboxRows
    BY DEF Typed, TypeOK
<1>2. outbox' \in [Jobs -> OutboxRows]
    BY <1>1, OutboxRowsClosed DEF Typed, TypeOK, DispatchOverrunsLease
<1>3. faults' \in 0..FaultBudget
    BY BoundAssumption DEF Typed, TypeOK, DispatchOverrunsLease, Fault
<1>4. TypeOK'
    BY <1>2, <1>3 DEF Typed, TypeOK, DispatchOverrunsLease
<1>5. ActorsHaveJobs'
    BY DEF Typed, TypeOK, ActorsHaveJobs, DispatchOverrunsLease
<1> QED
    BY <1>4, <1>5 DEF Typed

LEMMA DispatchAgesTyped ==
  ASSUME Typed, NEW j \in Jobs, DispatchAges(j)
  PROVE  Typed'
<1>1. outbox[j] \in OutboxRows
    BY DEF Typed, TypeOK
<1>2. outbox' \in [Jobs -> OutboxRows]
    BY <1>1, OutboxRowsClosed DEF Typed, TypeOK, DispatchAges
<1>3. TypeOK'
    BY <1>2 DEF Typed, TypeOK, DispatchAges
<1>4. ActorsHaveJobs'
    BY DEF Typed, TypeOK, ActorsHaveJobs, DispatchAges
<1> QED
    BY <1>3, <1>4 DEF Typed

LEMMA DeliveryExpiresTyped ==
  ASSUME Typed, NEW j \in Jobs, DeliveryExpires(j)
  PROVE  Typed'
<1>1. delivery' \in [Jobs -> Workers \cup {None, Created}]
    BY DEF Typed, TypeOK, DeliveryExpires
<1>2. TypeOK'
    BY <1>1 DEF Typed, TypeOK, DeliveryExpires
<1>3. ActorsHaveJobs'
    BY DEF Typed, TypeOK, ActorsHaveJobs, DeliveryExpires
<1> QED
    BY <1>2, <1>3 DEF Typed

LEMMA DeliveryPurgedTyped ==
  ASSUME Typed, NEW j \in Jobs, DeliveryPurged(j)
  PROVE  Typed'
<1>1. delivery' \in [Jobs -> Workers \cup {None, Created}]
    BY DEF Typed, TypeOK, DeliveryPurged
<1>2. faults' \in 0..FaultBudget
    BY BoundAssumption DEF Typed, TypeOK, DeliveryPurged, Fault
<1>3. TypeOK'
    BY <1>1, <1>2 DEF Typed, TypeOK, DeliveryPurged
<1>4. ActorsHaveJobs'
    BY DEF Typed, TypeOK, ActorsHaveJobs, DeliveryPurged
<1> QED
    BY <1>3, <1>4 DEF Typed

-----------------------------------------------------------------------------
(* JobExecution.                                                           *)

LEMMA ReceiveDeliveryTyped ==
  ASSUME Typed, NEW w \in Workers, NEW j \in Jobs, ReceiveDelivery(w, j)
  PROVE  Typed'
<1>1. worker[w] \in WorkerStates
    BY DEF Typed, TypeOK
<1>2. delivery' \in [Jobs -> Workers \cup {None, Created}]
    BY <1>1 DEF Typed, TypeOK, ReceiveDelivery
<1>3. worker' \in [Workers -> WorkerStates]
    BY <1>1, NewRowsTyped, WorkerStatesClosed, WorkerPcs
    DEF Typed, TypeOK, ReceiveDelivery
<1>4. TypeOK'
    BY <1>2, <1>3 DEF Typed, TypeOK, ReceiveDelivery
<1>5. ActorsHaveJobs'
    BY <1>1 DEF Typed, TypeOK, ActorsHaveJobs, ReceiveDelivery, IdleWorker
<1> QED
    BY <1>4, <1>5 DEF Typed

LEMMA LoadOwnedJobTyped ==
  ASSUME Typed, NEW w \in Workers, LoadOwnedJob(w)
  PROVE  Typed'
<1>1. /\ worker[w].job \in Jobs
      /\ job[worker[w].job] \in JobRows
      /\ worker[w] \in WorkerStates
    BY DEF Typed, TypeOK, ActorsHaveJobs, LoadOwnedJob
<1>2. /\ job[worker[w].job].state \in backgroundJobStates \cup {"ABSENT", "none"}
      /\ job[worker[w].job].retryDue \in BOOLEAN
    BY <1>1 DEF JobRows
<1> DEFINE row == job[worker[w].job]
           loaded == [worker[w] EXCEPT !.pc = "check", !.seen = row.state,
                                       !.seenDue = row.retryDue]
<1>a. loaded \in WorkerStates
    BY <1>1, <1>2, WorkerStatesClosed, WorkerPcs
<1>b. worker' = [worker EXCEPT ![w] = loaded]
    BY DEF LoadOwnedJob
<1>3. worker' \in [Workers -> WorkerStates]
    BY <1>a, <1>b DEF Typed, TypeOK
<1>4. TypeOK'
    BY <1>3 DEF Typed, TypeOK, LoadOwnedJob
<1>5. ActorsHaveJobs'
    BY <1>1 DEF Typed, TypeOK, ActorsHaveJobs, LoadOwnedJob, WorkerStates
<1> QED
    BY <1>4, <1>5 DEF Typed

LEMMA CheckResultTyped ==
  ASSUME Typed, NEW w \in Workers, CheckResult(w)
  PROVE  Typed'
<1>1. worker[w] \in WorkerStates
    BY DEF Typed, TypeOK
<1>2. worker' \in [Workers -> WorkerStates]
    BY <1>1, WorkerStatesClosed, WorkerPcs DEF Typed, TypeOK, CheckResult
<1>3. TypeOK'
    BY <1>2 DEF Typed, TypeOK, CheckResult
<1>4. ActorsHaveJobs'
    BY <1>1 DEF Typed, TypeOK, ActorsHaveJobs, CheckResult, WorkerStates
<1> QED
    BY <1>3, <1>4 DEF Typed

LEMMA IgnoreDeliveryTyped ==
  ASSUME Typed, NEW w \in Workers, IgnoreDelivery(w)
  PROVE  Typed'
<1>1. worker[w] \in WorkerStates
    BY DEF Typed, TypeOK
<1>2. /\ worker' \in [Workers -> WorkerStates]
      /\ delivery' \in [Jobs -> Workers \cup {None, Created}]
      /\ \A v \in Workers : worker'[v].pc # "idle" => worker'[v].job \in Jobs
    BY EndDeliveryTyped DEF IgnoreDelivery
<1>3. TypeOK'
    BY <1>2 DEF Typed, TypeOK, IgnoreDelivery, EndDelivery
<1>4. ActorsHaveJobs'
    BY <1>2 DEF Typed, TypeOK, ActorsHaveJobs, IgnoreDelivery
<1> QED
    BY <1>3, <1>4 DEF Typed

LEMMA MakeRetryDueTyped ==
  ASSUME Typed, NEW w \in Workers, MakeRetryDue(w)
  PROVE  Typed'
<1>1. /\ worker[w].job \in Jobs
      /\ job[worker[w].job] \in JobRows
      /\ worker[w] \in WorkerStates
    BY DEF Typed, TypeOK, ActorsHaveJobs, MakeRetryDue
<1>2. job' \in [Jobs -> JobRows]
    BY <1>1, ReleasedRowTyped DEF Typed, TypeOK, MakeRetryDue
<1>3. worker' \in [Workers -> WorkerStates]
    BY <1>1, WorkerStatesClosed, WorkerPcs DEF Typed, TypeOK, MakeRetryDue
<1>4. TypeOK'
    BY <1>2, <1>3 DEF Typed, TypeOK, MakeRetryDue
<1>5. ActorsHaveJobs'
    BY <1>1 DEF Typed, TypeOK, ActorsHaveJobs, MakeRetryDue, WorkerStates
<1> QED
    BY <1>4, <1>5 DEF Typed

LEMMA ReloadTyped ==
  ASSUME Typed, NEW w \in Workers, Reload(w)
  PROVE  Typed'
<1>1. worker[w].job \in Jobs /\ worker[w] \in WorkerStates
    BY DEF Typed, TypeOK, ActorsHaveJobs, Reload
<1>2. CASE EndDelivery(w)
    BY <1>2, EndDeliveryTyped DEF Typed, TypeOK, ActorsHaveJobs, Reload
<1>3. CASE worker' = [worker EXCEPT ![w].pc = "claim"] /\ delivery' = delivery
  <2>1. worker' \in [Workers -> WorkerStates]
      BY <1>1, <1>3, WorkerStatesClosed, WorkerPcs DEF Typed, TypeOK
  <2>2. TypeOK'
      BY <1>3, <2>1 DEF Typed, TypeOK, Reload
  <2>3. ActorsHaveJobs'
      BY <1>1, <1>3 DEF Typed, TypeOK, ActorsHaveJobs, Reload, WorkerStates
  <2> QED
      BY <2>2, <2>3 DEF Typed
<1> QED
    BY <1>2, <1>3 DEF Reload

LEMMA ClaimBackgroundJobTyped ==
  ASSUME Typed, NEW w \in Workers, ClaimBackgroundJob(w)
  PROVE  Typed'
<1>1. /\ worker[w].job \in Jobs
      /\ job[worker[w].job] \in JobRows
      /\ worker[w] \in WorkerStates
    BY DEF Typed, TypeOK, ActorsHaveJobs, ClaimBackgroundJob
<1>2. job[worker[w].job].attemptCount + 1 \in AttemptNumbers
    BY <1>1, BoundAssumption
    DEF ClaimBackgroundJob, Claimable, JobRows, AttemptNumbers
<1>3. job' \in [Jobs -> JobRows]
    BY <1>1, <1>2, ClaimedRowTyped DEF Typed, TypeOK, ClaimBackgroundJob
<1>4. attempt' \in [Jobs -> [AttemptNumbers -> jobAttemptStates \cup {"NONE"}]]
    BY <1>1, <1>2 DEF Typed, TypeOK, ClaimBackgroundJob, jobAttemptStates
<1>5. worker' \in [Workers -> WorkerStates]
    BY <1>1, <1>2, ColumnValues, WorkerStatesClosed, WorkerPcs
    DEF Typed, TypeOK, ClaimBackgroundJob, JobRows
<1>6. TypeOK'
    BY <1>3, <1>4, <1>5 DEF Typed, TypeOK, ClaimBackgroundJob
<1>7. ActorsHaveJobs'
    BY <1>1, <1>2
    DEF Typed, TypeOK, ActorsHaveJobs, ClaimBackgroundJob, WorkerStates
<1> QED
    BY <1>6, <1>7 DEF Typed

LEMMA ClaimRefusedTyped ==
  ASSUME Typed, NEW w \in Workers, ClaimRefused(w)
  PROVE  Typed'
<1>1. worker[w] \in WorkerStates
    BY DEF Typed, TypeOK
<1>2. /\ worker' \in [Workers -> WorkerStates]
      /\ delivery' \in [Jobs -> Workers \cup {None, Created}]
      /\ \A v \in Workers : worker'[v].pc # "idle" => worker'[v].job \in Jobs
    BY EndDeliveryTyped DEF ClaimRefused
<1>3. TypeOK'
    BY <1>2 DEF Typed, TypeOK, ClaimRefused, EndDelivery
<1>4. ActorsHaveJobs'
    BY <1>2 DEF Typed, TypeOK, ActorsHaveJobs, ClaimRefused
<1> QED
    BY <1>3, <1>4 DEF Typed

LEMMA CallGuardTyped ==
  ASSUME Typed, NEW w \in Workers, NEW next \in {"running", "heartbeat", "stage"},
         CallGuard(w, next)
  PROVE  Typed'
<1>1. worker[w] \in WorkerStates
    BY DEF Typed, TypeOK
<1>2. worker' \in [Workers -> WorkerStates]
    BY <1>1, WorkerStatesClosed, WorkerPcs DEF Typed, TypeOK, CallGuard
<1>3. TypeOK'
    BY <1>2 DEF Typed, TypeOK, CallGuard
<1>4. ActorsHaveJobs'
    BY <1>1 DEF Typed, TypeOK, ActorsHaveJobs, CallGuard, WorkerStates
<1> QED
    BY <1>3, <1>4 DEF Typed

LEMMA GuardPassesTyped ==
  ASSUME Typed, NEW w \in Workers, GuardPasses(w)
  PROVE  Typed'
<1>1. /\ worker[w] \in WorkerStates
      /\ worker[w].then \in workerPcs
    BY WorkerPcs DEF Typed, TypeOK, WorkerStates
<1>2. worker' \in [Workers -> WorkerStates]
    BY <1>1, WorkerStatesClosed DEF Typed, TypeOK, GuardPasses
<1>3. TypeOK'
    BY <1>2 DEF Typed, TypeOK, GuardPasses
<1>4. ActorsHaveJobs'
    BY <1>1 DEF Typed, TypeOK, ActorsHaveJobs, GuardPasses, WorkerStates
<1> QED
    BY <1>3, <1>4 DEF Typed

LEMMA GuardCancelsTyped ==
  ASSUME Typed, NEW w \in Workers, GuardCancels(w)
  PROVE  Typed'
<1>1. /\ worker[w].job \in Jobs
      /\ job[worker[w].job] \in JobRows
      /\ outbox[worker[w].job] \in OutboxRows
      /\ worker[w] \in WorkerStates
    BY DEF Typed, TypeOK, ActorsHaveJobs, GuardCancels
<1>2. /\ worker' \in [Workers -> WorkerStates]
      /\ delivery' \in [Jobs -> Workers \cup {None, Created}]
      /\ \A v \in Workers : worker'[v].pc # "idle" => worker'[v].job \in Jobs
    BY EndDeliveryTyped DEF GuardCancels
<1>3. job' \in [Jobs -> JobRows]
    BY <1>1, CancelledRowTyped, ColumnValues
    DEF Typed, TypeOK, GuardCancels, SettleCancellation
<1>4. attempt' \in [Jobs -> [AttemptNumbers -> jobAttemptStates \cup {"NONE"}]]
    BY <1>1
    DEF Typed, TypeOK, GuardCancels, SettleCancellation, jobAttemptStates
<1>5. outbox' \in [Jobs -> OutboxRows]
    BY <1>1, OutboxRowsClosed
    DEF Typed, TypeOK, GuardCancels, SettleCancellation
<1>6. TypeOK'
    BY <1>2, <1>3, <1>4, <1>5
    DEF Typed, TypeOK, GuardCancels, EndDelivery, SettleCancellation
<1>7. ActorsHaveJobs'
    BY <1>2 DEF Typed, TypeOK, ActorsHaveJobs, GuardCancels
<1> QED
    BY <1>6, <1>7 DEF Typed

LEMMA LeaseLostTyped ==
  ASSUME Typed, NEW w \in Workers, LeaseLost(w)
  PROVE  Typed'
<1>1. worker[w] \in WorkerStates
    BY DEF Typed, TypeOK
<1>2. worker' \in [Workers -> WorkerStates]
    BY <1>1, WorkerStatesClosed, WorkerPcs DEF Typed, TypeOK, LeaseLost
<1>3. TypeOK'
    BY <1>2 DEF Typed, TypeOK, LeaseLost
<1>4. ActorsHaveJobs'
    BY <1>1 DEF Typed, TypeOK, ActorsHaveJobs, LeaseLost, WorkerStates
<1> QED
    BY <1>3, <1>4 DEF Typed

LEMMA HeartbeatBackgroundJobTyped ==
  ASSUME Typed, NEW w \in Workers, HeartbeatBackgroundJob(w)
  PROVE  Typed'
<1>1. /\ worker[w].job \in Jobs
      /\ job[worker[w].job] \in JobRows
      /\ worker[w] \in WorkerStates
    BY DEF Typed, TypeOK, ActorsHaveJobs, HeartbeatBackgroundJob
<1>2. job' \in [Jobs -> JobRows]
    BY <1>1, OneColumnTyped DEF Typed, TypeOK, HeartbeatBackgroundJob
<1>3. worker' \in [Workers -> WorkerStates]
    BY <1>1, WorkerStatesClosed, WorkerPcs
    DEF Typed, TypeOK, HeartbeatBackgroundJob
<1>4. TypeOK'
    BY <1>2, <1>3 DEF Typed, TypeOK, HeartbeatBackgroundJob
<1>5. ActorsHaveJobs'
    BY <1>1
    DEF Typed, TypeOK, ActorsHaveJobs, HeartbeatBackgroundJob, WorkerStates
<1> QED
    BY <1>4, <1>5 DEF Typed

LEMMA RecordBackgroundJobStageTyped ==
  ASSUME Typed, NEW w \in Workers, NEW s \in handlerStages,
         RecordBackgroundJobStage(w, s)
  PROVE  Typed'
<1>1. /\ worker[w].job \in Jobs
      /\ job[worker[w].job] \in JobRows
      /\ worker[w] \in WorkerStates
    BY DEF Typed, TypeOK, ActorsHaveJobs, RecordBackgroundJobStage
<1>2. job' \in [Jobs -> JobRows]
    BY <1>1, OneColumnTyped, ColumnValues
    DEF Typed, TypeOK, RecordBackgroundJobStage
<1>3. worker' \in [Workers -> WorkerStates]
    BY <1>1, WorkerStatesClosed, WorkerPcs
    DEF Typed, TypeOK, RecordBackgroundJobStage
<1>4. TypeOK'
    BY <1>2, <1>3 DEF Typed, TypeOK, RecordBackgroundJobStage
<1>5. ActorsHaveJobs'
    BY <1>1
    DEF Typed, TypeOK, ActorsHaveJobs, RecordBackgroundJobStage, WorkerStates
<1> QED
    BY <1>4, <1>5 DEF Typed

LEMMA HandlerReturnsTyped ==
  ASSUME Typed, NEW w \in Workers, HandlerReturns(w)
  PROVE  Typed'
<1>1. worker[w] \in WorkerStates
    BY DEF Typed, TypeOK
<1>2. worker' \in [Workers -> WorkerStates]
    BY <1>1, WorkerStatesClosed, WorkerPcs DEF Typed, TypeOK, HandlerReturns
<1>3. TypeOK'
    BY <1>2 DEF Typed, TypeOK, HandlerReturns
<1>4. ActorsHaveJobs'
    BY <1>1 DEF Typed, TypeOK, ActorsHaveJobs, HandlerReturns, WorkerStates
<1> QED
    BY <1>3, <1>4 DEF Typed

LEMMA HandlerThrowsTyped ==
  ASSUME Typed, NEW w \in Workers, HandlerThrows(w)
  PROVE  Typed'
<1>1. worker[w] \in WorkerStates
    BY DEF Typed, TypeOK
<1>2. worker' \in [Workers -> WorkerStates]
    BY <1>1, WorkerStatesClosed, WorkerPcs DEF Typed, TypeOK, HandlerThrows
<1>3. TypeOK'
    BY <1>2 DEF Typed, TypeOK, HandlerThrows
<1>4. ActorsHaveJobs'
    BY <1>1
    DEF Typed, TypeOK, ActorsHaveJobs, HandlerThrows, WorkerStates,
        executingPcs
<1> QED
    BY <1>3, <1>4 DEF Typed

LEMMA CommitJobSuccessTyped ==
  ASSUME Typed, NEW w \in Workers, CommitJobSuccess(w)
  PROVE  Typed'
<1>1. /\ worker[w].job \in Jobs
      /\ job[worker[w].job] \in JobRows
      /\ worker[w] \in WorkerStates
    BY DEF Typed, TypeOK, ActorsHaveJobs, CommitJobSuccess
<1>2. /\ worker' \in [Workers -> WorkerStates]
      /\ delivery' \in [Jobs -> Workers \cup {None, Created}]
      /\ \A v \in Workers : worker'[v].pc # "idle" => worker'[v].job \in Jobs
    BY EndDeliveryTyped DEF CommitJobSuccess
<1>3. job' \in [Jobs -> JobRows]
    BY <1>1, SettledRowTyped, ColumnValues DEF Typed, TypeOK, CommitJobSuccess
<1>4. attempt' \in [Jobs -> [AttemptNumbers -> jobAttemptStates \cup {"NONE"}]]
    BY <1>1 DEF Typed, TypeOK, CommitJobSuccess, jobAttemptStates
<1>5. result' \in [Jobs -> (0..AttemptLimit) \cup {Elsewhere}]
    BY <1>1 DEF Typed, TypeOK, CommitJobSuccess, WorkerStates
<1>6. TypeOK'
    BY <1>2, <1>3, <1>4, <1>5 DEF Typed, TypeOK, CommitJobSuccess, EndDelivery
<1>7. ActorsHaveJobs'
    BY <1>2 DEF Typed, TypeOK, ActorsHaveJobs, CommitJobSuccess
<1> QED
    BY <1>6, <1>7 DEF Typed

LEMMA CommitJobFailureTyped ==
  ASSUME Typed, NEW w \in Workers, NEW out \in {"RETRY_SCHEDULED", "FAILED_ATTENTION"},
         CommitJobFailure(w, out)
  PROVE  Typed'
<1>1. /\ worker[w].job \in Jobs
      /\ job[worker[w].job] \in JobRows
      /\ worker[w] \in WorkerStates
    BY DEF Typed, TypeOK, ActorsHaveJobs, CommitJobFailure
<1>2. /\ worker' \in [Workers -> WorkerStates]
      /\ delivery' \in [Jobs -> Workers \cup {None, Created}]
      /\ \A v \in Workers : worker'[v].pc # "idle" => worker'[v].job \in Jobs
    BY EndDeliveryTyped DEF CommitJobFailure
<1>3. job' \in [Jobs -> JobRows]
    BY <1>1, SettledRowTyped, ColumnValues DEF Typed, TypeOK, CommitJobFailure
<1>4. attempt' \in [Jobs -> [AttemptNumbers -> jobAttemptStates \cup {"NONE"}]]
    BY <1>1 DEF Typed, TypeOK, CommitJobFailure, jobAttemptStates
<1>5. TypeOK'
    BY <1>2, <1>3, <1>4 DEF Typed, TypeOK, CommitJobFailure, EndDelivery
<1>6. ActorsHaveJobs'
    BY <1>2 DEF Typed, TypeOK, ActorsHaveJobs, CommitJobFailure
<1> QED
    BY <1>5, <1>6 DEF Typed

LEMMA SettlementRefusedTyped ==
  ASSUME Typed, NEW w \in Workers, SettlementRefused(w)
  PROVE  Typed'
<1>1. worker[w] \in WorkerStates
    BY DEF Typed, TypeOK
<1>2. /\ worker' \in [Workers -> WorkerStates]
      /\ delivery' \in [Jobs -> Workers \cup {None, Created}]
      /\ \A v \in Workers : worker'[v].pc # "idle" => worker'[v].job \in Jobs
    BY EndDeliveryTyped DEF SettlementRefused
<1>3. TypeOK'
    BY <1>2 DEF Typed, TypeOK, SettlementRefused, EndDelivery
<1>4. ActorsHaveJobs'
    BY <1>2 DEF Typed, TypeOK, ActorsHaveJobs, SettlementRefused
<1> QED
    BY <1>3, <1>4 DEF Typed

LEMMA AbandonLeaseTyped ==
  ASSUME Typed, NEW w \in Workers, AbandonLease(w)
  PROVE  Typed'
<1>1. worker[w] \in WorkerStates
    BY DEF Typed, TypeOK
<1>2. /\ worker' \in [Workers -> WorkerStates]
      /\ delivery' \in [Jobs -> Workers \cup {None, Created}]
      /\ \A v \in Workers : worker'[v].pc # "idle" => worker'[v].job \in Jobs
    BY EndDeliveryTyped DEF AbandonLease
<1>3. faults' \in 0..FaultBudget
    BY BoundAssumption DEF Typed, TypeOK, AbandonLease, Fault
<1>4. TypeOK'
    BY <1>2, <1>3 DEF Typed, TypeOK, AbandonLease, EndDelivery
<1>5. ActorsHaveJobs'
    BY <1>2 DEF Typed, TypeOK, ActorsHaveJobs, AbandonLease
<1> QED
    BY <1>4, <1>5 DEF Typed

LEMMA DeliveryFailsTyped ==
  ASSUME Typed, NEW w \in Workers, DeliveryFails(w)
  PROVE  Typed'
<1>1. worker[w] \in WorkerStates
    BY DEF Typed, TypeOK
<1>2. /\ worker' \in [Workers -> WorkerStates]
      /\ delivery' \in [Jobs -> Workers \cup {None, Created}]
      /\ \A v \in Workers : worker'[v].pc # "idle" => worker'[v].job \in Jobs
    BY EndDeliveryTyped DEF DeliveryFails
<1>3. faults' \in 0..FaultBudget
    BY BoundAssumption DEF Typed, TypeOK, DeliveryFails, Fault
<1>4. TypeOK'
    BY <1>2, <1>3 DEF Typed, TypeOK, DeliveryFails, EndDelivery
<1>5. ActorsHaveJobs'
    BY <1>2 DEF Typed, TypeOK, ActorsHaveJobs, DeliveryFails
<1> QED
    BY <1>4, <1>5 DEF Typed

LEMMA CrashWorkerTyped ==
  ASSUME Typed, NEW w \in Workers, CrashWorker(w)
  PROVE  Typed'
<1>1. worker' \in [Workers -> WorkerStates]
    BY NewRowsTyped DEF Typed, TypeOK, CrashWorker
<1>2. faults' \in 0..FaultBudget
    BY BoundAssumption DEF Typed, TypeOK, CrashWorker, Fault
<1>3. TypeOK'
    BY <1>1, <1>2 DEF Typed, TypeOK, CrashWorker
<1>4. ActorsHaveJobs'
    BY DEF Typed, TypeOK, ActorsHaveJobs, CrashWorker, IdleWorker
<1> QED
    BY <1>3, <1>4 DEF Typed

LEMMA LeaseExpiresTyped ==
  ASSUME Typed, NEW j \in Jobs, LeaseExpires(j)
  PROVE  Typed'
<1>1. job[j] \in JobRows
    BY DEF Typed, TypeOK
<1>2. job' \in [Jobs -> JobRows]
    BY <1>1, OneColumnTyped DEF Typed, TypeOK, LeaseExpires
<1>3. TypeOK'
    BY <1>2 DEF Typed, TypeOK, LeaseExpires
<1>4. ActorsHaveJobs'
    BY DEF Typed, TypeOK, ActorsHaveJobs, LeaseExpires
<1> QED
    BY <1>3, <1>4 DEF Typed

LEMMA RetryBecomesDueTyped ==
  ASSUME Typed, NEW j \in Jobs, RetryBecomesDue(j)
  PROVE  Typed'
<1>1. job[j] \in JobRows
    BY DEF Typed, TypeOK
<1>2. job' \in [Jobs -> JobRows]
    BY <1>1, OneColumnTyped DEF Typed, TypeOK, RetryBecomesDue
<1>3. TypeOK'
    BY <1>2 DEF Typed, TypeOK, RetryBecomesDue
<1>4. ActorsHaveJobs'
    BY DEF Typed, TypeOK, ActorsHaveJobs, RetryBecomesDue
<1> QED
    BY <1>3, <1>4 DEF Typed

LEMMA SideResultTyped ==
  ASSUME Typed, NEW j \in Jobs, SideResult(j)
  PROVE  Typed'
<1>1. result' \in [Jobs -> (0..AttemptLimit) \cup {Elsewhere}]
    BY DEF Typed, TypeOK, SideResult
<1>2. TypeOK'
    BY <1>1 DEF Typed, TypeOK, SideResult
<1>3. ActorsHaveJobs'
    BY DEF Typed, TypeOK, ActorsHaveJobs, SideResult
<1> QED
    BY <1>2, <1>3 DEF Typed

-----------------------------------------------------------------------------
(* JobReconciliation.                                                      *)

LEMMA RecoverExpiredLeaseTyped ==
  ASSUME Typed, NEW j \in Jobs, RecoverExpiredLease(j)
  PROVE  Typed'
<1>1. /\ job[j] \in JobRows
      /\ outbox[j] \in OutboxRows
      /\ job[j].dispatchStatus \in {"PENDING", "DISPATCHED", "CANCELLED"}
    BY DEF Typed, TypeOK, JobRows
<1>2. job' \in [Jobs -> JobRows]
  <2> DEFINE s == IF Exhausted(j) THEN "FAILED_ATTENTION" ELSE "QUEUED"
             g == IF Exhausted(j) THEN "failed_attention" ELSE "queued"
             d == IF Exhausted(j) THEN job[j].dispatchStatus ELSE "PENDING"
             recovered == [job[j] EXCEPT !.state = s, !.stage = g, !.dispatchStatus = d,
                                         !.leaseId = 0, !.leaseExpired = FALSE]
  <2>1. /\ s \in backgroundJobStates
        /\ g \in stages
        /\ d \in {"PENDING", "DISPATCHED", "CANCELLED"}
      BY <1>1, ColumnValues
  <2>2. recovered \in JobRows
    <3> HIDE DEF s, g, d
    <3> QED
        BY <1>1, <2>1, SettledRowTyped
  <2>3. job' = [job EXCEPT ![j] = recovered]
      BY DEF RecoverExpiredLease
  <2> QED
      BY <2>2, <2>3 DEF Typed, TypeOK
<1>3. outbox' \in [Jobs -> OutboxRows]
    BY NewRowsTyped DEF Typed, TypeOK, RecoverExpiredLease
<1>4. attempt' \in [Jobs -> [AttemptNumbers -> jobAttemptStates \cup {"NONE"}]]
    BY DEF Typed, TypeOK, RecoverExpiredLease, jobAttemptStates
<1>5. TypeOK'
    BY <1>2, <1>3, <1>4 DEF Typed, TypeOK, RecoverExpiredLease
<1>6. ActorsHaveJobs'
    BY DEF Typed, ActorsHaveJobs, RecoverExpiredLease
<1> QED
    BY <1>5, <1>6 DEF Typed

LEMMA RecoverCancelledLeaseTyped ==
  ASSUME Typed, NEW j \in Jobs, RecoverCancelledLease(j)
  PROVE  Typed'
<1>1. /\ job[j] \in JobRows
      /\ outbox[j] \in OutboxRows
    BY DEF Typed, TypeOK
<1>2. job' \in [Jobs -> JobRows]
    BY <1>1, CancelledRowTyped
    DEF Typed, TypeOK, RecoverCancelledLease, SettleCancellation, JobRows
<1>3. outbox' \in [Jobs -> OutboxRows]
    BY <1>1, OutboxRowsClosed
    DEF Typed, TypeOK, RecoverCancelledLease, SettleCancellation
<1>4. attempt' \in [Jobs -> [AttemptNumbers -> jobAttemptStates \cup {"NONE"}]]
    BY <1>1
    DEF Typed, TypeOK, RecoverCancelledLease, SettleCancellation,
        jobAttemptStates
<1>5. TypeOK'
    BY <1>2, <1>3, <1>4
    DEF Typed, TypeOK, RecoverCancelledLease, SettleCancellation
<1>6. ActorsHaveJobs'
    BY DEF Typed, TypeOK, ActorsHaveJobs, RecoverCancelledLease
<1> QED
    BY <1>5, <1>6 DEF Typed

LEMMA RequeueDueRetryTyped ==
  ASSUME Typed, NEW j \in Jobs, RequeueDueRetry(j)
  PROVE  Typed'
<1>1. /\ job[j] \in JobRows
      /\ outbox[j] \in OutboxRows
    BY DEF Typed, TypeOK
<1>2. job' \in [Jobs -> JobRows]
    BY <1>1, ReleasedRowTyped DEF Typed, TypeOK, RequeueDueRetry
<1>3. outbox' \in [Jobs -> OutboxRows]
    BY <1>1, NewRowsTyped DEF Typed, TypeOK, RequeueDueRetry
<1>4. TypeOK'
    BY <1>2, <1>3 DEF Typed, TypeOK, RequeueDueRetry
<1>5. ActorsHaveJobs'
    BY DEF Typed, TypeOK, ActorsHaveJobs, RequeueDueRetry
<1> QED
    BY <1>4, <1>5 DEF Typed

LEMMA RepairMissingOutboxTyped ==
  ASSUME Typed, NEW j \in Jobs, RepairMissingOutbox(j)
  PROVE  Typed'
<1>1. outbox[j] \in OutboxRows
    BY DEF Typed, TypeOK
<1>2. outbox' \in [Jobs -> OutboxRows]
    BY <1>1, NewRowsTyped DEF Typed, TypeOK, RepairMissingOutbox
<1>3. TypeOK'
    BY <1>2 DEF Typed, TypeOK, RepairMissingOutbox
<1>4. ActorsHaveJobs'
    BY DEF Typed, TypeOK, ActorsHaveJobs, RepairMissingOutbox
<1> QED
    BY <1>3, <1>4 DEF Typed

LEMMA ScanStrandedDeliveryTyped ==
  ASSUME Typed, NEW r \in Reconcilers, NEW j \in Jobs,
         ScanStrandedDelivery(r, j)
  PROVE  Typed'
<1>1. reconciler' \in [Reconcilers -> ReconcilerStates]
    BY DEF Typed, TypeOK, ScanStrandedDelivery, IdleReconciler, ReconcilerStates
<1>2. TypeOK'
    BY <1>1 DEF Typed, TypeOK, ScanStrandedDelivery
<1>3. ActorsHaveJobs'
    BY DEF Typed, TypeOK, ActorsHaveJobs, ScanStrandedDelivery, IdleReconciler
<1> QED
    BY <1>2, <1>3 DEF Typed

LEMMA RequeueStrandedDeliveryTyped ==
  ASSUME Typed, NEW r \in Reconcilers, RequeueStrandedDelivery(r)
  PROVE  Typed'
<1>1. /\ reconciler[r].job \in Jobs
      /\ job[reconciler[r].job] \in JobRows
      /\ outbox[reconciler[r].job] \in OutboxRows
    BY DEF Typed, TypeOK, ActorsHaveJobs, RequeueStrandedDelivery
<1>2. job' \in [Jobs -> JobRows]
    BY <1>1, OneColumnTyped DEF Typed, TypeOK, RequeueStrandedDelivery
<1>3. outbox' \in [Jobs -> OutboxRows]
    BY <1>1, NewRowsTyped DEF Typed, TypeOK, RequeueStrandedDelivery
<1>4. reconciler' \in [Reconcilers -> ReconcilerStates]
    BY NewRowsTyped DEF Typed, TypeOK, RequeueStrandedDelivery
<1>5. TypeOK'
    BY <1>2, <1>3, <1>4 DEF Typed, TypeOK, RequeueStrandedDelivery
<1>6. ActorsHaveJobs'
    BY <1>1
    DEF Typed, TypeOK, ActorsHaveJobs, RequeueStrandedDelivery, IdleReconciler
<1> QED
    BY <1>5, <1>6 DEF Typed

LEMMA ScanResultCandidateTyped ==
  ASSUME Typed, NEW r \in Reconcilers, NEW j \in Jobs,
         ScanResultCandidate(r, j)
  PROVE  Typed'
<1>1. job[j] \in JobRows
    BY DEF Typed, TypeOK
<1>2. reconciler' \in [Reconcilers -> ReconcilerStates]
    BY <1>1 DEF Typed, TypeOK, ScanResultCandidate, ReconcilerStates, JobRows
<1>3. TypeOK'
    BY <1>2 DEF Typed, TypeOK, ScanResultCandidate
<1>4. ActorsHaveJobs'
    BY <1>1
    DEF Typed, TypeOK, ActorsHaveJobs, ScanResultCandidate, IdleReconciler
<1> QED
    BY <1>3, <1>4 DEF Typed

LEMMA InspectResultTyped ==
  ASSUME Typed, NEW r \in Reconcilers, InspectResult(r)
  PROVE  Typed'
<1>1. /\ reconciler[r].job \in Jobs
      /\ reconciler[r] \in ReconcilerStates
    BY DEF Typed, TypeOK, ActorsHaveJobs, InspectResult
<1>2. reconciler' \in [Reconcilers -> ReconcilerStates]
    BY <1>1, NewRowsTyped
    DEF Typed, TypeOK, InspectResult, IdleReconciler, ReconcilerStates,
        CandidateVerdict
<1>3. TypeOK'
    BY <1>2 DEF Typed, TypeOK, InspectResult
<1>4. ActorsHaveJobs'
    BY <1>1
    DEF Typed, TypeOK, ActorsHaveJobs, InspectResult, IdleReconciler,
        CandidateVerdict, ReconcilerStates
<1> QED
    BY <1>3, <1>4 DEF Typed

LEMMA FlagAmbiguousJobTyped ==
  ASSUME Typed, NEW r \in Reconcilers, FlagAmbiguousJob(r)
  PROVE  Typed'
<1>1. /\ reconciler[r].job \in Jobs
      /\ job[reconciler[r].job] \in JobRows
    BY DEF Typed, TypeOK, ActorsHaveJobs, FlagAmbiguousJob
<1>2. job' \in [Jobs -> JobRows]
    BY <1>1, OneColumnTyped, ColumnValues DEF Typed, TypeOK, FlagAmbiguousJob
<1>3. reconciler' \in [Reconcilers -> ReconcilerStates]
    BY NewRowsTyped DEF Typed, TypeOK, FlagAmbiguousJob
<1>4. TypeOK'
    BY <1>2, <1>3 DEF Typed, TypeOK, FlagAmbiguousJob
<1>5. ActorsHaveJobs'
    BY <1>1 DEF Typed, TypeOK, ActorsHaveJobs, FlagAmbiguousJob, IdleReconciler
<1> QED
    BY <1>4, <1>5 DEF Typed

LEMMA RepairCommittedResultTyped ==
  ASSUME Typed, NEW r \in Reconcilers, RepairCommittedResult(r)
  PROVE  Typed'
<1> DEFINE j == reconciler[r].job
<1>1. /\ j \in Jobs
      /\ job[j] \in JobRows
      /\ outbox[j] \in OutboxRows
    BY DEF Typed, TypeOK, ActorsHaveJobs, RepairCommittedResult
<1>2. /\ job' \in [Jobs -> JobRows]
      /\ attempt' \in [Jobs -> [AttemptNumbers -> jobAttemptStates \cup {"NONE"}]]
      /\ outbox' \in [Jobs -> OutboxRows]
  <2>1. CASE Repairable(j)
    <3>0. /\ job' = [job EXCEPT ![j] =
                       [@ EXCEPT !.state = "SUCCEEDED", !.stage = "completed",
                                 !.leaseId = 0, !.leaseExpired = FALSE,
                                 !.retryDue = FALSE,
                                 !.reconciliationCode = "NONE"]]
          /\ \/ attempt' = attempt
             \/ attempt' = [attempt EXCEPT ![j][job[j].leaseId] = "SUCCEEDED"]
          /\ outbox' = [outbox EXCEPT ![j] = CancelledOutbox(@)]
        BY <2>1 DEF RepairCommittedResult
    <3>1. job' \in [Jobs -> JobRows]
        BY <1>1, <3>0, RepairedRowTyped DEF Typed, TypeOK
    <3>2. attempt' \in [Jobs -> [AttemptNumbers -> jobAttemptStates \cup {"NONE"}]]
      <4>1. CASE attempt' = attempt
          BY <4>1 DEF Typed, TypeOK
      <4>2. CASE attempt' = [attempt EXCEPT ![j][job[j].leaseId] = "SUCCEEDED"]
          BY <4>2 DEF Typed, TypeOK, jobAttemptStates
      <4> QED
          BY <3>0, <4>1, <4>2
    <3>3. outbox' \in [Jobs -> OutboxRows]
        BY <1>1, <3>0, OutboxRowsClosed DEF Typed, TypeOK
    <3> QED
        BY <3>1, <3>2, <3>3
  <2>2. CASE ~Repairable(j)
      BY <2>2 DEF Typed, TypeOK, RepairCommittedResult
  <2> QED
      BY <2>1, <2>2
<1>3. reconciler' \in [Reconcilers -> ReconcilerStates]
    BY NewRowsTyped DEF Typed, TypeOK, RepairCommittedResult
<1>4. TypeOK'
    BY <1>2, <1>3 DEF Typed, TypeOK, RepairCommittedResult
<1>5. ActorsHaveJobs'
    BY DEF Typed, TypeOK, ActorsHaveJobs, RepairCommittedResult, IdleReconciler
<1> QED
    BY <1>4, <1>5 DEF Typed

-----------------------------------------------------------------------------
(* JobOperations.                                                          *)

LEMMA CancelWaitingTyped ==
  ASSUME Typed, NEW j \in Jobs, CancelWaiting(j)
  PROVE  Typed'
<1>1. /\ job[j] \in JobRows
      /\ outbox[j] \in OutboxRows
    BY DEF Typed, TypeOK
<1>2. job' \in [Jobs -> JobRows]
    BY <1>1, CancelledRowTyped, ColumnValues DEF Typed, TypeOK, CancelWaiting
<1>3. outbox' \in [Jobs -> OutboxRows]
    BY <1>1, OutboxRowsClosed DEF Typed, TypeOK, CancelWaiting
<1>4. TypeOK'
    BY <1>2, <1>3 DEF Typed, TypeOK, CancelWaiting
<1>5. ActorsHaveJobs'
    BY DEF Typed, TypeOK, ActorsHaveJobs, CancelWaiting
<1> QED
    BY <1>4, <1>5 DEF Typed

LEMMA RequestCancellationTyped ==
  ASSUME Typed, NEW j \in Jobs, RequestCancellation(j)
  PROVE  Typed'
<1>1. /\ job[j] \in JobRows
      /\ outbox[j] \in OutboxRows
    BY DEF Typed, TypeOK
<1>2. job' \in [Jobs -> JobRows]
    BY <1>1, CancelledRowTyped, ColumnValues
    DEF Typed, TypeOK, RequestCancellation
<1>3. outbox' \in [Jobs -> OutboxRows]
    BY <1>1, OutboxRowsClosed DEF Typed, TypeOK, RequestCancellation
<1>4. TypeOK'
    BY <1>2, <1>3 DEF Typed, TypeOK, RequestCancellation
<1>5. ActorsHaveJobs'
    BY DEF Typed, TypeOK, ActorsHaveJobs, RequestCancellation
<1> QED
    BY <1>4, <1>5 DEF Typed

LEMMA RetryBackgroundJobTyped ==
  ASSUME Typed, NEW j \in Jobs, RetryBackgroundJob(j)
  PROVE  Typed'
<1>1. /\ job[j] \in JobRows
      /\ outbox[j] \in OutboxRows
    BY DEF Typed, TypeOK
<1>2. GrantedAttempts(job[j]) \in AttemptNumbers
    BY <1>1, BoundAssumption
    DEF RetryBackgroundJob, Retryable, GrantedAttempts, JobRows, AttemptNumbers
<1>3. job' \in [Jobs -> JobRows]
    BY <1>1, <1>2, RetriedRowTyped DEF Typed, TypeOK, RetryBackgroundJob
<1>4. outbox' \in [Jobs -> OutboxRows]
    BY <1>1, <1>2, NewRowsTyped DEF Typed, TypeOK, RetryBackgroundJob
<1>5. TypeOK'
    BY <1>3, <1>4 DEF Typed, TypeOK, RetryBackgroundJob
<1>6. ActorsHaveJobs'
    BY DEF Typed, TypeOK, ActorsHaveJobs, RetryBackgroundJob
<1> QED
    BY <1>5, <1>6 DEF Typed

-----------------------------------------------------------------------------
(* The specification.                                                      *)

LEMMA InitTyped == Init => Typed
<1> SUFFICES ASSUME Init PROVE Typed
    OBVIOUS
<1>1. /\ job \in [Jobs -> JobRows]
      /\ outbox \in [Jobs -> OutboxRows]
    BY NewRowsTyped DEF Init
<1>2. /\ worker \in [Workers -> WorkerStates]
      /\ dispatcher \in [Dispatchers -> DispatcherStates]
      /\ reconciler \in [Reconcilers -> ReconcilerStates]
    BY NewRowsTyped DEF Init
<1>3. /\ attempt \in [Jobs -> [AttemptNumbers -> jobAttemptStates \cup {"NONE"}]]
      /\ delivery \in [Jobs -> Workers \cup {None, Created}]
      /\ result \in [Jobs -> (0..AttemptLimit) \cup {Elsewhere}]
      /\ faults \in 0..FaultBudget
    BY BoundAssumption DEF Init
<1>4. ActorsHaveJobs
    BY DEF Init, ActorsHaveJobs, IdleWorker, IdleDispatcher, IdleReconciler
<1> QED
    BY <1>1, <1>2, <1>3, <1>4 DEF Typed, TypeOK

LEMMA NextTyped == Typed /\ [Next]_vars => Typed'
<1> SUFFICES ASSUME Typed, [Next]_vars PROVE Typed'
    OBVIOUS
<1>1. ASSUME NEW d \in Dispatchers, Dispatch(d) PROVE Typed'
    BY <1>1, LeasePendingOutboxTyped, PublishTyped, MarkOutboxDispatchedTyped,
       FailDispatchTyped, CrashDispatcherTyped
    DEF Dispatch
<1>2. ASSUME NEW w \in Workers, RunHandler(w) PROVE Typed'
    BY <1>2, ReceiveDeliveryTyped, LoadOwnedJobTyped, CheckResultTyped,
       IgnoreDeliveryTyped, MakeRetryDueTyped, ReloadTyped,
       ClaimBackgroundJobTyped, ClaimRefusedTyped, CallGuardTyped,
       GuardPassesTyped, GuardCancelsTyped, LeaseLostTyped,
       HeartbeatBackgroundJobTyped, RecordBackgroundJobStageTyped,
       HandlerReturnsTyped, HandlerThrowsTyped, CommitJobSuccessTyped,
       CommitJobFailureTyped, SettlementRefusedTyped, AbandonLeaseTyped,
       DeliveryFailsTyped, CrashWorkerTyped
    DEF RunHandler
<1>3. ASSUME NEW r \in Reconcilers, Reconcile(r) PROVE Typed'
    BY <1>3, ScanStrandedDeliveryTyped, ScanResultCandidateTyped,
       RequeueStrandedDeliveryTyped, InspectResultTyped, FlagAmbiguousJobTyped,
       RepairCommittedResultTyped
    DEF Reconcile
<1>4. ASSUME NEW j \in Jobs, Repair(j) PROVE Typed'
    BY <1>4, RecoverExpiredLeaseTyped, RecoverCancelledLeaseTyped,
       RequeueDueRetryTyped, RepairMissingOutboxTyped
    DEF Repair
<1>5. ASSUME NEW j \in Jobs, Operate(j) PROVE Typed'
    BY <1>5, EnqueueTyped, CancelWaitingTyped, RequestCancellationTyped,
       RetryBackgroundJobTyped
    DEF Operate
<1>6. ASSUME NEW j \in Jobs, Clock(j) PROVE Typed'
    BY <1>6, OutboxBecomesDueTyped, DispatchLeaseExpiresTyped,
       DispatchOverrunsLeaseTyped, DispatchAgesTyped, DeliveryExpiresTyped,
       DeliveryPurgedTyped, LeaseExpiresTyped, RetryBecomesDueTyped,
       SideResultTyped
    DEF Clock
<1>7. CASE UNCHANGED vars
    BY <1>7 DEF Typed, TypeOK, ActorsHaveJobs, vars
<1> QED
    BY <1>1, <1>2, <1>3, <1>4, <1>5, <1>6, <1>7 DEF Next

\* Actors that are at work have a job, and every row keeps its type.
THEOREM TypedInvariant == Spec => []Typed
<1>1. Init => Typed
    BY InitTyped
<1>2. Typed /\ [Next]_vars => Typed'
    BY NextTyped
<1> QED
    BY <1>1, <1>2, PTL DEF Spec

\* Type correctness of the whole pipeline: no interleaving of enqueues,
\* dispatches, deliveries, recoveries, operator commands and faults writes a
\* value outside a column's type, in particular no attempt number or budget
\* beyond AttemptLimit.
THEOREM TypeCorrect == Spec => []TypeOK
<1>1. Typed => TypeOK
    BY DEF Typed
<1> QED
    BY <1>1, TypedInvariant, PTL

-----------------------------------------------------------------------------
(* Core.                                                                   *)

\* A worker that claimed a job remembers one of its attempts and, as long as
\* that attempt's lease stands, the budget the job still has.
LeasesRemembered ==
  \A w \in Workers : worker[w].pc \in leasedPcs =>
    /\ worker[w].lease \in 1..job[worker[w].job].attemptCount
    /\ HoldsLease(w) => worker[w].budget = job[worker[w].job].maxAttempts

AbsentJobsAreNew ==
  \A j \in Jobs : job[j].state = "ABSENT" => job[j].attemptCount = 0

Core ==
  /\ OneActiveAttempt
  /\ WaitingJobsHaveBudget
  /\ LeasesRemembered
  /\ AbsentJobsAreNew

-----------------------------------------------------------------------------
(* The five kinds of step.                                                 *)

SameColumns(k) ==
  /\ job'[k].state = job[k].state
  /\ job'[k].attemptCount = job[k].attemptCount
  /\ job'[k].maxAttempts = job[k].maxAttempts
  /\ job'[k].leaseId = job[k].leaseId

\* Whoever holds a lease after the step held the same one before.
NoNewLease ==
  \A v \in Workers : worker'[v].pc \in leasedPcs =>
    /\ worker[v].pc \in leasedPcs
    /\ worker'[v].job = worker[v].job
    /\ worker'[v].lease = worker[v].lease
    /\ worker'[v].budget = worker[v].budget

LEMMA ColumnsTyped ==
  ASSUME Typed, NEW j \in Jobs
  PROVE  /\ job[j] \in JobRows
         /\ job[j].state \in backgroundJobStates \cup {"ABSENT"}
         /\ job[j].attemptCount \in 0..AttemptLimit
         /\ job[j].maxAttempts \in AttemptNumbers
         /\ job[j].leaseId \in 0..AttemptLimit
    BY DEF Typed, TypeOK, JobRows

LEMMA LeasedWorkersHaveJobs ==
  ASSUME Typed, NEW v \in Workers, worker[v].pc \in leasedPcs
  PROVE  worker[v].job \in Jobs
    BY DEF Typed, ActorsHaveJobs, leasedPcs, executingPcs

LEMMA ColumnsKept ==
  ASSUME Typed, Core, NoNewLease, UNCHANGED attempt,
         \A k \in Jobs : SameColumns(k)
  PROVE  Core'
<1>1. OneActiveAttempt'
    BY DEF Core, OneActiveAttempt, SameColumns
<1>2. WaitingJobsHaveBudget'
    BY DEF Core, WaitingJobsHaveBudget, SameColumns
<1>3. AbsentJobsAreNew'
    BY DEF Core, AbsentJobsAreNew, SameColumns
<1>4. LeasesRemembered'
    BY LeasedWorkersHaveJobs
    DEF Core, LeasesRemembered, HoldsLease, NoNewLease, SameColumns
<1> QED
    BY <1>1, <1>2, <1>3, <1>4 DEF Core

\* The active attempt of job j ends.
LEMMA AttemptSettled ==
  ASSUME Typed, Core, NoNewLease, NEW j \in Jobs,
         job[j].state = "PROCESSING",
         \A k \in Jobs \ {j} : SameColumns(k),
         job'[j].state \notin {"PROCESSING", "ABSENT"},
         job'[j].attemptCount = job[j].attemptCount,
         job'[j].maxAttempts = job[j].maxAttempts,
         job'[j].leaseId = 0,
         job'[j].state \in {"QUEUED", "RETRY_SCHEDULED"}
           => job[j].attemptCount < job[j].maxAttempts,
         NEW outcome \in jobAttemptStates \ {"ACTIVE"},
         attempt' = [attempt EXCEPT ![j][job[j].leaseId] = outcome]
  PROVE  Core'
<1>1. /\ job[j].leaseId = job[j].attemptCount
      /\ job[j].leaseId \in AttemptNumbers
      /\ outcome \notin {"ACTIVE", "NONE"}
    BY ColumnsTyped DEF Core, OneActiveAttempt, AttemptNumbers, jobAttemptStates
<1>2. OneActiveAttempt'
  <2>1. attempt \in [Jobs -> [AttemptNumbers -> jobAttemptStates \cup {"NONE"}]]
      BY DEF Typed, TypeOK
  <2> SUFFICES ASSUME NEW k \in Jobs
               PROVE  /\ job'[k].state = "PROCESSING" <=> job'[k].leaseId # 0
                      /\ job'[k].leaseId \in {0, job'[k].attemptCount}
                      /\ \A n \in AttemptNumbers :
                           /\ attempt'[k][n] = "ACTIVE" <=> job'[k].leaseId = n
                           /\ attempt'[k][n] = "NONE" <=> n > job'[k].attemptCount
      BY DEF OneActiveAttempt
  <2>2. CASE k = j
      BY <1>1, <2>1, <2>2, ColumnsTyped, BoundAssumption
      DEF Core, OneActiveAttempt, AttemptNumbers
  <2>3. CASE k # j
      BY <2>1, <2>3 DEF Core, OneActiveAttempt, SameColumns
  <2> QED
      BY <2>2, <2>3
<1>3. WaitingJobsHaveBudget'
    BY DEF Core, WaitingJobsHaveBudget, SameColumns
<1>4. AbsentJobsAreNew'
    BY DEF Core, AbsentJobsAreNew, SameColumns
<1>5. LeasesRemembered'
    BY LeasedWorkersHaveJobs
    DEF Core, LeasesRemembered, HoldsLease, NoNewLease, SameColumns
<1> QED
    BY <1>2, <1>3, <1>4, <1>5 DEF Core

\* Job j, on which nobody works, moves to another state of rest.
LEMMA MovedAtRest ==
  ASSUME Typed, Core, NoNewLease, UNCHANGED attempt, NEW j \in Jobs,
         \A k \in Jobs \ {j} : SameColumns(k),
         job[j].state \notin {"PROCESSING", "ABSENT"},
         job'[j].state \notin {"PROCESSING", "ABSENT"},
         job'[j].attemptCount = job[j].attemptCount,
         job'[j].attemptCount <= job'[j].maxAttempts,
         job'[j].leaseId = job[j].leaseId,
         job'[j].state \in {"QUEUED", "RETRY_SCHEDULED"}
           => job'[j].attemptCount < job'[j].maxAttempts
  PROVE  Core'
<1>1. OneActiveAttempt'
    BY DEF Core, OneActiveAttempt, SameColumns
<1>2. WaitingJobsHaveBudget'
    BY DEF Core, WaitingJobsHaveBudget, SameColumns
<1>3. AbsentJobsAreNew'
    BY DEF Core, AbsentJobsAreNew, SameColumns
<1>4. LeasesRemembered'
    BY LeasedWorkersHaveJobs
    DEF Core, LeasesRemembered, HoldsLease, NoNewLease, SameColumns
<1> QED
    BY <1>1, <1>2, <1>3, <1>4 DEF Core

-----------------------------------------------------------------------------
(* JobDispatch and JobOperations.                                          *)

\* Steps that touch neither a job, nor an attempt, nor a worker.
LEMMA ElsewhereCore ==
  ASSUME Typed, Core, UNCHANGED <<job, attempt, worker>>
  PROVE  Core'
    BY DEF Core, OneActiveAttempt, WaitingJobsHaveBudget, LeasesRemembered,
           HoldsLease, AbsentJobsAreNew

LEMMA EnqueueCore ==
  ASSUME Typed, Core, NEW j \in Jobs, Enqueue(j)
  PROVE  Core'
<1>1. CASE job[j].state = "ABSENT"
  <2>1. /\ job' = [job EXCEPT ![j] = NewJob]
        /\ UNCHANGED <<attempt, worker>>
      BY <1>1 DEF Enqueue
  <2>2. /\ job'[j] = NewJob
        /\ \A k \in Jobs \ {j} : job'[k] = job[k]
        /\ job[j].attemptCount = 0
        /\ job[j].leaseId = 0
      BY <1>1, <2>1 DEF Typed, TypeOK, Core, AbsentJobsAreNew, OneActiveAttempt
  <2>3. OneActiveAttempt'
      BY <2>1, <2>2 DEF Core, OneActiveAttempt, NewJob
  <2>4. WaitingJobsHaveBudget'
      BY <2>2, BoundAssumption DEF Core, WaitingJobsHaveBudget, NewJob
  <2>5. AbsentJobsAreNew'
      BY <2>2 DEF Core, AbsentJobsAreNew, NewJob
  <2>6. LeasesRemembered'
      BY <2>1, <2>2, LeasedWorkersHaveJobs
      DEF Core, LeasesRemembered, HoldsLease, NewJob
  <2> QED
      BY <2>3, <2>4, <2>5, <2>6 DEF Core
<1>2. CASE job[j].state # "ABSENT"
  <2>1. job' = job
      BY <1>2 DEF Enqueue, Typed, TypeOK
  <2> QED
      BY <2>1, ElsewhereCore DEF Enqueue
<1> QED
    BY <1>1, <1>2

LEMMA MarkOutboxDispatchedCore ==
  ASSUME Typed, Core, NEW d \in Dispatchers, MarkOutboxDispatched(d)
  PROVE  Core'
<1>1. \/ job' = job
      \/ job' = [job EXCEPT ![dispatcher[d].job].dispatchStatus = "DISPATCHED"]
    BY DEF MarkOutboxDispatched
<1>a. dispatcher[d].job \in Jobs
    BY DEF Typed, ActorsHaveJobs, MarkOutboxDispatched
<1>2. \A k \in Jobs : SameColumns(k)
  <2>1. CASE job' = job
      BY <2>1 DEF SameColumns
  <2>2. CASE job' = [job EXCEPT ![dispatcher[d].job].dispatchStatus = "DISPATCHED"]
      BY <1>a, <2>2 DEF Typed, TypeOK, JobRows, SameColumns
  <2> QED
      BY <1>1, <2>1, <2>2
<1>3. NoNewLease /\ UNCHANGED attempt
    BY DEF MarkOutboxDispatched, NoNewLease
<1> QED
    BY <1>2, <1>3, ColumnsKept

LEMMA CancelWaitingCore ==
  ASSUME Typed, Core, NEW j \in Jobs, CancelWaiting(j)
  PROVE  Core'
<1>1. /\ \A k \in Jobs \ {j} : SameColumns(k)
      /\ job'[j].state = "CANCELLED"
      /\ job'[j].attemptCount = job[j].attemptCount
      /\ job'[j].maxAttempts = job[j].maxAttempts
      /\ job'[j].leaseId = job[j].leaseId
    BY DEF Typed, TypeOK, JobRows, SameColumns, CancelWaiting
<1>2. job[j].attemptCount <= job[j].maxAttempts
    BY DEF Core, WaitingJobsHaveBudget
<1>3. NoNewLease /\ UNCHANGED attempt
    BY DEF CancelWaiting, NoNewLease
<1> QED
    BY <1>1, <1>2, <1>3, MovedAtRest DEF CancelWaiting

LEMMA RequestCancellationCore ==
  ASSUME Typed, Core, NEW j \in Jobs, RequestCancellation(j)
  PROVE  Core'
<1>1. \A k \in Jobs : SameColumns(k)
    BY DEF Typed, TypeOK, JobRows, SameColumns, RequestCancellation
<1>2. NoNewLease /\ UNCHANGED attempt
    BY DEF RequestCancellation, NoNewLease
<1> QED
    BY <1>1, <1>2, ColumnsKept

\* Math.max leaves at least one attempt.
LEMMA RetryBackgroundJobCore ==
  ASSUME Typed, Core, NEW j \in Jobs, RetryBackgroundJob(j)
  PROVE  Core'
<1>1. /\ \A k \in Jobs \ {j} : SameColumns(k)
      /\ job'[j].state = "QUEUED"
      /\ job'[j].attemptCount = job[j].attemptCount
      /\ job'[j].maxAttempts = GrantedAttempts(job[j])
      /\ job'[j].leaseId = job[j].leaseId
    BY DEF Typed, TypeOK, JobRows, SameColumns, RetryBackgroundJob
<1>2. job[j].attemptCount < GrantedAttempts(job[j])
    BY ColumnsTyped DEF GrantedAttempts, AttemptNumbers
<1>3. /\ NoNewLease
      /\ UNCHANGED attempt
      /\ job[j].state = "FAILED_ATTENTION"
    BY DEF RetryBackgroundJob, Retryable, NoNewLease
<1>4. /\ job'[j].attemptCount < job'[j].maxAttempts
      /\ job'[j].attemptCount <= job'[j].maxAttempts
    BY <1>1, <1>2, ColumnsTyped DEF GrantedAttempts, AttemptNumbers
<1> QED
    BY <1>1, <1>3, <1>4, MovedAtRest

-----------------------------------------------------------------------------
(* JobExecution.                                                           *)

LEMMA EndDeliveryLeases ==
  ASSUME Typed, NEW w \in Workers, EndDelivery(w)
  PROVE  NoNewLease
    BY DEF Typed, TypeOK, EndDelivery, NoNewLease, IdleWorker, leasedPcs,
           executingPcs

\* Steps before the claim, steps of the handler that write nothing, and the
\* ends of a delivery that settle nothing.
LEMMA WorkerMovesCore ==
  ASSUME Typed, Core, NoNewLease, UNCHANGED <<job, attempt>>
  PROVE  Core'
<1>1. \A k \in Jobs : SameColumns(k)
    BY DEF SameColumns
<1> QED
    BY <1>1, ColumnsKept

LEMMA QuietStepsCore ==
  ASSUME Typed, Core, NEW w \in Workers,
         \/ \E j \in Jobs : ReceiveDelivery(w, j)
         \/ LoadOwnedJob(w) \/ CheckResult(w) \/ IgnoreDelivery(w) \/ Reload(w)
         \/ ClaimRefused(w)
         \/ \E next \in {"running", "heartbeat", "stage"} : CallGuard(w, next)
         \/ GuardPasses(w) \/ LeaseLost(w)
         \/ HandlerReturns(w) \/ HandlerThrows(w)
         \/ SettlementRefused(w) \/ AbandonLease(w) \/ DeliveryFails(w)
         \/ CrashWorker(w)
  PROVE  Core'
<1> USE DEF Typed, TypeOK, NoNewLease
<1>1. ASSUME NEW j \in Jobs, ReceiveDelivery(w, j) PROVE NoNewLease
    BY <1>1 DEF ReceiveDelivery, IdleWorker, leasedPcs, executingPcs
<1>2. CASE LoadOwnedJob(w)
  <2>1. NoNewLease
      BY <1>2 DEF LoadOwnedJob, WorkerStates, leasedPcs, executingPcs
  <2> QED
      BY <1>2, <2>1, WorkerMovesCore DEF LoadOwnedJob
<1>3. CASE CheckResult(w)
  <2>1. NoNewLease
      BY <1>3 DEF CheckResult, WorkerStates, leasedPcs, executingPcs
  <2> QED
      BY <1>3, <2>1, WorkerMovesCore DEF CheckResult
<1>4. CASE IgnoreDelivery(w)
    BY <1>4, EndDeliveryLeases, WorkerMovesCore DEF IgnoreDelivery
<1>5. CASE Reload(w)
  <2>1. CASE EndDelivery(w)
      BY <1>5, <2>1, EndDeliveryLeases, WorkerMovesCore DEF Reload
  <2>2. CASE worker' = [worker EXCEPT ![w].pc = "claim"]
    <3>1. NoNewLease
        BY <1>5, <2>2 DEF WorkerStates, leasedPcs, executingPcs
    <3> QED
        BY <1>5, <3>1, WorkerMovesCore DEF Reload
  <2> QED
      BY <1>5, <2>1, <2>2 DEF Reload
<1>6. CASE ClaimRefused(w)
    BY <1>6, EndDeliveryLeases, WorkerMovesCore DEF ClaimRefused
<1>7. ASSUME NEW next \in {"running", "heartbeat", "stage"}, CallGuard(w, next)
      PROVE  NoNewLease
    BY <1>7 DEF CallGuard, WorkerStates, leasedPcs, executingPcs
<1>8. CASE GuardPasses(w)
  <2>1. NoNewLease
      BY <1>8 DEF GuardPasses, WorkerStates, leasedPcs, executingPcs
  <2> QED
      BY <1>8, <2>1, WorkerMovesCore DEF GuardPasses
<1>9. CASE LeaseLost(w)
  <2>1. NoNewLease
      BY <1>9 DEF LeaseLost, WorkerStates, leasedPcs, executingPcs
  <2> QED
      BY <1>9, <2>1, WorkerMovesCore DEF LeaseLost
<1>10. CASE HandlerReturns(w)
  <2>1. NoNewLease
      BY <1>10 DEF HandlerReturns, WorkerStates, leasedPcs, executingPcs
  <2> QED
      BY <1>10, <2>1, WorkerMovesCore DEF HandlerReturns
<1>11. CASE HandlerThrows(w)
  <2>1. NoNewLease
      BY <1>11 DEF HandlerThrows, WorkerStates, leasedPcs, executingPcs
  <2> QED
      BY <1>11, <2>1, WorkerMovesCore DEF HandlerThrows
<1>12. CASE SettlementRefused(w)
    BY <1>12, EndDeliveryLeases, WorkerMovesCore DEF SettlementRefused
<1>13. CASE AbandonLease(w)
    BY <1>13, EndDeliveryLeases, WorkerMovesCore DEF AbandonLease
<1>14. CASE DeliveryFails(w)
    BY <1>14, EndDeliveryLeases, WorkerMovesCore DEF DeliveryFails
<1>15. CASE CrashWorker(w)
  <2>1. NoNewLease
      BY <1>15 DEF CrashWorker, IdleWorker, leasedPcs, executingPcs
  <2> QED
      BY <1>15, <2>1, WorkerMovesCore DEF CrashWorker
<1>16. CASE \E j \in Jobs : ReceiveDelivery(w, j)
    BY <1>1, <1>16, WorkerMovesCore DEF ReceiveDelivery
<1>17. CASE \E next \in {"running", "heartbeat", "stage"} : CallGuard(w, next)
    BY <1>7, <1>17, WorkerMovesCore DEF CallGuard
<1> QED
    BY <1>2, <1>3, <1>4, <1>5, <1>6, <1>8, <1>9, <1>10, <1>11, <1>12, <1>13,
       <1>14, <1>15, <1>16, <1>17

LEMMA MakeRetryDueCore ==
  ASSUME Typed, Core, NEW w \in Workers, MakeRetryDue(w)
  PROVE  Core'
<1> DEFINE j == worker[w].job
<1>1. j \in Jobs
    BY DEF Typed, ActorsHaveJobs, MakeRetryDue
<1>2. NoNewLease /\ UNCHANGED attempt
    BY DEF Typed, TypeOK, WorkerStates, MakeRetryDue, NoNewLease, leasedPcs,
           executingPcs
<1>3. CASE job' = job
    BY <1>2, <1>3, WorkerMovesCore
<1>4. CASE /\ job[j].state = "RETRY_SCHEDULED"
           /\ job' = [job EXCEPT ![j] =
                        [@ EXCEPT !.state = "QUEUED", !.stage = "queued",
                                  !.retryDue = FALSE]]
  <2>1. /\ \A k \in Jobs \ {j} : SameColumns(k)
        /\ job'[j].state = "QUEUED"
        /\ job'[j].attemptCount = job[j].attemptCount
        /\ job'[j].maxAttempts = job[j].maxAttempts
        /\ job'[j].leaseId = job[j].leaseId
      BY <1>1, <1>4 DEF Typed, TypeOK, JobRows, SameColumns
  <2>2. /\ job[j].attemptCount < job[j].maxAttempts
        /\ job[j].attemptCount <= job[j].maxAttempts
      BY <1>1, <1>4 DEF Core, WaitingJobsHaveBudget
  <2> QED
      BY <1>1, <1>2, <1>4, <2>1, <2>2, MovedAtRest
<1> QED
    BY <1>3, <1>4 DEF MakeRetryDue

\* The claim takes the next attempt number, which nobody remembers yet.
LEMMA ClaimBackgroundJobCore ==
  ASSUME Typed, Core, NEW w \in Workers, ClaimBackgroundJob(w)
  PROVE  Core'
<1> DEFINE j == worker[w].job
           n == job[j].attemptCount + 1
<1>1. j \in Jobs
    BY DEF Typed, ActorsHaveJobs, ClaimBackgroundJob
<1>2. /\ n \in AttemptNumbers
      /\ n <= job[j].maxAttempts
      /\ job[j].state = "QUEUED"
    BY <1>1, ColumnsTyped, BoundAssumption
    DEF ClaimBackgroundJob, Claimable, AttemptNumbers
<1>3. /\ \A k \in Jobs \ {j} : SameColumns(k)
      /\ job'[j].state = "PROCESSING"
      /\ job'[j].attemptCount = n
      /\ job'[j].maxAttempts = job[j].maxAttempts
      /\ job'[j].leaseId = n
      /\ attempt' = [attempt EXCEPT ![j][n] = "ACTIVE"]
    BY <1>1 DEF Typed, TypeOK, JobRows, SameColumns, ClaimBackgroundJob
<1>4. /\ worker'[w].job = j
      /\ worker'[w].lease = n
      /\ worker'[w].budget = job[j].maxAttempts
      /\ \A v \in Workers \ {w} : worker'[v] = worker[v]
    BY DEF Typed, TypeOK, WorkerStates, ClaimBackgroundJob
<1> HIDE DEF n
<1>5. OneActiveAttempt'
  <2>1. /\ attempt'[j] = [attempt[j] EXCEPT ![n] = "ACTIVE"]
        /\ \A k \in Jobs \ {j} : attempt'[k] = attempt[k]
        /\ attempt[j] \in [AttemptNumbers -> jobAttemptStates \cup {"NONE"}]
      BY <1>1, <1>3 DEF Typed, TypeOK
  <2>2. ASSUME NEW k \in Jobs \ {j}, NEW i \in AttemptNumbers
        PROVE  /\ attempt'[k][i] = "ACTIVE" <=> job'[k].leaseId = i
               /\ attempt'[k][i] = "NONE" <=> i > job'[k].attemptCount
      BY <1>3, <2>1 DEF Core, OneActiveAttempt, SameColumns
  <2>3. ASSUME NEW i \in AttemptNumbers
        PROVE  /\ attempt'[j][i] = "ACTIVE" <=> job'[j].leaseId = i
               /\ attempt'[j][i] = "NONE" <=> i > job'[j].attemptCount
    <3>1. /\ job[j].leaseId = 0
          /\ attempt[j][i] = "ACTIVE" <=> job[j].leaseId = i
          /\ attempt[j][i] = "NONE" <=> i > job[j].attemptCount
        BY <1>1, <1>2 DEF Core, OneActiveAttempt
    <3>2. CASE i = n
      <4>1. attempt'[j][n] = "ACTIVE"
          BY <1>2, <2>1
      <4>2. ~(n > n)
          BY <1>2, BoundAssumption DEF AttemptNumbers
      <4> QED
          BY <1>3, <3>2, <4>1, <4>2
    <3>3. CASE i # n
      <4>1. attempt'[j][i] = attempt[j][i]
          BY <1>1, <1>2, <2>1, <3>3
      <4>2. i > job'[j].attemptCount <=> i > job[j].attemptCount
          BY <1>1, <1>3, <3>3, ColumnsTyped DEF AttemptNumbers, n
      <4> QED
          BY <1>3, <3>1, <3>3, <4>1, <4>2, BoundAssumption DEF AttemptNumbers
    <3> QED
        BY <3>2, <3>3
  <2>4. ASSUME NEW k \in Jobs
        PROVE  /\ job'[k].state = "PROCESSING" <=> job'[k].leaseId # 0
               /\ job'[k].leaseId \in {0, job'[k].attemptCount}
      BY <1>2, <1>3 DEF Core, OneActiveAttempt, SameColumns, AttemptNumbers
  <2> QED
      BY <2>2, <2>3, <2>4 DEF OneActiveAttempt
<1>6. WaitingJobsHaveBudget'
    BY <1>2, <1>3 DEF Core, WaitingJobsHaveBudget, SameColumns
<1>7. AbsentJobsAreNew'
    BY <1>3 DEF Core, AbsentJobsAreNew, SameColumns
<1>8. LeasesRemembered'
  <2> SUFFICES ASSUME NEW v \in Workers, worker'[v].pc \in leasedPcs
               PROVE  /\ worker'[v].lease \in 1..job'[worker'[v].job].attemptCount
                      /\ HoldsLease(v)'
                           => worker'[v].budget = job'[worker'[v].job].maxAttempts
      BY DEF LeasesRemembered
  <2>1. CASE v = w
      BY <1>2, <1>3, <1>4, <2>1 DEF AttemptNumbers
  <2>2. CASE v # w
    <3>1. /\ worker[v].pc \in leasedPcs
          /\ worker'[v] = worker[v]
          /\ worker[v].job \in Jobs
          /\ worker[v].lease \in 1..job[worker[v].job].attemptCount
          /\ HoldsLease(v) => worker[v].budget = job[worker[v].job].maxAttempts
        BY <1>4, <2>2, LeasedWorkersHaveJobs DEF Core, LeasesRemembered
    <3>2. CASE worker[v].job # j
        BY <1>3, <3>1, <3>2 DEF HoldsLease, SameColumns
    <3>3. CASE worker[v].job = j
        BY <1>1, <1>3, <3>1, <3>3, ColumnsTyped DEF HoldsLease, n
    <3> QED
        BY <3>2, <3>3
  <2> QED
      BY <2>1, <2>2
<1> QED
    BY <1>5, <1>6, <1>7, <1>8 DEF Core

LEMMA HeartbeatBackgroundJobCore ==
  ASSUME Typed, Core, NEW w \in Workers, HeartbeatBackgroundJob(w)
  PROVE  Core'
<1>1. \A k \in Jobs : SameColumns(k)
    BY DEF Typed, TypeOK, JobRows, SameColumns, HeartbeatBackgroundJob
<1>2. NoNewLease /\ UNCHANGED attempt
    BY DEF Typed, TypeOK, WorkerStates, HeartbeatBackgroundJob, NoNewLease,
           leasedPcs, executingPcs
<1> QED
    BY <1>1, <1>2, ColumnsKept

LEMMA RecordBackgroundJobStageCore ==
  ASSUME Typed, Core, NEW w \in Workers, NEW s \in handlerStages,
         RecordBackgroundJobStage(w, s)
  PROVE  Core'
<1>1. \A k \in Jobs : SameColumns(k)
    BY DEF Typed, TypeOK, JobRows, SameColumns, RecordBackgroundJobStage
<1>2. NoNewLease /\ UNCHANGED attempt
    BY DEF Typed, TypeOK, WorkerStates, RecordBackgroundJobStage, NoNewLease,
           leasedPcs, executingPcs
<1> QED
    BY <1>1, <1>2, ColumnsKept

\* Both places where a requested cancellation takes effect.
LEMMA SettleCancellationCore ==
  ASSUME Typed, Core, NoNewLease, NEW j \in Jobs, NEW code,
         job[j].state = "PROCESSING", SettleCancellation(j, code)
  PROVE  Core'
<1>1. /\ \A k \in Jobs \ {j} : SameColumns(k)
      /\ job'[j].state = "CANCELLED"
      /\ job'[j].attemptCount = job[j].attemptCount
      /\ job'[j].maxAttempts = job[j].maxAttempts
      /\ job'[j].leaseId = 0
    BY DEF Typed, TypeOK, JobRows, SameColumns, SettleCancellation
<1>2. /\ "CANCELLED" \in jobAttemptStates \ {"ACTIVE"}
      /\ attempt' = [attempt EXCEPT ![j][job[j].leaseId] = "CANCELLED"]
    BY DEF SettleCancellation, jobAttemptStates
<1> QED
    BY <1>1, <1>2, AttemptSettled

LEMMA GuardCancelsCore ==
  ASSUME Typed, Core, NEW w \in Workers, GuardCancels(w)
  PROVE  Core'
<1>1. worker[w].job \in Jobs
    BY DEF Typed, ActorsHaveJobs, GuardCancels
<1> QED
    BY <1>1, EndDeliveryLeases, SettleCancellationCore DEF GuardCancels, HoldsLease

LEMMA CommitJobSuccessCore ==
  ASSUME Typed, Core, NEW w \in Workers, CommitJobSuccess(w)
  PROVE  Core'
<1> DEFINE j == worker[w].job
<1>1. /\ j \in Jobs
      /\ job[j].state = "PROCESSING"
      /\ job[j].leaseId = worker[w].lease
    BY DEF Typed, ActorsHaveJobs, CommitJobSuccess, Settleable, HoldsLease
<1>2. /\ \A k \in Jobs \ {j} : SameColumns(k)
      /\ job'[j].state = "SUCCEEDED"
      /\ job'[j].attemptCount = job[j].attemptCount
      /\ job'[j].maxAttempts = job[j].maxAttempts
      /\ job'[j].leaseId = 0
    BY <1>1 DEF Typed, TypeOK, JobRows, SameColumns, CommitJobSuccess
<1>3. /\ "SUCCEEDED" \in jobAttemptStates \ {"ACTIVE"}
      /\ attempt' = [attempt EXCEPT ![j][job[j].leaseId] = "SUCCEEDED"]
    BY <1>1 DEF CommitJobSuccess, jobAttemptStates
<1>4. NoNewLease
    BY EndDeliveryLeases DEF CommitJobSuccess
<1> QED
    BY <1>1, <1>2, <1>3, <1>4, AttemptSettled

\* decideJobRetry compares the attempt with the budget read at the claim, which
\* is still the job's because the lease is.
LEMMA CommitJobFailureCore ==
  ASSUME Typed, Core, NEW w \in Workers,
         NEW next \in {"RETRY_SCHEDULED", "FAILED_ATTENTION"},
         CommitJobFailure(w, next)
  PROVE  Core'
<1> DEFINE j == worker[w].job
<1>1. /\ j \in Jobs
      /\ HoldsLease(w)
      /\ job[j].state = "PROCESSING"
      /\ job[j].leaseId = worker[w].lease
    BY DEF Typed, ActorsHaveJobs, CommitJobFailure, Settleable, HoldsLease
<1>2. /\ \A k \in Jobs \ {j} : SameColumns(k)
      /\ job'[j].state = next
      /\ job'[j].attemptCount = job[j].attemptCount
      /\ job'[j].maxAttempts = job[j].maxAttempts
      /\ job'[j].leaseId = 0
    BY <1>1 DEF Typed, TypeOK, JobRows, SameColumns, CommitJobFailure
<1>3. /\ next \in jobAttemptStates \ {"ACTIVE"}
      /\ attempt' = [attempt EXCEPT ![j][job[j].leaseId] = next]
    BY <1>1 DEF CommitJobFailure, jobAttemptStates
<1>4. next = "RETRY_SCHEDULED" => job[j].attemptCount < job[j].maxAttempts
  <2>1. worker[w].budget = job[j].maxAttempts
      BY <1>1 DEF Core, LeasesRemembered, CommitJobFailure, leasedPcs
  <2>2. worker[w].lease = job[j].attemptCount
      BY <1>1 DEF Core, OneActiveAttempt
  <2> QED
      BY <2>1, <2>2 DEF CommitJobFailure
<1>5. NoNewLease
    BY EndDeliveryLeases DEF CommitJobFailure
<1> QED
    BY <1>1, <1>2, <1>3, <1>4, <1>5, AttemptSettled

LEMMA LeaseExpiresCore ==
  ASSUME Typed, Core, NEW j \in Jobs, LeaseExpires(j)
  PROVE  Core'
<1>1. \A k \in Jobs : SameColumns(k)
    BY DEF Typed, TypeOK, JobRows, SameColumns, LeaseExpires
<1>2. NoNewLease /\ UNCHANGED attempt
    BY DEF LeaseExpires, NoNewLease
<1> QED
    BY <1>1, <1>2, ColumnsKept

LEMMA RetryBecomesDueCore ==
  ASSUME Typed, Core, NEW j \in Jobs, RetryBecomesDue(j)
  PROVE  Core'
<1>1. \A k \in Jobs : SameColumns(k)
    BY DEF Typed, TypeOK, JobRows, SameColumns, RetryBecomesDue
<1>2. NoNewLease /\ UNCHANGED attempt
    BY DEF RetryBecomesDue, NoNewLease
<1> QED
    BY <1>1, <1>2, ColumnsKept

-----------------------------------------------------------------------------
(* JobReconciliation.                                                      *)

LEMMA RecoverExpiredLeaseCore ==
  ASSUME Typed, Core, NEW j \in Jobs, RecoverExpiredLease(j)
  PROVE  Core'
<1>1. /\ \A k \in Jobs \ {j} : SameColumns(k)
      /\ job'[j].state = IF Exhausted(j) THEN "FAILED_ATTENTION" ELSE "QUEUED"
      /\ job'[j].attemptCount = job[j].attemptCount
      /\ job'[j].maxAttempts = job[j].maxAttempts
      /\ job'[j].leaseId = 0
    BY DEF Typed, TypeOK, JobRows, SameColumns, RecoverExpiredLease
<1>2. job'[j].state = "QUEUED" => job[j].attemptCount < job[j].maxAttempts
    BY <1>1, ColumnsTyped DEF Exhausted, AttemptNumbers
<1>3. /\ "LEASE_EXPIRED" \in jobAttemptStates \ {"ACTIVE"}
      /\ attempt' = [attempt EXCEPT ![j][job[j].leaseId] = "LEASE_EXPIRED"]
      /\ job[j].state = "PROCESSING"
    BY DEF RecoverExpiredLease, Recoverable, jobAttemptStates
<1>4. NoNewLease
    BY DEF RecoverExpiredLease, NoNewLease
<1>5. job'[j].state \in {"FAILED_ATTENTION", "QUEUED"}
    BY <1>1
<1> QED
    BY <1>1, <1>2, <1>3, <1>4, <1>5, AttemptSettled

LEMMA RecoverCancelledLeaseCore ==
  ASSUME Typed, Core, NEW j \in Jobs, RecoverCancelledLease(j)
  PROVE  Core'
<1>1. NoNewLease
    BY DEF RecoverCancelledLease, NoNewLease
<1> QED
    BY <1>1, SettleCancellationCore DEF RecoverCancelledLease, CancelledRecoverable

LEMMA RequeueDueRetryCore ==
  ASSUME Typed, Core, NEW j \in Jobs, RequeueDueRetry(j)
  PROVE  Core'
<1>1. /\ \A k \in Jobs \ {j} : SameColumns(k)
      /\ job'[j].state = "QUEUED"
      /\ job'[j].attemptCount = job[j].attemptCount
      /\ job'[j].maxAttempts = job[j].maxAttempts
      /\ job'[j].leaseId = job[j].leaseId
    BY DEF Typed, TypeOK, JobRows, SameColumns, RequeueDueRetry
<1>2. /\ job[j].attemptCount < job[j].maxAttempts
      /\ job[j].attemptCount <= job[j].maxAttempts
    BY DEF Core, WaitingJobsHaveBudget, RequeueDueRetry
<1>3. NoNewLease /\ UNCHANGED attempt
    BY DEF RequeueDueRetry, NoNewLease
<1> QED
    BY <1>1, <1>2, <1>3, MovedAtRest DEF RequeueDueRetry

LEMMA RequeueStrandedDeliveryCore ==
  ASSUME Typed, Core, NEW r \in Reconcilers, RequeueStrandedDelivery(r)
  PROVE  Core'
<1>1. reconciler[r].job \in Jobs
    BY DEF Typed, ActorsHaveJobs, RequeueStrandedDelivery
<1>2. \/ job' = job
      \/ job' = [job EXCEPT ![reconciler[r].job].dispatchStatus = "PENDING"]
    BY DEF RequeueStrandedDelivery
<1>3. NoNewLease /\ UNCHANGED attempt
    BY DEF RequeueStrandedDelivery, NoNewLease
<1>4. \A k \in Jobs : SameColumns(k)
  <2>1. CASE job' = job
      BY <2>1 DEF SameColumns
  <2>2. CASE job' = [job EXCEPT ![reconciler[r].job].dispatchStatus = "PENDING"]
      BY <1>1, <2>2 DEF Typed, TypeOK, JobRows, SameColumns
  <2> QED
      BY <1>2, <2>1, <2>2
<1> QED
    BY <1>3, <1>4, ColumnsKept

LEMMA FlagAmbiguousJobCore ==
  ASSUME Typed, Core, NEW r \in Reconcilers, FlagAmbiguousJob(r)
  PROVE  Core'
<1>1. reconciler[r].job \in Jobs
    BY DEF Typed, ActorsHaveJobs, FlagAmbiguousJob
<1>2. \A k \in Jobs : SameColumns(k)
    BY <1>1 DEF Typed, TypeOK, JobRows, SameColumns, FlagAmbiguousJob
<1>3. NoNewLease /\ UNCHANGED attempt
    BY DEF FlagAmbiguousJob, NoNewLease
<1> QED
    BY <1>2, <1>3, ColumnsKept

LEMMA RepairCommittedResultCore ==
  ASSUME Typed, Core, NEW r \in Reconcilers, RepairCommittedResult(r)
  PROVE  Core'
<1> DEFINE j == reconciler[r].job
<1>1. j \in Jobs
    BY DEF Typed, ActorsHaveJobs, RepairCommittedResult
<1>2. NoNewLease
    BY DEF RepairCommittedResult, NoNewLease
<1>3. CASE ~Repairable(j)
    BY <1>3, ElsewhereCore DEF RepairCommittedResult
<1>4. CASE Repairable(j)
  <2>1. /\ job' = [job EXCEPT ![j] =
                     [@ EXCEPT !.state = "SUCCEEDED", !.stage = "completed",
                               !.leaseId = 0, !.leaseExpired = FALSE,
                               !.retryDue = FALSE,
                               !.reconciliationCode = "NONE"]]
        /\ attempt' = IF job[j].leaseId = 0 THEN attempt
                      ELSE [attempt EXCEPT ![j][job[j].leaseId] = "SUCCEEDED"]
      BY <1>4 DEF RepairCommittedResult
  <2>2. /\ \A k \in Jobs \ {j} : SameColumns(k)
        /\ job'[j].state = "SUCCEEDED"
        /\ job'[j].attemptCount = job[j].attemptCount
        /\ job'[j].maxAttempts = job[j].maxAttempts
        /\ job'[j].leaseId = 0
      BY <1>1, <2>1 DEF Typed, TypeOK, JobRows, SameColumns
  <2>3. CASE job[j].state = "PROCESSING"
    <3>1. /\ attempt' = [attempt EXCEPT ![j][job[j].leaseId] = "SUCCEEDED"]
          /\ "SUCCEEDED" \in jobAttemptStates \ {"ACTIVE"}
        BY <1>1, <2>1, <2>3 DEF Core, OneActiveAttempt, jobAttemptStates
    <3> QED
        BY <1>1, <1>2, <2>2, <2>3, <3>1, AttemptSettled
  <2>4. CASE job[j].state \in {"QUEUED", "RETRY_SCHEDULED"}
    <3>1. /\ job[j].leaseId = 0
          /\ job[j].attemptCount <= job[j].maxAttempts
        BY <1>1, <2>4 DEF Core, OneActiveAttempt, WaitingJobsHaveBudget
    <3> QED
        BY <1>1, <1>2, <2>1, <2>2, <2>4, <3>1, MovedAtRest
  <2> QED
      BY <1>4, <2>3, <2>4 DEF Repairable
<1> QED
    BY <1>3, <1>4

-----------------------------------------------------------------------------
(* The specification.                                                      *)

LEMMA InitCore == Init => Core
<1> SUFFICES ASSUME Init PROVE Core
    OBVIOUS
<1>1. \A j \in Jobs : /\ job[j].state \in {"QUEUED", "ABSENT"}
                      /\ job[j].attemptCount = 0
                      /\ job[j].maxAttempts = DefaultMaxAttempts
                      /\ job[j].leaseId = 0
    BY DEF Init, NewJob
<1>2. OneActiveAttempt
    BY <1>1 DEF Init, OneActiveAttempt, AttemptNumbers
<1>3. WaitingJobsHaveBudget
    BY <1>1, BoundAssumption DEF WaitingJobsHaveBudget
<1>4. LeasesRemembered
    BY DEF Init, LeasesRemembered, IdleWorker, leasedPcs, executingPcs
<1>5. AbsentJobsAreNew
    BY <1>1 DEF AbsentJobsAreNew
<1> QED
    BY <1>2, <1>3, <1>4, <1>5 DEF Core

LEMMA NextCore == Typed /\ Core /\ [Next]_vars => Core'
<1> SUFFICES ASSUME Typed, Core, [Next]_vars PROVE Core'
    OBVIOUS
<1>1. ASSUME NEW d \in Dispatchers, Dispatch(d) PROVE Core'
    BY <1>1, MarkOutboxDispatchedCore, ElsewhereCore
    DEF Dispatch, LeasePendingOutbox, Publish, FailDispatch, CrashDispatcher
<1>2. ASSUME NEW w \in Workers, RunHandler(w) PROVE Core'
    BY <1>2, QuietStepsCore, MakeRetryDueCore, ClaimBackgroundJobCore,
       GuardCancelsCore, HeartbeatBackgroundJobCore,
       RecordBackgroundJobStageCore, CommitJobSuccessCore, CommitJobFailureCore
    DEF RunHandler
<1>3. ASSUME NEW r \in Reconcilers, Reconcile(r) PROVE Core'
    BY <1>3, RequeueStrandedDeliveryCore, FlagAmbiguousJobCore,
       RepairCommittedResultCore, ElsewhereCore
    DEF Reconcile, ScanStrandedDelivery, ScanResultCandidate, InspectResult
<1>4. ASSUME NEW j \in Jobs, Repair(j) PROVE Core'
    BY <1>4, RecoverExpiredLeaseCore, RecoverCancelledLeaseCore,
       RequeueDueRetryCore, ElsewhereCore
    DEF Repair, RepairMissingOutbox
<1>5. ASSUME NEW j \in Jobs, Operate(j) PROVE Core'
    BY <1>5, EnqueueCore, CancelWaitingCore, RequestCancellationCore,
       RetryBackgroundJobCore
    DEF Operate
<1>6. ASSUME NEW j \in Jobs, Clock(j) PROVE Core'
    BY <1>6, LeaseExpiresCore, RetryBecomesDueCore, ElsewhereCore
    DEF Clock, OutboxBecomesDue, DispatchLeaseExpires, DispatchOverrunsLease,
        DispatchAges, DeliveryExpires, DeliveryPurged, SideResult
<1>7. CASE UNCHANGED vars
    BY <1>7, ElsewhereCore DEF vars
<1> QED
    BY <1>1, <1>2, <1>3, <1>4, <1>5, <1>6, <1>7 DEF Next

\* The inductive invariant.
THEOREM CoreInvariant == Spec => [](Typed /\ Core)
<1>1. Init => Typed /\ Core
    BY InitTyped, InitCore
<1>2. Typed /\ Core /\ [Next]_vars => (Typed /\ Core)'
    BY NextTyped, NextCore
<1> QED
    BY <1>1, <1>2, PTL DEF Spec

\* At most one attempt of a job is active, it is the last one, and it is the
\* one whose lease the job row carries: claimBackgroundJob, the commits, the
\* lease recovery, the repair and the cancellation guard never disagree.  And
\* every job that waits can be claimed: no sequence of retries, recoveries and
\* manual grants leaves a QUEUED or RETRY_SCHEDULED job without an attempt.
THEOREM AttemptsStayAccounted == Spec => []AttemptsAccounted
<1>1. Core => AttemptsAccounted
    BY DEF Core, AttemptsAccounted
<1> QED
    BY <1>1, CoreInvariant, PTL
=============================================================================
