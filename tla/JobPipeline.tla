---------------------------- MODULE JobPipeline ----------------------------
(***************************************************************************)
(* The background job pipeline: producers enqueue into the outbox,         *)
(* dispatchers publish to pg-boss, workers run handlers under a lease,     *)
(* reconcilers repair what the others left behind, administrators cancel   *)
(* and retry.  The components share the rows of JobState.                  *)
(***************************************************************************)
EXTENDS JobDispatch, JobReconciliation, JobOperations

Dispatch(d) ==
  \/ \E j \in Jobs : LeasePendingOutbox(d, j)
  \/ Publish(d) \/ MarkOutboxDispatched(d)
  \/ FailDispatch(d) \/ CrashDispatcher(d)

RunHandler(w) ==
  \/ \E j \in Jobs : ReceiveDelivery(w, j)
  \/ LoadOwnedJob(w) \/ CheckResult(w) \/ IgnoreDelivery(w)
  \/ MakeRetryDue(w) \/ Reload(w)
  \/ ClaimBackgroundJob(w) \/ ClaimRefused(w)
  \/ \E next \in {"running", "heartbeat", "stage"} : CallGuard(w, next)
  \/ GuardPasses(w) \/ GuardCancels(w) \/ LeaseLost(w)
  \/ HeartbeatBackgroundJob(w)
  \/ \E s \in handlerStages : RecordBackgroundJobStage(w, s)
  \/ HandlerReturns(w) \/ HandlerThrows(w)
  \/ CommitJobSuccess(w)
  \/ \E next \in {"RETRY_SCHEDULED", "FAILED_ATTENTION"} : CommitJobFailure(w, next)
  \/ SettlementRefused(w) \/ AbandonLease(w) \/ DeliveryFails(w) \/ CrashWorker(w)

Reconcile(r) ==
  \/ \E j \in Jobs : ScanStrandedDelivery(r, j) \/ ScanResultCandidate(r, j)
  \/ RequeueStrandedDelivery(r)
  \/ InspectResult(r) \/ FlagAmbiguousJob(r) \/ RepairCommittedResult(r)

Repair(j) ==
  \/ RecoverExpiredLease(j) \/ RecoverCancelledLease(j)
  \/ RequeueDueRetry(j) \/ RepairMissingOutbox(j)

Operate(j) ==
  \/ Enqueue(j)
  \/ CancelWaiting(j) \/ RequestCancellation(j) \/ RetryBackgroundJob(j)

Clock(j) ==
  \/ OutboxBecomesDue(j) \/ DispatchLeaseExpires(j) \/ DispatchOverrunsLease(j)
  \/ DispatchAges(j)
  \/ DeliveryExpires(j) \/ DeliveryPurged(j)
  \/ LeaseExpires(j) \/ RetryBecomesDue(j) \/ SideResult(j)

Next ==
  \/ \E d \in Dispatchers : Dispatch(d)
  \/ \E w \in Workers : RunHandler(w)
  \/ \E r \in Reconcilers : Reconcile(r)
  \/ \E j \in Jobs : Repair(j) \/ Operate(j) \/ Clock(j)

Spec == Init /\ [][Next]_vars

-----------------------------------------------------------------------------
(* Safety.                                                                 *)

\* The rows, the deliveries and every actor's local state have their types.
TypeOK ==
  /\ job \in [Jobs -> JobRows]
  /\ attempt \in [Jobs -> [AttemptNumbers -> jobAttemptStates \cup {"NONE"}]]
  /\ outbox \in [Jobs -> OutboxRows]
  /\ delivery \in [Jobs -> Workers \cup {None, Created}]
  /\ result \in [Jobs -> (0..AttemptLimit) \cup {Elsewhere}]
  /\ worker \in [Workers -> WorkerStates]
  /\ dispatcher \in [Dispatchers -> DispatcherStates]
  /\ reconciler \in [Reconcilers -> ReconcilerStates]
  /\ faults \in 0..FaultBudget

\* A job is PROCESSING exactly while it has a lease, the lease is the last
\* attempt's, and that attempt is the only ACTIVE one: concurrent deliveries,
\* lost leases and recoveries never leave two attempts running in the record.
OneActiveAttempt ==
  \A j \in Jobs :
    /\ job[j].state = "PROCESSING" <=> job[j].leaseId # 0
    /\ job[j].leaseId \in {0, job[j].attemptCount}
    /\ \A n \in AttemptNumbers :
         /\ attempt[j][n] = "ACTIVE" <=> job[j].leaseId = n
         /\ attempt[j][n] = "NONE" <=> n > job[j].attemptCount

\* A job that waits for a worker can be claimed: claimBackgroundJob's
\* ATTEMPTS_EXHAUSTED, which would leave a QUEUED job ignored by every delivery
\* forever, is never the answer.
WaitingJobsHaveBudget ==
  \A j \in Jobs :
    /\ job[j].attemptCount <= job[j].maxAttempts
    /\ job[j].state \in {"QUEUED", "RETRY_SCHEDULED"}
         => job[j].attemptCount < job[j].maxAttempts

\* What the record says of attempts: never two at work, and never a job that
\* waits for one it cannot have, whatever retries, recoveries and grants come
\* between claims.
AttemptsAccounted == OneActiveAttempt /\ WaitingJobsHaveBudget

\* A result an attempt committed belongs to a SUCCEEDED job and to the one
\* attempt recorded as SUCCEEDED: no stale lease and no cancelled or failed
\* attempt leaves a result behind.
ResultMatchesAttempt ==
  \A j \in Jobs :
    /\ result[j] \in AttemptNumbers =>
         job[j].state = "SUCCEEDED" /\ attempt[j][result[j]] = "SUCCEEDED"
    /\ j \notin SideResultJobs /\ job[j].state = "SUCCEEDED"
         => result[j] \in AttemptNumbers

\* A cancellation request survives only on a job that is still to be cancelled
\* or already is; it is never on a job that can run again.
CancellationIsFinal ==
  \A j \in Jobs : job[j].cancellationRequested
                    => job[j].state \in {"PROCESSING", "CANCELLED"}

\* The job's dispatch status and its outbox row tell the same story, although
\* markOutboxDispatched writes the status without comparing the job's version.
\* Two cases are apart: a job found without an outbox row may be cancelled before
\* it gets one, and the repair of a committed result cancels the row alone.
RepairedJob(j) == j \in InspectedJobs /\ job[j].state = "SUCCEEDED"

DispatchStatusAgrees ==
  \A j \in EnqueuedJobs \ LegacyJobs : RepairedJob(j) \/
    /\ outbox[j].cancelled <=> job[j].dispatchStatus = "CANCELLED"
    /\ job[j].dispatchStatus = "DISPATCHED" <=> outbox[j].dispatched /\ ~outbox[j].cancelled

\* What stale scans repair, flag or republish neither undoes a cancellation nor
\* sets a job and its outbox row at odds.
RepairsAreSound == CancellationIsFinal /\ DispatchStatusAgrees

-----------------------------------------------------------------------------
(* What a step may never do.                                               *)

\* A lease that has not expired ends only by a step of the worker that holds it.
HealthyLeaseKept(j) ==
  (job[j].leaseId # 0 /\ ~job[j].leaseExpired /\ job'[j].leaseId # job[j].leaseId)
    => \E w \in Workers : /\ worker[w].job = j
                          /\ worker[w].lease = job[j].leaseId
                          /\ worker'[w] # worker[w]
NeverStealsHealthyLease == [][\A j \in Jobs : HealthyLeaseKept(j)]_vars

-----------------------------------------------------------------------------
(* Liveness.  Faults are finite (FaultBudget); the worker polls, the       *)
(* reconciliation loop ticks, time passes, and a handler that is not       *)
(* interrupted returns or throws.                                          *)

WorkerProgress(w) ==
  \/ LoadOwnedJob(w) \/ CheckResult(w) \/ IgnoreDelivery(w)
  \/ MakeRetryDue(w) \/ Reload(w)
  \/ ClaimBackgroundJob(w) \/ ClaimRefused(w)
  \/ GuardPasses(w) \/ GuardCancels(w) \/ LeaseLost(w)
  \/ HeartbeatBackgroundJob(w)
  \/ \E s \in handlerStages : RecordBackgroundJobStage(w, s)
  \/ CommitJobSuccess(w)
  \/ \E next \in {"RETRY_SCHEDULED", "FAILED_ATTENTION"} : CommitJobFailure(w, next)
  \/ SettlementRefused(w)

Fairness ==
  /\ \A j \in Jobs : /\ SF_vars(\E d \in Dispatchers : LeasePendingOutbox(d, j))
                     /\ SF_vars(\E w \in Workers : ReceiveDelivery(w, j))
                     /\ SF_vars(\E r \in Reconcilers : ScanStrandedDelivery(r, j))
                     /\ WF_vars(Repair(j))
                     /\ WF_vars(OutboxBecomesDue(j) \/ RetryBecomesDue(j))
                     /\ WF_vars(DispatchLeaseExpires(j))
                     /\ WF_vars(DispatchAges(j))
                     /\ WF_vars(DeliveryExpires(j))
                     /\ WF_vars(LeaseExpires(j))
  /\ \A d \in Dispatchers : WF_vars(Publish(d) \/ MarkOutboxDispatched(d))
  /\ \A w \in Workers : /\ WF_vars(WorkerProgress(w))
                        /\ SF_vars(HandlerReturns(w) \/ HandlerThrows(w))
  /\ \A r \in Reconcilers : WF_vars(RequeueStrandedDelivery(r) \/ InspectResult(r)
                                    \/ FlagAmbiguousJob(r) \/ RepairCommittedResult(r))

LiveSpec == Spec /\ Fairness

\* Every job that waits is eventually settled: it succeeds, it is cancelled, or
\* it asks for attention; whatever crashes and lost deliveries come in between.
EveryJobSettles ==
  \A j \in Jobs : job[j].state \in {"QUEUED", "RETRY_SCHEDULED"}
                    ~> job[j].state \in terminalBackgroundJobStates

\* A cancellation that was accepted takes effect.
CancellationTakesEffect ==
  \A j \in Jobs : job[j].cancellationRequested ~> job[j].state = "CANCELLED"

-----------------------------------------------------------------------------
(* The pipeline implements JobContract as long as no result inspector may  *)
(* settle a job past its handler.                                          *)

Contract == INSTANCE JobContract WITH
  status    <- [j \in Jobs |-> job[j].state],
  used      <- [j \in Jobs |-> job[j].attemptCount],
  granted   <- [j \in Jobs |-> job[j].maxAttempts],
  asked     <- [j \in Jobs |-> job[j].cancellationRequested],
  committed <- [j \in Jobs |-> j \notin SideResultJobs /\ result[j] # 0]

\* Through every interleaving of deliveries, recoveries, dispatches and
\* commands, a job is seen to take only the steps JobContract promises.
ImplementsContract == Contract!Spec

-----------------------------------------------------------------------------
(* What the domain handlers are given.  The modules of the handlers        *)
(* (InstagramSync, AnalysisRun, StrategyGeneration, ...) do not run the    *)
(* pipeline: they move rows of HandlerJobs.  Such a row is what is left of *)
(* a job when the waiting for a retry, the outbox, the delivery and the    *)
(* attempts beyond the first LEASE_EXPIRED one are forgotten.              *)

Handlers == INSTANCE HandlerJobs WITH MaxAttempts <- DefaultMaxAttempts

HandlerRow(j) ==
  [state   |-> IF job[j].state = "RETRY_SCHEDULED" THEN "QUEUED" ELSE job[j].state,
   attempt |-> job[j].attemptCount,
   cancel  |-> job[j].cancellationRequested,
   expired |-> \E n \in AttemptNumbers : attempt[j][n] = "LEASE_EXPIRED"]

HandlerRowMoves(j) ==
  HandlerRow(j)' # HandlerRow(j) => Handlers!JobMove(HandlerRow(j), HandlerRow(j)')

\* Whatever deliveries, recoveries, settlements and commands interleave, a
\* handler's job takes only the steps the modules of the handlers let it take:
\* one attempt at a time, no settlement of a job that was asked to stop, and no
\* automatic retry of an attempt that an operator granted beyond the budget.
HandlersSeeTheirJobs == [][\A j \in Jobs : HandlerRowMoves(j)]_vars

=============================================================================
