---------------------------- MODULE JobExecution ----------------------------
(***************************************************************************)
(* runIdempotentJobHandler and the transactions it is made of              *)
(* (packages/db/src/job-execution.ts), run by a worker slot for one        *)
(* delivery.  Every await between two transactions is a place where other  *)
(* actors step: what the worker read before it (seen, seenDue, lease,      *)
(* budget) is kept in its own state and may be stale.                      *)
(***************************************************************************)
EXTENDS JobState

\* pg-boss hands a created delivery to a free slot.
ReceiveDelivery(w, j) ==
  /\ worker[w].pc = "idle"
  /\ delivery[j] = Created
  /\ delivery' = [delivery EXCEPT ![j] = w]
  /\ worker' = [worker EXCEPT ![w] = [IdleWorker EXCEPT !.pc = "load", !.job = j]]
  /\ UNCHANGED <<job, attempt, outbox, result, dispatcher, reconciler, faults>>

\* The handler returned or threw: with retryLimit 0 both end the delivery, if
\* it is still the one this worker holds, and free the slot.
EndDelivery(w) ==
  /\ worker' = [worker EXCEPT ![w] = IdleWorker]
  /\ delivery' = [j \in Jobs |->
                    IF j = worker[w].job /\ delivery[j] = w THEN None
                                                            ELSE delivery[j]]

LoadOwnedJob(w) ==
  /\ worker[w].pc = "load"
  /\ LET row == job[worker[w].job] IN
       worker' = [worker EXCEPT ![w] =
                    [@ EXCEPT !.pc = "check", !.seen = row.state,
                              !.seenDue = row.retryDue]]
  /\ UNCHANGED <<job, attempt, outbox, delivery, result, dispatcher, reconciler, faults>>

\* What the early returns leave over: a job read as QUEUED, or as
\* RETRY_SCHEDULED and due, whose result does not exist.
Proceeds(w) ==
  /\ result[worker[w].job] = 0
  /\ \/ worker[w].seen = "QUEUED"
     \/ worker[w].seen = "RETRY_SCHEDULED" /\ worker[w].seenDue

\* resultExists, a read of its own, and the branches on the state read before.
CheckResult(w) ==
  /\ worker[w].pc = "check"
  /\ Proceeds(w)
  /\ worker' = [worker EXCEPT ![w] =
                  [@ EXCEPT !.pc = IF worker[w].seen = "QUEUED" THEN "claim" ELSE "release",
                            !.seen = "none", !.seenDue = FALSE]]
  /\ UNCHANGED <<job, attempt, outbox, delivery, result, dispatcher, reconciler, faults>>

\* Deduplicated, ignored, or refused as inconsistent: the job row is untouched
\* whichever it is.
IgnoreDelivery(w) ==
  /\ worker[w].pc = "check"
  /\ ~Proceeds(w)
  /\ EndDelivery(w)
  /\ UNCHANGED <<job, attempt, outbox, result, dispatcher, reconciler, faults>>

\* makeBackgroundJobRetryDue: it leaves dispatch status and outbox alone.
MakeRetryDue(w) ==
  /\ worker[w].pc = "release"
  /\ LET j == worker[w].job IN
       job' = IF job[j].state = "RETRY_SCHEDULED" /\ job[j].retryDue
                THEN [job EXCEPT ![j] =
                        [@ EXCEPT !.state = "QUEUED", !.stage = "queued",
                                  !.retryDue = FALSE]]
                ELSE job
  /\ worker' = [worker EXCEPT ![w].pc = "reload"]
  /\ UNCHANGED <<attempt, outbox, delivery, result, dispatcher, reconciler, faults>>

\* The second loadOwnedJob: only PROCESSING is turned away here, anything else
\* is left to the claim.
Reload(w) ==
  /\ worker[w].pc = "reload"
  /\ IF job[worker[w].job].state = "PROCESSING"
       THEN EndDelivery(w)
       ELSE /\ worker' = [worker EXCEPT ![w].pc = "claim"]
            /\ UNCHANGED delivery
  /\ UNCHANGED <<job, attempt, outbox, result, dispatcher, reconciler, faults>>

\* A mutant of Claimable: the state is left out of the compare-and-swap.
ClaimableInAnyState(j) == job[j].attemptCount < job[j].maxAttempts

\* claimBackgroundJob's conditions: anything else is an ignored delivery.
Claimable(j) ==
  /\ job[j].state = "QUEUED"
  /\ job[j].attemptCount < job[j].maxAttempts

\* claimBackgroundJob, once the concurrency gate has let the worker through.
ClaimBackgroundJob(w) ==
  /\ worker[w].pc = "claim"
  /\ LET j == worker[w].job
         n == job[j].attemptCount + 1
     IN /\ Claimable(j)
        /\ job' = [job EXCEPT ![j] =
                     [@ EXCEPT !.state = "PROCESSING", !.stage = "starting",
                               !.attemptCount = n, !.leaseId = n,
                               !.leaseExpired = FALSE]]
        /\ attempt' = [attempt EXCEPT ![j][n] = "ACTIVE"]
        /\ worker' = [worker EXCEPT ![w] =
                        [@ EXCEPT !.pc = "guard", !.then = "running",
                                  !.lease = n, !.budget = job[j].maxAttempts]]
  /\ UNCHANGED <<outbox, delivery, result, dispatcher, reconciler, faults>>

ClaimRefused(w) ==
  /\ worker[w].pc = "claim"
  /\ ~Claimable(worker[w].job)
  /\ EndDelivery(w)
  /\ UNCHANGED <<job, attempt, outbox, result, dispatcher, reconciler, faults>>

\* where: { leaseId, state: "PROCESSING" }
HoldsLease(w) ==
  /\ job[worker[w].job].state = "PROCESSING"
  /\ job[worker[w].job].leaseId = worker[w].lease

-----------------------------------------------------------------------------
(* The handler: it may heartbeat, record a stage, or check for a           *)
(* cancellation any number of times; each of the three passes the          *)
(* cancellation guard in a transaction of its own first.                   *)

CallGuard(w, next) ==
  /\ worker[w].pc = "running"
  /\ worker' = [worker EXCEPT ![w] = [@ EXCEPT !.pc = "guard", !.then = next]]
  /\ UNCHANGED <<job, attempt, outbox, delivery, result, dispatcher, reconciler, faults>>

GuardPasses(w) ==
  /\ worker[w].pc = "guard"
  /\ HoldsLease(w)
  /\ ~job[worker[w].job].cancellationRequested
  /\ worker' = [worker EXCEPT ![w] = [@ EXCEPT !.pc = worker[w].then, !.then = "running"]]
  /\ UNCHANGED <<job, attempt, outbox, delivery, result, dispatcher, reconciler, faults>>

\* The rows once a requested cancellation takes effect: the guard clears the
\* reconciliation flag, the recovery of an expired lease leaves it.
SettleCancellation(j, code) ==
  /\ job' = [job EXCEPT ![j] =
               [@ EXCEPT !.state = "CANCELLED", !.stage = "cancelled",
                         !.leaseId = 0, !.leaseExpired = FALSE,
                         !.dispatchStatus = "CANCELLED",
                         !.reconciliationCode = code]]
  /\ attempt' = [attempt EXCEPT ![j][job[j].leaseId] = "CANCELLED"]
  /\ outbox' = [outbox EXCEPT ![j] = CancelledOutbox(@)]

\* throwIfBackgroundJobCancellationRequested with a request to honour.
GuardCancels(w) ==
  /\ worker[w].pc = "guard"
  /\ HoldsLease(w)
  /\ LET j == worker[w].job IN
       /\ job[j].cancellationRequested
       /\ SettleCancellation(j, "NONE")
  /\ EndDelivery(w)
  /\ UNCHANGED <<result, dispatcher, reconciler, faults>>

\* Any of the three transactions finds the lease gone and throws
\* JobLeaseLostError out of the handler.
LeaseLost(w) ==
  /\ worker[w].pc \in {"guard", "heartbeat", "stage"}
  /\ ~HoldsLease(w)
  /\ worker' = [worker EXCEPT ![w] = [@ EXCEPT !.pc = "settle", !.then = "running"]]
  /\ UNCHANGED <<job, attempt, outbox, delivery, result, dispatcher, reconciler, faults>>

\* An expired lease that nobody recovered yet is extended like a healthy one.
HeartbeatBackgroundJob(w) ==
  /\ worker[w].pc = "heartbeat"
  /\ HoldsLease(w)
  /\ job' = [job EXCEPT ![worker[w].job].leaseExpired = FALSE]
  /\ worker' = [worker EXCEPT ![w].pc = "running"]
  /\ UNCHANGED <<attempt, outbox, delivery, result, dispatcher, reconciler, faults>>

\* updateActiveAttempt asks for the lease and the state, not for the absence of
\* a cancellation request; the lease is not extended.
RecordBackgroundJobStage(w, s) ==
  /\ worker[w].pc = "stage"
  /\ HoldsLease(w)
  /\ job' = [job EXCEPT ![worker[w].job].stage = s]
  /\ worker' = [worker EXCEPT ![w].pc = "running"]
  /\ UNCHANGED <<attempt, outbox, delivery, result, dispatcher, reconciler, faults>>

HandlerReturns(w) ==
  /\ worker[w].pc = "running"
  /\ worker' = [worker EXCEPT ![w].pc = "commit"]
  /\ UNCHANGED <<job, attempt, outbox, delivery, result, dispatcher, reconciler, faults>>

HandlerThrows(w) ==
  /\ worker[w].pc \in executingPcs
  /\ worker' = [worker EXCEPT ![w] = [@ EXCEPT !.pc = "settle", !.then = "running"]]
  /\ UNCHANGED <<job, attempt, outbox, delivery, result, dispatcher, reconciler, faults>>

-----------------------------------------------------------------------------
(* Settlement.                                                             *)

\* A mutant of Settleable: the lease is not looked at.
SettleableWithoutLease(w) == ~job[worker[w].job].cancellationRequested

\* The where clause of both commits.
Settleable(w) ==
  /\ HoldsLease(w)
  /\ ~job[worker[w].job].cancellationRequested

\* commitJobSuccess: state, result and attempt in one transaction.
CommitJobSuccess(w) ==
  /\ worker[w].pc = "commit"
  /\ Settleable(w)
  /\ LET j == worker[w].job IN
       /\ job' = [job EXCEPT ![j] =
                    [@ EXCEPT !.state = "SUCCEEDED", !.stage = "completed",
                              !.leaseId = 0, !.leaseExpired = FALSE]]
       /\ result' = [result EXCEPT ![j] = IF @ = Elsewhere THEN @ ELSE worker[w].lease]
       /\ attempt' = [attempt EXCEPT ![j][worker[w].lease] = "SUCCEEDED"]
  /\ EndDelivery(w)
  /\ UNCHANGED <<outbox, dispatcher, reconciler, faults>>

\* commitJobFailure with decideJobRetry's verdict.  RETRY needs an attempt left
\* in the budget read at the claim; the failure class, the attempts it allows
\* and the 24 hour horizon may turn any failure into FAILED_ATTENTION.
CommitJobFailure(w, next) ==
  /\ worker[w].pc = "settle"
  /\ Settleable(w)
  /\ next = "RETRY_SCHEDULED" => worker[w].lease < worker[w].budget
  /\ LET j == worker[w].job IN
       /\ job' = [job EXCEPT ![j] =
                    [@ EXCEPT !.state = next,
                              !.stage = IF next = "RETRY_SCHEDULED"
                                          THEN "retry_scheduled"
                                          ELSE "failed_attention",
                              !.leaseId = 0, !.leaseExpired = FALSE]]
       /\ attempt' = [attempt EXCEPT ![j][worker[w].lease] = next]
  /\ EndDelivery(w)
  /\ UNCHANGED <<outbox, result, dispatcher, reconciler, faults>>

\* Either commit finds its lease lost or a cancellation requested: the
\* transaction has no effect and the error leaves the delivery failed.
SettlementRefused(w) ==
  /\ worker[w].pc \in {"commit", "settle"}
  /\ ~Settleable(w)
  /\ EndDelivery(w)
  /\ UNCHANGED <<job, attempt, outbox, result, dispatcher, reconciler, faults>>

\* Shutdown aborted the signal, so a thrown error is LEASE_ABANDONED: the lease
\* stays until it expires.
AbandonLease(w) ==
  /\ worker[w].pc = "settle"
  /\ Fault
  /\ EndDelivery(w)
  /\ UNCHANGED <<job, attempt, outbox, result, dispatcher, reconciler>>

\* A database error or an aborted wait for the concurrency gate, outside the
\* handler's own try block: nothing is settled, the delivery fails.
DeliveryFails(w) ==
  /\ worker[w].pc \in {"load", "check", "release", "reload", "claim", "commit", "settle"}
  /\ Fault
  /\ EndDelivery(w)
  /\ UNCHANGED <<job, attempt, outbox, result, dispatcher, reconciler>>

\* The process dies; pg-boss still believes the delivery active.
CrashWorker(w) ==
  /\ worker[w].pc # "idle"
  /\ Fault
  /\ worker' = [worker EXCEPT ![w] = IdleWorker]
  /\ UNCHANGED <<job, attempt, outbox, delivery, result, dispatcher, reconciler>>

-----------------------------------------------------------------------------
(* The clock, and results that are not this handler's.                     *)

LeaseExpires(j) ==
  /\ job[j].leaseId # 0 /\ ~job[j].leaseExpired
  /\ job' = [job EXCEPT ![j].leaseExpired = TRUE]
  /\ UNCHANGED <<attempt, outbox, delivery, result, worker, dispatcher, reconciler, faults>>

RetryBecomesDue(j) ==
  /\ job[j].state = "RETRY_SCHEDULED" /\ ~job[j].retryDue
  /\ job' = [job EXCEPT ![j].retryDue = TRUE]
  /\ UNCHANGED <<attempt, outbox, delivery, result, worker, dispatcher, reconciler, faults>>

\* asset.cleanup's resultExists is "the upload intent is no longer PENDING",
\* which the user completing or aborting the upload makes true as well.
SideResult(j) ==
  /\ j \in SideResultJobs
  /\ job[j].state # "ABSENT"
  /\ result[j] = 0
  /\ result' = [result EXCEPT ![j] = Elsewhere]
  /\ UNCHANGED <<job, attempt, outbox, delivery, worker, dispatcher, reconciler, faults>>
=============================================================================
