---------------------------- MODULE JobOperations ----------------------------
(***************************************************************************)
(* What an administrator may do to a job                                   *)
(* (packages/db/src/job-operations.ts).  Each command is one transaction;  *)
(* a refusal writes only an audit event and is not a step here.            *)
(***************************************************************************)
EXTENDS JobState

\* cancelBackgroundJob before a worker holds the job.
CancelWaiting(j) ==
  /\ job[j].state \in {"QUEUED", "RETRY_SCHEDULED"}
  /\ ~job[j].cancellationRequested
  /\ job' = [job EXCEPT ![j] =
               [@ EXCEPT !.state = "CANCELLED", !.stage = "cancelled",
                         !.cancellationRequested = TRUE, !.retryDue = FALSE,
                         !.dispatchStatus = "CANCELLED",
                         !.reconciliationCode = "NONE"]]
  /\ outbox' = [outbox EXCEPT ![j] = CancelledOutbox(@)]
  /\ UNCHANGED <<attempt, delivery, result, worker, dispatcher, reconciler, faults>>

\* cancelBackgroundJob while one does: a request, accepted only at the stages
\* before any external effect.
RequestCancellation(j) ==
  /\ job[j].state = "PROCESSING"
  /\ ~job[j].cancellationRequested
  /\ job[j].stage \in safeProcessingCancellationStages
  /\ job' = [job EXCEPT ![j] =
               [@ EXCEPT !.cancellationRequested = TRUE,
                         !.dispatchStatus = "CANCELLED"]]
  /\ outbox' = [outbox EXCEPT ![j] = CancelledOutbox(@)]
  /\ UNCHANGED <<attempt, delivery, result, worker, dispatcher, reconciler, faults>>

\* A mutant of GrantedAttempts: two attempts more, the second an automatic retry.
GrantedTwoAttempts(row) ==
  IF row.maxAttempts >= row.attemptCount + 2 THEN row.maxAttempts
                                             ELSE row.attemptCount + 2

\* retryBackgroundJob's Math.max(job.maxAttempts, job.attemptCount + 1).
GrantedAttempts(row) ==
  IF row.maxAttempts >= row.attemptCount + 1 THEN row.maxAttempts
                                             ELSE row.attemptCount + 1

Retryable(j) ==
  /\ job[j].state = "FAILED_ATTENTION"
  /\ job[j].reconciliationCode = "NONE"
  /\ result[j] = 0
  /\ GrantedAttempts(job[j]) <= AttemptLimit

\* retryBackgroundJob on a failed job that is not flagged and has no result.
RetryBackgroundJob(j) ==
  /\ Retryable(j)
  /\ job' = [job EXCEPT ![j] =
               [@ EXCEPT !.state = "QUEUED", !.stage = "queued",
                         !.maxAttempts = GrantedAttempts(job[j]),
                         !.cancellationRequested = FALSE,
                         !.dispatchStatus = "PENDING"]]
  /\ outbox' = [outbox EXCEPT ![j] = PendingOutbox]
  /\ UNCHANGED <<attempt, delivery, result, worker, dispatcher, reconciler, faults>>
=============================================================================
