----------------------------- MODULE HandlerJobs -----------------------------
(***************************************************************************)
(* What a domain handler sees of the job pipeline (modules JobState to     *)
(* JobPipeline have the detail): its row, the attempt that holds the       *)
(* lease, and the settlement of a failure by its class.  Waiting for a     *)
(* retry, the outbox and the delivery are one state here, QUEUED.          *)
(***************************************************************************)
EXTENDS Naturals

CONSTANT MaxAttempts   \* max_attempts a producer enqueues with

ASSUME MaxAttemptsAssumption == MaxAttempts \in Nat \ {0}

\* expired: some job_attempt of the job is LEASE_EXPIRED.
AbsentJob == [state |-> "ABSENT", attempt |-> 0, cancel |-> FALSE, expired |-> FALSE]

\* enqueueBackgroundJob: a key that already has a job is not enqueued again.
Enqueue(row) == IF row.state = "ABSENT" THEN [row EXCEPT !.state = "QUEUED"] ELSE row

\* claimBackgroundJob.
Claimable(row) == row.state = "QUEUED"
Claim(row) == [row EXCEPT !.state = "PROCESSING", !.attempt = @ + 1]

\* A lease is named by the attempt it was given to.
HoldsLease(row, n) == row.state = "PROCESSING" /\ row.attempt = n

\* Every heartbeat and recorded stage passes this guard first.
MayContinue(row, n) == HoldsLease(row, n) /\ ~row.cancel

Complete(row) == [row EXCEPT !.state = "SUCCEEDED"]

\* cancelBackgroundJob asks a running attempt to stop; a job that waits, or
\* whose attempt has found the request, is cancelled.
RequestCancel(row) == [row EXCEPT !.cancel = TRUE]
CancelJob(row) == [row EXCEPT !.state = "CANCELLED", !.cancel = TRUE]

\* The two outcomes of commitJobFailure.
RetryLater(row) == [row EXCEPT !.state = "QUEUED"]
GiveUp(row) == [row EXCEPT !.state = "FAILED_ATTENTION"]

\* maximumAttemptsByClass, with an unrecoverable CREDENTIAL as the handlers
\* raise it.  Delays and the 24 hour horizon are not modelled here.
AttemptsAllowed(class) ==
  CASE class = "RATE_LIMIT"      -> 8
    [] class = "TRANSIENT"       -> 5
    [] class = "DATABASE"        -> 3
    [] class = "SEMANTIC_OUTPUT" -> 2
    [] OTHER                     -> 1

\* commitJobFailure with decideJobRetry's verdict; an attempt that lost its
\* lease, or was asked to stop, settles nothing.
SettleFailure(row, n, class) ==
  IF ~MayContinue(row, n) THEN row
  ELSE IF n < MaxAttempts /\ n < AttemptsAllowed(class)
    THEN RetryLater(row)
    ELSE GiveUp(row)

\* reconcileBackgroundJobs on an expired lease: the attempt of a job that was
\* asked to stop ends CANCELLED, any other LEASE_EXPIRED.
RecoverLease(row) ==
  [row EXCEPT !.expired = @ \/ ~row.cancel,
              !.state = IF row.cancel THEN "CANCELLED"
                        ELSE IF row.attempt < MaxAttempts THEN "QUEUED"
                        ELSE "FAILED_ATTENTION"]

\* retryBackgroundJob by an operator.
RetryByOperator(row) == [row EXCEPT !.state = "QUEUED"]

\* Everything the pipeline may do to the row of a job in one step, as a handler
\* sees it; JobPipeline shows that it does nothing else.
JobMove(row, next) ==
  \/ row.state = "ABSENT" /\ next = Enqueue(row)
  \/ Claimable(row) /\ next = Claim(row)
  \/ MayContinue(row, row.attempt) /\ next \in {Complete(row), GiveUp(row)}
  \/ MayContinue(row, row.attempt) /\ row.attempt < MaxAttempts /\ next = RetryLater(row)
  \/ row.state = "PROCESSING" /\ next \in {RecoverLease(row), RequestCancel(row)}
  \/ row.state = "QUEUED" /\ next = CancelJob(row)
  \/ row.state = "PROCESSING" /\ row.cancel /\ next = CancelJob(row)
  \/ row.state = "FAILED_ATTENTION" /\ next = RetryByOperator(row)

Terminal(row) == row.state \in {"SUCCEEDED", "FAILED_ATTENTION", "CANCELLED"}

JobRows(limit) ==
  [state : {"ABSENT", "QUEUED", "PROCESSING", "SUCCEEDED", "FAILED_ATTENTION", "CANCELLED"},
   attempt : 0..limit, cancel : BOOLEAN, expired : BOOLEAN]
=============================================================================
