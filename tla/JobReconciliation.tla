-------------------------- MODULE JobReconciliation --------------------------
(***************************************************************************)
(* reconcileBackgroundJobs (packages/db/src/job-reconciliation.ts) and the *)
(* lease recovery it calls.  A tick scans for the jobs each rule concerns  *)
(* and then repairs them one transaction per job.  Where the transaction   *)
(* repeats the whole scan condition the scan adds nothing and the rule is  *)
(* one action; where it does not (stranded deliveries, result candidates)  *)
(* the scan is an action of its own and its reading may be stale.  A scan  *)
(* that finds a job in one rule and not in another leaves every order of   *)
(* the rules on one job possible over successive ticks.                    *)
(***************************************************************************)
EXTENDS JobExecution

\* A mutant of Recoverable: a healthy lease is taken over.
RecoverableBeforeExpiry(j) ==
  /\ job[j].state = "PROCESSING"
  /\ ~job[j].cancellationRequested

\* An expired lease whose job goes on.
Recoverable(j) ==
  /\ job[j].state = "PROCESSING"
  /\ job[j].leaseExpired
  /\ ~job[j].cancellationRequested

\* A mutant of Exhausted: one attempt too many.
ExhaustedPastTheLast(j) == job[j].attemptCount > job[j].maxAttempts

Exhausted(j) == job[j].attemptCount >= job[j].maxAttempts

\* recoverExpiredBackgroundJobLease without a cancellation request: back to
\* QUEUED for redelivery, or FAILED_ATTENTION when that was the last attempt.
RecoverExpiredLease(j) ==
  /\ Recoverable(j)
  /\ job' = [job EXCEPT ![j] =
               [@ EXCEPT !.state = IF Exhausted(j) THEN "FAILED_ATTENTION" ELSE "QUEUED",
                         !.stage = IF Exhausted(j) THEN "failed_attention" ELSE "queued",
                         !.dispatchStatus = IF Exhausted(j) THEN job[j].dispatchStatus
                                                       ELSE "PENDING",
                         !.leaseId = 0, !.leaseExpired = FALSE]]
  /\ outbox' = IF Exhausted(j) \/ ~outbox[j].present \/ outbox[j].cancelled
                 THEN outbox
                 ELSE [outbox EXCEPT ![j] = PendingOutbox]
  /\ attempt' = [attempt EXCEPT ![j][job[j].leaseId] = "LEASE_EXPIRED"]
  /\ UNCHANGED <<delivery, result, worker, dispatcher, reconciler, faults>>

\* A mutant of CancelledRecoverable: the outbox filter of the other branch.
CancelledRecoverableIfUndelivered(j) ==
  /\ job[j].state = "PROCESSING"
  /\ job[j].leaseExpired
  /\ job[j].cancellationRequested
  /\ ~outbox[j].cancelled

\* An expired lease whose job was asked to stop.
CancelledRecoverable(j) ==
  /\ job[j].state = "PROCESSING"
  /\ job[j].leaseExpired
  /\ job[j].cancellationRequested

RecoverCancelledLease(j) ==
  /\ CancelledRecoverable(j)
  /\ SettleCancellation(j, job[j].reconciliationCode)
  /\ UNCHANGED <<delivery, result, worker, dispatcher, reconciler, faults>>

RequeueDueRetry(j) ==
  /\ job[j].state = "RETRY_SCHEDULED"
  /\ job[j].retryDue
  /\ job' = [job EXCEPT ![j] =
               [@ EXCEPT !.state = "QUEUED", !.stage = "queued",
                         !.retryDue = FALSE, !.dispatchStatus = "PENDING"]]
  /\ outbox' = [outbox EXCEPT ![j] = PendingOutbox]
  /\ UNCHANGED <<attempt, delivery, result, worker, dispatcher, reconciler, faults>>

RepairMissingOutbox(j) ==
  /\ job[j].state = "QUEUED"
  /\ ~outbox[j].present
  /\ outbox' = [outbox EXCEPT ![j] = PendingOutbox]
  /\ UNCHANGED <<job, attempt, delivery, result, worker, dispatcher, reconciler, faults>>

-----------------------------------------------------------------------------
(* Stranded deliveries: the scan asks for the age, the repair does not.    *)

Undelivered(j) ==
  /\ job[j].state = "QUEUED"
  /\ job[j].leaseId = 0
  /\ outbox[j].present
  /\ ~outbox[j].cancelled
  /\ outbox[j].dispatched

ScanStrandedDelivery(r, j) ==
  /\ reconciler[r].pc = "idle"
  /\ Undelivered(j)
  /\ outbox[j].aged
  /\ reconciler' = [reconciler EXCEPT ![r] =
                      [IdleReconciler EXCEPT !.pc = "stranded", !.job = j]]
  /\ UNCHANGED <<job, attempt, outbox, delivery, result, worker, dispatcher, faults>>

RequeueStrandedDelivery(r) ==
  /\ reconciler[r].pc = "stranded"
  /\ LET j == reconciler[r].job IN
       IF Undelivered(j)
         THEN /\ job' = [job EXCEPT ![j].dispatchStatus = "PENDING"]
              /\ outbox' = [outbox EXCEPT ![j] = PendingOutbox]
         ELSE UNCHANGED <<job, outbox>>
  /\ reconciler' = [reconciler EXCEPT ![r] = IdleReconciler]
  /\ UNCHANGED <<attempt, delivery, result, worker, dispatcher, faults>>

-----------------------------------------------------------------------------
(* Result candidates: the state and the request are those of the scan, the *)
(* result is inspected later, and flagAmbiguousJob repeats neither.        *)

ScanResultCandidate(r, j) ==
  /\ reconciler[r].pc = "idle"
  /\ j \in InspectedJobs
  /\ job[j].state # "ABSENT"
  /\ reconciler' = [reconciler EXCEPT ![r] =
                      [pc |-> "candidate", job |-> j, seen |-> job[j].state,
                       seenCancellation |-> job[j].cancellationRequested]]
  /\ UNCHANGED <<job, attempt, outbox, delivery, result, worker, dispatcher, faults>>

\* What the tick does with a candidate, by what it knows of it.
CandidateVerdict(seen, seenCancellation, exists) ==
  CASE ~exists /\ seen = "SUCCEEDED"                                  -> "missing"
    [] exists /\ seen # "SUCCEEDED"
              /\ (seen = "FAILED_ATTENTION" \/ seenCancellation)      -> "conflict"
    [] exists /\ seen \notin {"SUCCEEDED", "FAILED_ATTENTION"}
              /\ ~seenCancellation                                    -> "repair"
    [] OTHER                                                          -> "idle"

InspectResult(r) ==
  /\ reconciler[r].pc = "candidate"
  /\ LET c == reconciler[r]
         verdict == CandidateVerdict(c.seen, c.seenCancellation, result[c.job] # 0)
     IN reconciler' = [reconciler EXCEPT ![r] =
                         IF verdict = "idle" THEN IdleReconciler
                         ELSE [IdleReconciler EXCEPT !.pc = verdict, !.job = c.job]]
  /\ UNCHANGED <<job, attempt, outbox, delivery, result, worker, dispatcher, faults>>

FlagAmbiguousJob(r) ==
  /\ reconciler[r].pc \in {"missing", "conflict"}
  /\ job' = [job EXCEPT ![reconciler[r].job].reconciliationCode =
               IF reconciler[r].pc = "missing" THEN "SUCCEEDED_RESULT_MISSING"
                                               ELSE "TERMINAL_RESULT_CONFLICT"]
  /\ reconciler' = [reconciler EXCEPT ![r] = IdleReconciler]
  /\ UNCHANGED <<attempt, outbox, delivery, result, worker, dispatcher, faults>>

\* A mutant of Repairable: a cancellation request is overlooked.
RepairableDespiteCancellation(j) ==
  job[j].state \in {"QUEUED", "PROCESSING", "RETRY_SCHEDULED"}

Repairable(j) ==
  /\ job[j].state \in {"QUEUED", "PROCESSING", "RETRY_SCHEDULED"}
  /\ ~job[j].cancellationRequested

RepairCommittedResult(r) ==
  /\ reconciler[r].pc = "repair"
  /\ LET j == reconciler[r].job IN
       IF Repairable(j)
         THEN /\ job' = [job EXCEPT ![j] =
                           [@ EXCEPT !.state = "SUCCEEDED", !.stage = "completed",
                                     !.leaseId = 0, !.leaseExpired = FALSE,
                                     !.retryDue = FALSE,
                                     !.reconciliationCode = "NONE"]]
              /\ attempt' = IF job[j].leaseId = 0 THEN attempt
                            ELSE [attempt EXCEPT ![j][job[j].leaseId] = "SUCCEEDED"]
              /\ outbox' = [outbox EXCEPT ![j] = CancelledOutbox(@)]
         ELSE UNCHANGED <<job, attempt, outbox>>
  /\ reconciler' = [reconciler EXCEPT ![r] = IdleReconciler]
  /\ UNCHANGED <<delivery, result, worker, dispatcher, faults>>
=============================================================================
