---------------------------- MODULE JobDispatch ----------------------------
(***************************************************************************)
(* The transactional outbox (packages/db/src/background-jobs.ts) and the   *)
(* pg-boss queue it publishes to (packages/queue/src/queue.ts).            *)
(* reconcileJobOutbox leases the due rows in one statement and then runs   *)
(* dispatchOutboxRecord for each: publish, which is not part of any        *)
(* database transaction, and markOutboxDispatched, which is one.  Another  *)
(* actor may step between any two of the three.                            *)
(***************************************************************************)
EXTENDS JobState

\* enqueueBackgroundJob: createMany with skipDuplicates for the job and for its
\* outbox row, in one transaction.  A repeated key finds both and changes nothing.
Enqueue(j) ==
  /\ \/ job[j].state = "ABSENT"
     \/ ~outbox[j].present
  /\ job' = [job EXCEPT ![j] = IF @.state = "ABSENT" THEN NewJob ELSE @]
  /\ outbox' = [outbox EXCEPT ![j] = IF @.present THEN @ ELSE PendingOutbox]
  /\ UNCHANGED <<attempt, delivery, result, worker, dispatcher, reconciler, faults>>

\* A mutant of Dispatchable: the lease of a dispatcher that died blocks the row.
DispatchableUnleasedOnly(j) ==
  /\ outbox[j].present
  /\ ~outbox[j].dispatched
  /\ ~outbox[j].cancelled
  /\ outbox[j].due
  /\ outbox[j].leaseId = None

\* leasePendingOutbox's candidate predicate.
Dispatchable(j) ==
  /\ outbox[j].present
  /\ ~outbox[j].dispatched
  /\ ~outbox[j].cancelled
  /\ outbox[j].due
  /\ outbox[j].leaseId = None \/ outbox[j].leaseExpired

LeasePendingOutbox(d, j) ==
  /\ dispatcher[d].pc = "idle"
  /\ Dispatchable(j)
  /\ outbox' = [outbox EXCEPT ![j] = [@ EXCEPT !.leaseId = d, !.leaseExpired = FALSE]]
  /\ dispatcher' = [dispatcher EXCEPT ![d] = [pc |-> "publish", job |-> j]]
  /\ UNCHANGED <<job, attempt, delivery, result, worker, reconciler, faults>>

\* PgBossQueue.publish: the singleton key of the exclusive policy collapses
\* publishes while a delivery of the same job is created or active; send then
\* returns null and publish still reports success.
Publish(d) ==
  /\ dispatcher[d].pc = "publish"
  /\ LET j == dispatcher[d].job IN
       delivery' = [delivery EXCEPT ![j] = IF @ = None THEN Created ELSE @]
  /\ dispatcher' = [dispatcher EXCEPT ![d].pc = "mark"]
  /\ UNCHANGED <<job, attempt, outbox, result, worker, reconciler, faults>>

\* A mutant of OwnsOutbox: the row is found by its id and dispatchedAt alone.
OwnsOutboxById(d, j) ==
  /\ outbox[j].present
  /\ ~outbox[j].dispatched

\* The where clause markOutboxDispatched and the failure path share.
OwnsOutbox(d, j) ==
  /\ outbox[j].present
  /\ ~outbox[j].dispatched
  /\ ~outbox[j].cancelled
  /\ outbox[j].leaseId = d

\* markOutboxDispatched: the job's dispatch status follows only when the outbox
\* row was still this dispatcher's.  A lost lease is reported as success too.
MarkOutboxDispatched(d) ==
  /\ dispatcher[d].pc = "mark"
  /\ LET j == dispatcher[d].job IN
       IF OwnsOutbox(d, j)
         THEN /\ outbox' = [outbox EXCEPT ![j] =
                              [@ EXCEPT !.dispatched = TRUE, !.aged = FALSE,
                                        !.leaseId = None, !.leaseExpired = FALSE]]
              /\ job' = [job EXCEPT ![j].dispatchStatus = "DISPATCHED"]
         ELSE UNCHANGED <<outbox, job>>
  /\ dispatcher' = [dispatcher EXCEPT ![d] = IdleDispatcher]
  /\ UNCHANGED <<attempt, delivery, result, worker, reconciler, faults>>

\* publish threw, or the marking transaction did after a publish that succeeded:
\* the lease is given back and the row waits failureDelayMs.
FailDispatch(d) ==
  /\ dispatcher[d].pc \in {"publish", "mark"}
  /\ Fault
  /\ LET j == dispatcher[d].job IN
       outbox' = IF OwnsOutbox(d, j)
                   THEN [outbox EXCEPT ![j] =
                           [@ EXCEPT !.due = FALSE, !.leaseId = None,
                                     !.leaseExpired = FALSE]]
                   ELSE outbox
  /\ dispatcher' = [dispatcher EXCEPT ![d] = IdleDispatcher]
  /\ UNCHANGED <<job, attempt, delivery, result, worker, reconciler>>

\* The process stops, or the best-effort release fails too: the expiring lease
\* is all that remains.
CrashDispatcher(d) ==
  /\ dispatcher[d].pc # "idle"
  /\ Fault
  /\ dispatcher' = [dispatcher EXCEPT ![d] = IdleDispatcher]
  /\ UNCHANGED <<job, attempt, outbox, delivery, result, worker, reconciler>>

-----------------------------------------------------------------------------
(* The clock and pg-boss.                                                  *)

OutboxBecomesDue(j) ==
  /\ outbox[j].present /\ ~outbox[j].due
  /\ outbox' = [outbox EXCEPT ![j].due = TRUE]
  /\ UNCHANGED <<job, attempt, delivery, result, worker, dispatcher, reconciler, faults>>

\* A dispatcher is still at work on the record it leased.
Dispatching(j) ==
  \E d \in Dispatchers : /\ outbox[j].leaseId = d
                         /\ dispatcher[d].pc # "idle"
                         /\ dispatcher[d].job = j

\* The 30 second lease of a dispatch that died runs out.
DispatchLeaseExpires(j) ==
  /\ outbox[j].leaseId # None /\ ~outbox[j].leaseExpired
  /\ ~Dispatching(j)
  /\ outbox' = [outbox EXCEPT ![j].leaseExpired = TRUE]
  /\ UNCHANGED <<job, attempt, delivery, result, worker, dispatcher, reconciler, faults>>

\* A dispatch outlives its lease and goes on.
DispatchOverrunsLease(j) ==
  /\ outbox[j].leaseId # None /\ ~outbox[j].leaseExpired
  /\ Dispatching(j)
  /\ Fault
  /\ outbox' = [outbox EXCEPT ![j].leaseExpired = TRUE]
  /\ UNCHANGED <<job, attempt, delivery, result, worker, dispatcher, reconciler>>

\* queueDeliveryExpirySeconds pass since dispatched_at.
DispatchAges(j) ==
  /\ outbox[j].dispatched /\ ~outbox[j].aged
  /\ outbox' = [outbox EXCEPT ![j].aged = TRUE]
  /\ UNCHANGED <<job, attempt, delivery, result, worker, dispatcher, reconciler, faults>>

\* An active delivery runs into expireInSeconds or stops heartbeating; with
\* retryLimit 0 it fails and frees the singleton key.  Its handler may go on.
DeliveryExpires(j) ==
  /\ delivery[j] \in Workers
  /\ delivery' = [delivery EXCEPT ![j] = None]
  /\ UNCHANGED <<job, attempt, outbox, result, worker, dispatcher, reconciler, faults>>

\* A created delivery outlives retentionSeconds without a worker fetching it.
DeliveryPurged(j) ==
  /\ delivery[j] = Created
  /\ Fault
  /\ delivery' = [delivery EXCEPT ![j] = None]
  /\ UNCHANGED <<job, attempt, outbox, result, worker, dispatcher, reconciler>>
=============================================================================
