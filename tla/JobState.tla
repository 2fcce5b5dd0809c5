------------------------------ MODULE JobState ------------------------------
(***************************************************************************)
(* The rows a background job lives in, and what every component that       *)
(* changes them shares: the background_job row, its job_attempt rows, its  *)
(* one job_outbox row, the pg-boss delivery of it, and the domain result   *)
(* its handler commits.                                                    *)
(*                                                                         *)
(* Timestamps are abstracted to the comparison the code makes with them:   *)
(* leaseExpired is lease_expires_at <= now, retryDue and due are           *)
(* next_attempt_at <= now, aged is dispatched_at <= now - 900s.  Each flag *)
(* is raised by a step of the clock (module JobPipeline) and lowered by    *)
(* the write that moves the timestamp.  lease_id is a fresh UUID per claim *)
(* and job_attempt carries the same one, so a lease is named by its        *)
(* attempt number, 0 standing for null.  The version column is not         *)
(* modelled: every transaction below that reads and then updates a row     *)
(* compares the version, so it is one atomic step or it has no effect.     *)
(***************************************************************************)
EXTENDS Naturals, FiniteSets

CONSTANTS
  Jobs,           \* domain job identities
  Workers,        \* handler slots: one delivery at a time each
  Dispatchers,    \* one outbox record at a time each
  Reconcilers,    \* reconciliation loops, one per worker process
  None,           \* null reference
  Created,        \* a pg-boss delivery that waits for a worker
  Elsewhere,      \* a result that no attempt of the job committed
  DefaultMaxAttempts, \* max_attempts a producer enqueues with
  AttemptLimit,       \* ceiling of max_attempts (100 in the code)
  FaultBudget,        \* infrastructure faults a behaviour may contain
  LegacyJobs,     \* jobs found QUEUED with no outbox row at start
  InspectedJobs,  \* jobs for which a result inspector is registered
  SideResultJobs  \* jobs whose result predicate others can make true

ASSUME DomainAssumption ==
  /\ None \notin Jobs \cup Workers \cup Dispatchers \cup {Created}
  /\ Created \notin Workers
  /\ Elsewhere \notin 0..AttemptLimit
  /\ LegacyJobs \subseteq Jobs
  /\ InspectedJobs \subseteq Jobs
  /\ SideResultJobs \subseteq Jobs

ASSUME BoundAssumption ==
  /\ AttemptLimit \in Nat
  /\ DefaultMaxAttempts \in 1..AttemptLimit
  /\ FaultBudget \in Nat

VARIABLES
  job,        \* [Jobs -> background_job row]
  attempt,    \* [Jobs -> [attempt number -> job_attempt state]]
  outbox,     \* [Jobs -> job_outbox row]
  delivery,   \* [Jobs -> None, Created, or the worker that holds it active]
  result,     \* [Jobs -> attempt that committed the result, Elsewhere, or 0]
  worker,     \* [Workers -> progress of runIdempotentJobHandler]
  dispatcher, \* [Dispatchers -> progress of dispatchOutboxRecord]
  reconciler, \* [Reconcilers -> what its last scan read]
  faults      \* infrastructure faults still to come

vars == <<job, attempt, outbox, delivery, result, worker, dispatcher,
          reconciler, faults>>

backgroundJobStates ==
  {"QUEUED", "PROCESSING", "RETRY_SCHEDULED", "SUCCEEDED",
   "FAILED_ATTENTION", "CANCELLED"}

terminalBackgroundJobStates == {"SUCCEEDED", "FAILED_ATTENTION", "CANCELLED"}

jobAttemptStates ==
  {"ACTIVE", "SUCCEEDED", "RETRY_SCHEDULED", "FAILED_ATTENTION",
   "LEASE_EXPIRED", "CANCELLED"}

\* The stages a handler records while PROCESSING, by what cancelBackgroundJob
\* tells apart: "starting" stands for the three cancellable ones, "generating"
\* for every stage that may already have had an external effect.
safeProcessingCancellationStages == {"starting"}
handlerStages == safeProcessingCancellationStages \cup {"generating"}

stages == handlerStages \cup
  {"queued", "retry_scheduled", "failed_attention", "completed", "cancelled"}

reconciliationCodes ==
  {"NONE", "SUCCEEDED_RESULT_MISSING", "TERMINAL_RESULT_CONFLICT"}

AttemptNumbers == 1..AttemptLimit

\* state "ABSENT" is a job that no producer has enqueued yet.
JobRows ==
  [state: backgroundJobStates \cup {"ABSENT"}, stage: stages,
   attemptCount: 0..AttemptLimit, maxAttempts: AttemptNumbers,
   leaseId: 0..AttemptLimit, leaseExpired: BOOLEAN, retryDue: BOOLEAN,
   cancellationRequested: BOOLEAN,
   dispatchStatus: {"PENDING", "DISPATCHED", "CANCELLED"},
   reconciliationCode: reconciliationCodes]

OutboxRows ==
  [present: BOOLEAN, due: BOOLEAN, dispatched: BOOLEAN, aged: BOOLEAN,
   cancelled: BOOLEAN, leaseId: Dispatchers \cup {None},
   leaseExpired: BOOLEAN]

\* A row as enqueueBackgroundJob inserts it: every other column has its default.
NewJob == [state |-> "QUEUED", stage |-> "queued", attemptCount |-> 0,
           maxAttempts |-> DefaultMaxAttempts, leaseId |-> 0,
           leaseExpired |-> FALSE, retryDue |-> FALSE,
           cancellationRequested |-> FALSE, dispatchStatus |-> "PENDING",
           reconciliationCode |-> "NONE"]

\* An outbox row as inserted, and as resetOutbox and retryBackgroundJob leave it.
PendingOutbox == [present |-> TRUE, due |-> TRUE, dispatched |-> FALSE,
                  aged |-> FALSE, cancelled |-> FALSE, leaseId |-> None,
                  leaseExpired |-> FALSE]

NoOutbox == [PendingOutbox EXCEPT !.present = FALSE, !.due = FALSE]

\* updateMany({ data: { cancelledAt, leaseExpiresAt: null, leaseId: null } }):
\* no row, no effect.
CancelledOutbox(row) ==
  IF row.present
    THEN [row EXCEPT !.cancelled = TRUE, !.leaseId = None,
                     !.leaseExpired = FALSE]
    ELSE row

EnqueuedJobs == {j \in Jobs : job[j].state # "ABSENT"}

IdleWorker == [pc |-> "idle", job |-> None, seen |-> "none", seenDue |-> FALSE,
               lease |-> 0, budget |-> 0, then |-> "running"]

\* pc while the handler function itself runs, under a lease.
executingPcs == {"guard", "running", "heartbeat", "stage"}
leasedPcs == executingPcs \cup {"settle", "commit"}
workerPcs == leasedPcs \cup {"idle", "load", "check", "release", "reload", "claim"}

WorkerStates ==
  [pc: workerPcs, job: Jobs \cup {None},
   seen: backgroundJobStates \cup {"ABSENT", "none"}, seenDue: BOOLEAN,
   lease: 0..AttemptLimit, budget: 0..AttemptLimit,
   then: {"running", "heartbeat", "stage"}]

IdleDispatcher == [pc |-> "idle", job |-> None]
DispatcherStates == [pc: {"idle", "publish", "mark"}, job: Jobs \cup {None}]

IdleReconciler == [pc |-> "idle", job |-> None, seen |-> "none",
                   seenCancellation |-> FALSE]
ReconcilerStates ==
  [pc: {"idle", "stranded", "candidate", "missing", "conflict", "repair"},
   job: Jobs \cup {None}, seen: backgroundJobStates \cup {"ABSENT", "none"},
   seenCancellation: BOOLEAN]

Init ==
  /\ job = [j \in Jobs |->
              IF j \in LegacyJobs THEN NewJob
                                  ELSE [NewJob EXCEPT !.state = "ABSENT"]]
  /\ attempt = [j \in Jobs |-> [n \in AttemptNumbers |-> "NONE"]]
  /\ outbox = [j \in Jobs |-> NoOutbox]
  /\ delivery = [j \in Jobs |-> None]
  /\ result = [j \in Jobs |-> 0]
  /\ worker = [w \in Workers |-> IdleWorker]
  /\ dispatcher = [d \in Dispatchers |-> IdleDispatcher]
  /\ reconciler = [r \in Reconcilers |-> IdleReconciler]
  /\ faults = FaultBudget

\* A step that some outside failure causes.
Fault == faults > 0 /\ faults' = faults - 1
=============================================================================
