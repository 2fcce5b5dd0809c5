------------------------- MODULE AnalyticsRunsProofs -------------------------
(***************************************************************************)
(* RunsConsistent, PublishedScopesStayPublished and                        *)
(* AccountPublicationsAdvance, proved for any number of accounts, workers, *)
(* families and attempts, and any number of changes and faults.            *)
(*                                                                         *)
(* A published set is replaced by one that another worker has prepared     *)
(* over many steps, most of them outside any transaction.  So the          *)
(* inductive invariant follows a run from the worker that started it to    *)
(* the commit that publishes it: nobody else writes to it, it stays        *)
(* BUILDING, and what the commit has read as the previous runs are runs of *)
(* its own scope.  That a slow attempt publishes nothing old rests on the  *)
(* account's marker: it names the one job that may still commit.           *)
(***************************************************************************)
EXTENDS AnalyticsRuns, FiniteSetTheorems, TLAPS

\* A worker between starting a run and publishing it.
Building(w) == worker[w].pc \in {"store", "activate", "publish"}

WorkerPlaced(w) ==
  LET r == worker[w].run IN
  /\ worker[w].pc # "idle" => Key(w) \in Keys
  /\ ~ Building(w) => r = 0
  /\ worker[w].startedAt <= clock
  /\ Building(w) => /\ r \in DOMAIN runs
                    /\ runs[r].scope = Scope(w)
                    /\ runs[r].state = "BUILDING"
                    /\ runs[r].startedAt = worker[w].startedAt
  /\ worker[w].pc = "store" => runs[r].stored < runs[r].expected
  /\ worker[w].pc = "publish" =>
       \A p \in worker[w].previous : /\ p \in DOMAIN runs
                                     /\ runs[p].scope = Scope(w)
                                     /\ runs[p].state \in {"ACTIVE", "SUPERSEDED"}

WorkersPlaced ==
  /\ \A w \in Workers : WorkerPlaced(w)
  /\ \A v, w \in Workers :
       v # w /\ Building(v) /\ Building(w) => worker[v].run # worker[w].run

RunSound(r) ==
  /\ runs[r].state = "ACTIVE" => runs[r].stored = runs[r].expected
  /\ runs[r].startedAt <= clock

OneActive ==
  \A r, q \in DOMAIN runs :
    runs[r].state = "ACTIVE" /\ runs[q].state = "ACTIVE" /\ runs[r].scope = runs[q].scope
      => r = q

RunsSound == OneActive /\ \A r \in DOMAIN runs : RunSound(r)

\* A job that waits for a claim has an attempt left to be claimed with.
JobsSound == \A k \in Keys : job[k].state = "QUEUED" => job[k].left > 0

\* While a worker holds the job of an account, nobody else publishes there.
NotOvertaken(w) ==
  worker[w].pc \notin {"idle", "load"} /\ Scope(w) \in Accounts /\ Holds(w)
    => \A r \in Active(Scope(w)) : runs[r].startedAt <= worker[w].startedAt

Consistent ==
  /\ TypeOK
  /\ JobsSound
  /\ WorkersPlaced
  /\ RunsSound
  /\ AccountJobsSerialised
  /\ \A w \in Workers : NotOvertaken(w)

-----------------------------------------------------------------------------
(* What a step that leaves their variables alone cannot disturb.           *)

LEMMA Frame ==
  ASSUME Consistent
  PROVE  /\ UNCHANGED job => JobsSound'
         /\ UNCHANGED <<runs, worker, clock>> => WorkersPlaced'
         /\ UNCHANGED <<runs, clock>> => RunsSound'
         /\ UNCHANGED <<job, dirty>> => AccountJobsSerialised'
         /\ UNCHANGED <<job, runs, worker>> => \A w \in Workers : NotOvertaken(w)'
<1> USE DEF Consistent
<1>1. UNCHANGED job => JobsSound'
    BY DEF JobsSound
<1>2. UNCHANGED <<runs, worker, clock>> => WorkersPlaced'
    BY DEF WorkersPlaced, WorkerPlaced, Building, Key, Scope
<1>3. UNCHANGED <<runs, clock>> => RunsSound'
    BY DEF RunsSound, OneActive, RunSound
<1>4. UNCHANGED <<job, dirty>> => AccountJobsSerialised'
    BY DEF AccountJobsSerialised, Unfinished
<1>5. UNCHANGED <<job, runs, worker>> => \A w \in Workers : NotOvertaken(w)'
    BY DEF NotOvertaken, Holds, Key, Scope, Active
<1> QED
    BY <1>1, <1>2, <1>3, <1>4, <1>5

-----------------------------------------------------------------------------
(* A worker's row.                                                         *)

LEMMA IdleTyped == Idle \in WorkerStates
  BY RunsAssumption DEF Idle, WorkerStates, Measurements, Nothing

LEMMA RowsTyped ==
  ASSUME NEW row \in WorkerStates,
         NEW pc \in {"idle", "load", "posts", "snapshots", "start", "store", "activate",
                     "publish", "clear", "nothing"}
  PROVE  /\ [row EXCEPT !.pc = pc] \in WorkerStates
         /\ \A k \in Keys : [row EXCEPT !.pc = pc, !.key = k] \in WorkerStates
         /\ \A d, t \in 0..MaxChanges :
              [row EXCEPT !.pc = pc, !.dirtySince = d, !.startedAt = t] \in WorkerStates
         /\ \A m \in Measurements : [row EXCEPT !.pc = pc, !.read = m] \in WorkerStates
         /\ \A r \in Nat : [row EXCEPT !.pc = pc, !.run = r] \in WorkerStates
         /\ \A p \in SUBSET Nat : [row EXCEPT !.pc = pc, !.previous = p] \in WorkerStates
  BY DEF WorkerStates

LEMMA WorkerMoves ==
  ASSUME TypeOK, NEW w \in Workers, NEW row \in WorkerStates,
         worker' = [worker EXCEPT ![w] = row]
  PROVE  /\ worker' \in [Workers -> WorkerStates]
         /\ worker'[w] = row
         /\ \A v \in Workers \ {w} : worker'[v] = worker[v]
  BY DEF TypeOK

\* A step takes no run away from the workers other than w, and gives no other
\* worker's run a new scope, start or state.
RunsKept(w) ==
  /\ DOMAIN runs' = DOMAIN runs
  /\ \A r \in DOMAIN runs :
       /\ runs'[r].scope = runs[r].scope /\ runs'[r].startedAt = runs[r].startedAt
       /\ runs'[r].stored = runs[r].stored /\ runs'[r].expected = runs[r].expected
       /\ runs[r].state \in {"ACTIVE", "SUPERSEDED"}
            => runs'[r].state \in {"ACTIVE", "SUPERSEDED"}
       /\ runs[r].state = "BUILDING" /\ r # worker[w].run => runs'[r].state = "BUILDING"

\* A worker that drops what it was doing.
LEMMA FreedWorkerPlaced ==
  ASSUME Consistent, NEW w \in Workers, worker' = [worker EXCEPT ![w] = Idle], RunsKept(w),
         UNCHANGED clock
  PROVE  WorkersPlaced'
<1>1. worker'[w] = Idle /\ \A v \in Workers \ {w} : worker'[v] = worker[v]
    BY IdleTyped, WorkerMoves DEF Consistent
<1>2. WorkerPlaced(w)'
    BY <1>1, RunsAssumption DEF WorkerPlaced, Building, Idle, Consistent, TypeOK
<1>3. ASSUME NEW v \in Workers \ {w} PROVE WorkerPlaced(v)'
  <2>1. worker'[v] = worker[v] /\ WorkerPlaced(v)
      BY <1>1 DEF Consistent, WorkersPlaced
  <2>2. Building(v) => worker[v].run # worker[w].run
    <3>1. CASE Building(w)
        BY <3>1 DEF Consistent, WorkersPlaced
    <3>2. CASE ~ Building(w)
        BY <3>2 DEF Consistent, TypeOK, WorkersPlaced, WorkerPlaced
    <3> QED
        BY <3>1, <3>2
  <2> QED
      BY <2>1, <2>2 DEF RunsKept, WorkerPlaced, Building, Key, Scope
<1>4. ASSUME NEW u \in Workers, NEW v \in Workers, u # v, Building(u)', Building(v)'
      PROVE  worker'[u].run # worker'[v].run
    BY <1>1, <1>4 DEF Consistent, WorkersPlaced, Building, Idle
<1> QED
    BY <1>2, <1>3, <1>4 DEF WorkersPlaced

-----------------------------------------------------------------------------
(* A job's row.                                                            *)

JobMoves(k, s) == job' = [job EXCEPT ![k].state = s, ![k].holder = None]

NoNewLease ==
  \A k \in Keys : \A w \in Workers :
    job'[k].state = "PROCESSING" /\ job'[k].holder = w
      => job[k].state = "PROCESSING" /\ job[k].holder = w

\* A job that ends, or waits again for the attempts it has left.
LEMMA JobMovesSoundly ==
  ASSUME Consistent, NEW k \in Keys, NEW s \in jobStates \ {"ABSENT", "PROCESSING"},
         s = "QUEUED" => job[k].left > 0, JobMoves(k, s)
  PROVE  /\ job' \in [Keys -> JobRows]
         /\ JobsSound'
         /\ NoNewLease
         /\ job'[k].state = s
         /\ \A l \in Keys \ {k} : job'[l] = job[l]
<1> DEFINE row == [job[k] EXCEPT !.state = s, !.holder = None]
<1>1. job[k] \in JobRows
    BY DEF Consistent, TypeOK
<1>2. row \in JobRows /\ row.state = s /\ row.holder = None /\ row.left = job[k].left
    BY <1>1 DEF JobRows
<1>3. job' = [job EXCEPT ![k] = row]
    BY DEF JobMoves, Consistent, TypeOK
<1> HIDE DEF row
<1>4. job' \in [Keys -> JobRows] /\ job'[k] = row /\ \A l \in Keys \ {k} : job'[l] = job[l]
    BY <1>2, <1>3 DEF Consistent, TypeOK
<1>5. JobsSound'
    BY <1>2, <1>4 DEF Consistent, JobsSound
<1>6. NoNewLease
    BY <1>2, <1>4, RunsAssumption DEF NoNewLease
<1> QED
    BY <1>2, <1>4, <1>5, <1>6

\* An attempt that has failed for a reason that may pass.
LEMMA RetrySound ==
  ASSUME Consistent, NEW k \in Keys, RetryOrExhaust(k)
  PROVE  \E s \in {"QUEUED", "FAILED_ATTENTION"} :
           JobMoves(k, s) /\ (s = "QUEUED" => job[k].left > 0)
<1> DEFINE s == IF job[k].left > 0 THEN "QUEUED" ELSE "FAILED_ATTENTION"
<1>1. JobMoves(k, s)
    BY DEF RetryOrExhaust, JobMoves, Consistent, TypeOK
<1> QED
    BY <1>1

\* Jobs for which a claim or a commit was still to come, and the marker they
\* were made for.
LEMMA SerialisedJobs ==
  ASSUME Consistent, UNCHANGED dirty,
         \A k \in Keys : Unfinished(k)' => Unfinished(k)
  PROVE  AccountJobsSerialised'
  BY DEF Consistent, AccountJobsSerialised

\* One account, one job: two unfinished jobs of an account are the same job.
LEMMA OneJob ==
  ASSUME Consistent, NEW k \in Keys, NEW l \in Keys, Unfinished(k), Unfinished(l),
         k.scope \in Accounts, k.scope = l.scope
  PROVE  k = l
<1>1. k.anchor = l.anchor
    BY DEF Consistent, AccountJobsSerialised
<1> QED
    BY <1>1 DEF Keys

\* The commit of a worker that holds its job: the job succeeds, and the marker it
\* was loaded with goes, if it is still there.
LEMMA CommitSettles ==
  ASSUME Consistent, NEW w \in Workers, worker[w].pc # "idle", Holds(w),
         Succeeded(Key(w)),
         IF Scope(w) = Pooled THEN UNCHANGED dirty
                              ELSE ClearMarker(Scope(w), worker[w].dirtySince)
  PROVE  /\ job' \in [Keys -> JobRows]
         /\ dirty' \in [Accounts -> 0..MaxChanges]
         /\ JobsSound'
         /\ NoNewLease
         /\ AccountJobsSerialised'
<1> DEFINE k == Key(w)
<1>1. k \in Keys /\ k.scope \in Scopes
    BY DEF Consistent, WorkersPlaced, WorkerPlaced, Keys
<1>2. /\ job' \in [Keys -> JobRows] /\ JobsSound' /\ NoNewLease
      /\ job'[k].state = "SUCCEEDED"
      /\ \A l \in Keys \ {k} : job'[l] = job[l]
  <2>1. JobMoves(k, "SUCCEEDED") /\ "SUCCEEDED" \in jobStates \ {"ABSENT", "PROCESSING"}
      BY DEF Succeeded, JobMoves, jobStates
  <2> HIDE DEF k
  <2> QED
      BY <1>1, <2>1, JobMovesSoundly
<1>3. dirty' \in [Accounts -> 0..MaxChanges]
  <2>1. CASE k.scope = Pooled
      BY <2>1 DEF Scope, Consistent, TypeOK
  <2>2. CASE k.scope # Pooled
    <3>1. 0 \in 0..MaxChanges
        BY RunsAssumption
    <3>2. ClearMarker(k.scope, worker[w].dirtySince)
        BY <2>2 DEF Scope
    <3> QED
        BY <3>1, <3>2 DEF ClearMarker, Consistent, TypeOK
  <2> QED
      BY <2>1, <2>2
<1>4. ASSUME NEW l \in Keys, l.scope \in Accounts, Unfinished(l)'
      PROVE  dirty'[l.scope] = l.anchor
  <2>1. l # k /\ Unfinished(l)
      BY <1>2, <1>4 DEF Unfinished
  <2>2. dirty[l.scope] = l.anchor
      BY <1>4, <2>1 DEF Consistent, AccountJobsSerialised
  <2>3. l.scope # k.scope
      BY <1>1, <1>4, <2>1, OneJob DEF Holds, Unfinished
  <2>4. dirty'[l.scope] = dirty[l.scope]
      BY <1>4, <2>3 DEF Scope, ClearMarker, Consistent, TypeOK
  <2> QED
      BY <2>2, <2>4
<1> QED
    BY <1>2, <1>3, <1>4 DEF AccountJobsSerialised

\* A change of the inputs starts a window, or leaves the one that is open.
LEMMA MarkedAccount ==
  ASSUME Consistent, NEW a \in Accounts, NEW t \in 0..MaxChanges,
         MarkAnalyticsDirty(a, t), UNCHANGED job
  PROVE  dirty' \in [Accounts -> 0..MaxChanges] /\ AccountJobsSerialised'
<1>1. dirty' \in [Accounts -> 0..MaxChanges]
    BY DEF MarkAnalyticsDirty, Consistent, TypeOK
<1>2. ASSUME NEW k \in Keys, k.scope \in Accounts, Unfinished(k)'
      PROVE  dirty'[k.scope] = k.anchor
  <2>1. dirty[k.scope] = k.anchor
      BY <1>2 DEF Consistent, AccountJobsSerialised, Unfinished
  <2>2. k.anchor # 0
      BY RunsAssumption DEF Keys, Changes
  <2> QED
      BY <1>2, <2>1, <2>2 DEF MarkAnalyticsDirty, Consistent, TypeOK
<1> QED
    BY <1>1, <1>2 DEF AccountJobsSerialised

-----------------------------------------------------------------------------
(* A step that leases no job and publishes nothing overtakes nobody.       *)

NothingPublished(s) ==
  \A r \in Active(s)' : r \in Active(s) /\ runs'[r].startedAt = runs[r].startedAt

\* A worker that goes on, at most, with the job it had and the time it started at.
GoesOn(w) ==
  \/ worker'[w].pc \in {"idle", "load"}
  \/ /\ worker[w].pc \notin {"idle", "load"}
     /\ worker'[w].key = worker[w].key /\ worker'[w].startedAt = worker[w].startedAt

LEMMA WorkerNotOvertaken ==
  ASSUME Consistent, NEW w \in Workers, GoesOn(w), Holds(w)' => Holds(w),
         \A a \in Accounts : Scope(w)' = a /\ Holds(w)' => NothingPublished(a)
  PROVE  NotOvertaken(w)'
<1> SUFFICES ASSUME worker'[w].pc \notin {"idle", "load"}, Scope(w)' \in Accounts, Holds(w)',
                    NEW r \in Active(Scope(w))'
             PROVE  runs'[r].startedAt <= worker'[w].startedAt
    BY DEF NotOvertaken
<1>1. /\ worker[w].pc \notin {"idle", "load"}
      /\ Key(w)' = Key(w) /\ Scope(w)' = Scope(w)
      /\ worker'[w].startedAt = worker[w].startedAt
    BY DEF GoesOn, Key, Scope
<1>2. Holds(w)
    OBVIOUS
<1>3. PICK a \in Accounts : a = Scope(w) /\ NothingPublished(a)
    BY <1>1
<1>4. r \in Active(a)'
    BY <1>1, <1>3 DEF Active
<1>5. r \in Active(a) /\ runs'[r].startedAt = runs[r].startedAt
    BY <1>3, <1>4 DEF NothingPublished
<1> QED
    BY <1>1, <1>2, <1>3, <1>5 DEF Consistent, NotOvertaken

LEMMA NobodyOvertaken ==
  ASSUME Consistent, NoNewLease, \A s \in Scopes : NothingPublished(s),
         \A w \in Workers : GoesOn(w), WorkersPlaced'
  PROVE  \A w \in Workers : NotOvertaken(w)'
<1> SUFFICES ASSUME NEW w \in Workers PROVE NotOvertaken(w)'
    OBVIOUS
<1>1. CASE worker'[w].pc \in {"idle", "load"}
    BY <1>1 DEF NotOvertaken
<1>2. CASE worker'[w].pc \notin {"idle", "load"}
  <2>1. Key(w)' = Key(w) /\ Key(w) \in Keys
      BY <1>2 DEF GoesOn, Key, Consistent, WorkersPlaced, WorkerPlaced
  <2>2. Holds(w)' => Holds(w)
      BY <2>1 DEF Holds, NoNewLease
  <2> QED
      BY <2>2, WorkerNotOvertaken DEF Scopes
<1> QED
    BY <1>1, <1>2

LEMMA SameRuns == UNCHANGED runs => \A s \in Scopes : NothingPublished(s)
  BY DEF NothingPublished, Active

LEMMA SameWorkers == UNCHANGED worker => \A w \in Workers : GoesOn(w)
  BY DEF GoesOn

LEMMA SameJobs == UNCHANGED job => NoNewLease
  BY DEF NoNewLease

-----------------------------------------------------------------------------
(* Input changes, sweeps, administrators.                                  *)

LEMMA ClockAdvances ==
  ASSUME Consistent, UNCHANGED <<runs, worker>>, clock' = clock + 1
  PROVE  RunsSound' /\ WorkersPlaced'
<1>1. \A r \in DOMAIN runs : runs[r].startedAt \in Int
  <2>1. \A r \in DOMAIN runs : runs[r] \in RunRows
      BY DEF Consistent, TypeOK
  <2> QED
      BY <2>1, RunsAssumption DEF RunRows
<1>2. clock \in Int /\ \A w \in Workers : worker[w].startedAt \in Int
  <2>1. \A w \in Workers : worker[w] \in WorkerStates
      BY DEF Consistent, TypeOK
  <2> QED
      BY <2>1 DEF WorkerStates, Consistent, TypeOK
<1>3. RunsSound'
    BY <1>1, <1>2 DEF Consistent, RunsSound, OneActive, RunSound
<1>4. WorkersPlaced'
    BY <1>2 DEF Consistent, WorkersPlaced, WorkerPlaced, Building, Key, Scope
<1> QED
    BY <1>3, <1>4

LEMMA RecordSnapshotConsistent ==
  ASSUME Consistent, NEW a \in Accounts, RecordSnapshot(a)
  PROVE  Consistent'
<1>1. clock' = clock + 1 /\ clock + 1 \in 0..MaxChanges
    BY RunsAssumption DEF RecordSnapshot, Consistent, TypeOK
<1>2. dirty' \in [Accounts -> 0..MaxChanges] /\ AccountJobsSerialised'
    BY <1>1, MarkedAccount DEF RecordSnapshot
<1>3. TypeOK'
    BY <1>1, <1>2 DEF RecordSnapshot, Consistent, TypeOK
<1> QED
    BY <1>1, <1>2, <1>3, ClockAdvances, Frame DEF RecordSnapshot, Consistent

LEMMA PublishAnalysisConsistent ==
  ASSUME Consistent, NEW a \in Accounts, PublishAnalysis(a)
  PROVE  Consistent'
<1>1. clock' = clock + 1 /\ clock + 1 \in 0..MaxChanges /\ 0 \in 0..MaxChanges
    BY RunsAssumption DEF PublishAnalysis, Consistent, TypeOK
<1>2. dirty' \in [Accounts -> 0..MaxChanges] /\ AccountJobsSerialised'
    BY <1>1, MarkedAccount DEF PublishAnalysis
<1>3. analysis' \in [Accounts -> 0..MaxChanges]
    BY <1>1 DEF PublishAnalysis, Consistent, TypeOK
<1>4. TypeOK'
    BY <1>1, <1>2, <1>3 DEF PublishAnalysis, Consistent, TypeOK
<1> QED
    BY <1>1, <1>2, <1>4, ClockAdvances, Frame DEF PublishAnalysis, Consistent

LEMMA ConnectionConsistent ==
  ASSUME Consistent, NEW a \in Accounts, Disconnect(a) \/ Reconnect(a)
  PROVE  Consistent'
<1>1. TypeOK'
    BY RunsAssumption DEF Disconnect, Reconnect, Operate, inputs, Consistent, TypeOK
<1> QED
    BY <1>1, Frame DEF Disconnect, Reconnect, inputs, Consistent

LEMMA EnqueueDueConsistent ==
  ASSUME Consistent, NEW k \in Keys, EnqueueDue(k)
  PROVE  Consistent'
<1> DEFINE row == [state |-> "QUEUED", holder |-> None, left |-> MaxAttempts]
<1>1. row \in JobRows /\ row.state = "QUEUED" /\ row.left > 0 /\ row.holder = None
    BY RunsAssumption DEF JobRows, jobStates
<1>2. job' = [job EXCEPT ![k] = row]
    BY DEF EnqueueDue
<1> HIDE DEF row
<1>3. job' \in [Keys -> JobRows] /\ job'[k] = row /\ \A l \in Keys \ {k} : job'[l] = job[l]
    BY <1>1, <1>2 DEF Consistent, TypeOK
<1>4. TypeOK'
    BY <1>3 DEF EnqueueDue, inputs, Consistent, TypeOK
<1>5. JobsSound'
    BY <1>1, <1>3 DEF Consistent, JobsSound
<1>6. k.scope \in Accounts => dirty[k.scope] = k.anchor
  <2>1. \/ \E a \in DueAccounts : k = [scope |-> a, anchor |-> dirty[a]]
        \/ k.scope = Pooled
    <3>1. k \in DueKeys
        BY DEF EnqueueDue
    <3>2. CASE k \in {[scope |-> a, anchor |-> dirty[a]] : a \in DueAccounts}
        BY <3>2
    <3>3. CASE k \in {[scope |-> Pooled, anchor |-> Max({dirty[a] : a \in D})] :
                        D \in SUBSET DueAccounts \ {{}}}
      <4>1. PICK D : k = [scope |-> Pooled, anchor |-> Max({dirty[a] : a \in D})]
          BY <3>3
      <4> QED
          BY <4>1
    <3> QED
        BY <3>1, <3>2, <3>3 DEF DueKeys
  <2> QED
      BY <2>1, RunsAssumption
<1>7. AccountJobsSerialised'
    BY <1>3, <1>6 DEF EnqueueDue, AccountJobsSerialised, Unfinished, Consistent
<1>8. NoNewLease
    BY <1>1, <1>3 DEF NoNewLease
<1>9. WorkersPlaced' /\ RunsSound'
    BY Frame DEF EnqueueDue, inputs
<1> QED
    BY <1>4, <1>5, <1>7, <1>8, <1>9, NobodyOvertaken, SameRuns, SameWorkers
    DEF EnqueueDue, Consistent

\* What administrators and the reconciler do to a job.
LEMMA JobConsistent ==
  ASSUME Consistent, NEW k \in Keys, NEW s \in {"QUEUED", "FAILED_ATTENTION", "CANCELLED"},
         s = "QUEUED" => job[k].left > 0, JobMoves(k, s), Unfinished(k),
         UNCHANGED <<inputs, dirty, connected, runs, worker>>,
         faults' \in 0..FaultBudget, operations' \in 0..OperatorBudget
  PROVE  Consistent'
<1>1. s \in jobStates \ {"ABSENT", "PROCESSING"}
    BY DEF jobStates
<1>2. /\ job' \in [Keys -> JobRows] /\ JobsSound' /\ NoNewLease
      /\ \A l \in Keys \ {k} : job'[l] = job[l]
    BY <1>1, JobMovesSoundly
<1>3. TypeOK'
    BY <1>2 DEF Consistent, TypeOK, inputs
<1>4. AccountJobsSerialised'
    BY <1>2, SerialisedJobs DEF Unfinished
<1>5. WorkersPlaced' /\ RunsSound'
    BY Frame DEF inputs
<1> QED
    BY <1>2, <1>3, <1>4, <1>5, NobodyOvertaken, SameRuns, SameWorkers DEF Consistent

LEMMA RecoverExpiredLeaseConsistent ==
  ASSUME Consistent, NEW k \in Keys, RecoverExpiredLease(k)
  PROVE  Consistent'
<1>1. faults' \in 0..FaultBudget /\ operations' \in 0..OperatorBudget
    BY RunsAssumption DEF RecoverExpiredLease, Fault, Consistent, TypeOK
<1>2. RetryOrExhaust(k) /\ Unfinished(k)
    BY DEF RecoverExpiredLease, Unfinished
<1> QED
    BY <1>1, <1>2, RetrySound, JobConsistent DEF RecoverExpiredLease

LEMMA CancelJobConsistent ==
  ASSUME Consistent, NEW k \in Keys, CancelJob(k)
  PROVE  Consistent'
<1>1. faults' \in 0..FaultBudget /\ operations' \in 0..OperatorBudget
    BY RunsAssumption DEF CancelJob, Operate, Consistent, TypeOK
<1>2. JobMoves(k, "CANCELLED") /\ Unfinished(k)
    BY DEF CancelJob, JobMoves, Starting, Unfinished
<1> QED
    BY <1>1, <1>2, JobConsistent DEF CancelJob

LEMMA RetryJobConsistent ==
  ASSUME Consistent, NEW k \in Keys, RetryJob(k)
  PROVE  Consistent'
<1> DEFINE n == IF job[k].left = 0 THEN 1 ELSE job[k].left
           row == [job[k] EXCEPT !.state = "QUEUED", !.left = n]
<1>1. job[k] \in JobRows /\ n \in 0..MaxAttempts /\ n > 0
    BY RunsAssumption DEF Consistent, TypeOK, JobRows
<1> HIDE DEF n
<1>2. row \in JobRows /\ row.state = "QUEUED" /\ row.left > 0
    BY <1>1 DEF JobRows, jobStates
<1> USE DEF n
<1>3. job' = [job EXCEPT ![k] = row]
    BY DEF RetryJob, Consistent, TypeOK
<1> HIDE DEF row, n
<1>4. job' \in [Keys -> JobRows] /\ job'[k] = row /\ \A l \in Keys \ {k} : job'[l] = job[l]
    BY <1>2, <1>3 DEF Consistent, TypeOK
<1>5. TypeOK'
    BY <1>4, RunsAssumption DEF RetryJob, Operate, inputs, Consistent, TypeOK
<1>6. JobsSound' /\ NoNewLease
    BY <1>2, <1>4 DEF JobsSound, NoNewLease, Consistent
<1>7. AccountJobsSerialised'
    BY <1>4, SerialisedJobs DEF RetryJob, Unfinished
<1>8. WorkersPlaced' /\ RunsSound'
    BY Frame DEF RetryJob, inputs
<1> QED
    BY <1>5, <1>6, <1>7, <1>8, NobodyOvertaken, SameRuns, SameWorkers DEF RetryJob, Consistent

-----------------------------------------------------------------------------
(* The handler's steps before it has a run.                                *)

LEMMA ClaimConsistent ==
  ASSUME Consistent, NEW w \in Workers, NEW k \in Keys, Claim(w, k)
  PROVE  Consistent'
<1> DEFINE row == [state |-> "PROCESSING", holder |-> w, left |-> job[k].left - 1]
           mine == [Idle EXCEPT !.pc = "load", !.key = k]
<1>1. row \in JobRows
  <2>1. job[k].left \in 0..MaxAttempts /\ job[k].left > 0
      BY DEF Claim, Consistent, TypeOK, JobRows, JobsSound
  <2> QED
      BY <2>1, RunsAssumption DEF JobRows, jobStates
<1>2. /\ mine \in WorkerStates
      /\ mine.pc = "load" /\ mine.key = k /\ mine.run = 0 /\ mine.startedAt = 0
  <2>1. mine \in WorkerStates
      BY IdleTyped, RowsTyped
  <2> QED
      BY <2>1 DEF Idle
<1>3. job' = [job EXCEPT ![k] = row] /\ row.state = "PROCESSING" /\ row.holder = w
    BY DEF Claim
<1>4. worker' = [worker EXCEPT ![w] = mine]
    BY DEF Claim
<1> HIDE DEF row, mine
<1>5. job' \in [Keys -> JobRows] /\ job'[k] = row /\ \A l \in Keys \ {k} : job'[l] = job[l]
    BY <1>1, <1>3 DEF Consistent, TypeOK
<1>6. /\ worker' \in [Workers -> WorkerStates] /\ worker'[w] = mine
      /\ \A v \in Workers \ {w} : worker'[v] = worker[v]
    BY <1>2, <1>4, WorkerMoves DEF Consistent
<1>7. TypeOK'
    BY <1>5, <1>6 DEF Claim, inputs, Consistent, TypeOK
<1>8. JobsSound'
    BY <1>3, <1>5 DEF Consistent, JobsSound
<1>9. WorkersPlaced'
  <2>1. WorkerPlaced(w)'
    <3>1. clock' >= 0
        BY RunsAssumption DEF Claim, inputs, Consistent, TypeOK
    <3> QED
        BY <1>2, <1>6, <3>1 DEF WorkerPlaced, Building, Key
  <2>2. \A v \in Workers \ {w} : WorkerPlaced(v)'
      BY <1>6 DEF Claim, inputs, Consistent, WorkersPlaced, WorkerPlaced, Building, Key, Scope
  <2>3. ASSUME NEW u \in Workers, NEW v \in Workers, u # v, Building(u)', Building(v)'
        PROVE  worker'[u].run # worker'[v].run
    <3>1. u # w /\ v # w
        BY <1>2, <1>6, <2>3 DEF Building
    <3> QED
        BY <1>6, <2>3, <3>1 DEF Consistent, WorkersPlaced, Building
  <2> QED
      BY <2>1, <2>2, <2>3 DEF WorkersPlaced
<1>10. RunsSound'
    BY Frame DEF Claim, inputs
<1>11. AccountJobsSerialised'
    BY <1>5, SerialisedJobs DEF Claim, Unfinished
<1>12. ASSUME NEW v \in Workers PROVE NotOvertaken(v)'
  <2>1. CASE v = w
      BY <1>2, <1>6, <2>1 DEF NotOvertaken
  <2>2. CASE v # w
    <3>1. worker'[v] = worker[v]
        BY <1>6, <2>2
    <3>2. CASE worker[v].pc \in {"idle", "load"}
        BY <3>1, <3>2 DEF NotOvertaken
    <3>3. CASE worker[v].pc \notin {"idle", "load"}
      <4>1. Key(v) \in Keys /\ Key(v)' = Key(v)
          BY <3>1, <3>3 DEF Consistent, WorkersPlaced, WorkerPlaced, Key
      <4>2. Holds(v)' => Holds(v)
          BY <1>3, <1>5, <2>2, <4>1 DEF Holds
      <4> QED
          BY <3>1, <3>3, <4>2, WorkerNotOvertaken, SameRuns DEF Claim, GoesOn, Scopes
    <3> QED
        BY <3>2, <3>3
  <2> QED
      BY <2>1, <2>2
<1> QED
    BY <1>7, <1>8, <1>9, <1>10, <1>11, <1>12 DEF Consistent

\* A step that only moves its worker.
LEMMA WorkerStepConsistent ==
  ASSUME Consistent, NEW w \in Workers, NEW row \in WorkerStates,
         worker' = [worker EXCEPT ![w] = row],
         UNCHANGED <<inputs, dirty, connected, job, runs, faults, operations>>,
         WorkerPlaced(w)', Building(w)' => Building(w) /\ row.run = worker[w].run,
         NotOvertaken(w)'
  PROVE  Consistent'
<1>1. /\ worker' \in [Workers -> WorkerStates] /\ worker'[w] = row
      /\ \A v \in Workers \ {w} : worker'[v] = worker[v]
    BY WorkerMoves DEF Consistent
<1>2. TypeOK'
    BY <1>1 DEF Consistent, TypeOK, inputs
<1>3. \A v \in Workers : WorkerPlaced(v)'
    BY <1>1 DEF inputs, Consistent, WorkersPlaced, WorkerPlaced, Building, Key, Scope
<1>4. ASSUME NEW u \in Workers, NEW v \in Workers, u # v, Building(u)', Building(v)'
      PROVE  worker'[u].run # worker'[v].run
  <2>1. Building(u) /\ Building(v) /\ worker'[u].run = worker[u].run
        /\ worker'[v].run = worker[v].run
      BY <1>1, <1>4 DEF Building
  <2> QED
      BY <1>4, <2>1 DEF Consistent, WorkersPlaced
<1>5. WorkersPlaced'
    BY <1>3, <1>4 DEF WorkersPlaced
<1>6. \A v \in Workers \ {w} : NotOvertaken(v)'
    BY <1>1 DEF Consistent, NotOvertaken, Holds, Key, Scope, Active
<1> QED
    BY <1>2, <1>5, <1>6, Frame DEF inputs, Consistent

\* Before it has a run, a worker goes on without one.
LEMMA EarlyStepConsistent ==
  ASSUME Consistent, NEW w \in Workers, NEW row \in WorkerStates,
         worker' = [worker EXCEPT ![w] = row],
         UNCHANGED <<inputs, dirty, connected, job, runs, faults, operations>>,
         worker[w].pc \in {"posts", "snapshots", "start"},
         row.pc \in {"snapshots", "start", "clear", "nothing"},
         row.key = worker[w].key, row.startedAt = worker[w].startedAt,
         row.run = worker[w].run
  PROVE  Consistent'
<1>1. worker'[w] = row
    BY WorkerMoves DEF Consistent
<1>2. WorkerPlaced(w)' /\ ~ Building(w)'
    BY <1>1 DEF inputs, Consistent, WorkersPlaced, WorkerPlaced, Building, Key
<1>3. NotOvertaken(w)'
    BY <1>1 DEF Consistent, NotOvertaken, Holds, Key, Scope, Active
<1> QED
    BY <1>2, <1>3, WorkerStepConsistent

LEMMA LoadScopeConsistent ==
  ASSUME Consistent, NEW w \in Workers, LoadScope(w)
  PROVE  Consistent'
<1> DEFINE pc == IF Skips(Scope(w)) THEN "nothing" ELSE "posts"
           since == IF Scope(w) = Pooled THEN 0 ELSE dirty[Scope(w)]
           row == [worker[w] EXCEPT !.pc = pc, !.dirtySince = since, !.startedAt = clock]
<1>1. Key(w) \in Keys /\ worker[w].pc = "load" /\ worker[w].run = 0
    BY DEF LoadScope, Consistent, WorkersPlaced, WorkerPlaced, Building
<1>2. pc \in {"nothing", "posts"} /\ clock \in 0..MaxChanges
    BY DEF Consistent, TypeOK
<1>3. since \in 0..MaxChanges
  <2>1. Scope(w) \in Accounts \cup {Pooled} /\ 0 \in 0..MaxChanges
      BY <1>1, RunsAssumption DEF Scope, Keys, Scopes
  <2> QED
      BY <2>1 DEF Consistent, TypeOK
<1>4. worker' = [worker EXCEPT ![w] = row]
    BY DEF LoadScope
<1> HIDE DEF pc, since
<1>5. row \in WorkerStates
    BY <1>2, <1>3, RowsTyped, WorkerMoves DEF Consistent, TypeOK
<1>6. /\ row.pc \in {"nothing", "posts"} /\ row.key = worker[w].key
      /\ row.startedAt = clock /\ row.run = 0
    BY <1>1, <1>2, <1>5 DEF WorkerStates, Consistent, TypeOK
<1> HIDE DEF row
<1>7. worker'[w] = row
    BY <1>4, <1>5, WorkerMoves DEF Consistent
<1>8. WorkerPlaced(w)' /\ ~ Building(w)'
    BY <1>1, <1>6, <1>7 DEF LoadScope, inputs, WorkerPlaced, Building, Key, Consistent, TypeOK
<1>9. NotOvertaken(w)'
    BY <1>6, <1>7 DEF LoadScope, NotOvertaken, Active, Consistent, RunsSound, RunSound
<1> QED
    BY <1>4, <1>5, <1>8, <1>9, WorkerStepConsistent DEF LoadScope

LEMMA ReadPostsConsistent ==
  ASSUME Consistent, NEW w \in Workers, ReadPosts(w)
  PROVE  Consistent'
<1> DEFINE found == {a \in ScopeAccounts(Scope(w)) : analysis[a] # 0}
           pc == IF found = {} THEN "clear" ELSE "snapshots"
           read == [a \in Accounts |->
                      [Nothing EXCEPT !.analysis = IF a \in found THEN analysis[a] ELSE 0]]
           row == [worker[w] EXCEPT !.pc = pc, !.read = read]
<1>1. worker[w] \in WorkerStates /\ pc \in {"clear", "snapshots"}
    BY DEF Consistent, TypeOK
<1>2. read \in Measurements
    BY RunsAssumption DEF Nothing, Measurements, Consistent, TypeOK
<1>3. worker' = [worker EXCEPT ![w] = row]
    BY DEF ReadPosts
<1> HIDE DEF pc, read
<1>4. row \in WorkerStates
    BY <1>1, <1>2, RowsTyped
<1>5. /\ row.pc \in {"clear", "snapshots"} /\ row.key = worker[w].key
      /\ row.startedAt = worker[w].startedAt /\ row.run = worker[w].run
    BY <1>1 DEF WorkerStates
<1> HIDE DEF row
<1> QED
    BY <1>3, <1>4, <1>5, EarlyStepConsistent DEF ReadPosts

LEMMA ReadSnapshotsConsistent ==
  ASSUME Consistent, NEW w \in Workers, ReadSnapshots(w)
  PROVE  Consistent'
<1> DEFINE old == worker[w].read
           measured == {a \in Accounts : old[a].analysis # 0 /\ snapshot[a] # 0}
           pc == IF measured = {} THEN "clear" ELSE "start"
           read == [a \in Accounts |-> IF a \in measured
                                       THEN [old[a] EXCEPT !.snapshot = snapshot[a]]
                                       ELSE Nothing]
           row == [worker[w] EXCEPT !.pc = pc, !.read = read]
<1>1. /\ worker[w] \in WorkerStates /\ old \in Measurements
      /\ pc \in {"clear", "start"}
    BY DEF Consistent, TypeOK, WorkerStates
<1>2. read \in Measurements
    BY <1>1, RunsAssumption DEF Nothing, Measurements, Consistent, TypeOK
<1>3. worker' = [worker EXCEPT ![w] = row]
    BY DEF ReadSnapshots
<1> HIDE DEF pc, read
<1>4. row \in WorkerStates
    BY <1>1, <1>2, RowsTyped
<1>5. /\ row.pc \in {"clear", "start"} /\ row.key = worker[w].key
      /\ row.startedAt = worker[w].startedAt /\ row.run = worker[w].run
    BY <1>1 DEF WorkerStates
<1> HIDE DEF row
<1> QED
    BY <1>3, <1>4, <1>5, EarlyStepConsistent DEF ReadSnapshots

LEMMA SkipCurrentPoolConsistent ==
  ASSUME Consistent, NEW w \in Workers, SkipCurrentPool(w)
  PROVE  Consistent'
<1> DEFINE row == [worker[w] EXCEPT !.pc = "nothing"]
<1>1. worker[w] \in WorkerStates /\ worker' = [worker EXCEPT ![w] = row]
    BY DEF SkipCurrentPool, Consistent, TypeOK
<1>2. row \in WorkerStates
    BY <1>1, RowsTyped
<1>3. /\ row.pc = "nothing" /\ row.key = worker[w].key
      /\ row.startedAt = worker[w].startedAt /\ row.run = worker[w].run
    BY <1>1 DEF WorkerStates
<1> HIDE DEF row
<1> QED
    BY <1>1, <1>2, <1>3, EarlyStepConsistent DEF SkipCurrentPool

\* What the commit reads as the runs it replaces.
LEMMA ReadPreviousConsistent ==
  ASSUME Consistent, NEW w \in Workers, ReadPrevious(w)
  PROVE  Consistent'
<1> DEFINE previous == Active(Scope(w))
           row == [worker[w] EXCEPT !.pc = "publish", !.previous = previous]
<1>1. worker[w] \in WorkerStates /\ worker' = [worker EXCEPT ![w] = row]
    BY DEF ReadPrevious, Consistent, TypeOK
<1>2. previous \in SUBSET Nat
    BY DEF Active, Consistent, TypeOK
<1>3. \A p \in previous :
        p \in DOMAIN runs /\ runs[p].scope = Scope(w) /\ runs[p].state = "ACTIVE"
    BY DEF Active
<1> HIDE DEF previous
<1>4. row \in WorkerStates
    BY <1>1, <1>2, RowsTyped
<1>5. /\ row.pc = "publish" /\ row.key = worker[w].key /\ row.previous = previous
      /\ row.startedAt = worker[w].startedAt /\ row.run = worker[w].run
    BY <1>1 DEF WorkerStates
<1> HIDE DEF row
<1>6. worker'[w] = row /\ UNCHANGED <<runs, job, clock>>
    BY <1>1, <1>4, WorkerMoves DEF Consistent, ReadPrevious, inputs
<1>7. Key(w)' = Key(w) /\ Scope(w)' = Scope(w) /\ Building(w)
    BY <1>5, <1>6 DEF ReadPrevious, Key, Scope, Building
<1>8. WorkerPlaced(w)'
  <2>1. WorkerPlaced(w) /\ worker[w].pc = "activate" /\ worker'[w].previous = previous
      BY <1>5, <1>6 DEF ReadPrevious, Consistent, WorkersPlaced
  <2>2. worker'[w].pc = "publish" /\ worker'[w].run = worker[w].run
        /\ worker'[w].startedAt = worker[w].startedAt
      BY <1>5, <1>6
  <2> QED
      BY <1>3, <1>6, <1>7, <2>1, <2>2 DEF WorkerPlaced, Building
<1>9. NotOvertaken(w)'
    BY <1>5, <1>6 DEF ReadPrevious, Consistent, NotOvertaken, Holds, Key, Scope, Active
<1> QED
    BY <1>1, <1>4, <1>5, <1>7, <1>8, <1>9, WorkerStepConsistent DEF ReadPrevious

-----------------------------------------------------------------------------
(* The steps of a run.                                                     *)

LEMMA RunsTyped ==
  ASSUME Consistent
  PROVE  /\ DOMAIN runs = 1..Len(runs) /\ Len(runs) \in Nat
         /\ \A r \in DOMAIN runs : runs[r] \in RunRows
         /\ \A r \in DOMAIN runs : r \in Nat \ {0}
  BY DEF Consistent, TypeOK

\* A run that is appended is nobody's yet, and visible to nobody.
LEMMA StartAnalyticsRunConsistent ==
  ASSUME Consistent, NEW w \in Workers, StartAnalyticsRun(w)
  PROVE  Consistent'
<1>1. PICK n \in {0, Families} :
        /\ runs' = Append(runs, [scope |-> Scope(w), state |-> FirstState,
                                 inputs |-> worker[w].read, expected |-> n, stored |-> 0,
                                 startedAt |-> worker[w].startedAt])
        /\ worker' = [worker EXCEPT ![w] =
                        [@ EXCEPT !.pc = IF n = 0 THEN "activate" ELSE "store",
                                  !.run = Len(runs) + 1]]
    BY DEF StartAnalyticsRun
<1> DEFINE new == Len(runs) + 1
           started == [scope |-> Scope(w), state |-> FirstState, inputs |-> worker[w].read,
                       expected |-> n, stored |-> 0, startedAt |-> worker[w].startedAt]
           pc == IF n = 0 THEN "activate" ELSE "store"
           row == [worker[w] EXCEPT !.pc = pc, !.run = new]
<1>2. worker[w] \in WorkerStates /\ worker[w].pc = "start" /\ Key(w) \in Keys
    BY DEF StartAnalyticsRun, Consistent, TypeOK, WorkersPlaced, WorkerPlaced
<1>3. started \in RunRows
  <2>1. n \in 0..Families /\ 0 \in 0..Families
      BY RunsAssumption
  <2>2. Scope(w) \in Scopes
      BY <1>2 DEF Scope, Keys
  <2> QED
      BY <1>2, <2>1, <2>2 DEF RunRows, runStates, FirstState, WorkerStates
<1>4. /\ runs' \in Seq(RunRows) /\ Len(runs') = new
      /\ DOMAIN runs' = DOMAIN runs \cup {new} /\ new \notin DOMAIN runs /\ new \in Nat
      /\ runs'[new] = started /\ \A r \in DOMAIN runs : runs'[r] = runs[r]
  <2> HIDE DEF started
  <2>1. runs' = Append(runs, started)
      BY <1>1 DEF started
  <2> QED
      BY <1>3, <2>1 DEF Consistent, TypeOK
<1>5. row \in WorkerStates
  <2>1. pc \in {"activate", "store"}
      OBVIOUS
  <2> HIDE DEF pc, new
  <2> QED
      BY <1>2, <1>4, <2>1, RowsTyped
<1>6. /\ row.pc = pc /\ row.run = new /\ row.key = worker[w].key
      /\ row.startedAt = worker[w].startedAt
    BY <1>2 DEF WorkerStates
<1>7. /\ worker' \in [Workers -> WorkerStates] /\ worker'[w] = row
      /\ \A v \in Workers \ {w} : worker'[v] = worker[v]
    BY <1>1, <1>5, WorkerMoves DEF Consistent
<1>8. /\ started.scope = Scope(w) /\ started.state = "BUILDING" /\ started.stored = 0
      /\ started.expected = n /\ started.startedAt = worker[w].startedAt
    BY DEF FirstState
<1>9. pc \in {"activate", "store"} /\ (pc = "store" => 0 < n)
    BY RunsAssumption
<1> HIDE DEF started, row, new, pc
<1>10. worker[w].startedAt <= clock /\ UNCHANGED clock
    BY DEF StartAnalyticsRun, inputs, Consistent, WorkersPlaced, WorkerPlaced
<1>11. TypeOK'
    BY <1>4, <1>7 DEF StartAnalyticsRun, inputs, Consistent, TypeOK
<1>12. WorkersPlaced'
  <2>1. WorkerPlaced(w)'
    <3>1. Key(w)' = Key(w) /\ Scope(w)' = Scope(w)
        BY <1>6, <1>7 DEF Key, Scope
    <3> QED
        BY <1>2, <1>4, <1>6, <1>7, <1>8, <1>9, <1>10, <3>1 DEF WorkerPlaced, Building
  <2>2. \A v \in Workers \ {w} : WorkerPlaced(v)'
      BY <1>4, <1>7, <1>10 DEF Consistent, WorkersPlaced, WorkerPlaced, Building, Key, Scope
  <2>3. \A v \in Workers \ {w} : Building(v)' => worker'[v].run # new
      BY <1>4, <1>7 DEF Consistent, WorkersPlaced, WorkerPlaced, Building
  <2> QED
      BY <1>6, <1>7, <2>1, <2>2, <2>3 DEF Consistent, WorkersPlaced, Building
<1>13. RunsSound'
    BY <1>4, <1>8, <1>10 DEF Consistent, RunsSound, OneActive, RunSound
<1>14. \A s \in Scopes : NothingPublished(s)
    BY <1>4, <1>8 DEF NothingPublished, Active
<1>15. \A v \in Workers : GoesOn(v)
    BY <1>2, <1>6, <1>7 DEF GoesOn
<1> QED
    BY <1>11, <1>12, <1>13, <1>14, <1>15, Frame, NobodyOvertaken, SameJobs
    DEF StartAnalyticsRun, Consistent

LEMMA StoreFeatureStatisticsConsistent ==
  ASSUME Consistent, NEW w \in Workers, StoreFeatureStatistics(w)
  PROVE  Consistent'
<1> DEFINE r == worker[w].run
           pc == IF runs[r].stored + 1 = runs[r].expected THEN "activate" ELSE "store"
           stored == [runs[r] EXCEPT !.stored = runs[r].stored + 1]
           row == [worker[w] EXCEPT !.pc = pc]
<1>1. /\ worker[w] \in WorkerStates /\ worker[w].pc = "store" /\ Key(w) \in Keys
      /\ r \in DOMAIN runs /\ runs[r].state = "BUILDING" /\ runs[r].stored < runs[r].expected
    BY DEF StoreFeatureStatistics, Consistent, TypeOK, WorkersPlaced, WorkerPlaced, Building
<1>2. /\ runs[r] \in RunRows
      /\ runs[r].stored \in 0..Families /\ runs[r].expected \in 0..Families
    BY <1>1, RunsTyped DEF RunRows
<1>3. /\ stored \in RunRows /\ stored.stored = runs[r].stored + 1
      /\ stored.expected = runs[r].expected /\ stored.state = "BUILDING"
      /\ stored.scope = runs[r].scope /\ stored.startedAt = runs[r].startedAt
  <2>1. runs[r].stored + 1 \in 0..Families
      BY <1>1, <1>2, RunsAssumption
  <2> QED
      BY <1>1, <1>2, <2>1 DEF RunRows
<1>4. runs' = [runs EXCEPT ![r] = stored] /\ worker' = [worker EXCEPT ![w] = row]
    BY DEF StoreFeatureStatistics
<1>5. /\ row \in WorkerStates /\ row.pc = pc /\ row.run = r /\ row.key = worker[w].key
      /\ row.startedAt = worker[w].startedAt
  <2>1. pc \in {"activate", "store"}
      OBVIOUS
  <2> HIDE DEF pc
  <2>2. row \in WorkerStates
      BY <1>1, <2>1, RowsTyped
  <2> QED
      BY <1>1, <2>2 DEF WorkerStates
<1>6. /\ worker' \in [Workers -> WorkerStates] /\ worker'[w] = row
      /\ \A v \in Workers \ {w} : worker'[v] = worker[v]
  <2> HIDE DEF row
  <2> QED
      BY <1>4, <1>5, WorkerMoves DEF Consistent
<1>7. /\ runs' \in Seq(RunRows) /\ DOMAIN runs' = DOMAIN runs
      /\ runs'[r] = stored /\ \A q \in DOMAIN runs : q # r => runs'[q] = runs[q]
  <2> HIDE DEF stored, r
  <2> QED
      BY <1>1, <1>3, <1>4 DEF Consistent, TypeOK
<1>8. pc \in {"activate", "store"}
      /\ (pc = "store" => runs[r].stored + 1 < runs[r].expected)
    BY <1>1, <1>2, RunsAssumption
<1>9. worker[w].startedAt <= clock /\ UNCHANGED clock
      /\ runs[r].scope = Scope(w) /\ runs[r].startedAt = worker[w].startedAt
    BY <1>1 DEF StoreFeatureStatistics, inputs, Consistent, WorkersPlaced, WorkerPlaced,
                Building
<1> HIDE DEF stored, row, pc
<1>10. TypeOK'
    BY <1>6, <1>7 DEF StoreFeatureStatistics, inputs, Consistent, TypeOK
<1>11. WorkersPlaced'
  <2>1. WorkerPlaced(w)'
    <3>1. Key(w)' = Key(w) /\ Scope(w)' = Scope(w)
        BY <1>5, <1>6 DEF Key, Scope
    <3> QED
        BY <1>1, <1>3, <1>5, <1>6, <1>7, <1>8, <1>9, <3>1 DEF WorkerPlaced, Building
  <2>2. ASSUME NEW v \in Workers \ {w} PROVE WorkerPlaced(v)'
    <3>1. worker'[v] = worker[v] /\ WorkerPlaced(v)
        BY <1>6 DEF Consistent, WorkersPlaced
    <3>2. Building(v) => worker[v].run # r
        BY <1>1 DEF Consistent, WorkersPlaced, Building
    <3> QED
        BY <1>1, <1>3, <1>7, <1>9, <3>1, <3>2 DEF WorkerPlaced, Building, Key, Scope
  <2>3. \A v \in Workers : Building(v)' => Building(v) /\ worker'[v].run = worker[v].run
      BY <1>1, <1>5, <1>6 DEF Building
  <2> QED
      BY <2>1, <2>2, <2>3 DEF Consistent, WorkersPlaced
<1>12. RunsSound'
    BY <1>1, <1>3, <1>7, <1>9 DEF Consistent, RunsSound, OneActive, RunSound
<1>13. \A s \in Scopes : NothingPublished(s)
    BY <1>1, <1>3, <1>7 DEF NothingPublished, Active
<1>14. \A v \in Workers : GoesOn(v)
    BY <1>1, <1>5, <1>6 DEF GoesOn
<1> QED
    BY <1>10, <1>11, <1>12, <1>13, <1>14, Frame, NobodyOvertaken, SameJobs
    DEF StoreFeatureStatistics, Consistent

-----------------------------------------------------------------------------
(* Commits and failures.                                                   *)

LEMMA FailTyped ==
  ASSUME Consistent, NEW w \in Workers, FailAnalyticsRun(w), UNCHANGED clock
  PROVE  /\ runs' \in Seq(RunRows) /\ RunsKept(w) /\ RunsSound'
         /\ \A s \in Scopes : NothingPublished(s)
<1>1. \A r \in DOMAIN runs : [runs[r] EXCEPT !.state = "FAILED"] \in RunRows
    BY RunsTyped DEF RunRows, runStates
<1>2. DOMAIN runs' = DOMAIN runs
      /\ \A r \in DOMAIN runs :
           \/ runs'[r] = runs[r]
           \/ /\ r = worker[w].run /\ runs[r].state = "BUILDING"
              /\ runs'[r] = [runs[r] EXCEPT !.state = "FAILED"]
    BY DEF FailAnalyticsRun
<1>3. runs' \in [1..Len(runs) -> RunRows]
    BY <1>1, <1>2, RunsTyped DEF FailAnalyticsRun
<1>4. runs' \in Seq(RunRows)
    BY <1>3, RunsTyped
<1>5. \A r \in DOMAIN runs :
        /\ runs'[r].scope = runs[r].scope /\ runs'[r].startedAt = runs[r].startedAt
        /\ runs'[r].stored = runs[r].stored /\ runs'[r].expected = runs[r].expected
        /\ \/ runs'[r].state = runs[r].state
           \/ r = worker[w].run /\ runs[r].state = "BUILDING" /\ runs'[r].state = "FAILED"
    BY <1>2, RunsTyped DEF RunRows
<1>6. RunsKept(w)
    BY <1>2, <1>5 DEF RunsKept
<1>7. RunsSound'
    BY <1>2, <1>5 DEF Consistent, RunsSound, OneActive, RunSound
<1>8. \A s \in Scopes : NothingPublished(s)
    BY <1>2, <1>5 DEF NothingPublished, Active
<1> QED
    BY <1>4, <1>6, <1>7, <1>8

LEMMA SameRunsKept ==
  ASSUME UNCHANGED runs, NEW w \in Workers PROVE RunsKept(w)
  BY DEF RunsKept

\* A worker that stops, whatever becomes of its job and its run.
LEMMA StoppedWorkerConsistent ==
  ASSUME Consistent, NEW w \in Workers, worker' = [worker EXCEPT ![w] = Idle],
         UNCHANGED <<inputs, connected, operations>>, faults' \in 0..FaultBudget,
         runs' \in Seq(RunRows), RunsKept(w), RunsSound',
         \A s \in Scopes : NothingPublished(s),
         job' \in [Keys -> JobRows], JobsSound', NoNewLease,
         dirty' \in [Accounts -> 0..MaxChanges], AccountJobsSerialised'
  PROVE  Consistent'
<1>1. /\ worker' \in [Workers -> WorkerStates] /\ worker'[w] = Idle
      /\ \A v \in Workers \ {w} : worker'[v] = worker[v]
    BY IdleTyped, WorkerMoves DEF Consistent
<1>2. TypeOK'
    BY <1>1 DEF inputs, Consistent, TypeOK
<1>3. WorkersPlaced'
    BY FreedWorkerPlaced DEF inputs
<1>4. \A v \in Workers : GoesOn(v)
    BY <1>1 DEF GoesOn, Idle
<1> QED
    BY <1>2, <1>3, <1>4, NobodyOvertaken DEF Consistent

LEMMA WorkerDiesConsistent ==
  ASSUME Consistent, NEW w \in Workers, WorkerDies(w)
  PROVE  Consistent'
<1>1. UNCHANGED <<inputs, connected, operations>> /\ worker' = [worker EXCEPT ![w] = Idle]
    BY DEF WorkerDies
<1>2. faults' \in 0..FaultBudget
    BY RunsAssumption DEF WorkerDies, Fault, Consistent, TypeOK
<1>3. /\ runs' \in Seq(RunRows) /\ job' \in [Keys -> JobRows]
      /\ dirty' \in [Accounts -> 0..MaxChanges]
    BY DEF WorkerDies, Consistent, TypeOK
<1>4. /\ RunsKept(w) /\ RunsSound' /\ \A s \in Scopes : NothingPublished(s)
      /\ JobsSound' /\ NoNewLease /\ AccountJobsSerialised'
    BY Frame, SameRuns, SameRunsKept, SameJobs DEF WorkerDies, inputs
<1> QED
    BY <1>1, <1>2, <1>3, <1>4, StoppedWorkerConsistent

LEMMA CommitRefusedConsistent ==
  ASSUME Consistent, NEW w \in Workers, CommitRefused(w)
  PROVE  Consistent'
<1>1. UNCHANGED <<inputs, connected, operations>> /\ worker' = [worker EXCEPT ![w] = Idle]
    BY DEF CommitRefused
<1>2. /\ runs' \in Seq(RunRows) /\ job' \in [Keys -> JobRows]
      /\ dirty' \in [Accounts -> 0..MaxChanges] /\ faults' \in 0..FaultBudget
    BY DEF CommitRefused, Consistent, TypeOK
<1>3. /\ RunsKept(w) /\ RunsSound' /\ \A s \in Scopes : NothingPublished(s)
      /\ JobsSound' /\ NoNewLease /\ AccountJobsSerialised'
    BY Frame, SameRuns, SameRunsKept, SameJobs DEF CommitRefused, inputs
<1> QED
    BY <1>1, <1>2, <1>3, StoppedWorkerConsistent

LEMMA LeaseLostConsistent ==
  ASSUME Consistent, NEW w \in Workers, LeaseLost(w)
  PROVE  Consistent'
<1>1. UNCHANGED <<inputs, connected, operations>> /\ worker' = [worker EXCEPT ![w] = Idle]
    BY DEF LeaseLost
<1>2. /\ job' \in [Keys -> JobRows] /\ dirty' \in [Accounts -> 0..MaxChanges]
      /\ faults' \in 0..FaultBudget
    BY DEF LeaseLost, Consistent, TypeOK
<1>3. JobsSound' /\ NoNewLease /\ AccountJobsSerialised'
    BY Frame, SameJobs DEF LeaseLost
<1>4. /\ runs' \in Seq(RunRows) /\ RunsKept(w) /\ RunsSound'
      /\ \A s \in Scopes : NothingPublished(s)
    BY FailTyped DEF LeaseLost, inputs
<1> QED
    BY <1>1, <1>2, <1>3, <1>4, StoppedWorkerConsistent

LEMMA HandlerFailsConsistent ==
  ASSUME Consistent, NEW w \in Workers, HandlerFails(w)
  PROVE  Consistent'
<1> DEFINE k == Key(w)
<1>1. /\ UNCHANGED <<inputs, dirty, connected, operations>>
      /\ worker' = [worker EXCEPT ![w] = Idle]
      /\ worker[w].pc # "idle" /\ Holds(w)
    BY DEF HandlerFails
<1>2. faults' \in 0..FaultBudget /\ dirty' \in [Accounts -> 0..MaxChanges]
    BY RunsAssumption DEF HandlerFails, Fault, Consistent, TypeOK
<1>3. k \in Keys /\ Unfinished(k)
    BY <1>1 DEF Consistent, WorkersPlaced, WorkerPlaced, Holds, Unfinished
<1>4. PICK next \in {"QUEUED", "FAILED_ATTENTION"} :
        JobMoves(k, next) /\ (next = "QUEUED" => job[k].left > 0)
  <2>1. CASE RetryOrExhaust(k)
      BY <1>3, <2>1, RetrySound
  <2>2. CASE NeedsAttention(k)
      BY <2>2 DEF NeedsAttention, JobMoves
  <2> QED
      BY <2>1, <2>2 DEF HandlerFails
<1> HIDE DEF k
<1>5. /\ job' \in [Keys -> JobRows] /\ JobsSound' /\ NoNewLease
      /\ \A l \in Keys \ {k} : job'[l] = job[l]
  <2>1. next \in jobStates \ {"ABSENT", "PROCESSING"}
      BY DEF jobStates
  <2> QED
      BY <1>3, <1>4, <2>1, JobMovesSoundly
<1>6. AccountJobsSerialised'
    BY <1>1, <1>3, <1>5, SerialisedJobs DEF Unfinished
<1>7. /\ runs' \in Seq(RunRows) /\ RunsKept(w) /\ RunsSound'
      /\ \A s \in Scopes : NothingPublished(s)
    BY FailTyped DEF HandlerFails, inputs
<1> QED
    BY <1>1, <1>2, <1>5, <1>6, <1>7, StoppedWorkerConsistent

LEMMA CommitEmptyConsistent ==
  ASSUME Consistent, NEW w \in Workers, CommitEmpty(w)
  PROVE  Consistent'
<1>1. /\ UNCHANGED <<inputs, connected, runs, faults, operations>>
      /\ worker' = [worker EXCEPT ![w] = Idle]
    BY DEF CommitEmpty
<1>2. /\ job' \in [Keys -> JobRows] /\ dirty' \in [Accounts -> 0..MaxChanges]
      /\ JobsSound' /\ NoNewLease /\ AccountJobsSerialised'
    BY CommitSettles DEF CommitEmpty
<1>3. /\ runs' \in Seq(RunRows) /\ RunsKept(w) /\ RunsSound' /\ faults' \in 0..FaultBudget
      /\ \A s \in Scopes : NothingPublished(s)
    BY <1>1, Frame, SameRuns, SameRunsKept DEF inputs, Consistent, TypeOK
<1> QED
    BY <1>1, <1>2, <1>3, StoppedWorkerConsistent

LEMMA CommitNothingConsistent ==
  ASSUME Consistent, NEW w \in Workers, CommitNothing(w)
  PROVE  Consistent'
<1>1. /\ UNCHANGED <<inputs, dirty, connected, runs, faults, operations>>
      /\ worker' = [worker EXCEPT ![w] = Idle]
      /\ Key(w) \in Keys /\ Holds(w) /\ Succeeded(Key(w))
    BY DEF CommitNothing, Consistent, WorkersPlaced, WorkerPlaced
<1>2. /\ job' \in [Keys -> JobRows] /\ JobsSound' /\ NoNewLease
      /\ job'[Key(w)].state = "SUCCEEDED"
      /\ \A l \in Keys \ {Key(w)} : job'[l] = job[l]
  <2>1. JobMoves(Key(w), "SUCCEEDED")
        /\ "SUCCEEDED" \in jobStates \ {"ABSENT", "PROCESSING"}
      BY <1>1 DEF Succeeded, JobMoves, jobStates
  <2> QED
      BY <1>1, <2>1, JobMovesSoundly
<1>3. AccountJobsSerialised'
    BY <1>1, <1>2, SerialisedJobs DEF Unfinished
<1>4. /\ runs' \in Seq(RunRows) /\ RunsKept(w) /\ RunsSound' /\ faults' \in 0..FaultBudget
      /\ dirty' \in [Accounts -> 0..MaxChanges]
      /\ \A s \in Scopes : NothingPublished(s)
    BY <1>1, Frame, SameRuns, SameRunsKept DEF inputs, Consistent, TypeOK
<1> QED
    BY <1>1, <1>2, <1>3, <1>4, StoppedWorkerConsistent

\* The rows after the commit of worker w: its run is ACTIVE, and what its
\* transaction has read as the previous runs has given way.
Switched(w) ==
  /\ DOMAIN runs' = DOMAIN runs
  /\ \A r \in DOMAIN runs :
       /\ runs'[r].scope = runs[r].scope /\ runs'[r].startedAt = runs[r].startedAt
       /\ runs'[r].stored = runs[r].stored /\ runs'[r].expected = runs[r].expected
       /\ r = worker[w].run => runs'[r].state = "ACTIVE"
       /\ r # worker[w].run /\ r \in worker[w].previous => runs'[r].state = "SUPERSEDED"
       /\ r # worker[w].run /\ r \notin worker[w].previous => runs'[r].state = runs[r].state

LEMMA ActivateSwitches ==
  ASSUME Consistent, NEW w \in Workers, ActivateAnalyticsRun(w)
  PROVE  runs' \in Seq(RunRows) /\ Switched(w)
<1>1. \A r \in DOMAIN runs : \A s \in runStates : [runs[r] EXCEPT !.state = s] \in RunRows
    BY RunsTyped DEF RunRows
<1>2. /\ DOMAIN runs' = DOMAIN runs
      /\ \A r \in DOMAIN runs :
           runs'[r] = IF r = worker[w].run THEN [runs[r] EXCEPT !.state = "ACTIVE"]
                      ELSE IF r \in worker[w].previous
                      THEN [runs[r] EXCEPT !.state = "SUPERSEDED"] ELSE runs[r]
    BY DEF ActivateAnalyticsRun
<1>3. \A r \in DOMAIN runs : runs'[r] \in RunRows
    BY <1>1, <1>2, RunsTyped DEF runStates
<1>4. runs' \in [1..Len(runs) -> RunRows]
    BY <1>3, RunsTyped DEF ActivateAnalyticsRun
<1>5. runs' \in Seq(RunRows)
    BY <1>4, RunsTyped
<1>6. Switched(w)
    BY <1>2, RunsTyped DEF RunRows, Switched
<1> QED
    BY <1>5, <1>6

LEMMA ActivateAnalyticsRunConsistent ==
  ASSUME Consistent, NEW w \in Workers, ActivateAnalyticsRun(w)
  PROVE  Consistent'
<1> DEFINE new == worker[w].run
           s == Scope(w)
           previous == worker[w].previous
<1>1. /\ worker[w].pc = "publish" /\ Holds(w) /\ Key(w) \in Keys
      /\ UNCHANGED <<inputs, connected, faults, operations>>
      /\ worker' = [worker EXCEPT ![w] = Idle]
    BY DEF ActivateAnalyticsRun, Consistent, WorkersPlaced, WorkerPlaced
<1>2. /\ new \in DOMAIN runs /\ runs[new].scope = s /\ runs[new].state = "BUILDING"
      /\ runs[new].startedAt <= clock
      /\ \A p \in previous : /\ p \in DOMAIN runs /\ runs[p].scope = s
                             /\ runs[p].state \in {"ACTIVE", "SUPERSEDED"}
    BY <1>1 DEF Consistent, WorkersPlaced, WorkerPlaced, Building
<1>3. /\ runs[new].stored = runs[new].expected
      /\ \A r \in DOMAIN runs : runs[r].state = "ACTIVE" /\ runs[r].scope = s
                                  => r \in previous
    BY DEF ActivateAnalyticsRun, IndexAllows, Active
<1>4. runs' \in Seq(RunRows) /\ Switched(w)
    BY ActivateSwitches
<1>5. /\ job' \in [Keys -> JobRows] /\ dirty' \in [Accounts -> 0..MaxChanges]
      /\ JobsSound' /\ NoNewLease /\ AccountJobsSerialised'
    BY <1>1, CommitSettles DEF ActivateAnalyticsRun
<1>6. /\ worker' \in [Workers -> WorkerStates] /\ worker'[w] = Idle
      /\ \A v \in Workers \ {w} : worker'[v] = worker[v]
    BY <1>1, IdleTyped, WorkerMoves DEF Consistent
<1>7. TypeOK'
    BY <1>1, <1>4, <1>5, <1>6 DEF inputs, Consistent, TypeOK
<1>8. WorkersPlaced'
  <2>1. RunsKept(w)
      BY <1>2, <1>4 DEF Switched, RunsKept
  <2> QED
      BY <1>1, <2>1, FreedWorkerPlaced DEF inputs
<1>9. RunsSound'
  <2>1. OneActive'
      BY <1>2, <1>3, <1>4 DEF Switched, OneActive, Consistent, RunsSound
  <2>2. \A r \in DOMAIN runs' : RunSound(r)'
      BY <1>1, <1>2, <1>3, <1>4 DEF Switched, RunSound, Consistent, RunsSound, inputs
  <2> QED
      BY <2>1, <2>2 DEF RunsSound
<1>10. \A a \in Scopes \ {s} : NothingPublished(a)
    BY <1>2, <1>4 DEF Switched, NothingPublished, Active
<1>11. ASSUME NEW v \in Workers PROVE NotOvertaken(v)'
  <2>1. CASE worker'[v].pc \in {"idle", "load"}
      BY <2>1 DEF NotOvertaken
  <2>2. CASE worker'[v].pc \notin {"idle", "load"}
    <3>1. v # w /\ worker'[v] = worker[v] /\ Key(v) \in Keys /\ GoesOn(v)
        BY <1>6, <2>2 DEF Idle, GoesOn, Consistent, WorkersPlaced, WorkerPlaced
    <3>2. Key(v)' = Key(v) /\ Scope(v)' = Scope(v) /\ (Holds(v)' => Holds(v))
        BY <1>5, <3>1 DEF Key, Scope, Holds, NoNewLease
    <3>3. ASSUME NEW a \in Accounts, Scope(v)' = a, Holds(v)'
          PROVE  NothingPublished(a)
      <4>1. Holds(v) /\ Scope(v) = a
          BY <3>2, <3>3
      <4>2. Unfinished(Key(v)) /\ Unfinished(Key(w)) /\ Key(v) # Key(w)
          BY <1>1, <3>1, <4>1 DEF Holds, Unfinished
      <4>3. a # s
          BY <1>1, <3>1, <4>1, <4>2, OneJob DEF Scope
      <4> QED
          BY <1>10, <4>3 DEF Scopes
    <3> QED
        BY <3>1, <3>2, <3>3, WorkerNotOvertaken
  <2> QED
      BY <2>1, <2>2
<1> QED
    BY <1>5, <1>7, <1>8, <1>9, <1>11 DEF Consistent

-----------------------------------------------------------------------------
LEMMA InitConsistent == Init => Consistent
<1> SUFFICES ASSUME Init PROVE Consistent
    OBVIOUS
<1>1. TypeOK
  <2>1. worker \in [Workers -> WorkerStates]
      BY IdleTyped DEF Init
  <2>2. {0, 1} \subseteq 0..MaxChanges
      BY RunsAssumption
  <2>3. job \in [Keys -> JobRows]
      BY RunsAssumption DEF Init, JobRows, jobStates
  <2> QED
      BY <2>1, <2>2, <2>3, RunsAssumption DEF Init, TypeOK
<1>2. JobsSound /\ AccountJobsSerialised
    BY DEF Init, JobsSound, AccountJobsSerialised, Unfinished
<1>3. WorkersPlaced /\ \A w \in Workers : NotOvertaken(w)
    BY DEF Init, WorkersPlaced, WorkerPlaced, Building, NotOvertaken, Idle
<1>4. RunsSound
    BY DEF Init, RunsSound, OneActive, RunSound
<1> QED
    BY <1>1, <1>2, <1>3, <1>4 DEF Consistent

LEMMA RecalculateConsistent ==
  ASSUME Consistent, NEW w \in Workers, Recalculate(w)
  PROVE  Consistent'
  BY LoadScopeConsistent, ReadPostsConsistent, ReadSnapshotsConsistent,
     SkipCurrentPoolConsistent, StartAnalyticsRunConsistent,
     StoreFeatureStatisticsConsistent, ReadPreviousConsistent,
     ActivateAnalyticsRunConsistent, CommitEmptyConsistent, CommitNothingConsistent,
     CommitRefusedConsistent, LeaseLostConsistent
  DEF Recalculate

LEMMA NextConsistent == Consistent /\ [Next]_vars => Consistent'
<1> SUFFICES ASSUME Consistent, [Next]_vars PROVE Consistent'
    OBVIOUS
<1>1. CASE \E a \in Accounts : Changing(a)
    BY <1>1, RecordSnapshotConsistent, PublishAnalysisConsistent, ConnectionConsistent
    DEF Changing
<1>2. CASE \E k \in Keys : EnqueueDue(k) \/ RecoverExpiredLease(k) \/ CancelJob(k)
                             \/ RetryJob(k)
    BY <1>2, EnqueueDueConsistent, RecoverExpiredLeaseConsistent, CancelJobConsistent,
       RetryJobConsistent
<1>3. CASE \E w \in Workers : \/ Recalculate(w) \/ HandlerFails(w) \/ WorkerDies(w)
                              \/ \E k \in Keys : Claim(w, k)
    BY <1>3, RecalculateConsistent, HandlerFailsConsistent, WorkerDiesConsistent,
       ClaimConsistent
<1>4. CASE UNCHANGED vars
  <2>1. TypeOK'
      BY <1>4 DEF vars, inputs, Consistent, TypeOK
  <2> QED
      BY <1>4, <2>1, Frame DEF vars, inputs, Consistent
<1> QED
    BY <1>1, <1>2, <1>3, <1>4 DEF Next

LEMMA AlwaysConsistent == Spec => []Consistent
<1> QED
    BY InitConsistent, NextConsistent, PTL DEF Spec

\* A set of at most one run: what OneActive says in terms of cardinality.
LEMMA ActiveRunIsOne ==
  ASSUME Consistent, NEW s \in Scopes
  PROVE  Cardinality(Active(s)) <= 1
<1>1. CASE Active(s) = {}
    BY <1>1, FS_EmptySet
<1>2. CASE Active(s) # {}
  <2>1. PICK r \in Active(s) : TRUE
      BY <1>2
  <2>2. Active(s) = {r}
      BY <2>1 DEF Active, Consistent, RunsSound, OneActive
  <2>3. Cardinality({r}) = 1
      BY FS_Singleton
  <2> QED
      BY <2>2, <2>3
<1> QED
    BY <1>1, <1>2

LEMMA ConsistentImplies == Consistent => RunsConsistent
<1>1. Consistent => PublishedSetsAreComplete
    BY DEF Consistent, RunsSound, RunSound, PublishedSetsAreComplete, Active
<1> QED
    BY <1>1, ActiveRunIsOne DEF Consistent, RunsConsistent, OneActiveRunPerScope

\* In every reachable state a scope has at most one published set, and it is whole;
\* an account has at most one recalculation, for the marker that it carries.
THEOREM RunsStayConsistent == Spec => []RunsConsistent
<1> QED
    BY AlwaysConsistent, ConsistentImplies, PTL

-----------------------------------------------------------------------------
(* What a step may not do to what is published.                            *)

\* Only a commit touches a published set, and it leaves another in its place.
SetsStay ==
  \A s \in Scopes : Active(s) # {} => Active(s)' # {}

Advance ==
  \A a \in Accounts : \A r \in Active(a), n \in Active(a)' :
    runs'[n].startedAt >= runs[r].startedAt

LEMMA SameRunsPublished ==
  ASSUME Consistent, DOMAIN runs \subseteq DOMAIN runs',
         \A r \in DOMAIN runs : runs[r].state = "ACTIVE" => runs'[r] = runs[r]
  PROVE  SetsStay
  BY DEF SetsStay, Active

\* A step that publishes nothing changes nothing that readers see.
LEMMA NothingNewAdvances ==
  ASSUME Consistent, \A s \in Scopes : NothingPublished(s)
  PROVE  Advance
<1> SUFFICES ASSUME NEW a \in Accounts, NEW r \in Active(a), NEW n \in Active(a)'
             PROVE  runs'[n].startedAt >= runs[r].startedAt
    BY DEF Advance
<1>1. n \in Active(a) /\ runs'[n].startedAt = runs[n].startedAt
    BY DEF NothingPublished, Scopes
<1>2. n = r
    BY <1>1 DEF Active, Consistent, RunsSound, OneActive
<1>3. runs[r].startedAt \in Int
  <2>1. runs[r] \in RunRows
      BY RunsTyped DEF Active
  <2> QED
      BY <2>1, RunsAssumption DEF RunRows
<1> QED
    BY <1>1, <1>2, <1>3

LEMMA ActivatePublishes ==
  ASSUME Consistent, NEW w \in Workers, ActivateAnalyticsRun(w)
  PROVE  SetsStay /\ Advance
<1> DEFINE new == worker[w].run
           s == Scope(w)
<1>1. /\ worker[w].pc = "publish" /\ Holds(w)
      /\ new \in DOMAIN runs /\ runs[new].scope = s /\ runs[new].state = "BUILDING"
      /\ runs[new].startedAt = worker[w].startedAt
      /\ \A p \in worker[w].previous : runs[p].scope = s
    BY DEF ActivateAnalyticsRun, Consistent, WorkersPlaced, WorkerPlaced, Building
<1>2. Switched(w)
    BY ActivateSwitches
<1>3. \A r \in DOMAIN runs : runs[r].state = "ACTIVE" /\ runs[r].scope = s
                               => r \in worker[w].previous
    BY DEF ActivateAnalyticsRun, IndexAllows, Active
<1>4. SetsStay
  <2>1. ASSUME NEW a \in Scopes, NEW r \in Active(a) PROVE Active(a)' # {}
    <3>1. CASE a = s
      <4>1. new \in Active(a)'
          BY <1>1, <1>2, <3>1 DEF Switched, Active
      <4> QED
          BY <4>1
    <3>2. CASE a # s
      <4>1. r \in Active(a)'
          BY <1>1, <1>2, <3>2 DEF Switched, Active
      <4> QED
          BY <4>1
    <3> QED
        BY <3>1, <3>2
  <2> QED
      BY <2>1 DEF SetsStay
<1>5. Advance
  <2> SUFFICES ASSUME NEW a \in Accounts, NEW r \in Active(a), NEW n \in Active(a)'
               PROVE  runs'[n].startedAt >= runs[r].startedAt
      BY DEF Advance
  <2>1. CASE a = s
    <3>1. n = new
        BY <1>1, <1>2, <1>3, <2>1 DEF Switched, Active
    <3>2. runs[r].startedAt <= worker[w].startedAt
        BY <1>1, <2>1 DEF Consistent, NotOvertaken
    <3>3. runs[r].startedAt \in Int /\ worker[w].startedAt \in Int
      <4>1. runs[r] \in RunRows /\ runs[new] \in RunRows
          BY <1>1, RunsTyped DEF Active
      <4> QED
          BY <1>1, <4>1, RunsAssumption DEF RunRows
    <3> QED
        BY <1>1, <1>2, <3>1, <3>2, <3>3 DEF Switched
  <2>2. CASE a # s
    <3>1. n \in Active(a) /\ runs'[n].startedAt = runs[n].startedAt
        BY <1>1, <1>2, <2>2 DEF Switched, Active
    <3>2. n = r
        BY <3>1 DEF Active, Consistent, RunsSound, OneActive
    <3>3. runs[r].startedAt \in Int
      <4>1. runs[r] \in RunRows
          BY RunsTyped DEF Active
      <4> QED
          BY <4>1, RunsAssumption DEF RunRows
    <3> QED
        BY <3>1, <3>2, <3>3
  <2> QED
      BY <2>1, <2>2
<1> QED
    BY <1>4, <1>5

LEMMA FailPublishes ==
  ASSUME Consistent, NEW w \in Workers, FailAnalyticsRun(w), UNCHANGED clock
  PROVE  SetsStay /\ Advance
<1>1. SetsStay
    BY RunsTyped, SameRunsPublished DEF FailAnalyticsRun
<1>2. Advance
    BY FailTyped, NothingNewAdvances
<1> QED
    BY <1>1, <1>2

\* A run that is started or grows is one that no reader sees.
LEMMA BuildingPublishes ==
  ASSUME Consistent, NEW w \in Workers,
         StartAnalyticsRun(w) \/ StoreFeatureStatistics(w)
  PROVE  SetsStay /\ Advance
<1>1. CASE StartAnalyticsRun(w)
  <2>1. PICK row : runs' = Append(runs, row) /\ row.state = "BUILDING"
      BY <1>1 DEF StartAnalyticsRun, FirstState
  <2>2. /\ \A r \in DOMAIN runs : r \in DOMAIN runs' /\ runs'[r] = runs[r]
        /\ \A r \in DOMAIN runs' : r \in DOMAIN runs \/ runs'[r].state = "BUILDING"
      BY <2>1, RunsTyped DEF Consistent, TypeOK
  <2>3. \A s \in Scopes : NothingPublished(s)
      BY <2>2 DEF NothingPublished, Active
  <2> QED
      BY <2>2, <2>3, NothingNewAdvances, SameRunsPublished
<1>2. CASE StoreFeatureStatistics(w)
  <2> DEFINE r == worker[w].run
  <2>1. r \in DOMAIN runs /\ runs[r].state = "BUILDING"
      BY <1>2 DEF StoreFeatureStatistics, Consistent, WorkersPlaced, WorkerPlaced, Building
  <2>2. /\ DOMAIN runs' = DOMAIN runs
        /\ \A q \in DOMAIN runs : q # r => runs'[q] = runs[q]
        /\ runs'[r].state = "BUILDING"
    <3>1. runs' = [runs EXCEPT ![r].stored = @ + 1]
        BY <1>2 DEF StoreFeatureStatistics
    <3> QED
        BY <2>1, <3>1, RunsTyped DEF RunRows, Consistent, TypeOK
  <2>3. \A s \in Scopes : NothingPublished(s)
      BY <2>1, <2>2 DEF NothingPublished, Active
  <2> QED
      BY <2>1, <2>2, <2>3, NothingNewAdvances, SameRunsPublished
<1> QED
    BY <1>1, <1>2

LEMMA NextPublishes ==
  ASSUME Consistent, Next
  PROVE  SetsStay /\ Advance
<1>1. CASE UNCHANGED runs
    BY <1>1, SameRuns, NothingNewAdvances, SameRunsPublished
<1>2. ASSUME NEW w \in Workers, LeaseLost(w) \/ HandlerFails(w)
      PROVE  SetsStay /\ Advance
    BY <1>2, FailPublishes DEF LeaseLost, HandlerFails, inputs
<1>3. ASSUME NEW w \in Workers, Recalculate(w) PROVE SetsStay /\ Advance
    BY <1>1, <1>2, <1>3, ActivatePublishes, BuildingPublishes
    DEF Recalculate, LoadScope, ReadPosts, ReadSnapshots, SkipCurrentPool, ReadPrevious,
        CommitEmpty, CommitNothing, CommitRefused
<1>4. ASSUME NEW w \in Workers, WorkerDies(w) \/ \E k \in Keys : Claim(w, k)
      PROVE  UNCHANGED runs
    BY <1>4 DEF WorkerDies, Claim
<1>5. ASSUME NEW a \in Accounts, Changing(a) PROVE UNCHANGED runs
    BY <1>5 DEF Changing, RecordSnapshot, PublishAnalysis, Disconnect, Reconnect
<1>6. ASSUME NEW k \in Keys,
             EnqueueDue(k) \/ RecoverExpiredLease(k) \/ CancelJob(k) \/ RetryJob(k)
      PROVE  UNCHANGED runs
    BY <1>6 DEF EnqueueDue, RecoverExpiredLease, CancelJob, RetryJob
<1> QED
    BY <1>1, <1>2, <1>3, <1>4, <1>5, <1>6 DEF Next

\* A failed, overtaken or refused recalculation leaves the last published set in
\* place: no step takes a scope's set away without putting another there.
THEOREM PublishedScopesKeepASet == Spec => PublishedScopesStayPublished
<1>1. Consistent /\ [Next]_vars => [SetsStay]_vars
    BY NextPublishes
<1> QED
    BY <1>1, AlwaysConsistent, PTL DEF Spec, PublishedScopesStayPublished, SetsStay

\* A slow attempt never replaces, for an account, a set whose calculation started
\* after its own.
THEOREM AccountPublicationsNeverGoBack == Spec => AccountPublicationsAdvance
<1>1. Consistent /\ [Next]_vars => [Advance]_vars
    BY NextPublishes
<1> QED
    BY <1>1, AlwaysConsistent, PTL DEF Spec, AccountPublicationsAdvance, Advance

=============================================================================
