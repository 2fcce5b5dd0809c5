--------------------------- MODULE AnalyticsRuns ---------------------------
(***************************************************************************)
(* Recalculation of an account's statistics, and of the accounts pooled:   *)
(* the dirty marker with its debounce window, the sweep that turns it into *)
(* a job, the analytics.recalculate handler, and the switch of the ACTIVE  *)
(* run (packages/db/src/analytics-runs.ts, apps/worker/src/analytics).     *)
(*                                                                         *)
(* Time is the number of input changes so far, and a marker is the change  *)
(* that set it.  Each account has one post, whose current analysis and     *)
(* newest snapshot are the changes that produced them; the statistics of a *)
(* run are reduced to what they were calculated from and to how many       *)
(* families of them are stored.  The job around a recalculation is reduced *)
(* to what module JobPipeline shows of it: exclusive leases, a budget of   *)
(* attempts, and a commit that only the holder of the lease can make.  The *)
(* debounce window only says how soon a marker is swept, so the sweep may  *)
(* come at any time after it.                                              *)
(***************************************************************************)
EXTENDS Naturals, Sequences, FiniteSets, FiniteSetsExt

CONSTANTS
  Accounts,
  Analysed,       \* accounts whose post was analysed before the behaviour starts
  Pooled,         \* the scope of every linked account together
  Workers,        \* worker processes; each runs one recalculation at a time
  None,
  Families,       \* families of statistics in a run that has any
  MaxAttempts,    \* attempts of a job
  MaxChanges,     \* bound: input changes in a behaviour
  FaultBudget,    \* bound: deaths, failures and overrun leases
  OperatorBudget  \* bound: cancellations, manual retries, (dis)connections

ASSUME RunsAssumption ==
  /\ {Families, MaxAttempts, MaxChanges} \subseteq Nat \ {0}
  /\ {FaultBudget, OperatorBudget} \subseteq Nat
  /\ Analysed \subseteq Accounts
  /\ Pooled \notin Accounts
  /\ None \notin Workers

VARIABLES
  analysis,   \* [Accounts -> current analysis of the post, 0 when not eligible]
  snapshot,   \* [Accounts -> newest metric snapshot, 0 when there is none]
  dirty,      \* [Accounts -> analyticsDirtySince, 0 when null]
  connected,  \* accounts whose connectionStatus is ACTIVE
  job,        \* [Keys -> analytics.recalculate job]
  runs,       \* account_analytics_runs rows, in the order they were started
  worker,
  clock,
  faults,
  operations

inputs == <<analysis, snapshot, clock>>
vars == <<inputs, dirty, connected, job, runs, worker, faults, operations>>

Changes == 1..MaxChanges
Scopes == Accounts \cup {Pooled}
Keys == [scope: Scopes, anchor: Changes]

\* The inputs of a run: the pair each account contributed, or nothing.
Nothing == [analysis |-> 0, snapshot |-> 0]
Measurements == [Accounts -> [analysis: 0..MaxChanges, snapshot: 0..MaxChanges]]

jobStates == {"ABSENT", "QUEUED", "PROCESSING", "SUCCEEDED", "FAILED_ATTENTION", "CANCELLED"}
JobRows == [state: jobStates, holder: Workers \cup {None}, left: 0..MaxAttempts]

runStates == {"BUILDING", "ACTIVE", "SUPERSEDED", "FAILED"}
RunRows == [scope: Scopes, state: runStates, inputs: Measurements,
            expected: 0..Families, stored: 0..Families, startedAt: 0..MaxChanges]

Idle == [pc |-> "idle", key |-> None, dirtySince |-> 0, startedAt |-> 0,
         read |-> [a \in Accounts |-> Nothing], run |-> 0, previous |-> {}]
WorkerStates ==
  [pc: {"idle", "load", "posts", "snapshots", "start", "store", "activate",
        "publish", "clear", "nothing"},
   key: Keys \cup {None}, dirtySince: 0..MaxChanges, startedAt: 0..MaxChanges,
   read: Measurements, run: Nat, previous: SUBSET Nat]

\* Change 1 came before: the accounts in Analysed have an analysed post, which
\* had no snapshot to measure it by, and some accounts are disconnected.
Init ==
  /\ analysis = [a \in Accounts |-> IF a \in Analysed THEN 1 ELSE 0]
  /\ snapshot = [a \in Accounts |-> 0]
  /\ dirty = [a \in Accounts |-> 0]
  /\ connected \in SUBSET Accounts
  /\ job = [k \in Keys |-> [state |-> "ABSENT", holder |-> None, left |-> 0]]
  /\ runs = << >>
  /\ worker = [w \in Workers |-> Idle]
  /\ clock = 1
  /\ faults = FaultBudget
  /\ operations = OperatorBudget

Fault == faults > 0 /\ faults' = faults - 1
Operate == operations > 0 /\ operations' = operations - 1

Active(s) == {r \in DOMAIN runs : runs[r].scope = s /\ runs[r].state = "ACTIVE"}

-----------------------------------------------------------------------------
(* Changes to the inputs, each committed together with the dirty marker.   *)

\* A mutant of MarkAnalyticsDirty: every change moves the anchor.
MarkAnalyticsDirtyAlways(a, t) == dirty' = [dirty EXCEPT ![a] = t]

\* Only a clean account starts a window: a dirty one keeps its anchor.
MarkAnalyticsDirty(a, t) == dirty' = [dirty EXCEPT ![a] = IF @ = 0 THEN t ELSE @]

RecordSnapshot(a) ==
  /\ clock < MaxChanges /\ a \in connected
  /\ clock' = clock + 1
  /\ snapshot' = [snapshot EXCEPT ![a] = clock + 1]
  /\ MarkAnalyticsDirty(a, clock + 1)
  /\ UNCHANGED <<analysis, connected, job, runs, worker, faults, operations>>

\* A newly current analysis; one that is not analytics-eligible hides the post.
PublishAnalysis(a) ==
  /\ clock < MaxChanges
  /\ clock' = clock + 1
  /\ \E eligible \in BOOLEAN :
       analysis' = [analysis EXCEPT ![a] = IF eligible THEN clock + 1 ELSE 0]
  /\ MarkAnalyticsDirty(a, clock + 1)
  /\ UNCHANGED <<snapshot, connected, job, runs, worker, faults, operations>>

-----------------------------------------------------------------------------
(* The scheduler's sweep: a job for each marker due, and a pooled one keyed *)
(* on the newest of them.  A sweep may fail or die between two jobs.       *)

DueAccounts == {a \in connected : dirty[a] # 0}

DueKeys ==
  {[scope |-> a, anchor |-> dirty[a]] : a \in DueAccounts}
    \cup {[scope |-> Pooled, anchor |-> Max({dirty[a] : a \in D})] :
             D \in SUBSET DueAccounts \ {{}}}

\* enqueueBackgroundJob collapses onto the job that has the key, in any state.
EnqueueDue(k) ==
  /\ k \in DueKeys
  /\ job[k].state = "ABSENT"
  /\ job' = [job EXCEPT ![k] = [state |-> "QUEUED", holder |-> None, left |-> MaxAttempts]]
  /\ UNCHANGED <<inputs, dirty, connected, runs, worker, faults, operations>>

-----------------------------------------------------------------------------
(* The handler.  Recording a stage and the heartbeat before each family    *)
(* need the lease; the reads between them do not.                          *)

Key(w) == worker[w].key
Scope(w) == Key(w).scope
ScopeAccounts(s) == IF s = Pooled THEN Accounts ELSE {s}

\* A mutant of Holds: no fence, any attempt may go on.
HoldsAlways(w) == TRUE

Holds(w) == job[Key(w)].state = "PROCESSING" /\ job[Key(w)].holder = w

Claim(w, k) ==
  /\ worker[w].pc = "idle"
  /\ job[k].state = "QUEUED"
  /\ job' = [job EXCEPT ![k] = [state |-> "PROCESSING", holder |-> w, left |-> @.left - 1]]
  /\ worker' = [worker EXCEPT ![w] = [Idle EXCEPT !.pc = "load", !.key = k]]
  /\ UNCHANGED <<inputs, dirty, connected, runs, faults, operations>>

\* Nothing owed: an account that is clean, or fewer than two accounts to pool.
Skips(s) ==
  IF s = Pooled THEN Cardinality(connected) < 2 ELSE dirty[s] = 0

LoadScope(w) ==
  /\ worker[w].pc = "load" /\ Holds(w)
  /\ worker' = [worker EXCEPT ![w] =
       [@ EXCEPT !.pc = IF Skips(Scope(w)) THEN "nothing" ELSE "posts",
                 !.dirtySince = IF Scope(w) = Pooled THEN 0 ELSE dirty[Scope(w)],
                 !.startedAt = clock]]
  /\ UNCHANGED <<inputs, dirty, connected, job, runs, faults, operations>>

\* readAnalyticsPosts: posts whose current analysis is eligible.
ReadPosts(w) ==
  /\ worker[w].pc = "posts" /\ Holds(w)
  /\ LET found == {a \in ScopeAccounts(Scope(w)) : analysis[a] # 0}
     IN  worker' = [worker EXCEPT ![w] =
           [@ EXCEPT !.pc = IF found = {} THEN "clear" ELSE "snapshots",
                     !.read = [a \in Accounts |-> [Nothing EXCEPT
                                 !.analysis = IF a \in found THEN analysis[a] ELSE 0]]]]
  /\ UNCHANGED <<inputs, dirty, connected, job, runs, faults, operations>>

\* readAnalyticsSnapshots and measureAnalyticsInputs: a post without a
\* snapshot is not measured.
ReadSnapshots(w) ==
  /\ worker[w].pc = "snapshots"
  /\ LET posts == worker[w].read
         measured == {a \in Accounts : posts[a].analysis # 0 /\ snapshot[a] # 0}
     IN  worker' = [worker EXCEPT ![w] =
           [@ EXCEPT !.pc = IF measured = {} THEN "clear" ELSE "start",
                     !.read = [a \in Accounts |->
                                 IF a \in measured
                                 THEN [posts[a] EXCEPT !.snapshot = snapshot[a]]
                                 ELSE Nothing]]]
  /\ UNCHANGED <<inputs, dirty, connected, job, runs, faults, operations>>

\* The pooled scope has published exactly these inputs already.
AlreadyPublished(w) ==
  Scope(w) = Pooled /\ \E r \in Active(Pooled) : runs[r].inputs = worker[w].read

SkipCurrentPool(w) ==
  /\ worker[w].pc = "start"
  /\ AlreadyPublished(w)
  /\ worker' = [worker EXCEPT ![w].pc = "nothing"]
  /\ UNCHANGED <<inputs, dirty, connected, job, runs, faults, operations>>

\* A mutant of FirstState: statistics are visible while they are written.
FirstStateVisible == "ACTIVE"

FirstState == "BUILDING"

\* buildFeatureRequests finds families to compare, or none: posts that are all
\* alike allow no comparison.
StartAnalyticsRun(w) ==
  /\ worker[w].pc = "start" /\ Holds(w)
  /\ ~ AlreadyPublished(w)
  /\ \E n \in {0, Families} :
       /\ runs' = Append(runs, [scope |-> Scope(w), state |-> FirstState,
                                inputs |-> worker[w].read, expected |-> n, stored |-> 0,
                                startedAt |-> worker[w].startedAt])
       /\ worker' = [worker EXCEPT ![w] =
                       [@ EXCEPT !.pc = IF n = 0 THEN "activate" ELSE "store",
                                 !.run = Len(runs) + 1]]
  /\ UNCHANGED <<inputs, dirty, connected, job, faults, operations>>

StoreFeatureStatistics(w) ==
  /\ worker[w].pc = "store" /\ Holds(w)
  /\ LET r == worker[w].run
     IN  /\ runs' = [runs EXCEPT ![r].stored = @ + 1]
         /\ worker' = [worker EXCEPT ![w].pc =
                         IF runs[r].stored + 1 = runs[r].expected THEN "activate" ELSE "store"]
  /\ UNCHANGED <<inputs, dirty, connected, job, faults, operations>>

-----------------------------------------------------------------------------
(* The commit.  Its transaction first marks the job SUCCEEDED, which checks *)
(* the lease and locks the row until it ends, then reads the previous run   *)
(* and then writes; the one-active-per-scope index refuses a second ACTIVE  *)
(* run.                                                                    *)

Succeeded(k) == job' = [job EXCEPT ![k].state = "SUCCEEDED", ![k].holder = None]

\* Only the marker the run started from is cleared.
ClearMarker(a, d) == dirty' = [dirty EXCEPT ![a] = IF @ = d THEN 0 ELSE @]

ReadPrevious(w) ==
  /\ worker[w].pc = "activate" /\ Holds(w)
  /\ worker' = [worker EXCEPT ![w] = [@ EXCEPT !.pc = "publish", !.previous = Active(Scope(w))]]
  /\ UNCHANGED <<inputs, dirty, connected, job, runs, faults, operations>>

\* A mutant of IndexAllows: no unique index.
IndexAllowsAny(w) == TRUE

IndexAllows(w) == Active(Scope(w)) \subseteq worker[w].previous

\* The stored fingerprint is compared with the one the run was started with,
\* and the statistics are counted; the previous run gives way to this one.
\* Neither check can fail here: the handler passes the fingerprint it stored,
\* and reaches the commit only with every family stored.
ActivateAnalyticsRun(w) ==
  /\ worker[w].pc = "publish" /\ Holds(w) /\ IndexAllows(w)
  /\ runs[worker[w].run].inputs = worker[w].read
  /\ runs[worker[w].run].stored = runs[worker[w].run].expected
  /\ runs' = [r \in DOMAIN runs |->
                IF r = worker[w].run THEN [runs[r] EXCEPT !.state = "ACTIVE"]
                ELSE IF r \in worker[w].previous THEN [runs[r] EXCEPT !.state = "SUPERSEDED"]
                ELSE runs[r]]
  /\ IF Scope(w) = Pooled THEN UNCHANGED dirty
                          ELSE ClearMarker(Scope(w), worker[w].dirtySince)
  /\ Succeeded(Key(w))
  /\ worker' = [worker EXCEPT ![w] = Idle]
  /\ UNCHANGED <<inputs, connected, faults, operations>>

\* Nothing to measure: the marker is cleared and no run is built.
CommitEmpty(w) ==
  /\ worker[w].pc = "clear" /\ Holds(w)
  /\ IF Scope(w) = Pooled THEN UNCHANGED dirty
                          ELSE ClearMarker(Scope(w), worker[w].dirtySince)
  /\ Succeeded(Key(w))
  /\ worker' = [worker EXCEPT ![w] = Idle]
  /\ UNCHANGED <<inputs, connected, runs, faults, operations>>

CommitNothing(w) ==
  /\ worker[w].pc = "nothing" /\ Holds(w)
  /\ Succeeded(Key(w))
  /\ worker' = [worker EXCEPT ![w] = Idle]
  /\ UNCHANGED <<inputs, dirty, connected, runs, faults, operations>>

\* The lease is gone, or the index refuses: the transaction rolls back, and
\* the run stays BUILDING.
CommitRefused(w) ==
  /\ \/ worker[w].pc \in {"activate", "clear", "nothing"} /\ ~ Holds(w)
     \/ worker[w].pc = "publish" /\ ~ IndexAllows(w)
  /\ worker' = [worker EXCEPT ![w] = Idle]
  /\ UNCHANGED <<inputs, dirty, connected, job, runs, faults, operations>>

-----------------------------------------------------------------------------
(* Failures.                                                               *)

\* A mutant of FailAnalyticsRun: fails what the scope has, published or not.
FailAnalyticsRunOfScope(w) ==
  runs' = [r \in DOMAIN runs |->
             IF runs[r].scope = Scope(w) THEN [runs[r] EXCEPT !.state = "FAILED"] ELSE runs[r]]

FailAnalyticsRun(w) ==
  runs' = [r \in DOMAIN runs |->
             IF r = worker[w].run /\ runs[r].state = "BUILDING"
             THEN [runs[r] EXCEPT !.state = "FAILED"] ELSE runs[r]]

\* A mutant of RetryOrExhaust: an expired lease is only dropped.
RetryForgotten(k) == job' = [job EXCEPT ![k].holder = None]

RetryOrExhaust(k) ==
  job' = [job EXCEPT ![k] = [@ EXCEPT
            !.state = IF job[k].left > 0 THEN "QUEUED" ELSE "FAILED_ATTENTION",
            !.holder = None]]

\* Failures of a class that is not retried need attention at once.
NeedsAttention(k) ==
  job' = [job EXCEPT ![k].state = "FAILED_ATTENTION", ![k].holder = None]

\* A stage or a heartbeat finds the lease gone.
LeaseLost(w) ==
  /\ worker[w].pc \in {"load", "posts", "start", "store", "activate"} /\ ~ Holds(w)
  /\ FailAnalyticsRun(w)
  /\ worker' = [worker EXCEPT ![w] = Idle]
  /\ UNCHANGED <<inputs, dirty, connected, job, faults, operations>>

\* A read or a write fails: the attempt is settled as a failure.
HandlerFails(w) ==
  /\ worker[w].pc \in {"load", "posts", "snapshots", "start", "store", "activate"}
  /\ Holds(w)
  /\ Fault
  /\ FailAnalyticsRun(w)
  /\ RetryOrExhaust(Key(w)) \/ NeedsAttention(Key(w))
  /\ worker' = [worker EXCEPT ![w] = Idle]
  /\ UNCHANGED <<inputs, dirty, connected, operations>>

WorkerDies(w) ==
  /\ worker[w].pc # "idle"
  /\ Fault
  /\ worker' = [worker EXCEPT ![w] = Idle]
  /\ UNCHANGED <<inputs, dirty, connected, job, runs, operations>>

\* The lease of a dead attempt runs out; that of a live one may be overrun.
\* A commit holds the row's lock, so that it is not overtaken.
Working(k) == job[k].holder # None /\ worker[job[k].holder].key = k
Committing(k) == Working(k) /\ worker[job[k].holder].pc = "publish"

RecoverExpiredLease(k) ==
  /\ job[k].state = "PROCESSING" /\ ~ Committing(k)
  /\ IF Working(k) THEN Fault ELSE UNCHANGED faults
  /\ RetryOrExhaust(k)
  /\ UNCHANGED <<inputs, dirty, connected, runs, worker, operations>>

-----------------------------------------------------------------------------
(* Administrators and account owners.                                      *)

\* A waiting job, or one still in its starting stage, whose handler finds out
\* when it records the next.
Starting(k) ==
  job[k].state = "PROCESSING" /\ Working(k) /\ worker[job[k].holder].pc = "load"

CancelJob(k) ==
  /\ job[k].state = "QUEUED" \/ Starting(k)
  /\ Operate
  /\ job' = [job EXCEPT ![k].state = "CANCELLED", ![k].holder = None]
  /\ UNCHANGED <<inputs, dirty, connected, runs, worker, faults>>

RetryJob(k) ==
  /\ job[k].state = "FAILED_ATTENTION"
  /\ Operate
  /\ job' = [job EXCEPT ![k].state = "QUEUED", ![k].left = IF @ = 0 THEN 1 ELSE @]
  /\ UNCHANGED <<inputs, dirty, connected, runs, worker, faults>>

\* Disconnecting leaves the marker and the history as they are.
Disconnect(a) ==
  /\ a \in connected
  /\ Operate
  /\ connected' = connected \ {a}
  /\ UNCHANGED <<inputs, dirty, job, runs, worker, faults>>

Reconnect(a) ==
  /\ a \notin connected
  /\ Operate
  /\ connected' = connected \cup {a}
  /\ UNCHANGED <<inputs, dirty, job, runs, worker, faults>>

-----------------------------------------------------------------------------
Changing(a) == RecordSnapshot(a) \/ PublishAnalysis(a) \/ Disconnect(a) \/ Reconnect(a)

Recalculate(w) ==
  \/ LoadScope(w) \/ ReadPosts(w) \/ ReadSnapshots(w) \/ SkipCurrentPool(w)
  \/ StartAnalyticsRun(w) \/ StoreFeatureStatistics(w) \/ ReadPrevious(w)
  \/ ActivateAnalyticsRun(w) \/ CommitEmpty(w) \/ CommitNothing(w)
  \/ CommitRefused(w) \/ LeaseLost(w)

Next ==
  \/ \E a \in Accounts : Changing(a)
  \/ \E k \in Keys :
       EnqueueDue(k) \/ RecoverExpiredLease(k) \/ CancelJob(k) \/ RetryJob(k)
  \/ \E w \in Workers :
       \/ Recalculate(w) \/ HandlerFails(w) \/ WorkerDies(w)
       \/ \E k \in Keys : Claim(w, k)

Spec == Init /\ [][Next]_vars

\* The scheduler and the workers run on timers and loops of their own, queued
\* jobs are delivered, and an expired lease is found by the reconciler.  A key
\* is enqueued once and a job claimed as often as it has attempts, so that it
\* is enough for some of what is due to be done.
Fairness ==
  /\ WF_vars(\E k \in Keys : EnqueueDue(k))
  /\ WF_vars(\E k \in Keys : ~ Working(k) /\ RecoverExpiredLease(k))
  /\ SF_vars(\E w \in Workers, k \in Keys : Claim(w, k))
  /\ \A w \in Workers : WF_vars(Recalculate(w))

LiveSpec == Spec /\ Fairness

-----------------------------------------------------------------------------
(* Properties.                                                             *)

\* Every variable has its type; in particular a claim never goes below the
\* attempts that are left.
TypeOK ==
  /\ analysis \in [Accounts -> 0..MaxChanges]
  /\ snapshot \in [Accounts -> 0..MaxChanges]
  /\ dirty \in [Accounts -> 0..MaxChanges]
  /\ connected \subseteq Accounts
  /\ job \in [Keys -> JobRows]
  /\ runs \in Seq(RunRows)
  /\ worker \in [Workers -> WorkerStates]
  /\ clock \in 0..MaxChanges
  /\ faults \in 0..FaultBudget
  /\ operations \in 0..OperatorBudget

\* However two activations of a scope interleave, readers find at most one
\* ACTIVE run for it: the loser's transaction rolls back.
OneActiveRunPerScope == \A s \in Scopes : Cardinality(Active(s)) <= 1

\* A reader never sees a half-written set: the ACTIVE run has all the families
\* it calculated, although attempts die and lose their leases while storing.
PublishedSetsAreComplete ==
  \A s \in Scopes : \A r \in Active(s) : runs[r].stored = runs[r].expected

Unfinished(k) == job[k].state \in {"QUEUED", "PROCESSING", "FAILED_ATTENTION"}

\* Jobs are keyed on the marker and only a job's own commit clears it, so an
\* account never has two recalculations that could still publish, and the one
\* it has is for the marker it carries, although the handler reads the marker
\* from the account and not from its key.
AccountJobsSerialised ==
  \A k \in Keys : (k.scope \in Accounts /\ Unfinished(k)) => dirty[k.scope] = k.anchor

\* What readers and sweeps rely on at any moment: one whole published run a
\* scope, and one recalculation an account.
RunsConsistent ==
  TypeOK /\ OneActiveRunPerScope /\ PublishedSetsAreComplete /\ AccountJobsSerialised

\* A failed, overtaken or refused attempt leaves the last published set in
\* place: a scope that has an ACTIVE run always has one.
PublishedScopesStayPublished ==
  [][\A s \in Scopes : Active(s) # {} => Active(s)' # {}]_vars

\* What an account's readers see never goes back in time: a slow attempt does
\* not replace a run that was started after it.
AccountPublicationsAdvance ==
  [][\A a \in Accounts : \A r \in Active(a), n \in Active(a)' :
       runs'[n].startedAt >= runs[r].startedAt]_vars

\* A connected account that is dirty is recalculated, unless an administrator
\* cancels its job or the job uses up its attempts; the sweep does not replace
\* such a job, because the key still names it.
Stuck(a) ==
  \E k \in Keys : k.scope = a /\ k.anchor = dirty[a]
                  /\ job[k].state \in {"FAILED_ATTENTION", "CANCELLED"}

DirtyAccountsRecalculated ==
  \A a \in Accounts :
    dirty[a] # 0 ~> (dirty[a] = 0 \/ Stuck(a) \/ a \notin connected)

\* What an account contributes to a run that reads it now.
Current(a) ==
  IF analysis[a] # 0 /\ snapshot[a] # 0
  THEN [analysis |-> analysis[a], snapshot |-> snapshot[a]] ELSE Nothing

\* The claim of activateAnalyticsRun: a change that arrived while the run was
\* building leaves the account dirty, so that the next sweep picks it up.
MidRunChangesSurvive ==
  [][\A a \in Accounts : \A r \in Active(a)' \ Active(a) :
       runs[r].inputs[a] # Current(a) => dirty'[a] # 0]_vars
=============================================================================
