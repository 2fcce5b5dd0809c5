-------------------------- MODULE ConcurrencyGate --------------------------
(***************************************************************************)
(* The worker's provider concurrency gate (packages/queue/src/             *)
(* concurrency.ts): every handler that calls a provider takes a permit     *)
(* before it claims its job and gives it back in a finally block.          *)
(*                                                                         *)
(* The gate is one object of a single-threaded process.  What runs without *)
(* an await is a turn: while drain is in its loop nothing else happens.    *)
(* The loop itself is modelled one iteration per step, with its index.     *)
(* Acquiring for a provider that has no limit, or with a signal that is    *)
(* already aborted, is refused at once and changes nothing.                *)
(***************************************************************************)
EXTENDS Naturals, Sequences, FiniteSets

CONSTANTS
  Calls,          \* calls of acquire under way; each has its own signal
  Providers,      \* the providers that have a limit
  globalLimit,
  providerLimits  \* [Providers -> limit]

\* validateLimit, which also has an upper bound that nothing depends on.
ASSUME LimitAssumption ==
  /\ IsFiniteSet(Calls)
  /\ globalLimit \in Nat \ {0}
  /\ providerLimits \in [Providers -> Nat \ {0}]

VARIABLES
  call,              \* [Calls -> what has become of the call]
  pending,           \* waiting calls, in order of arrival
  activeGlobal,
  activeByProvider,
  index              \* drain's loop index, 0 between turns

vars == <<call, pending, activeGlobal, activeByProvider, index>>

callStates == {"idle", "waiting", "held", "released", "rejected"}
CallRecords == [state: callStates, provider: Providers, aborted: BOOLEAN]

Init ==
  /\ call \in [Calls -> [state: {"idle"}, provider: Providers, aborted: {FALSE}]]
  /\ pending = << >>
  /\ activeGlobal = 0
  /\ activeByProvider = [p \in Providers |-> 0]
  /\ index = 0

\* pending.splice(i, 1)
Splice(s, i) == SubSeq(s, 1, i - 1) \o SubSeq(s, i + 1, Len(s))

Holders(p) == {c \in Calls : call[c].state = "held" /\ call[c].provider = p}

-----------------------------------------------------------------------------
(* drain: called at the end of acquire and of release.                     *)

\* A mutant of Draining: release and acquire forget to look at the queue again.
DrainingNever(active) == 0

\* drain returns at once when the gate is full.
Draining(active) == IF active < globalLimit THEN 1 ELSE 0

\* A mutant of Saturated: only the global limit is looked at.
SaturatedNever(p) == FALSE

Saturated(p) == activeByProvider[p] >= providerLimits[p]

\* The loop's condition.
DrainContinues == index \in 1..Len(pending) /\ activeGlobal < globalLimit

DrainEnds ==
  /\ index > 0
  /\ ~DrainContinues
  /\ index' = 0
  /\ UNCHANGED <<call, pending, activeGlobal, activeByProvider>>

\* The waiter's signal was aborted and its listener has not run yet.
DrainRejects ==
  /\ DrainContinues
  /\ call[pending[index]].aborted
  /\ call' = [call EXCEPT ![pending[index]].state = "rejected"]
  /\ pending' = Splice(pending, index)
  /\ UNCHANGED <<activeGlobal, activeByProvider, index>>

DrainSkips ==
  /\ DrainContinues
  /\ ~call[pending[index]].aborted
  /\ Saturated(call[pending[index]].provider)
  /\ index' = index + 1
  /\ UNCHANGED <<call, pending, activeGlobal, activeByProvider>>

DrainGrants ==
  /\ DrainContinues
  /\ ~call[pending[index]].aborted
  /\ ~Saturated(call[pending[index]].provider)
  /\ call' = [call EXCEPT ![pending[index]].state = "held"]
  /\ pending' = Splice(pending, index)
  /\ activeGlobal' = activeGlobal + 1
  /\ activeByProvider' = [activeByProvider EXCEPT ![call[pending[index]].provider] = @ + 1]
  /\ UNCHANGED index

Drain == DrainEnds \/ DrainRejects \/ DrainSkips \/ DrainGrants

-----------------------------------------------------------------------------
(* The callers' side.                                                      *)

\* pending.push
Enlist(c) == pending' = Append(pending, c)

Acquire(c, p) ==
  /\ index = 0
  /\ call[c].state = "idle"
  /\ call' = [call EXCEPT ![c] = [state |-> "waiting", provider |-> p, aborted |-> FALSE]]
  /\ Enlist(c)
  /\ index' = Draining(activeGlobal)
  /\ UNCHANGED <<activeGlobal, activeByProvider>>

\* A mutant of Unreleased: the permit does not remember that it was used.
UnreleasedOrNot(c) == call[c].state \in {"held", "released"}

\* The closure's released flag.
Unreleased(c) == call[c].state = "held"

Release(c) ==
  /\ index = 0
  /\ Unreleased(c)
  /\ call' = [call EXCEPT ![c].state = "released"]
  /\ activeGlobal' = activeGlobal - 1
  /\ activeByProvider' = [activeByProvider EXCEPT ![call[c].provider] = @ - 1]
  /\ index' = Draining(activeGlobal - 1)
  /\ UNCHANGED pending

\* The signal becomes aborted; its listeners are called one after the other,
\* and one that was added earlier may release a permit first.
SignalAborts(c) ==
  /\ index = 0
  /\ ~call[c].aborted
  /\ call[c].state \in {"waiting", "held"}
  /\ call' = [call EXCEPT ![c].aborted = TRUE]
  /\ UNCHANGED <<pending, activeGlobal, activeByProvider, index>>

\* A mutant of AbortListener: the waiter is rejected but stays in the queue.
AbortListenerKeepsPlace(c) ==
  /\ index = 0
  /\ call[c].aborted
  /\ \E i \in 1..Len(pending) : pending[i] = c
  /\ call' = [call EXCEPT ![c].state = "rejected"]
  /\ UNCHANGED <<pending, activeGlobal, activeByProvider, index>>

\* The gate's own listener, which a granted permit has removed.
AbortListener(c) ==
  /\ index = 0
  /\ call[c].aborted
  /\ \E i \in 1..Len(pending) : pending[i] = c /\ pending' = Splice(pending, i)
  /\ call' = [call EXCEPT ![c].state = "rejected"]
  /\ UNCHANGED <<activeGlobal, activeByProvider, index>>

\* The handler is done with the call; the worker's next job makes another.
Return(c) ==
  /\ index = 0
  /\ call[c].state \in {"released", "rejected"}
  /\ call' = [call EXCEPT ![c] = [@ EXCEPT !.state = "idle", !.aborted = FALSE]]
  /\ UNCHANGED <<pending, activeGlobal, activeByProvider, index>>

CallStep(c) ==
  \/ \E p \in Providers : Acquire(c, p)
  \/ Release(c) \/ SignalAborts(c) \/ AbortListener(c) \/ Return(c)

Next == Drain \/ \E c \in Calls : CallStep(c)

Spec == Init /\ [][Next]_vars

\* A turn ends, an aborted signal's listener is called, and a handler that
\* holds a permit gives it back: its finally block runs whatever happens.  A
\* callback is not runnable during another turn, and the event loop runs every
\* callback that is runnable again and again: strong fairness.
Fairness ==
  /\ WF_vars(Drain)
  /\ \A c \in Calls : SF_vars(Release(c)) /\ SF_vars(AbortListener(c))

LiveSpec == Spec /\ Fairness

-----------------------------------------------------------------------------
\* The gate's state stays within its types.
TypeOK ==
  /\ call \in [Calls -> CallRecords]
  /\ pending \in Seq(Calls)
  /\ activeGlobal \in Nat
  /\ activeByProvider \in [Providers -> Nat]
  /\ index \in Nat

\* The counters of the gate are the permits out: a permit released twice, an
\* abort that races a grant or a drain that runs inside another turn would make
\* them drift, and every drift is permanent.
PermitsCounted ==
  /\ activeGlobal = Cardinality({c \in Calls : call[c].state = "held"})
  /\ \A p \in Providers : activeByProvider[p] = Cardinality(Holders(p))

\* No more permits are out than the worker, or a provider, allows.
LimitsRespected ==
  /\ Cardinality({c \in Calls : call[c].state = "held"}) <= globalLimit
  /\ \A p \in Providers : Cardinality(Holders(p)) <= providerLimits[p]

\* The queue holds each waiting call once, and nothing else: no caller waits
\* for a promise that nobody will settle.
QueueIsWaiters ==
  /\ \A c \in Calls : call[c].state = "waiting" <=> \E i \in 1..Len(pending) : pending[i] = c
  /\ \A i, k \in 1..Len(pending) : pending[i] = pending[k] => i = k

\* The gate's books are exact at every point of every turn.
GateIsExact == TypeOK /\ PermitsCounted /\ LimitsRespected /\ QueueIsWaiters

\* Between turns no call waits while there is room for it.
NoIdleCapacity ==
  index = 0 =>
    \A i \in 1..Len(pending) :
      \/ activeGlobal >= globalLimit
      \/ Saturated(call[pending[i]].provider)
      \/ call[pending[i]].aborted

\* Every call is settled: granted, or rejected because it was aborted.
EveryCallSettles ==
  \A c \in Calls : call[c].state = "waiting" ~> call[c].state # "waiting"
=============================================================================
