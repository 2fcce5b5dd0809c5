----------------------- MODULE ConcurrencyGateProofs -----------------------
(***************************************************************************)
(* The concurrency gate for any number of callers and providers and any    *)
(* limits: its counters are the permits out, no limit is exceeded, and the *)
(* queue is exactly the calls that wait.                                   *)
(***************************************************************************)
EXTENDS ConcurrencyGate, FiniteSetTheorems, TLAPS

\* What splicing one position out of a sequence leaves.
LEMMA SpliceFacts ==
  ASSUME NEW S, NEW s \in Seq(S), NEW i \in 1..Len(s)
  PROVE  /\ Splice(s, i) \in Seq(S)
         /\ Len(Splice(s, i)) = Len(s) - 1
         /\ \A k \in 1..(Len(s) - 1) :
              Splice(s, i)[k] = IF k < i THEN s[k] ELSE s[k + 1]
<1>1. /\ SubSeq(s, 1, i - 1) \in Seq(S)
      /\ Len(SubSeq(s, 1, i - 1)) = i - 1
      /\ \A k \in 1..(i - 1) : SubSeq(s, 1, i - 1)[k] = s[k]
  OBVIOUS
<1>2. /\ SubSeq(s, i + 1, Len(s)) \in Seq(S)
      /\ Len(SubSeq(s, i + 1, Len(s))) = Len(s) - i
      /\ \A k \in 1..(Len(s) - i) : SubSeq(s, i + 1, Len(s))[k] = s[i + k]
  OBVIOUS
<1> DEFINE u == SubSeq(s, 1, i - 1)
           v == SubSeq(s, i + 1, Len(s))
<1> HIDE DEF u, v
<1>3. /\ u \o v \in Seq(S)
      /\ Len(u \o v) = Len(u) + Len(v)
      /\ \A k \in 1..(Len(u) + Len(v)) :
           (u \o v)[k] = IF k <= Len(u) THEN u[k] ELSE v[k - Len(u)]
  <2>1. u \in Seq(S) /\ v \in Seq(S) BY <1>1, <1>2 DEF u, v
  <2> QED BY <2>1
<1>4. Splice(s, i) = u \o v BY DEF Splice, u, v
<1>5. Len(u) = i - 1 /\ \A k \in 1..(i - 1) : u[k] = s[k]
  BY <1>1 DEF u
<1>6. Len(v) = Len(s) - i /\ \A k \in 1..(Len(s) - i) : v[k] = s[i + k]
  BY <1>2 DEF v
<1>7. ASSUME NEW k \in 1..(Len(s) - 1)
      PROVE  (u \o v)[k] = IF k < i THEN s[k] ELSE s[k + 1]
  <2>1. CASE k < i BY <1>3, <1>5, <1>6, <2>1
  <2>2. CASE ~(k < i)
    <3>1. k - (i - 1) \in 1..(Len(s) - i) BY <2>2
    <3>2. v[k - (i - 1)] = s[i + (k - (i - 1))] BY <1>6, <3>1
    <3> QED BY <1>3, <1>5, <1>6, <2>2, <3>1, <3>2
  <2> QED BY <2>1, <2>2
<1>8. Len(u) + Len(v) = Len(s) - 1 BY <1>5, <1>6
<1> QED BY <1>3, <1>4, <1>7, <1>8

\* The queue and the waiting calls correspond.
Distinct(s) == \A i, k \in 1..Len(s) : s[i] = s[k] => i = k
Elements(s) == {s[i] : i \in 1..Len(s)}
Waiters == {c \in Calls : call[c].state = "waiting"}
HeldCalls == {c \in Calls : call[c].state = "held"}

LEMMA SpliceRemoves ==
  ASSUME NEW S, NEW s \in Seq(S), NEW i \in 1..Len(s), Distinct(s)
  PROVE  /\ Distinct(Splice(s, i))
         /\ Elements(Splice(s, i)) = Elements(s) \ {s[i]}
<1> DEFINE t == Splice(s, i)
<1>1. /\ t \in Seq(S)
      /\ Len(t) = Len(s) - 1
      /\ \A k \in 1..(Len(s) - 1) : t[k] = IF k < i THEN s[k] ELSE s[k + 1]
  BY SpliceFacts
<1> HIDE DEF t
<1>2. Distinct(t)
  BY <1>1 DEF Distinct
<1>3. ASSUME NEW x \in Elements(t) PROVE x \in Elements(s) \ {s[i]}
  <2>1. PICK k \in 1..(Len(s) - 1) : x = t[k]
    BY <1>1 DEF Elements
  <2>2. PICK m \in 1..Len(s) : x = s[m] /\ m # i
    <3>1. CASE k < i BY <1>1, <2>1, <3>1
    <3>2. CASE ~(k < i) BY <1>1, <2>1, <3>2
    <3> QED BY <3>1, <3>2
  <2> QED BY <2>2 DEF Elements, Distinct
<1>4. ASSUME NEW x \in Elements(s) \ {s[i]} PROVE x \in Elements(t)
  <2>1. PICK m \in 1..Len(s) : x = s[m] /\ m # i
    BY <1>4 DEF Elements
  <2>2. CASE m < i
    <3>1. m \in 1..(Len(s) - 1) /\ t[m] = s[m] BY <1>1, <2>2
    <3> QED BY <1>1, <2>1, <3>1 DEF Elements
  <2>3. CASE m > i
    <3>1. m - 1 \in 1..(Len(s) - 1) /\ t[m - 1] = s[m] BY <1>1, <2>3
    <3> QED BY <1>1, <2>1, <3>1 DEF Elements
  <2> QED BY <2>1, <2>2, <2>3
<1> QED BY <1>2, <1>3, <1>4 DEF t

\* The queue as sets say it, which is how the proof uses it.
LEMMA QueueAsSets ==
  ASSUME pending \in Seq(Calls), call \in [Calls -> CallRecords]
  PROVE  QueueIsWaiters <=> Distinct(pending) /\ Elements(pending) = Waiters
<1>1. Elements(pending) \subseteq Calls BY DEF Elements
<1> QED BY <1>1 DEF QueueIsWaiters, Distinct, Elements, Waiters

\* The strengthening that is inductive: the counters are kept below the limits
\* and equal to the permits out, and only waiting calls are in the queue, so
\* that a grant never counts a call twice.
CountersBounded ==
  /\ activeGlobal <= globalLimit
  /\ \A p \in Providers : activeByProvider[p] <= providerLimits[p]

GateInv == TypeOK /\ QueueIsWaiters /\ PermitsCounted /\ CountersBounded

LEMMA GateInit == Init => GateInv
<1> SUFFICES ASSUME Init PROVE GateInv OBVIOUS
<1>a. /\ pending = << >>
      /\ activeGlobal = 0 /\ index = 0
      /\ activeByProvider = [p \in Providers |-> 0]
  BY DEF Init
<1>b. call \in [Calls -> CallRecords] /\ \A c \in Calls : call[c].state = "idle"
  BY DEF Init, CallRecords, callStates
<1>1. TypeOK
  <2>1. pending \in Seq(Calls) BY <1>a
  <2> QED BY <1>a, <1>b, <2>1 DEF TypeOK
<1>2. QueueIsWaiters
  <2>1. Len(pending) = 0 BY <1>a
  <2> QED BY <1>b, <2>1 DEF QueueIsWaiters
<1>3. HeldCalls = {} /\ \A p \in Providers : Holders(p) = {}
  BY <1>b DEF HeldCalls, Holders
<1>4. PermitsCounted
  BY <1>3, <1>a, FS_EmptySet DEF PermitsCounted, HeldCalls
<1>5. CountersBounded
  <2>1. \A p \in Providers : providerLimits[p] \in Nat \ {0} BY LimitAssumption
  <2>2. globalLimit \in Nat \ {0} BY LimitAssumption
  <2>3. \A p \in Providers : activeByProvider[p] = 0 BY <1>a
  <2> QED BY <2>1, <2>2, <2>3, <1>a DEF CountersBounded
<1> QED BY <1>1, <1>2, <1>4, <1>5 DEF GateInv

-----------------------------------------------------------------------------
(* What one call's change of state does to the sets the counters count.    *)

LEMMA HeldFinite ==
  /\ IsFiniteSet(HeldCalls) /\ Cardinality(HeldCalls) \in Nat
  /\ \A p \in Providers : IsFiniteSet(Holders(p)) /\ Cardinality(Holders(p)) \in Nat
BY LimitAssumption, FS_Subset, FS_CardinalityType DEF HeldCalls, Holders

\* A call that was not held is given a permit.
LEMMA GrantCounted ==
  ASSUME TypeOK, PermitsCounted,
         NEW c \in Calls, call[c].state # "held",
         call' = [call EXCEPT ![c].state = "held"],
         activeGlobal' = activeGlobal + 1,
         activeByProvider' = [activeByProvider EXCEPT ![call[c].provider] = @ + 1]
  PROVE  PermitsCounted'
<1> DEFINE p0 == call[c].provider
<1>1. p0 \in Providers BY DEF TypeOK, CallRecords
<1>2. HeldCalls' = HeldCalls \cup {c} /\ c \notin HeldCalls
  BY DEF HeldCalls, TypeOK, CallRecords
<1>3. activeGlobal' = Cardinality(HeldCalls')
  BY <1>2, HeldFinite, FS_AddElement DEF PermitsCounted, HeldCalls
<1>4. ASSUME NEW p \in Providers PROVE activeByProvider'[p] = Cardinality(Holders(p)')
  <2>1. CASE p = p0
    <3>1. Holders(p)' = Holders(p) \cup {c} /\ c \notin Holders(p)
      BY <2>1 DEF Holders, TypeOK, CallRecords
    <3>2. activeByProvider'[p] = activeByProvider[p] + 1
      BY <1>1, <2>1 DEF TypeOK
    <3>3. Cardinality(Holders(p) \cup {c}) = Cardinality(Holders(p)) + 1
      BY <3>1, HeldFinite, FS_AddElement
    <3> QED BY <3>1, <3>2, <3>3 DEF PermitsCounted
  <2>2. CASE p # p0
    <3>1. Holders(p)' = Holders(p)
      BY <2>2 DEF Holders, TypeOK, CallRecords
    <3>2. activeByProvider'[p] = activeByProvider[p]
      BY <1>1, <2>2 DEF TypeOK
    <3> QED BY <3>1, <3>2 DEF PermitsCounted
  <2> QED BY <2>1, <2>2
<1> QED BY <1>3, <1>4 DEF PermitsCounted, HeldCalls

\* A held permit is given back.
LEMMA ReleaseCounted ==
  ASSUME TypeOK, PermitsCounted,
         NEW c \in Calls, call[c].state = "held",
         call' = [call EXCEPT ![c].state = "released"],
         activeGlobal' = activeGlobal - 1,
         activeByProvider' = [activeByProvider EXCEPT ![call[c].provider] = @ - 1]
  PROVE  /\ PermitsCounted'
         /\ activeGlobal - 1 \in Nat
         /\ activeByProvider[call[c].provider] - 1 \in Nat
<1> DEFINE p0 == call[c].provider
<1>1. p0 \in Providers BY DEF TypeOK, CallRecords
<1>2. HeldCalls' = HeldCalls \ {c} /\ c \in HeldCalls
  BY DEF HeldCalls, TypeOK, CallRecords
<1>3. activeGlobal' = Cardinality(HeldCalls') /\ Cardinality(HeldCalls') \in Nat
  <2>1. Cardinality(HeldCalls \ {c}) = Cardinality(HeldCalls) - 1
        /\ IsFiniteSet(HeldCalls \ {c})
    BY <1>2, HeldFinite, FS_RemoveElement
  <2>2. Cardinality(HeldCalls \ {c}) \in Nat BY <2>1, FS_CardinalityType
  <2> QED BY <1>2, <2>1, <2>2 DEF PermitsCounted, HeldCalls
<1>4. ASSUME NEW p \in Providers PROVE activeByProvider'[p] = Cardinality(Holders(p)')
  <2>1. CASE p = p0
    <3>1. Holders(p)' = Holders(p) \ {c} /\ c \in Holders(p)
      BY <2>1 DEF Holders, TypeOK, CallRecords
    <3>2. activeByProvider'[p] = activeByProvider[p] - 1
      BY <1>1, <2>1 DEF TypeOK
    <3>3. Cardinality(Holders(p) \ {c}) = Cardinality(Holders(p)) - 1
      BY <3>1, HeldFinite, FS_RemoveElement
    <3> QED BY <3>1, <3>2, <3>3 DEF PermitsCounted
  <2>2. CASE p # p0
    <3>1. Holders(p)' = Holders(p)
      BY <2>2 DEF Holders, TypeOK, CallRecords
    <3>2. activeByProvider'[p] = activeByProvider[p]
      BY <1>1, <2>2 DEF TypeOK
    <3> QED BY <3>1, <3>2 DEF PermitsCounted
  <2> QED BY <2>1, <2>2
<1>5. activeByProvider[p0] - 1 \in Nat
  <2>1. c \in Holders(p0) BY DEF Holders
  <2>2. /\ Cardinality(Holders(p0) \ {c}) = Cardinality(Holders(p0)) - 1
        /\ IsFiniteSet(Holders(p0) \ {c})
    BY <1>1, <2>1, HeldFinite, FS_RemoveElement
  <2>3. Cardinality(Holders(p0) \ {c}) \in Nat BY <2>2, FS_CardinalityType
  <2> QED BY <1>1, <2>2, <2>3 DEF PermitsCounted
<1> QED BY <1>3, <1>4, <1>5 DEF PermitsCounted, HeldCalls

\* A call that neither takes nor gives back a permit leaves the counts alone.
LEMMA CountsKept ==
  ASSUME TypeOK, PermitsCounted, call' \in [Calls -> CallRecords],
         \A c \in Calls : \/ call'[c] = call[c]
                          \/ call[c].state # "held" /\ call'[c].state # "held"
                          \/ /\ call'[c].state = call[c].state
                             /\ call'[c].provider = call[c].provider,
         UNCHANGED <<activeGlobal, activeByProvider>>
  PROVE  PermitsCounted'
<1>1. HeldCalls' = HeldCalls BY DEF HeldCalls
<1>2. \A p \in Providers : Holders(p)' = Holders(p) BY DEF Holders
<1> QED BY <1>1, <1>2 DEF PermitsCounted, HeldCalls

-----------------------------------------------------------------------------
(* One lemma for each action.                                              *)

\* Taking the call at a position out of the queue, once it no longer waits.
LEMMA SpliceKeepsQueue ==
  ASSUME TypeOK, QueueIsWaiters, NEW i \in 1..Len(pending),
         pending' = Splice(pending, i), call' \in [Calls -> CallRecords],
         call'[pending[i]].state # "waiting",
         \A c \in Calls \ {pending[i]} : call'[c].state = call[c].state
  PROVE  pending' \in Seq(Calls) /\ QueueIsWaiters'
<1>1. Distinct(pending) /\ Elements(pending) = Waiters
  BY QueueAsSets DEF TypeOK
<1>2. pending' \in Seq(Calls) BY SpliceFacts DEF TypeOK
<1>3. Distinct(pending') /\ Elements(pending') = Elements(pending) \ {pending[i]}
  BY <1>1, SpliceRemoves DEF TypeOK
<1>4. Waiters' = Waiters \ {pending[i]} BY DEF Waiters, TypeOK
<1>5. Elements(pending') = Waiters' BY <1>1, <1>3, <1>4
<1>6. Elements(pending') \subseteq Calls BY <1>2 DEF Elements
<1> QED BY <1>2, <1>3, <1>5, <1>6 DEF QueueIsWaiters, Distinct, Elements, Waiters

LEMMA DrainGrantsStep == GateInv /\ DrainGrants => GateInv'
<1> SUFFICES ASSUME GateInv, DrainGrants PROVE GateInv' OBVIOUS
<1> DEFINE c == pending[index]
<1> USE DEF GateInv
<1>1. index \in 1..Len(pending) /\ activeGlobal < globalLimit
  BY DEF DrainGrants, DrainContinues
<1>2. c \in Calls /\ call[c].state = "waiting" /\ call[c].provider \in Providers
  BY <1>1 DEF TypeOK, QueueIsWaiters, CallRecords
<1>3. /\ call' = [call EXCEPT ![c].state = "held"]
      /\ pending' = Splice(pending, index)
      /\ activeGlobal' = activeGlobal + 1
      /\ activeByProvider' = [activeByProvider EXCEPT ![call[c].provider] = @ + 1]
      /\ index' = index
      /\ ~Saturated(call[c].provider)
  BY DEF DrainGrants
<1> HIDE DEF c
<1>4. call' \in [Calls -> CallRecords]
  BY <1>2, <1>3 DEF TypeOK, CallRecords, callStates
<1>5. call'[c].state # "waiting" /\ \A e \in Calls \ {c} : call'[e].state = call[e].state
  BY <1>2, <1>3 DEF TypeOK
<1>6. pending' \in Seq(Calls) /\ QueueIsWaiters'
  BY <1>1, <1>3, <1>4, <1>5, SpliceKeepsQueue DEF c
<1>7. PermitsCounted' BY <1>2, <1>3, GrantCounted
<1>8. TypeOK' BY <1>2, <1>3, <1>4, <1>6 DEF TypeOK
<1>9. CountersBounded'
  <2>1. activeGlobal' <= globalLimit
    <3>1. activeGlobal \in Nat /\ globalLimit \in Nat BY LimitAssumption DEF TypeOK
    <3> QED BY <1>1, <1>3, <3>1
  <2>2. ASSUME NEW p \in Providers PROVE activeByProvider'[p] <= providerLimits[p]
    <3>1. activeByProvider[p] \in Nat /\ providerLimits[p] \in Nat \ {0}
      BY LimitAssumption DEF TypeOK
    <3>2. CASE p = call[c].provider
      <4>1. activeByProvider'[p] = activeByProvider[p] + 1 BY <1>3, <3>2 DEF TypeOK
      <4> QED BY <1>3, <3>1, <3>2, <4>1 DEF Saturated
    <3>3. CASE p # call[c].provider
      <4>1. activeByProvider'[p] = activeByProvider[p] BY <1>3, <3>3 DEF TypeOK
      <4> QED BY <4>1 DEF CountersBounded
    <3> QED BY <3>2, <3>3
  <2> QED BY <2>1, <2>2 DEF CountersBounded
<1> QED BY <1>6, <1>7, <1>8, <1>9

LEMMA DrainRejectsStep == GateInv /\ DrainRejects => GateInv'
<1> SUFFICES ASSUME GateInv, DrainRejects PROVE GateInv' OBVIOUS
<1> DEFINE c == pending[index]
<1> USE DEF GateInv
<1>1. index \in 1..Len(pending) BY DEF DrainRejects, DrainContinues
<1>2. c \in Calls /\ call[c].state = "waiting"
  BY <1>1 DEF TypeOK, QueueIsWaiters
<1>3. /\ call' = [call EXCEPT ![c].state = "rejected"]
      /\ pending' = Splice(pending, index)
      /\ UNCHANGED <<activeGlobal, activeByProvider, index>>
  BY DEF DrainRejects
<1> HIDE DEF c
<1>4. call' \in [Calls -> CallRecords]
  BY <1>2, <1>3 DEF TypeOK, CallRecords, callStates
<1>5. call'[c].state = "rejected" /\ \A e \in Calls \ {c} : call'[e] = call[e]
  BY <1>2, <1>3 DEF TypeOK, CallRecords
<1>6. pending' \in Seq(Calls) /\ QueueIsWaiters'
  BY <1>1, <1>3, <1>4, <1>5, SpliceKeepsQueue DEF c
<1>7. PermitsCounted'
  BY <1>2, <1>3, <1>4, <1>5, CountsKept
<1>8. TypeOK' BY <1>3, <1>4, <1>6 DEF TypeOK
<1> QED BY <1>3, <1>6, <1>7, <1>8 DEF CountersBounded

\* The loop's other two cases move the index only.
LEMMA DrainIdleStep == GateInv /\ (DrainEnds \/ DrainSkips) => GateInv'
<1> SUFFICES ASSUME GateInv, DrainEnds \/ DrainSkips PROVE GateInv' OBVIOUS
<1>1. index' \in Nat /\ UNCHANGED <<call, pending, activeGlobal, activeByProvider>>
  BY DEF GateInv, TypeOK, DrainEnds, DrainSkips
<1> QED
  BY <1>1 DEF GateInv, TypeOK, QueueIsWaiters, PermitsCounted, CountersBounded, Holders

LEMMA AcquireStep ==
  ASSUME GateInv, NEW c \in Calls, NEW p \in Providers, Acquire(c, p)
  PROVE  GateInv'
<1> USE DEF GateInv
<1>1. /\ call[c].state = "idle"
      /\ call' = [call EXCEPT ![c] = [state |-> "waiting", provider |-> p, aborted |-> FALSE]]
      /\ pending' = Append(pending, c)
      /\ index' \in Nat
      /\ UNCHANGED <<activeGlobal, activeByProvider>>
  BY DEF Acquire, Enlist, Draining
<1>2. call' \in [Calls -> CallRecords] /\ pending' \in Seq(Calls)
  BY <1>1 DEF TypeOK, CallRecords, callStates
<1>3. call'[c].state = "waiting" /\ \A e \in Calls \ {c} : call'[e] = call[e]
  BY <1>1 DEF TypeOK
<1>4. QueueIsWaiters'
  <2>1. /\ Len(pending') = Len(pending) + 1
        /\ \A i \in 1..Len(pending) : pending'[i] = pending[i]
        /\ pending'[Len(pending) + 1] = c
    BY <1>1 DEF TypeOK
  <2>2. \A i \in 1..Len(pending) : pending[i] # c
    BY <1>1 DEF QueueIsWaiters
  <2>3. Len(pending) \in Nat BY DEF TypeOK
  <2>4. ASSUME NEW i \in 1..Len(pending'), NEW k \in 1..Len(pending'),
               pending'[i] = pending'[k]
        PROVE  i = k
    BY <2>1, <2>2, <2>3, <2>4 DEF QueueIsWaiters
  <2>5. ASSUME NEW e \in Calls
        PROVE  call'[e].state = "waiting" <=> \E i \in 1..Len(pending') : pending'[i] = e
    <3>1. CASE e = c
      <4>1. Len(pending) + 1 \in 1..Len(pending') BY <2>1, <2>3
      <4> QED BY <1>3, <2>1, <3>1, <4>1
    <3>2. CASE e # c
      <4>1. call[e].state = "waiting" <=> \E i \in 1..Len(pending) : pending[i] = e
        BY DEF QueueIsWaiters
      <4>2. (\E i \in 1..Len(pending') : pending'[i] = e)
              <=> \E i \in 1..Len(pending) : pending[i] = e
        BY <2>1, <2>3, <3>2
      <4> QED BY <1>3, <3>2, <4>1, <4>2
    <3> QED BY <3>1, <3>2
  <2> QED BY <2>4, <2>5 DEF QueueIsWaiters
<1>5. PermitsCounted'
  BY <1>1, <1>2, <1>3, CountsKept
<1> QED BY <1>1, <1>2, <1>4, <1>5 DEF TypeOK, CountersBounded

LEMMA ReleaseStep ==
  ASSUME GateInv, NEW c \in Calls, Release(c)
  PROVE  GateInv'
<1> USE DEF GateInv
<1>1. /\ call[c].state = "held"
      /\ call' = [call EXCEPT ![c].state = "released"]
      /\ activeGlobal' = activeGlobal - 1
      /\ activeByProvider' = [activeByProvider EXCEPT ![call[c].provider] = @ - 1]
      /\ index' \in Nat
      /\ pending' = pending
  BY DEF Release, Unreleased, Draining
<1>2. call' \in [Calls -> CallRecords] /\ call[c].provider \in Providers
  BY <1>1 DEF TypeOK, CallRecords, callStates
<1>3. /\ PermitsCounted'
      /\ activeGlobal - 1 \in Nat
      /\ activeByProvider[call[c].provider] - 1 \in Nat
  BY <1>1, ReleaseCounted
<1>4. \A e \in Calls : call'[e].state = "waiting" <=> call[e].state = "waiting"
  BY <1>1 DEF TypeOK
<1>5. QueueIsWaiters' BY <1>1, <1>4 DEF QueueIsWaiters
<1>6. TypeOK' BY <1>1, <1>2, <1>3 DEF TypeOK
<1>7. CountersBounded'
  <2>1. activeGlobal' <= globalLimit
    <3>1. activeGlobal \in Nat /\ globalLimit \in Nat BY LimitAssumption DEF TypeOK
    <3> QED BY <1>1, <3>1 DEF CountersBounded
  <2>2. ASSUME NEW p \in Providers PROVE activeByProvider'[p] <= providerLimits[p]
    <3>1. activeByProvider[p] \in Nat /\ providerLimits[p] \in Nat \ {0}
      BY LimitAssumption DEF TypeOK
    <3>2. activeByProvider'[p] \in {activeByProvider[p], activeByProvider[p] - 1}
      BY <1>1 DEF TypeOK
    <3> QED BY <3>1, <3>2 DEF CountersBounded
  <2> QED BY <2>1, <2>2 DEF CountersBounded
<1> QED BY <1>3, <1>5, <1>6, <1>7

LEMMA SignalAbortsStep ==
  ASSUME GateInv, NEW c \in Calls, SignalAborts(c)
  PROVE  GateInv'
<1> USE DEF GateInv
<1>1. /\ call' = [call EXCEPT ![c].aborted = TRUE]
      /\ UNCHANGED <<pending, activeGlobal, activeByProvider, index>>
  BY DEF SignalAborts
<1>2. /\ call' \in [Calls -> CallRecords]
      /\ \A e \in Calls : /\ call'[e].state = call[e].state
                         /\ call'[e].provider = call[e].provider
  BY <1>1 DEF TypeOK, CallRecords
<1>3. PermitsCounted' BY <1>1, <1>2, CountsKept
<1>4. QueueIsWaiters' BY <1>1, <1>2 DEF QueueIsWaiters
<1> QED BY <1>1, <1>2, <1>3, <1>4 DEF TypeOK, CountersBounded

LEMMA AbortListenerStep ==
  ASSUME GateInv, NEW c \in Calls, AbortListener(c)
  PROVE  GateInv'
<1> USE DEF GateInv
<1>1. PICK i \in 1..Len(pending) : pending[i] = c /\ pending' = Splice(pending, i)
  BY DEF AbortListener
<1>2. /\ call[c].state = "waiting"
      /\ call' = [call EXCEPT ![c].state = "rejected"]
      /\ UNCHANGED <<activeGlobal, activeByProvider, index>>
  BY <1>1 DEF AbortListener, QueueIsWaiters
<1>3. call' \in [Calls -> CallRecords]
  BY <1>2 DEF TypeOK, CallRecords, callStates
<1>4. call'[c].state = "rejected" /\ \A e \in Calls \ {c} : call'[e] = call[e]
  BY <1>2 DEF TypeOK, CallRecords
<1>5. pending' \in Seq(Calls) /\ QueueIsWaiters'
  BY <1>1, <1>3, <1>4, SpliceKeepsQueue
<1>6. PermitsCounted' BY <1>2, <1>3, <1>4, CountsKept
<1> QED BY <1>2, <1>3, <1>5, <1>6 DEF TypeOK, CountersBounded

LEMMA ReturnStep ==
  ASSUME GateInv, NEW c \in Calls, Return(c)
  PROVE  GateInv'
<1> USE DEF GateInv
<1>1. /\ call[c].state \in {"released", "rejected"}
      /\ call' = [call EXCEPT ![c] = [@ EXCEPT !.state = "idle", !.aborted = FALSE]]
      /\ UNCHANGED <<pending, activeGlobal, activeByProvider, index>>
  BY DEF Return
<1>2. /\ call' \in [Calls -> CallRecords]
      /\ call'[c].state = "idle"
      /\ \A e \in Calls \ {c} : call'[e] = call[e]
  BY <1>1 DEF TypeOK, CallRecords, callStates
<1>3. PermitsCounted' BY <1>1, <1>2, CountsKept
<1>4. QueueIsWaiters' BY <1>1, <1>2 DEF QueueIsWaiters
<1> QED BY <1>1, <1>2, <1>3, <1>4 DEF TypeOK, CountersBounded

-----------------------------------------------------------------------------
(* The theorems.                                                           *)

\* The strengthened invariant holds in every state of the gate.
THEOREM GateInvariant == Spec => []GateInv
<1>1. GateInv /\ [Next]_vars => GateInv'
  <2> SUFFICES ASSUME GateInv, [Next]_vars PROVE GateInv' OBVIOUS
  <2>1. CASE Drain
    BY <2>1, DrainGrantsStep, DrainRejectsStep, DrainIdleStep DEF Drain
  <2>2. ASSUME NEW c \in Calls, CallStep(c) PROVE GateInv'
    BY <2>2, AcquireStep, ReleaseStep, SignalAbortsStep, AbortListenerStep, ReturnStep
    DEF CallStep
  <2>3. CASE UNCHANGED vars
    BY <2>3 DEF vars, GateInv, TypeOK, QueueIsWaiters, PermitsCounted,
                CountersBounded, Holders
  <2> QED BY <2>1, <2>2, <2>3 DEF Next
<1> QED BY <1>1, GateInit, PTL DEF Spec

\* The counters drain decides by are the permits that are really out, whatever
\* the order of grants, aborts and releases.
THEOREM CountersAreExact == Spec => []PermitsCounted
<1>1. GateInv => PermitsCounted BY DEF GateInv
<1> QED BY <1>1, GateInvariant, PTL

\* The worker's limit and every provider's limit are respected.
THEOREM LimitsHold == Spec => []LimitsRespected
<1>1. GateInv => LimitsRespected
  BY DEF GateInv, PermitsCounted, CountersBounded, LimitsRespected
<1> QED BY <1>1, GateInvariant, PTL

\* No caller is left waiting for a promise that is not in the queue.
THEOREM NoLostWaiter == Spec => []QueueIsWaiters
<1>1. GateInv => QueueIsWaiters BY DEF GateInv
<1> QED BY <1>1, GateInvariant, PTL

\* The books of the gate are exact: types, counters, limits and queue together,
\* for every number of calls and providers.
THEOREM GateExact == Spec => []GateIsExact
<1>1. GateInv => TypeOK BY DEF GateInv
<1>2. TypeOK /\ PermitsCounted /\ LimitsRespected /\ QueueIsWaiters => GateIsExact
  BY DEF GateIsExact
<1> QED BY <1>1, <1>2, GateInvariant, CountersAreExact, LimitsHold, NoLostWaiter, PTL


-----------------------------------------------------------------------------
(* Room that nobody uses.  A turn of drain goes through the queue once, so *)
(* the invariant speaks of a turn that is under way: what the loop has     *)
(* passed could not be granted, and nothing the rest of the turn does      *)
(* makes room for it.                                                      *)

Ungrantable(c) ==
  activeGlobal >= globalLimit \/ Saturated(call[c].provider) \/ call[c].aborted

PassedAreUngrantable ==
  \A i \in 1..Len(pending) : index = 0 \/ i < index => Ungrantable(pending[i])

\* A call stays ungrantable while permits are only taken.
LEMMA StaysUngrantable ==
  ASSUME GateInv, NEW c \in Calls, Ungrantable(c),
         call'[c].provider = call[c].provider, call[c].aborted => call'[c].aborted,
         activeGlobal' \in Nat, activeGlobal <= activeGlobal',
         \A p \in Providers : /\ activeByProvider'[p] \in Nat
                              /\ activeByProvider[p] <= activeByProvider'[p]
  PROVE  Ungrantable(c)'
<1>1. /\ call[c].provider \in Providers /\ globalLimit \in Nat /\ activeGlobal \in Nat
      /\ \A p \in Providers : providerLimits[p] \in Nat /\ activeByProvider[p] \in Nat
  BY LimitAssumption DEF GateInv, TypeOK, CallRecords
<1>2. CASE Saturated(call[c].provider)
  <2>1. PICK p \in Providers : p = call[c].provider
    BY <1>1
  <2>2. activeByProvider'[p] >= providerLimits[p] /\ call'[c].provider = p
    BY <1>1, <1>2, <2>1 DEF Saturated
  <2>3. QED
    BY <2>2 DEF Ungrantable, Saturated
<1>3. CASE ~Saturated(call[c].provider)
  BY <1>1, <1>3 DEF Ungrantable
<1>4. QED
  BY <1>2, <1>3

LEMMA DrainKeepsPassed ==
  ASSUME GateInv, PassedAreUngrantable, Drain
  PROVE  PassedAreUngrantable'
<1>1. /\ pending \in Seq(Calls) /\ index \in Nat /\ Len(pending) \in Nat
      /\ activeGlobal \in Nat /\ globalLimit \in Nat /\ call \in [Calls -> CallRecords]
      /\ activeByProvider \in [Providers -> Nat]
      /\ \A i, k \in 1..Len(pending) : pending[i] = pending[k] => i = k
  BY LimitAssumption DEF GateInv, TypeOK, QueueIsWaiters
<1>2. CASE DrainEnds
  <2>1. UNCHANGED <<call, pending, activeGlobal, activeByProvider>>
        /\ ~DrainContinues /\ index > 0
    BY <1>2 DEF DrainEnds
  <2>2. \A i \in 1..Len(pending) : Ungrantable(pending[i])
    BY <1>1, <2>1 DEF DrainContinues, PassedAreUngrantable, Ungrantable
  <2>3. QED
    BY <2>1, <2>2 DEF PassedAreUngrantable, Ungrantable, Saturated
<1>3. CASE DrainSkips
  <2>1. /\ UNCHANGED <<call, pending, activeGlobal, activeByProvider>> /\ index' = index + 1
        /\ Saturated(call[pending[index]].provider) /\ index \in 1..Len(pending)
    BY <1>3 DEF DrainSkips, DrainContinues
  <2>2. \A i \in 1..Len(pending) : i < index + 1 => Ungrantable(pending[i])
    BY <1>1, <2>1 DEF PassedAreUngrantable, Ungrantable
  <2>3. index' # 0
    BY <1>1, <2>1
  <2>4. QED
    BY <2>1, <2>2, <2>3 DEF PassedAreUngrantable, Ungrantable, Saturated
<1>4. CASE DrainRejects \/ DrainGrants
  <2>1. /\ index \in 1..Len(pending) /\ pending' = Splice(pending, index) /\ index' = index
        /\ \E s : call' = [call EXCEPT ![pending[index]].state = s]
    BY <1>4 DEF DrainRejects, DrainGrants, DrainContinues
  <2>2. /\ Len(pending') = Len(pending) - 1
        /\ \A i \in 1..Len(pending') : i < index => pending'[i] = pending[i]
    BY <1>1, <2>1, SpliceFacts
  <2>3. /\ activeGlobal' \in Nat /\ activeGlobal <= activeGlobal'
        /\ \A p \in Providers : /\ activeByProvider'[p] \in Nat
                                /\ activeByProvider[p] <= activeByProvider'[p]
    <3>1. CASE DrainRejects
      BY <1>1, <3>1 DEF DrainRejects
    <3>2. CASE DrainGrants
      <4>1. PICK q : activeByProvider' = [activeByProvider EXCEPT ![q] = @ + 1]
        BY <3>2 DEF DrainGrants
      <4>2. \A p \in Providers :
              activeByProvider'[p] \in {activeByProvider[p], activeByProvider[p] + 1}
        BY <1>1, <4>1
      <4>3. activeGlobal' = activeGlobal + 1
        BY <3>2 DEF DrainGrants
      <4>4. QED
        BY <1>1, <4>2, <4>3
    <3>3. QED
      BY <1>4, <3>1, <3>2
  <2>4. ASSUME NEW i \in 1..Len(pending'), i < index PROVE Ungrantable(pending[i])'
    <3>1. PICK c \in Calls : c = pending[i]
      BY <1>1, <2>1, <2>2, <2>4
    <3>2. pending'[i] = c /\ Ungrantable(c) /\ c # pending[index]
      BY <1>1, <2>1, <2>2, <2>4, <3>1 DEF PassedAreUngrantable
    <3>3. call'[c] = call[c]
      BY <1>1, <2>1, <3>2
    <3>4. Ungrantable(c)'
      BY <2>3, <3>2, <3>3, StaysUngrantable
    <3>5. QED
      BY <3>2, <3>4 DEF Ungrantable, Saturated
  <2>5. index' # 0
    BY <1>1, <2>1
  <2>6. QED
    BY <2>1, <2>4, <2>5 DEF PassedAreUngrantable, Ungrantable, Saturated
<1>5. QED
  BY <1>2, <1>3, <1>4 DEF Drain

LEMMA CallersKeepPassed ==
  ASSUME GateInv, PassedAreUngrantable, NEW c \in Calls, CallStep(c)
  PROVE  PassedAreUngrantable'
<1>1. /\ pending \in Seq(Calls) /\ Len(pending) \in Nat
      /\ activeGlobal \in Nat /\ globalLimit \in Nat /\ call \in [Calls -> CallRecords]
      /\ activeByProvider \in [Providers -> Nat] /\ activeGlobal <= globalLimit
      /\ \A i \in 1..Len(pending) : call[pending[i]].state = "waiting"
  BY LimitAssumption DEF GateInv, TypeOK, QueueIsWaiters, CountersBounded
<1>2. ASSUME NEW p \in Providers, Acquire(c, p) PROVE PassedAreUngrantable'
  <2>1. index' = Draining(activeGlobal) /\ activeGlobal' = activeGlobal
    BY <1>2 DEF Acquire
  <2>2. CASE activeGlobal < globalLimit
    <3>1. index' = 1
      BY <2>1, <2>2 DEF Draining
    <3>2. QED
      BY <3>1 DEF PassedAreUngrantable
  <2>3. CASE ~(activeGlobal < globalLimit)
    <3>1. activeGlobal' >= globalLimit
      BY <1>1, <2>1, <2>3
    <3>2. QED
      BY <3>1 DEF PassedAreUngrantable, Ungrantable
  <2>4. QED
    BY <2>2, <2>3
<1>3. CASE Release(c)
  <2>1. index' = 1
    BY <1>1, <1>3 DEF Release, Draining
  <2>2. QED
    BY <2>1 DEF PassedAreUngrantable
<1>4. CASE SignalAborts(c) \/ Return(c) \/ AbortListener(c)
  <2>1. index = 0 /\ index' = 0 /\ UNCHANGED <<activeGlobal, activeByProvider>>
    BY <1>4 DEF SignalAborts, Return, AbortListener
  <2>2. ASSUME NEW d \in Calls, Ungrantable(d), call'[d].provider = call[d].provider,
               call[d].aborted => call'[d].aborted
        PROVE  Ungrantable(d)'
    <3>1. /\ activeGlobal' \in Nat /\ activeGlobal <= activeGlobal'
          /\ \A p \in Providers : /\ activeByProvider'[p] \in Nat
                                  /\ activeByProvider[p] <= activeByProvider'[p]
      BY <1>1, <2>1
    <3>2. QED
      BY <2>2, <3>1, StaysUngrantable
  <2>3. \A i \in 1..Len(pending') : \E k \in 1..Len(pending) : pending'[i] = pending[k]
    <3>1. CASE AbortListener(c)
      <4>1. PICK j \in 1..Len(pending) : pending' = Splice(pending, j)
        BY <3>1 DEF AbortListener
      <4>2. /\ Len(pending') = Len(pending) - 1
            /\ \A i \in 1..(Len(pending) - 1) :
                 pending'[i] = IF i < j THEN pending[i] ELSE pending[i + 1]
        BY <1>1, <4>1, SpliceFacts
      <4>3. QED
        BY <1>1, <4>2
    <3>2. CASE pending' = pending
      BY <3>2
    <3>3. QED
      BY <1>4, <3>1, <3>2 DEF SignalAborts, Return
  <2>4. \A d \in Calls : call[d].state = "waiting" =>
          call'[d].provider = call[d].provider /\ (call[d].aborted => call'[d].aborted)
    <3>1. CASE SignalAborts(c)
      BY <1>1, <3>1 DEF SignalAborts, CallRecords
    <3>2. CASE AbortListener(c)
      BY <1>1, <3>2 DEF AbortListener, CallRecords
    <3>3. CASE Return(c)
      BY <1>1, <3>3 DEF Return, CallRecords
    <3>4. QED
      BY <1>4, <3>1, <3>2, <3>3
  <2>5. ASSUME NEW i \in 1..Len(pending') PROVE Ungrantable(pending[i])'
    <3>1. PICK k \in 1..Len(pending) : pending'[i] = pending[k]
      BY <2>3
    <3>2. PICK d \in Calls : d = pending[k]
      BY <1>1
    <3>3. Ungrantable(d)'
      BY <1>1, <2>1, <2>2, <2>4, <3>1, <3>2 DEF PassedAreUngrantable
    <3>4. QED
      BY <3>1, <3>2, <3>3 DEF Ungrantable, Saturated
  <2>6. QED
    BY <2>5 DEF PassedAreUngrantable, Ungrantable, Saturated
<1>5. QED
  BY <1>2, <1>3, <1>4 DEF CallStep

\* Between two turns of the process no call waits while there is room for it:
\* the gate needs no other event to hand out what it has.
THEOREM CapacityIsUsed == Spec => []NoIdleCapacity
<1>1. Init => PassedAreUngrantable
  BY DEF Init, PassedAreUngrantable
<1>2. GateInv /\ PassedAreUngrantable /\ [Next]_vars => PassedAreUngrantable'
  <2>1. SUFFICES ASSUME GateInv, PassedAreUngrantable, UNCHANGED vars
                 PROVE  PassedAreUngrantable'
    BY DrainKeepsPassed, CallersKeepPassed DEF Next
  <2>2. QED
    BY <2>1 DEF PassedAreUngrantable, Ungrantable, Saturated, vars
<1>3. PassedAreUngrantable => NoIdleCapacity
  BY DEF PassedAreUngrantable, Ungrantable, NoIdleCapacity
<1>4. QED
  BY <1>1, <1>2, <1>3, GateInvariant, PTL DEF Spec
=============================================================================
