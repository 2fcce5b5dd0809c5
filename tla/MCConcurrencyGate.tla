------------------------- MODULE MCConcurrencyGate -------------------------
(* Instances of ConcurrencyGate for TLC. *)
EXTENDS ConcurrencyGate

CONSTANTS a, b, c, gemini, instagram

ThreeCalls == {a, b, c}
TwoProviders == {gemini, instagram}

\* One permit for instagram, as the worker has it; the global limit binds.
Limits == [p \in TwoProviders |-> IF p = instagram THEN 1 ELSE 2]
=============================================================================
