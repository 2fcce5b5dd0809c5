------------------------------ MODULE NullValue ------------------------------
(* What the components write for null: a column without a value, a JSON    *)
(* field that is absent or of the wrong shape.                             *)
EXTENDS Integers

CONSTANT Null

ASSUME NullAssumption == Null \notin Int
=============================================================================
