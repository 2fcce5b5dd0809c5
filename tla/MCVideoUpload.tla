--------------------------- MODULE MCVideoUpload ---------------------------
(* Instances of VideoUpload for TLC. *)
EXTENDS VideoUpload, TLC

CONSTANTS i1, i2, p1, q1, q2, c1, v1

OneIntent == {i1}
TwoIntents == {i1, i2}
OnePost == {p1}
OneRequest == {q1}
TwoRequests == {q1, q2}
OneCleaner == {c1}
OneValidator == {v1}

Symmetry == Permutations(TwoIntents) \cup Permutations(TwoRequests)
=============================================================================
