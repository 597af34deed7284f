------------------------- MODULE MCHolderEnrollment -------------------------
(* Model values and bounds for TLC. *)
EXTENDS HolderEnrollment, TLC

CONSTANTS h1, h2, k1, k2, c1, c2, p1, p2

TwoHolders == {h1, h2}
TwoKeys == {k1, k2}
OneEach == (k1 :> h1) @@ (k2 :> h2)
TwoChallenges == {c1, c2}
TwoProcesses == {p1, p2}

Interchangeable == Permutations(Challenge) \cup Permutations(Process)
=============================================================================
