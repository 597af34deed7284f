----------------------------- MODULE MCDidKeys -----------------------------
(* Model values and bounds for TLC. *)
EXTENDS DidKeys, TLC

CONSTANTS owner, p1, p2

OneOwner == {owner}
TwoProcesses == {p1, p2}

Interchangeable == Permutations(Process)
=============================================================================
