------------------------- MODULE MCRequestLifecycle -------------------------
(* Model values and bounds for TLC. *)
EXTENDS RequestLifecycle, TLC

CONSTANTS r1, r2, r3, a1, a2, c1

Requests == {r1, r2, r3}
Applications == {a1, a2}
Credentials == {c1}

Interchangeable == Permutations(Requests) \cup Permutations(Applications)
=============================================================================
