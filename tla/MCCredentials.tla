--------------------------- MODULE MCCredentials ---------------------------
(* Model values and bounds for TLC. *)
EXTENDS Credentials, TLC

CONSTANTS a1, c1, c2, i1, p1, p2, p3

None == {}
OneRecord == {a1}
OneCredential == {c1}
TwoCredentials == {c1, c2}
OneIssuer == {i1}
TwoProcesses == {p1, p2}
ThreeProcesses == {p1, p2, p3}

Interchangeable == Permutations(Credential) \cup Permutations(Process)
=============================================================================
