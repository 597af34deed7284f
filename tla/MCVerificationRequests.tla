----------------------- MODULE MCVerificationRequests -----------------------
(* Model values and bounds for TLC. *)
EXTENDS VerificationRequests, TLC

CONSTANTS r1, r2, a1, a2, c1, s1, s2

OneRequest == {r1}
TwoRequests == {r1, r2}
OneApplication == {a1}
TwoApplications == {a1, a2}
OneCredential == {c1}
OneServer == {s1}
TwoServers == {s1, s2}

AllFaults == {"crash", "database", "redis"}
StoreFaults == {"database", "redis"}
NoFaults == {}

\* Requests, applications and handlers are interchangeable.
Interchangeable ==
    Permutations(Request) \cup Permutations(Application) \cup Permutations(Server)
=============================================================================
