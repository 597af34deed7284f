-------------------------- MODULE MCRefreshTokens --------------------------
(* Model values and bounds for TLC. *)
EXTENDS RefreshTokens, TLC

CONSTANTS f1, f2, t1, t2, t3, t4, p1, p2, p3

OneFamily == {f1}
TwoFamilies == {f1, f2}
ThreeTokens == {t1, t2, t3}
FourTokens == {t1, t2, t3, t4}
TwoProcesses == {p1, p2}
ThreeProcesses == {p1, p2, p3}

Interchangeable ==
    Permutations(Family) \cup Permutations(Token) \cup Permutations(Process)
=============================================================================
