---------------------------- MODULE LoginSessions ----------------------------
(***************************************************************************)
(* What refresh tokens promise of a login: from opening to closing it is   *)
(* carried by one token at a time, each exchange trades that token for a   *)
(* new one at one instant, and closing it ends the token it is carried by. *)
(* A session closed by logout or by the reuse of a token never reopens.    *)
(* RefreshTokens.tla implements this with rows, locks and transactions.    *)
(***************************************************************************)
CONSTANTS
    Family,     \* logins
    Token       \* refresh tokens that may be generated

VARIABLES
    session,    \* of each login: "NONE", "OPEN" or "CLOSED"
    carrier,    \* of each login: the set of the token it is carried by
    used        \* tokens handed out so far

vars == <<session, carrier, used>>

Init ==
    /\ session = [f \in Family |-> "NONE"]
    /\ carrier = [f \in Family |-> {}]
    /\ used = {}

\* A login opens its session; the token follows, or is never delivered.
Open(f) ==
    /\ session[f] = "NONE"
    /\ session' = [session EXCEPT ![f] = "OPEN"]
    /\ UNCHANGED <<carrier, used>>

Deliver(f, t) ==
    /\ session[f] = "OPEN"
    /\ carrier[f] = {}
    /\ t \notin used
    /\ carrier' = [carrier EXCEPT ![f] = {t}]
    /\ used' = used \cup {t}
    /\ UNCHANGED session

Exchange(f, t, next) ==
    /\ session[f] = "OPEN"
    /\ carrier[f] = {t}
    /\ next \notin used
    /\ carrier' = [carrier EXCEPT ![f] = {next}]
    /\ used' = used \cup {next}
    /\ UNCHANGED session

Close(f) ==
    /\ session[f] = "OPEN"
    /\ session' = [session EXCEPT ![f] = "CLOSED"]
    /\ carrier' = [carrier EXCEPT ![f] = {}]
    /\ UNCHANGED used

Next ==
    \E f \in Family :
        \/ Open(f)
        \/ \E t \in Token : Deliver(f, t)
        \/ \E t, next \in Token : Exchange(f, t, next)
        \/ Close(f)

Spec == Init /\ [][Next]_vars
=============================================================================
