---------------------------- MODULE RefreshTokens ----------------------------
(***************************************************************************)
(* RefreshTokenService and its callers login, refresh and logout of        *)
(* AuthService: refresh tokens belong to the family their login opened,    *)
(* are exchanged for a successor of the same family, and all of a family   *)
(* is revoked by logout or when a token is used after its exchange.        *)
(*                                                                         *)
(* Transactions run statement by statement, as PostgreSQL runs them at     *)
(* READ COMMITTED: their writes appear at the commit, an update waits for  *)
(* the rows that another transaction has updated and applies to the rows   *)
(* its snapshot shows.  The update of the family that changes nothing is   *)
(* there for the lock it takes.  Tokens are looked up with the user's id   *)
(* as well; a call with another user's token ends there.                   *)
(***************************************************************************)
CONSTANTS
    Family,     \* RefreshTokenFamily rows that a login may create
    Token,      \* refresh tokens that may be generated
    Process,    \* calls running at the same time, on any instance
    NoFamily,
    NoToken

ASSUME NullsAreNotValues == NoFamily \notin Family /\ NoToken \notin Token

VARIABLES
    family,     \* "NONE", "ACTIVE" (revokedAt is null) or "REVOKED"
    token,      \* the same of the token's row
    familyOf,   \* RefreshToken.familyId
    expired,    \* tokens whose expiresAt, which is also their JWT's exp, has passed
    parent,     \* history: the token it was exchanged for
    process     \* what each call is doing

vars == <<family, token, familyOf, expired, parent, process>>
rows == <<family, token, familyOf, expired, parent>>

RowStatus == {"NONE", "ACTIVE", "REVOKED"}

ProgramCounter ==
    {"idle", "down", "storeFirst", "beginRotation", "touchFamily", "consume", "commitRotation",
     "inspect", "revokeFamily", "collect", "commitRevocation"}

Idle == [pc |-> "idle", token |-> NoToken, family |-> NoFamily, fresh |-> TRUE,
         locks |-> FALSE, revoking |-> {}, replay |-> FALSE]

ProcessState ==
    [pc : ProgramCounter,
     token : Token \cup {NoToken},      \* the token presented
     family : Family \cup {NoFamily},
     fresh : BOOLEAN,                   \* its expiresAt is later than rotateToken's now
     locks : BOOLEAN,                   \* the transaction has updated the family's row
     revoking : SUBSET Token,           \* token rows it has updated, or is about to
     replay : BOOLEAN]                  \* history: the token had been revoked before the call

TypeOK ==
    /\ family \in [Family -> RowStatus]
    /\ token \in [Token -> RowStatus]
    /\ familyOf \in [Token -> Family \cup {NoFamily}]
    /\ expired \subseteq Token
    /\ parent \in [Token -> Token \cup {NoToken}]
    /\ process \in [Process -> ProcessState]

Init ==
    /\ family = [f \in Family |-> "NONE"]
    /\ token = [t \in Token |-> "NONE"]
    /\ familyOf = [t \in Token |-> NoFamily]
    /\ expired = {}
    /\ parent = [t \in Token |-> NoToken]
    /\ process = [p \in Process |-> Idle]

-----------------------------------------------------------------------------
At(p, pc) == process[p].pc = pc
Goto(p, pc) == process' = [process EXCEPT ![p].pc = pc]
Return(p) == process' = [process EXCEPT ![p] = Idle]

Presented(p) == process[p].token
FamilyOf(p) == process[p].family

\* Updates of these rows wait for another transaction to end.
FamilyLocked(p) == \E q \in Process \ {p} : process[q].locks /\ FamilyOf(q) = FamilyOf(p)
TokenLocked(p, t) == \E q \in Process \ {p} : At(q, "commitRotation") /\ t \in process[q].revoking

\* Mutant: the two references of the row are swapped.
InsertSwapsColumns(t, f, from) ==
    /\ familyOf' = [familyOf EXCEPT ![t] = from]
    /\ parent' = [parent EXCEPT ![t] = f]

\* A token row that did not exist before.
Insert(t, f, from) ==
    /\ familyOf' = [familyOf EXCEPT ![t] = f]
    /\ parent' = [parent EXCEPT ![t] = from]

-----------------------------------------------------------------------------
(* login: two writes, not in one transaction. *)

CreateFamily(p, f) ==
    /\ At(p, "idle")
    /\ family[f] = "NONE"
    /\ family' = [family EXCEPT ![f] = "ACTIVE"]
    /\ process' = [process EXCEPT ![p] = [Idle EXCEPT !.pc = "storeFirst", !.family = f]]
    /\ UNCHANGED <<token, familyOf, expired, parent>>

StoreToken(p, t) ==
    /\ At(p, "storeFirst")
    /\ token[t] = "NONE"
    /\ token' = [token EXCEPT ![t] = "ACTIVE"]
    /\ Insert(t, FamilyOf(p), NoToken)
    /\ Return(p)
    /\ UNCHANGED <<family, expired>>

-----------------------------------------------------------------------------
(* refresh *)

\* The JWT is valid and not expired.
StartRefresh(p, t) ==
    /\ At(p, "idle")
    /\ token[t] # "NONE"
    /\ t \notin expired
    /\ process' = [process EXCEPT ![p] = [Idle EXCEPT !.pc = "beginRotation",
                        !.token = t, !.family = familyOf[t], !.replay = (token[t] = "REVOKED")]]
    /\ UNCHANGED rows

\* The user is found, the successor is signed, and rotateToken reads the time.
BeginRotation(p) ==
    /\ At(p, "beginRotation")
    /\ process' = [process EXCEPT ![p].pc = "touchFamily", ![p].fresh = Presented(p) \notin expired]
    /\ UNCHANGED rows

\* Mutant: the family is read without being locked.
TouchFamilyWithoutLock(p) ==
    /\ At(p, "touchFamily")
    /\ IF family[FamilyOf(p)] = "ACTIVE" THEN Goto(p, "consume") ELSE Return(p)
    /\ UNCHANGED rows

TouchFamily(p) ==
    /\ At(p, "touchFamily")
    /\ ~FamilyLocked(p)
    /\ IF family[FamilyOf(p)] = "ACTIVE"
       THEN process' = [process EXCEPT ![p].pc = "consume", ![p].locks = TRUE]
       ELSE Return(p)
    /\ UNCHANGED rows

\* Mutant: the consuming update does not ask whether the token is still active.
ConsumableIgnoresRevocation(p) == process[p].fresh

\* WHERE "revokedAt" IS NULL AND "expiresAt" > now.
Consumable(p) == token[Presented(p)] = "ACTIVE" /\ process[p].fresh

Consume(p) ==
    /\ At(p, "consume")
    /\ ~TokenLocked(p, Presented(p))
    /\ IF Consumable(p)
       THEN process' = [process EXCEPT ![p].pc = "commitRotation", ![p].revoking = {Presented(p)}]
       ELSE Goto(p, "inspect")
    /\ UNCHANGED rows

\* The successor is inserted and the transaction commits.
CommitRotation(p, next) ==
    /\ At(p, "commitRotation")
    /\ token[next] = "NONE"
    /\ token' = [token EXCEPT ![Presented(p)] = "REVOKED", ![next] = "ACTIVE"]
    /\ Insert(next, FamilyOf(p), Presented(p))
    /\ Return(p)
    /\ UNCHANGED <<family, expired>>

\* Mutant: the two answers to a token that could not be consumed are swapped.
InspectSwapsAnswers(p) ==
    /\ At(p, "inspect")
    /\ IF process[p].fresh /\ token[Presented(p)] # "REVOKED" THEN Goto(p, "revokeFamily") ELSE Return(p)
    /\ UNCHANGED rows

\* Not consumed: expired since the JWT was verified, or used again after it was revoked.
Inspect(p) ==
    /\ At(p, "inspect")
    /\ IF process[p].fresh /\ token[Presented(p)] = "REVOKED" THEN Goto(p, "revokeFamily") ELSE Return(p)
    /\ UNCHANGED rows

-----------------------------------------------------------------------------
(* logout, and the revocation it shares with the reuse of a token. *)

\* revokeToken finds the token of the authenticated user.
StartLogout(p, t) ==
    /\ At(p, "idle")
    /\ token[t] # "NONE"
    /\ process' = [process EXCEPT ![p] = [Idle EXCEPT !.pc = "revokeFamily",
                        !.token = t, !.family = familyOf[t]]]
    /\ UNCHANGED rows

\* The family's row is updated if it is still active, and stays locked.  A reuse holds the
\* lock already and found the family active.
RevokeFamily(p) ==
    /\ At(p, "revokeFamily")
    /\ ~FamilyLocked(p)
    /\ IF family[FamilyOf(p)] = "ACTIVE"
       THEN process' = [process EXCEPT ![p].pc = "collect", ![p].locks = TRUE]
       ELSE Return(p)
    /\ UNCHANGED rows

\* The snapshot of the update of the family's tokens.
Collect(p) ==
    /\ At(p, "collect")
    /\ process' = [process EXCEPT ![p].pc = "commitRevocation",
            ![p].revoking = {t \in Token : token[t] = "ACTIVE" /\ familyOf[t] = FamilyOf(p)}]
    /\ UNCHANGED rows

\* The rows the update applies to.
RevokedWith(p) == process[p].revoking

CommitRevocation(p) ==
    /\ At(p, "commitRevocation")
    /\ \A t \in process[p].revoking : ~TokenLocked(p, t)
    /\ family' = [family EXCEPT ![FamilyOf(p)] = "REVOKED"]
    /\ token' = [t \in Token |-> IF t \in RevokedWith(p) THEN "REVOKED" ELSE token[t]]
    /\ Return(p)
    /\ UNCHANGED <<familyOf, expired, parent>>

-----------------------------------------------------------------------------
\* Time passes.
Expire(t) ==
    /\ token[t] # "NONE"
    /\ t \notin expired
    /\ expired' = expired \cup {t}
    /\ UNCHANGED <<family, token, familyOf, parent, process>>

\* A call stops where it is; its transaction, if any, is rolled back and its locks are released.
Crash(p) ==
    /\ ~At(p, "idle") /\ ~At(p, "down")
    /\ process' = [process EXCEPT ![p] = [Idle EXCEPT !.pc = "down"]]
    /\ UNCHANGED rows

Restart(p) ==
    /\ At(p, "down")
    /\ Return(p)
    /\ UNCHANGED rows

Login(p) ==
    \/ \E f \in Family : CreateFamily(p, f)
    \/ \E t \in Token : StoreToken(p, t)

Refresh(p) ==
    \/ \E t \in Token : StartRefresh(p, t)
    \/ BeginRotation(p)
    \/ TouchFamily(p)
    \/ Consume(p)
    \/ \E next \in Token : CommitRotation(p, next)
    \/ Inspect(p)

Logout(p) ==
    \/ \E t \in Token : StartLogout(p, t)
    \/ RevokeFamily(p)
    \/ Collect(p)
    \/ CommitRevocation(p)

Next ==
    \/ \E p \in Process : Login(p) \/ Refresh(p) \/ Logout(p) \/ Crash(p) \/ Restart(p)
    \/ \E t \in Token : Expire(t)

Spec == Init /\ [][Next]_vars

-----------------------------------------------------------------------------
(* The sessions that the rows stand for. *)

Meaning == [NONE |-> "NONE", ACTIVE |-> "OPEN", REVOKED |-> "CLOSED"]
SessionOf == [f \in Family |-> Meaning[family[f]]]
CarrierOf == [f \in Family |-> {t \in Token : token[t] = "ACTIVE" /\ familyOf[t] = f}]
Generated == {t \in Token : token[t] # "NONE"}

Sessions == INSTANCE LoginSessions WITH
    session <- SessionOf, carrier <- CarrierOf, used <- Generated

-----------------------------------------------------------------------------
(* Properties *)

\* Logins, refreshes, logouts and reuses, statement by statement and in any interleaving,
\* are the steps of a session: an exchange is one step although it reads, locks and writes
\* in several, and no refresh in flight survives or undoes the closing of its session.
ImplementsSessions == Sessions!Spec

\* After logout or a detected reuse nothing of the family can be refreshed any more: no
\* refresh in flight leaves an active token behind in a revoked family.
RevokedFamilyIsDead ==
    \A t \in Token : token[t] = "ACTIVE" => family[familyOf[t]] = "ACTIVE"

\* One login has at most one token that can be exchanged.
OneActiveToken ==
    \A t, u \in Token :
        token[t] = "ACTIVE" /\ token[u] = "ACTIVE" /\ familyOf[t] = familyOf[u] => t = u

\* Of simultaneous refreshes with the same token one gets a successor.
ExchangedOnce ==
    \A t, u \in Token : parent[t] # NoToken /\ parent[t] = parent[u] => t = u

\* A refresh with a token that was used before, if it runs to its end and the token is not
\* expired by then, leaves its family revoked, whoever holds the successors.
ReplayEndsFamily ==
    [][\A p \in Process :
          process[p].replay /\ process[p].fresh /\ ~At(p, "beginRotation") /\ process'[p].pc = "idle"
          => family'[FamilyOf(p)] = "REVOKED"]_vars
=============================================================================
