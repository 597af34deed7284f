-------------------------- MODULE RefreshTokensProofs --------------------------
(***************************************************************************)
(* For any logins, tokens and processes: the invariants of                 *)
(* RefreshTokens.tla, and that it implements LoginSessions.tla.            *)
(*                                                                         *)
(* The argument is the lock.  Whoever writes a family or one of its tokens *)
(* holds the row of the family (InFlight), no two hold the same            *)
(* (Exclusive), and so what the holder has read is still true when it      *)
(* commits.  The first token of a login needs no lock: until it is stored  *)
(* nobody else can know the family (Private).  That lock holders wait for  *)
(* nobody follows as well.  A refresh with a token used before never comes *)
(* to the commit of a rotation, since the token stays revoked (Replays).   *)
(***************************************************************************)
EXTENDS RefreshTokens, TLAPS

RowsFit ==
    \A t \in Token :
        /\ token[t] = "NONE" => familyOf[t] = NoFamily
        /\ token[t] # "NONE" => familyOf[t] \in Family /\ family[familyOf[t]] # "NONE"
        /\ parent[t] # NoToken => token[parent[t]] = "REVOKED"

Holding == {"consume", "commitRotation", "inspect", "collect", "commitRevocation"}

InFlight(p) ==
    LET h == process[p] IN
    /\ h.pc \notin {"idle", "down"} => h.family \in Family /\ family[h.family] # "NONE"
    /\ h.pc \in {"idle", "down"} => h.family = NoFamily
    /\ h.pc \notin {"idle", "down", "storeFirst"} =>
           h.token \in Token /\ token[h.token] # "NONE" /\ familyOf[h.token] = h.family
    /\ h.locks => h.pc \in Holding \cup {"revokeFamily"} /\ family[h.family] = "ACTIVE"
    /\ h.pc \in Holding => h.locks
    /\ h.pc = "commitRotation" => h.revoking = {h.token} /\ token[h.token] = "ACTIVE"
    /\ h.pc = "commitRevocation" =>
           h.revoking = {t \in Token : token[t] = "ACTIVE" /\ familyOf[t] = h.family}
    /\ h.pc = "storeFirst" =>
           family[h.family] = "ACTIVE" /\ \A t \in Token : familyOf[t] # h.family

Exclusive ==
    \A p, q \in Process :
        process[p].locks /\ process[q].locks /\ FamilyOf(p) = FamilyOf(q) => p = q

Private ==
    \A p, q \in Process : At(p, "storeFirst") /\ FamilyOf(p) = FamilyOf(q) => p = q

IInv ==
    /\ TypeOK
    /\ RowsFit
    /\ RevokedFamilyIsDead /\ OneActiveToken /\ ExchangedOnce
    /\ \A p \in Process : InFlight(p)
    /\ Exclusive
    /\ Private

LEMMA InitIInv == ASSUME Init PROVE IInv
<1>1. TypeOK
  BY DEF Init, TypeOK, RowStatus, ProcessState, ProgramCounter, Idle
<1>2. \A p \in Process : InFlight(p)
  BY DEF Init, InFlight, Idle, Holding
<1> QED
  BY <1>1, <1>2, NullsAreNotValues
  DEF Init, IInv, RowsFit, RevokedFamilyIsDead, OneActiveToken, ExchangedOnce, Exclusive,
      Private, Idle, At, FamilyOf

-----------------------------------------------------------------------------
(* Steps that write no row. *)

LEMMA LocalStep ==
    ASSUME IInv, UNCHANGED rows, NEW p \in Process, NEW h \in ProcessState,
           process' = [process EXCEPT ![p] = h],
           InFlight(p)',
           h.locks => \A q \in Process \ {p} : process[q].locks => FamilyOf(q) # h.family,
           h.pc # "storeFirst",
           \A q \in Process \ {p} : At(q, "storeFirst") => h.family # FamilyOf(q)
    PROVE  IInv'
<1> USE DEF rows
<1>1. /\ process \in [Process -> ProcessState] /\ process'[p] = h
      /\ \A q \in Process \ {p} : process'[q] = process[q]
  BY DEF IInv, TypeOK
<1>2. TypeOK'
  BY <1>1 DEF IInv, TypeOK
<1>3. \A q \in Process : InFlight(q)'
  BY <1>1 DEF IInv, InFlight
<1>4. Exclusive' /\ Private'
  BY <1>1 DEF IInv, Exclusive, Private, At, FamilyOf
<1> QED
  BY <1>2, <1>3, <1>4 DEF IInv, RowsFit, RevokedFamilyIsDead, OneActiveToken, ExchangedOnce

LEMMA EndStep ==
    ASSUME IInv, UNCHANGED rows, NEW p \in Process, NEW h,
           h = Idle \/ h = [Idle EXCEPT !.pc = "down"],
           process' = [process EXCEPT ![p] = h]
    PROVE  IInv'
<1>1. Idle \in ProcessState /\ Idle.pc = "idle" /\ Idle.family = NoFamily /\ ~Idle.locks
  BY DEF Idle, ProcessState, ProgramCounter
<1>5. /\ h \in ProcessState /\ h.pc \in {"idle", "down"} /\ h.family = NoFamily /\ ~h.locks
  BY <1>1 DEF ProcessState, ProgramCounter
<1>2. process'[p] = h
  BY DEF IInv, TypeOK
<1>3. InFlight(p)'
  BY <1>2, <1>5 DEF InFlight, Holding
<1>4. \A q \in Process : At(q, "storeFirst") => FamilyOf(q) # NoFamily
  BY NullsAreNotValues DEF IInv, InFlight, At, FamilyOf
<1> QED
  BY <1>3, <1>4, <1>5, LocalStep

LEMMA ReturnStep ==
    ASSUME IInv, UNCHANGED rows, NEW p \in Process, Return(p)
    PROVE  IInv'
BY EndStep DEF Return

\* A call goes on with its family; it may take the lock, or look at the tokens.
LEMMA ProceedStep ==
    ASSUME IInv, UNCHANGED rows, NEW p \in Process, NEW h \in ProcessState,
           process' = [process EXCEPT ![p] = h],
           process[p].pc \notin {"idle", "down"},
           h.family = FamilyOf(p), h.pc # "storeFirst",
           InFlight(p)',
           h.locks => process[p].locks \/ ~FamilyLocked(p)
    PROVE  IInv'
<1>1. h.locks => \A q \in Process \ {p} : process[q].locks => FamilyOf(q) # h.family
  BY DEF IInv, Exclusive, FamilyLocked, FamilyOf
<1>2. \A q \in Process \ {p} : At(q, "storeFirst") => h.family # FamilyOf(q)
  BY DEF IInv, Private, FamilyOf
<1> QED
  BY <1>1, <1>2, LocalStep

-----------------------------------------------------------------------------
(* Steps that write rows. *)

LEMMA CreateFamilyStep ==
    ASSUME IInv, NEW p \in Process, NEW f \in Family, CreateFamily(p, f)
    PROVE  IInv'
<1> DEFINE h == [Idle EXCEPT !.pc = "storeFirst", !.family = f]
<1>1. /\ h \in ProcessState /\ h.pc = "storeFirst" /\ h.family = f /\ ~h.locks
  BY DEF Idle, ProcessState, ProgramCounter
<1>2. /\ family[f] = "NONE"
      /\ family' = [family EXCEPT ![f] = "ACTIVE"]
      /\ process' = [process EXCEPT ![p] = h]
      /\ UNCHANGED <<token, familyOf, expired, parent>>
  BY DEF CreateFamily
<1> HIDE DEF h
<1>3. /\ process'[p] = h
      /\ \A q \in Process \ {p} : process'[q] = process[q]
      /\ family'[f] = "ACTIVE"
      /\ \A g \in Family \ {f} : family'[g] = family[g]
  BY <1>2 DEF IInv, TypeOK
<1>4. TypeOK'
  BY <1>1, <1>2 DEF IInv, TypeOK, RowStatus
<1>5. /\ \A t \in Token : familyOf[t] # f
      /\ \A q \in Process : FamilyOf(q) # f
  BY <1>2, NullsAreNotValues DEF IInv, RowsFit, InFlight, FamilyOf
<1>6. RowsFit' /\ RevokedFamilyIsDead'
  BY <1>2, <1>3, <1>5 DEF IInv, RowsFit, RevokedFamilyIsDead
<1>7. InFlight(p)'
  BY <1>1, <1>2, <1>3, <1>5 DEF InFlight, Holding
<1>8. ASSUME NEW q \in Process \ {p} PROVE InFlight(q)'
  <2>1. q \in Process /\ process'[q] = process[q] /\ process[q].family # f /\ InFlight(q)
    BY <1>3, <1>5 DEF FamilyOf, IInv
  <2>2. process[q].family \in Family => family'[process[q].family] = family[process[q].family]
    BY <1>3, <2>1
  <2> QED
    BY <1>2, <2>1, <2>2 DEF InFlight, Holding
<1>9. Exclusive' /\ Private'
  BY <1>1, <1>3, <1>5 DEF IInv, Exclusive, Private, At, FamilyOf
<1> QED
  BY <1>2, <1>4, <1>6, <1>7, <1>8, <1>9 DEF IInv, OneActiveToken, ExchangedOnce

\* A new token of the family of p, which nobody else works on, in place of the one it is
\* exchanged for, if any.
LEMMA NewTokenStep ==
    ASSUME IInv, NEW p \in Process, NEW t \in Token, NEW from \in Token \cup {NoToken},
           token[t] = "NONE",
           FamilyOf(p) \in Family, family[FamilyOf(p)] = "ACTIVE",
           \A u \in Token : token[u] = "ACTIVE" /\ familyOf[u] = FamilyOf(p) => u = from,
           from # NoToken => token[from] = "ACTIVE" /\ familyOf[from] = FamilyOf(p),
           \A q \in Process \ {p} :
               process[q].locks \/ At(q, "storeFirst") => FamilyOf(q) # FamilyOf(p),
           token' = [u \in Token |-> IF u = t THEN "ACTIVE" ELSE
                                     IF u = from THEN "REVOKED" ELSE token[u]],
           Insert(t, FamilyOf(p), from),
           Return(p),
           UNCHANGED <<family, expired>>
    PROVE  IInv'
<1>1. /\ process' = [process EXCEPT ![p] = Idle]
      /\ familyOf' = [familyOf EXCEPT ![t] = FamilyOf(p)]
      /\ parent' = [parent EXCEPT ![t] = from]
  BY DEF Return, Insert
<1>2. Idle \in ProcessState
  BY DEF Idle, ProcessState, ProgramCounter
<1>3. TypeOK'
  BY <1>1, <1>2 DEF IInv, TypeOK, RowStatus
<1>4. /\ process'[p] = Idle
      /\ \A q \in Process \ {p} : process'[q] = process[q]
      /\ familyOf'[t] = FamilyOf(p) /\ parent'[t] = from
      /\ \A u \in Token \ {t} : familyOf'[u] = familyOf[u] /\ parent'[u] = parent[u]
      /\ token'[t] = "ACTIVE"
      /\ \A u \in Token \ {t} : token'[u] = IF u = from THEN "REVOKED" ELSE token[u]
  BY <1>1 DEF IInv, TypeOK
<1>5. from # t
  BY NullsAreNotValues
<1>6. /\ \A u \in Token : parent[u] # NoToken => token[parent[u]] = "REVOKED"
      /\ \A u \in Token : parent[u] # t /\ (from # NoToken => parent[u] # from)
      /\ \A u \in Token : parent[u] \in Token \cup {NoToken}
  BY NullsAreNotValues DEF IInv, RowsFit, TypeOK
<1>7. RowsFit'
  <2> SUFFICES ASSUME NEW u \in Token
               PROVE  /\ token'[u] = "NONE" => familyOf'[u] = NoFamily
                      /\ token'[u] # "NONE" => familyOf'[u] \in Family /\ family[familyOf'[u]] # "NONE"
                      /\ parent'[u] # NoToken => token'[parent'[u]] = "REVOKED"
    BY DEF RowsFit
  <2>1. CASE u = t
    BY <1>4, <1>5, <2>1
  <2>2. CASE u # t
    <3>1. parent[u] # NoToken => parent[u] \in Token \ {t} /\ token'[parent[u]] = "REVOKED"
      BY <1>4, <1>6
    <3>2. token'[u] = "NONE" <=> token[u] = "NONE"
      BY <1>4, <2>2, NullsAreNotValues
    <3>3. familyOf'[u] = familyOf[u] /\ parent'[u] = parent[u]
      BY <1>4, <2>2
    <3>4. /\ token[u] = "NONE" => familyOf[u] = NoFamily
          /\ token[u] # "NONE" => familyOf[u] \in Family /\ family[familyOf[u]] # "NONE"
      BY DEF IInv, RowsFit
    <3> QED
      BY <3>1, <3>2, <3>3, <3>4
  <2> QED
    BY <2>1, <2>2
<1>8. RevokedFamilyIsDead'
  BY <1>4 DEF IInv, RevokedFamilyIsDead
<1>9. OneActiveToken'
  BY <1>4 DEF IInv, OneActiveToken
<1>10. ExchangedOnce'
  BY <1>4, <1>6 DEF IInv, ExchangedOnce
<1>11. InFlight(p)'
  BY <1>4 DEF InFlight, Idle, Holding
<1>12. ASSUME NEW q \in Process \ {p} PROVE InFlight(q)'
  <2> DEFINE h == process[q]
  <2>1. q \in Process /\ process'[q] = h /\ InFlight(q)
    BY <1>4 DEF IInv
  <2>2. h.token \in Token /\ token[h.token] # "NONE" =>
            token'[h.token] # "NONE" /\ familyOf'[h.token] = familyOf[h.token]
    BY <1>4
  <2>3. h.pc \in {"commitRotation", "commitRevocation", "storeFirst"} => h.family # FamilyOf(p)
    BY <2>1 DEF InFlight, Holding, At, FamilyOf
  <2>4. h.pc = "commitRotation" => token'[h.token] = "ACTIVE"
    <3>1. h.pc = "commitRotation" =>
              h.token \in Token /\ token[h.token] = "ACTIVE" /\ familyOf[h.token] = h.family
      BY <2>1 DEF InFlight
    <3> QED
      BY <1>4, <2>3, <3>1, NullsAreNotValues
  <2>5. h.pc = "commitRevocation" => h.revoking =
            {u \in Token : token'[u] = "ACTIVE" /\ familyOf'[u] = h.family}
    <3>1. ASSUME h.family # FamilyOf(p), NEW u \in Token
          PROVE  (token[u] = "ACTIVE" /\ familyOf[u] = h.family)
                     <=> (token'[u] = "ACTIVE" /\ familyOf'[u] = h.family)
      BY <1>4, <3>1, NullsAreNotValues
    <3> QED
      BY <2>1, <2>3, <3>1 DEF InFlight
  <2>6. h.pc = "storeFirst" => \A u \in Token : familyOf'[u] # h.family
    BY <1>4, <2>1, <2>3 DEF InFlight
  <2> HIDE DEF h
  <2> QED
    BY <2>1, <2>2, <2>4, <2>5, <2>6 DEF InFlight, Holding, h
<1>13. Exclusive' /\ Private'
  BY <1>4, NullsAreNotValues DEF IInv, Exclusive, Private, At, FamilyOf, Idle, InFlight
<1> QED
  BY <1>3, <1>7, <1>8, <1>9, <1>10, <1>11, <1>12, <1>13 DEF IInv

LEMMA StoreTokenStep ==
    ASSUME IInv, NEW p \in Process, NEW t \in Token, StoreToken(p, t)
    PROVE  IInv'
<1>1. /\ FamilyOf(p) \in Family /\ family[FamilyOf(p)] = "ACTIVE"
      /\ \A u \in Token : familyOf[u] # FamilyOf(p)
  BY DEF IInv, InFlight, StoreToken, At, FamilyOf
<1>2. \A q \in Process \ {p} : FamilyOf(q) # FamilyOf(p)
  BY DEF IInv, Private, StoreToken
<1>3. token \in [Token -> RowStatus]
  BY DEF IInv, TypeOK
<1>4. token' = [u \in Token |-> IF u = t THEN "ACTIVE" ELSE
                                IF u = NoToken THEN "REVOKED" ELSE token[u]]
  BY <1>3, NullsAreNotValues DEF StoreToken
<1> QED
  BY <1>1, <1>2, <1>4, NewTokenStep DEF StoreToken

LEMMA CommitRotationStep ==
    ASSUME IInv, NEW p \in Process, NEW next \in Token, CommitRotation(p, next)
    PROVE  IInv'
<1> DEFINE from == Presented(p)
<1>1. /\ from \in Token /\ token[from] = "ACTIVE" /\ familyOf[from] = FamilyOf(p)
      /\ FamilyOf(p) \in Family /\ family[FamilyOf(p)] = "ACTIVE" /\ process[p].locks
  BY DEF IInv, InFlight, CommitRotation, At, FamilyOf, Presented, Holding
<1>2. \A u \in Token : token[u] = "ACTIVE" /\ familyOf[u] = FamilyOf(p) => u = from
  BY <1>1 DEF IInv, OneActiveToken
<1>3. \A q \in Process \ {p} :
          process[q].locks \/ At(q, "storeFirst") => FamilyOf(q) # FamilyOf(p)
  BY <1>1 DEF IInv, Exclusive, Private
<1>4. token \in [Token -> RowStatus]
  BY DEF IInv, TypeOK
<1>5. token' = [u \in Token |-> IF u = next THEN "ACTIVE" ELSE
                                IF u = from THEN "REVOKED" ELSE token[u]]
  BY <1>1, <1>4 DEF CommitRotation
<1> HIDE DEF from
<1>6. Insert(next, FamilyOf(p), from) /\ Return(p) /\ UNCHANGED <<family, expired>>
      /\ token[next] = "NONE"
  BY DEF CommitRotation, from
<1> QED
  BY <1>1, <1>2, <1>3, <1>5, <1>6, NewTokenStep

LEMMA CommitRevocationStep ==
    ASSUME IInv, NEW p \in Process, CommitRevocation(p)
    PROVE  IInv'
<1> DEFINE f == FamilyOf(p)
<1>1. /\ process' = [process EXCEPT ![p] = Idle]
      /\ family' = [family EXCEPT ![f] = "REVOKED"]
      /\ token' = [t \in Token |-> IF t \in process[p].revoking THEN "REVOKED" ELSE token[t]]
      /\ UNCHANGED <<familyOf, expired, parent>>
  BY DEF CommitRevocation, Return, RevokedWith
<1>2. /\ f \in Family /\ family[f] = "ACTIVE" /\ process[p].locks
      /\ process[p].revoking = {t \in Token : token[t] = "ACTIVE" /\ familyOf[t] = f}
  BY DEF IInv, InFlight, CommitRevocation, At, FamilyOf, Holding
<1> HIDE DEF f
<1>3. Idle \in ProcessState
  BY DEF Idle, ProcessState, ProgramCounter
<1>4. /\ process'[p] = Idle
      /\ \A q \in Process \ {p} : process'[q] = process[q]
      /\ \A t \in Token : token'[t] = IF token[t] = "ACTIVE" /\ familyOf[t] = f
                                      THEN "REVOKED" ELSE token[t]
      /\ family'[f] = "REVOKED"
      /\ \A g \in Family \ {f} : family'[g] = family[g]
  BY <1>1, <1>2 DEF IInv, TypeOK
<1>5. TypeOK'
  BY <1>1, <1>3 DEF IInv, TypeOK, RowStatus
<1>6. RowsFit'
  <2> SUFFICES ASSUME NEW t \in Token
               PROVE  /\ token'[t] = "NONE" => familyOf[t] = NoFamily
                      /\ token'[t] # "NONE" => familyOf[t] \in Family /\ family'[familyOf[t]] # "NONE"
                      /\ parent[t] # NoToken => token'[parent[t]] = "REVOKED"
    BY <1>1 DEF RowsFit
  <2>1. parent[t] \in Token \cup {NoToken}
    BY DEF IInv, TypeOK
  <2> QED
    BY <1>4, <2>1 DEF IInv, RowsFit
<1>7. RevokedFamilyIsDead'
  <2> SUFFICES ASSUME NEW t \in Token, token'[t] = "ACTIVE" PROVE family'[familyOf[t]] = "ACTIVE"
    BY <1>1 DEF RevokedFamilyIsDead
  <2>1. token[t] = "ACTIVE" /\ familyOf[t] # f
    BY <1>4
  <2> QED
    BY <1>4, <2>1 DEF IInv, RevokedFamilyIsDead, RowsFit
<1>8. OneActiveToken' /\ ExchangedOnce'
  BY <1>1, <1>4 DEF IInv, OneActiveToken, ExchangedOnce
<1>9. InFlight(p)'
  BY <1>4 DEF InFlight, Idle, Holding
<1>10. ASSUME NEW q \in Process \ {p} PROVE InFlight(q)'
  <2> DEFINE h == process[q]
  <2>1. q \in Process /\ process'[q] = h /\ InFlight(q)
    BY <1>4 DEF IInv
  <2>2. h.locks \/ h.pc = "storeFirst" => h.family # f
    BY <1>2, <2>1 DEF IInv, Exclusive, Private, At, FamilyOf, f
  <2>3. \A g \in Family : family[g] # "NONE" => family'[g] # "NONE"
    BY <1>4
  <2>4. \A t \in Token : token[t] # "NONE" => token'[t] # "NONE"
    BY <1>4
  <2>5. \A t \in Token : familyOf[t] # f => token'[t] = token[t]
    BY <1>4
  <2>6. \A g \in Family : g # f => family'[g] = family[g]
    BY <1>4
  <2>7. h.pc = "commitRevocation" => h.revoking =
            {t \in Token : token'[t] = "ACTIVE" /\ familyOf[t] = h.family}
    BY <2>1, <2>2, <2>5 DEF InFlight, Holding
  <2>8. /\ h.pc \notin {"idle", "down"} => h.family \in Family
        /\ h.pc \notin {"idle", "down", "storeFirst"} => h.token \in Token /\ familyOf[h.token] = h.family
        /\ h.locks => h.family \in Family
    BY <2>1 DEF InFlight, Holding
  <2> HIDE DEF h
  <2> QED
    BY <1>1, <2>1, <2>2, <2>3, <2>4, <2>5, <2>6, <2>7, <2>8 DEF InFlight, Holding, h
<1>11. Exclusive' /\ Private'
  BY <1>4, NullsAreNotValues DEF IInv, Exclusive, Private, At, FamilyOf, Idle, InFlight
<1> QED
  BY <1>5, <1>6, <1>7, <1>8, <1>9, <1>10, <1>11 DEF IInv

-----------------------------------------------------------------------------
(* The other steps. *)

LEMMA StartStep ==
    ASSUME IInv, NEW p \in Process, NEW t \in Token, StartRefresh(p, t) \/ StartLogout(p, t)
    PROVE  IInv'
<1> DEFINE h == process'[p]
<1>1. /\ UNCHANGED rows
      /\ process' = [process EXCEPT ![p] = h]
      /\ h.pc \in {"beginRotation", "revokeFamily"} /\ h.token = t /\ h.family = familyOf[t]
      /\ ~h.locks /\ h \in ProcessState
      /\ token[t] # "NONE"
  <2>1. CASE StartRefresh(p, t)
    <3>1. process' = [process EXCEPT ![p] = [Idle EXCEPT !.pc = "beginRotation",
                        !.token = t, !.family = familyOf[t], !.replay = (token[t] = "REVOKED")]]
      BY <2>1 DEF StartRefresh
    <3>2. process'[p] = [Idle EXCEPT !.pc = "beginRotation",
                        !.token = t, !.family = familyOf[t], !.replay = (token[t] = "REVOKED")]
      BY <3>1 DEF IInv, TypeOK
    <3>3. familyOf[t] \in Family
      BY <2>1 DEF StartRefresh, IInv, RowsFit
    <3> QED
      BY <2>1, <3>1, <3>2, <3>3 DEF StartRefresh, Idle, ProcessState, ProgramCounter
  <2>2. CASE StartLogout(p, t)
    <3>1. process' = [process EXCEPT ![p] = [Idle EXCEPT !.pc = "revokeFamily",
                        !.token = t, !.family = familyOf[t]]]
      BY <2>2 DEF StartLogout
    <3>2. process'[p] = [Idle EXCEPT !.pc = "revokeFamily",
                        !.token = t, !.family = familyOf[t]]
      BY <3>1 DEF IInv, TypeOK
    <3>3. familyOf[t] \in Family
      BY <2>2 DEF StartLogout, IInv, RowsFit
    <3> QED
      BY <2>2, <3>1, <3>2, <3>3 DEF StartLogout, Idle, ProcessState, ProgramCounter
  <2> QED
    BY <2>1, <2>2
<1>2. familyOf[t] \in Family /\ family[familyOf[t]] # "NONE"
  BY <1>1 DEF IInv, RowsFit
<1>3. InFlight(p)'
  BY <1>1, <1>2 DEF InFlight, Holding, rows
<1>4. \A q \in Process : At(q, "storeFirst") => FamilyOf(q) # familyOf[t]
  BY DEF IInv, InFlight, At, FamilyOf
<1> HIDE DEF h
<1> QED
  BY <1>1, <1>3, <1>4, LocalStep

LEMMA GoOnStep ==
    ASSUME IInv, NEW p \in Process,
           \/ BeginRotation(p) \/ TouchFamily(p) \/ Consume(p) \/ Inspect(p)
           \/ RevokeFamily(p) \/ Collect(p)
    PROVE  IInv'
<1> USE DEF At, Goto
<1>0. /\ UNCHANGED rows
      /\ process \in [Process -> ProcessState] /\ process[p] \in ProcessState /\ InFlight(p)
  BY DEF IInv, TypeOK, BeginRotation, TouchFamily, Consume, Inspect, RevokeFamily, Collect
<1>1. CASE BeginRotation(p)
  <2> DEFINE h == [process[p] EXCEPT !.pc = "touchFamily", !.fresh = Presented(p) \notin expired]
  <2>1. process' = [process EXCEPT ![p] = h] /\ process'[p] = h
    BY <1>0, <1>1 DEF BeginRotation
  <2>2. h \in ProcessState /\ h.family = FamilyOf(p) /\ h.pc = "touchFamily" /\ h.locks = process[p].locks
    BY <1>0 DEF ProcessState, ProgramCounter, FamilyOf
  <2>3. InFlight(p)'
    BY <1>0, <1>1, <2>1 DEF BeginRotation, InFlight, Holding, rows, ProcessState
  <2> HIDE DEF h
  <2> QED
    BY <1>0, <1>1, <2>1, <2>2, <2>3, ProceedStep DEF BeginRotation
<1>2. CASE TouchFamily(p)
  <2>1. CASE family[FamilyOf(p)] = "ACTIVE"
    <3> DEFINE h == [process[p] EXCEPT !.pc = "consume", !.locks = TRUE]
    <3>1. process' = [process EXCEPT ![p] = h] /\ process'[p] = h
      BY <1>0, <1>2, <2>1 DEF TouchFamily
    <3>2. h \in ProcessState /\ h.family = FamilyOf(p) /\ h.pc = "consume"
      BY <1>0 DEF ProcessState, ProgramCounter, FamilyOf
    <3>3. InFlight(p)'
      BY <1>0, <1>2, <2>1, <3>1 DEF TouchFamily, InFlight, Holding, rows, ProcessState, FamilyOf
    <3> HIDE DEF h
    <3> QED
      BY <1>0, <1>2, <3>1, <3>2, <3>3, ProceedStep DEF TouchFamily
  <2>2. CASE family[FamilyOf(p)] # "ACTIVE"
    BY <1>0, <1>2, <2>2, ReturnStep DEF TouchFamily
  <2> QED
    BY <2>1, <2>2
<1>3. CASE Consume(p)
  <2>1. CASE Consumable(p)
    <3> DEFINE h == [process[p] EXCEPT !.pc = "commitRotation", !.revoking = {Presented(p)}]
    <3>1. process' = [process EXCEPT ![p] = h] /\ process'[p] = h
      BY <1>0, <1>3, <2>1 DEF Consume
    <3>2. Presented(p) \in Token /\ process[p].locks
      BY <1>0, <1>3 DEF Consume, InFlight, Presented, Holding
    <3>3. h \in ProcessState /\ h.family = FamilyOf(p) /\ h.pc = "commitRotation"
      BY <1>0, <3>2 DEF ProcessState, ProgramCounter, FamilyOf
    <3>4. InFlight(p)'
      BY <1>0, <1>3, <2>1, <3>1
      DEF Consume, InFlight, Holding, rows, ProcessState, Presented, Consumable
    <3> HIDE DEF h
    <3> QED
      BY <1>0, <1>3, <3>1, <3>2, <3>3, <3>4, ProceedStep DEF Consume
  <2>2. CASE ~Consumable(p)
    <3> DEFINE h == [process[p] EXCEPT !.pc = "inspect"]
    <3>1. process' = [process EXCEPT ![p] = h] /\ process'[p] = h
      BY <1>0, <1>3, <2>2 DEF Consume
    <3>2. h \in ProcessState /\ h.family = FamilyOf(p) /\ h.pc = "inspect" /\ h.locks = process[p].locks
      BY <1>0 DEF ProcessState, ProgramCounter, FamilyOf
    <3>3. InFlight(p)'
      BY <1>0, <1>3, <3>1 DEF Consume, InFlight, Holding, rows, ProcessState
    <3> HIDE DEF h
    <3> QED
      BY <1>0, <1>3, <3>1, <3>2, <3>3, ProceedStep DEF Consume
  <2> QED
    BY <2>1, <2>2
<1>4. CASE Inspect(p)
  <2>1. CASE process[p].fresh /\ token[Presented(p)] = "REVOKED"
    <3> DEFINE h == [process[p] EXCEPT !.pc = "revokeFamily"]
    <3>1. process' = [process EXCEPT ![p] = h] /\ process'[p] = h
      BY <1>0, <1>4, <2>1 DEF Inspect
    <3>2. h \in ProcessState /\ h.family = FamilyOf(p) /\ h.pc = "revokeFamily"
          /\ h.locks = process[p].locks
      BY <1>0 DEF ProcessState, ProgramCounter, FamilyOf
    <3>3. InFlight(p)'
      BY <1>0, <1>4, <3>1 DEF Inspect, InFlight, Holding, rows, ProcessState
    <3> HIDE DEF h
    <3> QED
      BY <1>0, <1>4, <3>1, <3>2, <3>3, ProceedStep DEF Inspect
  <2>2. CASE ~(process[p].fresh /\ token[Presented(p)] = "REVOKED")
    BY <1>0, <1>4, <2>2, ReturnStep DEF Inspect
  <2> QED
    BY <2>1, <2>2
<1>5. CASE RevokeFamily(p)
  <2>1. CASE family[FamilyOf(p)] = "ACTIVE"
    <3> DEFINE h == [process[p] EXCEPT !.pc = "collect", !.locks = TRUE]
    <3>1. process' = [process EXCEPT ![p] = h] /\ process'[p] = h
      BY <1>0, <1>5, <2>1 DEF RevokeFamily
    <3>2. h \in ProcessState /\ h.family = FamilyOf(p) /\ h.pc = "collect"
      BY <1>0 DEF ProcessState, ProgramCounter, FamilyOf
    <3>3. InFlight(p)'
      BY <1>0, <1>5, <2>1, <3>1 DEF RevokeFamily, InFlight, Holding, rows, ProcessState, FamilyOf
    <3> HIDE DEF h
    <3> QED
      BY <1>0, <1>5, <3>1, <3>2, <3>3, ProceedStep DEF RevokeFamily
  <2>2. CASE family[FamilyOf(p)] # "ACTIVE"
    BY <1>0, <1>5, <2>2, ReturnStep DEF RevokeFamily
  <2> QED
    BY <2>1, <2>2
<1>6. CASE Collect(p)
  <2> DEFINE live == {t \in Token : token[t] = "ACTIVE" /\ familyOf[t] = FamilyOf(p)}
             h == [process[p] EXCEPT !.pc = "commitRevocation", !.revoking = live]
  <2>1. process' = [process EXCEPT ![p] = h] /\ process'[p] = h
    BY <1>0, <1>6 DEF Collect
  <2>2. h \in ProcessState /\ h.family = FamilyOf(p) /\ h.pc = "commitRevocation"
        /\ h.locks = process[p].locks
    BY <1>0 DEF ProcessState, ProgramCounter, FamilyOf
  <2>3. /\ h.token = process[p].token /\ h.revoking = live /\ process[p].pc = "collect"
    BY <1>0, <1>6 DEF Collect, ProcessState
  <2>4. live = {t \in Token : token'[t] = "ACTIVE" /\ familyOf'[t] = h.family}
    BY <1>0, <2>2 DEF rows
  <2> HIDE DEF h, live
  <2>5. InFlight(p)'
    BY <1>0, <2>1, <2>2, <2>3, <2>4 DEF InFlight, Holding, rows, FamilyOf
  <2> QED
    BY <1>0, <2>1, <2>2, <2>3, <2>5, ProceedStep
<1> QED
  BY <1>1, <1>2, <1>3, <1>4, <1>5, <1>6

LEMMA NextStep ==
    ASSUME IInv, [Next]_vars
    PROVE  IInv'
<1>1. ASSUME NEW p \in Process, Login(p) PROVE IInv'
  BY <1>1, CreateFamilyStep, StoreTokenStep DEF Login
<1>2. ASSUME NEW p \in Process, Refresh(p) PROVE IInv'
  BY <1>2, StartStep, GoOnStep, CommitRotationStep DEF Refresh
<1>3. ASSUME NEW p \in Process, Logout(p) PROVE IInv'
  BY <1>3, StartStep, GoOnStep, CommitRevocationStep DEF Logout
<1>4. ASSUME NEW p \in Process, Crash(p) PROVE IInv'
  BY <1>4, EndStep DEF Crash
<1>5. ASSUME NEW p \in Process, Restart(p) PROVE IInv'
  BY <1>5, ReturnStep DEF Restart
<1>6. ASSUME UNCHANGED <<family, token, familyOf, parent, process>>, expired' \subseteq Token
      PROVE  IInv'
  <2>1. TypeOK'
    BY <1>6 DEF IInv, TypeOK
  <2> QED
    BY <1>6, <2>1 DEF IInv, RowsFit, RevokedFamilyIsDead, OneActiveToken, ExchangedOnce,
                      InFlight, Exclusive, Private, At, FamilyOf
<1>7. ASSUME NEW t \in Token, Expire(t) PROVE IInv'
  BY <1>6, <1>7 DEF Expire, IInv, TypeOK
<1>8. CASE UNCHANGED vars
  BY <1>6, <1>8 DEF vars, IInv, TypeOK
<1> QED
  BY <1>1, <1>2, <1>3, <1>4, <1>5, <1>7, <1>8 DEF Next

\* The invariant is inductive.
THEOREM Invariance == Spec => []IInv
BY InitIInv, NextStep, PTL DEF Spec

\* Rows, locks and locals keep their types for any logins, tokens and processes.
THEOREM TypeCorrect == Spec => []TypeOK
BY Invariance, PTL DEF IInv

\* No active token in a revoked family, however refreshes, logouts and crashes interleave.
THEOREM RevocationIsComplete == Spec => []RevokedFamilyIsDead
BY Invariance, PTL DEF IInv

\* At most one token of a login can be exchanged.
THEOREM OneTokenPerLogin == Spec => []OneActiveToken
BY Invariance, PTL DEF IInv

\* At most one successor per token.
THEOREM OneSuccessorPerToken == Spec => []ExchangedOnce
BY Invariance, PTL DEF IInv

-----------------------------------------------------------------------------
(* Refinement. *)

LEMMA SessionValues ==
    ASSUME TypeOK, NEW f \in Family
    PROVE  /\ family[f] = "NONE" => SessionOf[f] = "NONE"
           /\ family[f] = "ACTIVE" => SessionOf[f] = "OPEN"
           /\ family[f] = "REVOKED" => SessionOf[f] = "CLOSED"
BY DEF SessionOf, Meaning, TypeOK, RowStatus

\* A session changes with the row of its family.
LEMMA SessionChange ==
    ASSUME TypeOK, TypeOK', NEW f \in Family, NEW status \in RowStatus,
           family' = [family EXCEPT ![f] = status], NEW state,
           \/ status = "ACTIVE" /\ state = "OPEN"
           \/ status = "REVOKED" /\ state = "CLOSED"
    PROVE  SessionOf' = [SessionOf EXCEPT ![f] = state]
<1>1. Meaning[status] = state
  BY DEF Meaning
<1>2. \A g \in Family : family'[g] = IF g = f THEN status ELSE family[g]
  BY DEF TypeOK
<1>3. SessionOf' = [g \in Family |-> IF g = f THEN state ELSE Meaning[family[g]]]
  <2>1. \A g \in Family : Meaning[family'[g]] = IF g = f THEN state ELSE Meaning[family[g]]
    BY <1>1, <1>2
  <2> QED
    BY <2>1 DEF SessionOf
<1>4. [SessionOf EXCEPT ![f] = state]
          = [g \in Family |-> IF g = f THEN state ELSE Meaning[family[g]]]
  BY DEF SessionOf
<1> QED
  BY <1>3, <1>4

LEMMA SameSessions ==
    ASSUME UNCHANGED <<family, token, familyOf>>
    PROVE  UNCHANGED Sessions!vars
BY DEF Sessions!vars, SessionOf, CarrierOf, Generated

\* Handing out a new token is a delivery or an exchange of the session of its family.
LEMMA NewTokenRefines ==
    ASSUME IInv, NEW p \in Process, NEW t \in Token, NEW from \in Token \cup {NoToken},
           token[t] = "NONE",
           FamilyOf(p) \in Family, family[FamilyOf(p)] = "ACTIVE",
           \A u \in Token : token[u] = "ACTIVE" /\ familyOf[u] = FamilyOf(p) => u = from,
           from # NoToken => token[from] = "ACTIVE" /\ familyOf[from] = FamilyOf(p),
           token' = [u \in Token |-> IF u = t THEN "ACTIVE" ELSE
                                     IF u = from THEN "REVOKED" ELSE token[u]],
           Insert(t, FamilyOf(p), from),
           UNCHANGED family
    PROVE  Sessions!Next
<1> DEFINE f == FamilyOf(p)
<1>1. SessionOf[f] = "OPEN" /\ UNCHANGED SessionOf
  BY SessionValues DEF IInv, SessionOf
<1>2. CarrierOf[f] = {from} \ {NoToken}
  BY NullsAreNotValues DEF CarrierOf
<1>3. t \notin Generated /\ Generated' = Generated \cup {t}
  BY NullsAreNotValues DEF Generated
<1>4. CarrierOf' = [CarrierOf EXCEPT ![f] = {t}]
  <2>1. /\ familyOf' = [familyOf EXCEPT ![t] = f]
        /\ familyOf \in [Token -> Family \cup {NoFamily}]
    BY DEF Insert, IInv, TypeOK
  <2>2. \A g \in Family : CarrierOf'[g] = IF g = f THEN {t} ELSE CarrierOf[g]
    <3> SUFFICES ASSUME NEW g \in Family
                 PROVE  {u \in Token : token'[u] = "ACTIVE" /\ familyOf'[u] = g}
                            = IF g = f THEN {t}
                              ELSE {u \in Token : token[u] = "ACTIVE" /\ familyOf[u] = g}
      BY DEF CarrierOf
    <3>1. ASSUME NEW u \in Token
          PROVE  token'[u] = "ACTIVE" /\ familyOf'[u] = g <=>
                     IF g = f THEN u = t ELSE token[u] = "ACTIVE" /\ familyOf[u] = g
      BY <2>1, NullsAreNotValues
    <3> QED
      BY <3>1
  <2> QED
    BY <2>2 DEF CarrierOf
<1>5. CASE from = NoToken
  <2>1. Sessions!Deliver(f, t)
    BY <1>1, <1>2, <1>3, <1>4, <1>5 DEF Sessions!Deliver
  <2> QED
    BY <2>1 DEF Sessions!Next
<1>6. CASE from # NoToken
  <2>1. Sessions!Exchange(f, from, t) /\ from \in Token
    BY <1>1, <1>2, <1>3, <1>4, <1>6 DEF Sessions!Exchange
  <2> QED
    BY <2>1 DEF Sessions!Next
<1> QED
  BY <1>5, <1>6

LEMMA StepRefines ==
    ASSUME IInv, IInv', [Next]_vars
    PROVE  [Sessions!Next]_(Sessions!vars)
<1>0. TypeOK /\ TypeOK'
  BY DEF IInv
<1>1. ASSUME NEW p \in Process, NEW f \in Family, CreateFamily(p, f)
      PROVE  Sessions!Next
  <2>1. SessionOf' = [SessionOf EXCEPT ![f] = "OPEN"]
    BY <1>0, <1>1, SessionChange DEF CreateFamily, RowStatus
  <2>2. SessionOf[f] = "NONE"
    BY <1>0, <1>1, SessionValues DEF CreateFamily
  <2>3. UNCHANGED <<CarrierOf, Generated>>
    BY <1>1 DEF CreateFamily, CarrierOf, Generated
  <2> QED
    BY <2>1, <2>2, <2>3 DEF Sessions!Next, Sessions!Open
<1>2. ASSUME NEW p \in Process, NEW t \in Token, StoreToken(p, t)
      PROVE  Sessions!Next
  <2>1. /\ FamilyOf(p) \in Family /\ family[FamilyOf(p)] = "ACTIVE"
        /\ \A u \in Token : familyOf[u] # FamilyOf(p)
    BY <1>2 DEF IInv, InFlight, StoreToken, At, FamilyOf
  <2>2. token' = [u \in Token |-> IF u = t THEN "ACTIVE" ELSE
                                  IF u = NoToken THEN "REVOKED" ELSE token[u]]
    BY <1>0, <1>2, NullsAreNotValues DEF StoreToken, TypeOK
  <2> QED
    BY <1>2, <2>1, <2>2, NewTokenRefines DEF StoreToken
<1>3. ASSUME NEW p \in Process, NEW next \in Token, CommitRotation(p, next)
      PROVE  Sessions!Next
  <2> DEFINE from == Presented(p)
  <2>1. /\ from \in Token /\ token[from] = "ACTIVE" /\ familyOf[from] = FamilyOf(p)
        /\ FamilyOf(p) \in Family /\ family[FamilyOf(p)] = "ACTIVE"
    BY <1>3 DEF IInv, InFlight, CommitRotation, At, FamilyOf, Presented, Holding
  <2>2. \A u \in Token : token[u] = "ACTIVE" /\ familyOf[u] = FamilyOf(p) => u = from
    BY <2>1 DEF IInv, OneActiveToken
  <2>3. token' = [u \in Token |-> IF u = next THEN "ACTIVE" ELSE
                                  IF u = from THEN "REVOKED" ELSE token[u]]
    BY <1>0, <1>3, <2>1 DEF CommitRotation, TypeOK
  <2>4. Insert(next, FamilyOf(p), from) /\ UNCHANGED family /\ token[next] = "NONE"
    BY <1>3 DEF CommitRotation
  <2> HIDE DEF from
  <2> QED
    BY <2>1, <2>2, <2>3, <2>4, NewTokenRefines
<1>4. ASSUME NEW p \in Process, CommitRevocation(p)
      PROVE  Sessions!Next
  <2> DEFINE f == FamilyOf(p)
  <2>1. /\ f \in Family /\ family[f] = "ACTIVE"
        /\ process[p].revoking = {t \in Token : token[t] = "ACTIVE" /\ familyOf[t] = f}
    BY <1>4 DEF IInv, InFlight, CommitRevocation, At, FamilyOf, Holding
  <2>2. /\ family' = [family EXCEPT ![f] = "REVOKED"]
        /\ token' = [t \in Token |-> IF t \in process[p].revoking THEN "REVOKED" ELSE token[t]]
        /\ UNCHANGED familyOf
    BY <1>4 DEF CommitRevocation, RevokedWith
  <2> HIDE DEF f
  <2>3. SessionOf[f] = "OPEN" /\ SessionOf' = [SessionOf EXCEPT ![f] = "CLOSED"]
    BY <1>0, <2>1, <2>2, SessionValues, SessionChange DEF RowStatus
  <2>4. CarrierOf' = [CarrierOf EXCEPT ![f] = {}]
    <3>1. \A g \in Family : CarrierOf'[g] = IF g = f THEN {} ELSE CarrierOf[g]
      BY <2>1, <2>2 DEF CarrierOf
    <3> QED
      BY <3>1 DEF CarrierOf
  <2>5. UNCHANGED Generated
    BY <2>1, <2>2 DEF Generated
  <2> QED
    BY <2>1, <2>3, <2>4, <2>5 DEF Sessions!Next, Sessions!Close
<1>5. ASSUME NEW p \in Process, UNCHANGED rows
      PROVE  UNCHANGED Sessions!vars
  BY <1>5, SameSessions DEF rows
<1>6. ASSUME NEW p \in Process, Login(p) PROVE Sessions!Next
  BY <1>1, <1>2, <1>6 DEF Login
<1>7. ASSUME NEW p \in Process, Refresh(p) PROVE Sessions!Next \/ UNCHANGED Sessions!vars
  BY <1>3, <1>5, <1>7
  DEF Refresh, StartRefresh, BeginRotation, TouchFamily, Consume, Inspect
<1>8. ASSUME NEW p \in Process, Logout(p) PROVE Sessions!Next \/ UNCHANGED Sessions!vars
  BY <1>4, <1>5, <1>8 DEF Logout, StartLogout, RevokeFamily, Collect
<1>9. ASSUME NEW p \in Process, Crash(p) \/ Restart(p) PROVE UNCHANGED Sessions!vars
  BY <1>5, <1>9 DEF Crash, Restart
<1>10. ASSUME NEW t \in Token, Expire(t) PROVE UNCHANGED Sessions!vars
  BY <1>10, SameSessions DEF Expire
<1>11. CASE UNCHANGED vars
  BY <1>11, SameSessions DEF vars
<1> QED
  BY <1>6, <1>7, <1>8, <1>9, <1>10, <1>11 DEF Next

LEMMA InitRefines == ASSUME Init PROVE Sessions!Init
<1>1. SessionOf = [f \in Family |-> "NONE"]
  BY DEF Init, SessionOf, Meaning
<1>2. CarrierOf = [f \in Family |-> {}]
  BY DEF Init, CarrierOf
<1>3. Generated = {}
  BY DEF Init, Generated
<1> QED
  BY <1>1, <1>2, <1>3 DEF Sessions!Init

\* The rows, locks and transactions of refresh tokens implement login sessions.
THEOREM TokensImplementSessions == Spec => ImplementsSessions
BY InitRefines, StepRefines, Invariance, PTL DEF Spec, ImplementsSessions, Sessions!Spec

-----------------------------------------------------------------------------
(* The reuse of a token, and waiting. *)

Rotating == {"beginRotation", "touchFamily", "consume", "inspect"}
Revoking == {"revokeFamily", "collect", "commitRevocation"}

\* A token revoked before the call stays so, which is why such a call never gets to the
\* commit of a rotation.
Replays(p) ==
    process[p].replay =>
        /\ process[p].pc \in Rotating \cup Revoking
        /\ Presented(p) \in Token /\ token[Presented(p)] = "REVOKED"

\* Revoked tokens stay revoked.
LEMMA RevokedForGood ==
    ASSUME IInv, [Next]_vars, NEW t \in Token, token[t] = "REVOKED"
    PROVE  token'[t] = "REVOKED"
<1>0. token \in [Token -> RowStatus]
  BY DEF IInv, TypeOK
<1>1. ASSUME NEW p \in Process, NEW u \in Token, StoreToken(p, u) \/ CommitRotation(p, u)
      PROVE  token'[t] = "REVOKED"
  BY <1>0, <1>1 DEF StoreToken, CommitRotation
<1>2. ASSUME NEW p \in Process, CommitRevocation(p)
      PROVE  token'[t] = "REVOKED"
  BY <1>2 DEF CommitRevocation
<1>3. CASE UNCHANGED token
  BY <1>3
<1>4. ASSUME NEW p \in Process, Login(p)
      PROVE  token'[t] = "REVOKED"
  BY <1>1, <1>3, <1>4 DEF Login, CreateFamily
<1>5. ASSUME NEW p \in Process, Refresh(p)
      PROVE  token'[t] = "REVOKED"
  BY <1>1, <1>3, <1>5
  DEF Refresh, StartRefresh, BeginRotation, TouchFamily, Consume, Inspect, rows
<1>6. ASSUME NEW p \in Process, Logout(p)
      PROVE  token'[t] = "REVOKED"
  BY <1>2, <1>3, <1>6 DEF Logout, StartLogout, RevokeFamily, Collect, rows
<1>7. CASE (\E p \in Process : Crash(p) \/ Restart(p)) \/ (\E u \in Token : Expire(u))
           \/ UNCHANGED vars
  BY <1>3, <1>7 DEF Crash, Restart, Expire, vars, rows
<1> QED
  BY <1>4, <1>5, <1>6, <1>7 DEF Next

\* What a step of p makes of a replay: it goes on with the same token or ends, and if it
\* ends although the token was fresh, the family is revoked.
LEMMA ReplayStep ==
    ASSUME IInv, NEW p \in Process, Replays(p),
           Login(p) \/ Refresh(p) \/ Logout(p) \/ Crash(p) \/ Restart(p)
    PROVE  /\ Replays(p)'
           /\ process[p].replay /\ process[p].fresh /\ ~At(p, "beginRotation")
              /\ process'[p].pc = "idle"
              => family'[FamilyOf(p)] = "REVOKED"
<1> USE DEF At, Goto
<1> DEFINE Ends == /\ process[p].replay /\ process[p].fresh /\ process[p].pc # "beginRotation"
                   /\ process'[p].pc = "idle"
                   => family'[FamilyOf(p)] = "REVOKED"
<1>0. /\ process \in [Process -> ProcessState] /\ process[p] \in ProcessState /\ InFlight(p)
      /\ family \in [Family -> RowStatus]
  BY DEF IInv, TypeOK
<1>1. Idle.pc = "idle" /\ Idle.replay = FALSE
  BY DEF Idle
<1>2. CASE ~process[p].replay /\ ~process'[p].replay
  BY <1>2 DEF Replays
<1>3. ASSUME NEW h, h.replay = FALSE, ~process[p].replay,
             process' = [process EXCEPT ![p] = h]
      PROVE  Replays(p)' /\ Ends
  BY <1>0, <1>3 DEF Replays
<1>4. ASSUME Return(p), UNCHANGED family,
             process[p].replay /\ process[p].fresh /\ process[p].pc # "beginRotation"
                 => family[FamilyOf(p)] # "ACTIVE"
      PROVE  Replays(p)' /\ Ends
  <2>1. process'[p] = Idle
    BY <1>0, <1>4 DEF Return
  <2>2. process[p].replay =>
            FamilyOf(p) \in Family /\ family[FamilyOf(p)] \in {"ACTIVE", "REVOKED"}
    BY <1>0 DEF Replays, Rotating, Revoking, InFlight, FamilyOf, RowStatus
  <2> QED
    BY <1>1, <1>4, <2>1, <2>2 DEF Replays
<1>5. ASSUME NEW pc, pc \in Rotating \cup Revoking,
             NEW h, h.pc = pc, h.token = process[p].token, h.replay = process[p].replay,
             process' = [process EXCEPT ![p] = h],
             UNCHANGED token
      PROVE  Replays(p)' /\ Ends
  <2>1. process'[p] = h
    BY <1>0, <1>5
  <2>2. pc # "idle"
    BY <1>5 DEF Rotating, Revoking
  <2> QED
    BY <1>5, <2>1, <2>2 DEF Replays, Presented
<1>6. CASE Login(p)
  <2>1. ~process[p].replay
    BY <1>6 DEF Login, CreateFamily, StoreToken, Replays, Rotating, Revoking
  <2>2. ASSUME NEW f \in Family, CreateFamily(p, f)
        PROVE  Replays(p)' /\ Ends
    <3>1. [Idle EXCEPT !.pc = "storeFirst", !.family = f].replay = FALSE
      BY DEF Idle
    <3> QED
      BY <1>3, <2>1, <2>2, <3>1 DEF CreateFamily
  <2> QED
    BY <1>1, <1>3, <1>6, <2>1, <2>2 DEF Login, StoreToken, Return
<1>7. CASE \E t \in Token : StartRefresh(p, t)
  <2>1. PICK t \in Token : StartRefresh(p, t)
    BY <1>7
  <2> DEFINE h == [Idle EXCEPT !.pc = "beginRotation", !.token = t, !.family = familyOf[t],
                               !.replay = (token[t] = "REVOKED")]
  <2>2. process' = [process EXCEPT ![p] = h] /\ UNCHANGED token /\ process[p].pc = "idle"
    BY <2>1 DEF StartRefresh, rows
  <2>3. h.pc = "beginRotation" /\ h.token = t /\ h.replay = (token[t] = "REVOKED")
    BY DEF Idle
  <2> HIDE DEF h
  <2>4. process'[p] = h
    BY <1>0, <2>2
  <2> QED
    BY <2>1, <2>2, <2>3, <2>4 DEF Replays, Presented, Rotating
<1>8. CASE BeginRotation(p)
  <2> DEFINE h == [process[p] EXCEPT !.pc = "touchFamily", !.fresh = Presented(p) \notin expired]
  <2>1. process' = [process EXCEPT ![p] = h] /\ UNCHANGED token
    BY <1>0, <1>8 DEF BeginRotation, rows
  <2>2. h.pc = "touchFamily" /\ h.token = process[p].token /\ h.replay = process[p].replay
    BY <1>0 DEF ProcessState
  <2> HIDE DEF h
  <2> QED
    BY <1>5, <2>1, <2>2 DEF Rotating
<1>9. CASE TouchFamily(p)
  <2>1. CASE family[FamilyOf(p)] = "ACTIVE"
    <3> DEFINE h == [process[p] EXCEPT !.pc = "consume", !.locks = TRUE]
    <3>1. process' = [process EXCEPT ![p] = h] /\ UNCHANGED token
      BY <1>0, <1>9, <2>1 DEF TouchFamily, rows
    <3>2. h.pc = "consume" /\ h.token = process[p].token /\ h.replay = process[p].replay
      BY <1>0 DEF ProcessState
    <3> HIDE DEF h
    <3> QED
      BY <1>5, <3>1, <3>2 DEF Rotating
  <2>2. CASE family[FamilyOf(p)] # "ACTIVE"
    BY <1>4, <1>9, <2>2 DEF TouchFamily, rows
  <2> QED
    BY <2>1, <2>2
<1>10. CASE Consume(p)
  <2>1. CASE Consumable(p)
    <3>1. ~process[p].replay
      BY <2>1 DEF Consumable, Replays
    <3>2. [process[p] EXCEPT !.pc = "commitRotation", !.revoking = {Presented(p)}].replay
              = process[p].replay
      BY <1>0 DEF ProcessState
    <3>3. process[p].replay = FALSE
      BY <1>0, <3>1 DEF ProcessState
    <3>4. process'[p].replay = process[p].replay
      BY <1>0, <1>10, <2>1, <3>2 DEF Consume
    <3> QED
      BY <3>1, <3>3, <3>4 DEF Replays
  <2>2. CASE ~Consumable(p)
    <3> DEFINE h == [process[p] EXCEPT !.pc = "inspect"]
    <3>1. process' = [process EXCEPT ![p] = h] /\ UNCHANGED token
      BY <1>0, <1>10, <2>2 DEF Consume, rows
    <3>2. h.pc = "inspect" /\ h.token = process[p].token /\ h.replay = process[p].replay
      BY <1>0 DEF ProcessState
    <3> HIDE DEF h
    <3> QED
      BY <1>5, <3>1, <3>2 DEF Rotating
  <2> QED
    BY <2>1, <2>2
<1>11. CASE \E next \in Token : CommitRotation(p, next)
  <2>1. ~process[p].replay
    BY <1>11 DEF CommitRotation, Replays, Rotating, Revoking
  <2> QED
    BY <1>1, <1>3, <1>11, <2>1 DEF CommitRotation, Return
<1>12. CASE Inspect(p)
  <2>1. CASE process[p].fresh /\ token[Presented(p)] = "REVOKED"
    <3> DEFINE h == [process[p] EXCEPT !.pc = "revokeFamily"]
    <3>1. process' = [process EXCEPT ![p] = h] /\ UNCHANGED token
      BY <1>0, <1>12, <2>1 DEF Inspect, rows
    <3>2. h.pc = "revokeFamily" /\ h.token = process[p].token /\ h.replay = process[p].replay
      BY <1>0 DEF ProcessState
    <3> HIDE DEF h
    <3> QED
      BY <1>5, <3>1, <3>2 DEF Revoking
  <2>2. CASE ~(process[p].fresh /\ token[Presented(p)] = "REVOKED")
    <3>1. ~(process[p].replay /\ process[p].fresh)
      BY <2>2 DEF Replays
    <3> QED
      BY <1>4, <1>12, <2>2, <3>1 DEF Inspect, rows
  <2> QED
    BY <2>1, <2>2
<1>13. CASE \E t \in Token : StartLogout(p, t)
  <2>1. PICK t \in Token : StartLogout(p, t)
    BY <1>13
  <2>2. [Idle EXCEPT !.pc = "revokeFamily", !.token = t, !.family = familyOf[t]].replay = FALSE
    BY DEF Idle
  <2>3. ~process[p].replay
    BY <2>1 DEF StartLogout, Replays, Rotating, Revoking
  <2> QED
    BY <1>3, <2>1, <2>2, <2>3 DEF StartLogout
<1>14. CASE RevokeFamily(p)
  <2>1. CASE family[FamilyOf(p)] = "ACTIVE"
    <3> DEFINE h == [process[p] EXCEPT !.pc = "collect", !.locks = TRUE]
    <3>1. process' = [process EXCEPT ![p] = h] /\ UNCHANGED token
      BY <1>0, <1>14, <2>1 DEF RevokeFamily, rows
    <3>2. h.pc = "collect" /\ h.token = process[p].token /\ h.replay = process[p].replay
      BY <1>0 DEF ProcessState
    <3> HIDE DEF h
    <3> QED
      BY <1>5, <3>1, <3>2 DEF Revoking
  <2>2. CASE family[FamilyOf(p)] # "ACTIVE"
    BY <1>4, <1>14, <2>2 DEF RevokeFamily, rows
  <2> QED
    BY <2>1, <2>2
<1>15. CASE Collect(p)
  <2> DEFINE live == {t \in Token : token[t] = "ACTIVE" /\ familyOf[t] = FamilyOf(p)}
             h == [process[p] EXCEPT !.pc = "commitRevocation", !.revoking = live]
  <2>1. process' = [process EXCEPT ![p] = h] /\ UNCHANGED token
    BY <1>0, <1>15 DEF Collect, rows
  <2>2. h.pc = "commitRevocation" /\ h.token = process[p].token /\ h.replay = process[p].replay
    BY <1>0 DEF ProcessState
  <2> HIDE DEF h
  <2> QED
    BY <1>5, <2>1, <2>2 DEF Revoking
<1>16. CASE CommitRevocation(p)
  <2>1. process'[p] = Idle
    BY <1>0, <1>16 DEF CommitRevocation, Return
  <2>2. FamilyOf(p) \in Family
    BY <1>0, <1>16 DEF CommitRevocation, InFlight, FamilyOf
  <2>3. family'[FamilyOf(p)] = "REVOKED"
    BY <1>0, <1>16, <2>2 DEF CommitRevocation
  <2> QED
    BY <1>1, <2>1, <2>3 DEF Replays
<1>17. CASE Crash(p)
  <2>1. [Idle EXCEPT !.pc = "down"].replay = FALSE /\ [Idle EXCEPT !.pc = "down"].pc = "down"
    BY DEF Idle
  <2>2. process'[p] = [Idle EXCEPT !.pc = "down"]
    BY <1>0, <1>17 DEF Crash
  <2> QED
    BY <2>1, <2>2 DEF Replays
<1>18. CASE Restart(p)
  <2>1. ~process[p].replay
    BY <1>18 DEF Restart, Replays, Rotating, Revoking
  <2> QED
    BY <1>1, <1>3, <1>18, <2>1 DEF Restart, Return
<1> QED
  BY <1>6, <1>7, <1>8, <1>9, <1>10, <1>11, <1>12, <1>13, <1>14, <1>15, <1>16, <1>17, <1>18
  DEF Refresh, Logout

\* A step of another call, or the passing of time, leaves p where it is.
LEMMA OthersStep ==
    ASSUME IInv, [Next]_vars, NEW p \in Process, process'[p] = process[p], Replays(p)
    PROVE  Replays(p)'
BY RevokedForGood DEF Replays, Presented

LEMMA OneMoves ==
    ASSUME IInv, [Next]_vars, NEW p \in Process
    PROVE  \/ Login(p) \/ Refresh(p) \/ Logout(p) \/ Crash(p) \/ Restart(p)
           \/ process'[p] = process[p]
<1>0. process \in [Process -> ProcessState]
  BY DEF IInv, TypeOK
<1>1. ASSUME NEW q \in Process \ {p},
             Login(q) \/ Refresh(q) \/ Logout(q) \/ Crash(q) \/ Restart(q)
      PROVE  process'[p] = process[p]
  <2>1. \E h : process' = [process EXCEPT ![q] = h]
    BY <1>0, <1>1
    DEF Login, CreateFamily, StoreToken, Refresh, StartRefresh, BeginRotation, TouchFamily,
        Consume, CommitRotation, Inspect, Logout, StartLogout, RevokeFamily, Collect,
        CommitRevocation, Crash, Restart, Return, Goto
  <2> QED
    BY <1>0, <2>1
<1>2. CASE (\E t \in Token : Expire(t)) \/ UNCHANGED vars
  BY <1>2 DEF Expire, vars
<1> QED
  BY <1>1, <1>2 DEF Next

\* Whoever presents a token that was used before and comes to an end leaves the family
\* revoked, whatever refreshes, logouts and crashes go on beside it.
THEOREM ReplaysEndFamilies == Spec => ReplayEndsFamily
<1> DEFINE AllReplays == \A p \in Process : Replays(p)
           Ended == \A p \in Process :
                        process[p].replay /\ process[p].fresh /\ ~At(p, "beginRotation")
                        /\ process'[p].pc = "idle"
                        => family'[FamilyOf(p)] = "REVOKED"
<1>1. Init => AllReplays
  BY DEF Init, Replays, Idle
<1>2. IInv /\ AllReplays /\ [Next]_vars => AllReplays'
  BY ReplayStep, OthersStep, OneMoves
<1>3. IInv /\ AllReplays /\ [Next]_vars => [Ended]_vars
  <2> SUFFICES ASSUME IInv, AllReplays, [Next]_vars PROVE Ended
    OBVIOUS
  <2> SUFFICES ASSUME NEW p \in Process,
                      process[p].replay, process[p].fresh, ~At(p, "beginRotation"),
                      process'[p].pc = "idle"
               PROVE  family'[FamilyOf(p)] = "REVOKED"
    OBVIOUS
  <2>1. process'[p] # process[p]
    BY DEF Replays, Rotating, Revoking
  <2> QED
    BY <2>1, ReplayStep, OneMoves
<1> QED
  BY <1>1, <1>2, <1>3, Invariance, PTL DEF Spec, ReplayEndsFamily

\* Whoever holds the row of a family waits for nobody: no statement of its own is blocked by
\* another transaction.
HoldersProceed ==
    \A p \in Process : process[p].locks =>
        /\ ~FamilyLocked(p)
        /\ At(p, "consume") => ~TokenLocked(p, Presented(p))
        /\ At(p, "commitRevocation") => \A t \in process[p].revoking : ~TokenLocked(p, t)

\* The transactions of refresh, reuse and logout never wait for each other in a circle,
\* however many run at once: the one that holds a family's row can always go on.
THEOREM NoCircularWait == Spec => []HoldersProceed
<1>1. ASSUME IInv, NEW p \in Process, process[p].locks, NEW t \in Token,
             familyOf[t] = FamilyOf(p)
      PROVE  ~TokenLocked(p, t)
  <2>1. ASSUME NEW q \in Process \ {p}, At(q, "commitRotation"), t \in process[q].revoking
        PROVE  FALSE
    <3>1. process[q].locks /\ FamilyOf(q) = FamilyOf(p)
      BY <1>1, <2>1 DEF IInv, InFlight, At, FamilyOf, Holding
    <3> QED
      BY <1>1, <2>1, <3>1 DEF IInv, Exclusive
  <2> QED
    BY <2>1 DEF TokenLocked
<1>2. IInv => HoldersProceed
  <2> SUFFICES ASSUME IInv, NEW p \in Process, process[p].locks
               PROVE  /\ ~FamilyLocked(p)
                      /\ At(p, "consume") => ~TokenLocked(p, Presented(p))
                      /\ At(p, "commitRevocation") =>
                             \A t \in process[p].revoking : ~TokenLocked(p, t)
    BY DEF HoldersProceed
  <2>1. ~FamilyLocked(p)
    BY DEF IInv, Exclusive, FamilyLocked
  <2>2. At(p, "consume") => Presented(p) \in Token /\ familyOf[Presented(p)] = FamilyOf(p)
    BY DEF IInv, InFlight, At, Presented, FamilyOf
  <2>3. At(p, "commitRevocation") =>
            process[p].revoking = {t \in Token : token[t] = "ACTIVE" /\ familyOf[t] = FamilyOf(p)}
    BY DEF IInv, InFlight, At, FamilyOf
  <2> QED
    BY <1>1, <2>1, <2>2, <2>3
<1> QED
  BY <1>2, Invariance, PTL
=============================================================================
