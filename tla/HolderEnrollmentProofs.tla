------------------------ MODULE HolderEnrollmentProofs ------------------------
(***************************************************************************)
(* For any holders, keys, challenges and processes: types, the ownership   *)
(* of enrolled keys, and that a challenge is redeemed at most once.        *)
(*                                                                         *)
(* A challenge lives once: it is drawn, stored by the call that drew it,   *)
(* and taken (OneLife).  What it says never changes, so that what a call   *)
(* has compared still holds when the DID is created (InFlight).  Redis     *)
(* keeps it at least as long as it says (Kept), so only its redemption     *)
(* or a fault ends it early.                                               *)
(***************************************************************************)
EXTENDS HolderEnrollment, TLAPS

\* Before it is stored a challenge belongs to one call; it is in Redis until it is taken.
OneLife ==
    /\ \A c \in Challenge : c \notin issued => stored[c] = 0 /\ redeemed[c] = 0
    /\ \A c \in Challenge : stored[c] # 0 => redeemed[c] = 0
    /\ \A p \in Process : process[p].pc = "store" =>
          LET c == process[p].challenge IN c \in issued /\ stored[c] = 0 /\ redeemed[c] = 0
    /\ \A p, q \in Process :
          /\ process[p].pc = "store" /\ process[q].pc = "store"
          /\ process[p].challenge = process[q].challenge
          => p = q

\* A key that was asked of a holder and answered in time.
Enrolled(h, k) ==
    /\ KeyOwner[k] = h
    /\ \E c \in timely : challenge[c].holder = h /\ challenge[c].key = k

InFlight(p) ==
    LET call == process[p] IN
    /\ call.pc \in {"store", "readChallenge", "consume"} => call.challenge \in Challenge
    /\ call.pc \in {"readChallenge", "consume"} =>
           /\ call.holder \in Holder
           /\ call.challenge \in issued
           /\ call.signer \in Key /\ KeyOwner[call.signer] = call.holder
    /\ call.pc = "consume" => challenge[call.challenge].holder = call.holder
    /\ call.pc = "create" =>
           /\ call.holder \in Holder
           /\ call.key \in Key \cup {ServerKey}
           /\ call.key \in Key => Enrolled(call.holder, call.key)

IInv ==
    /\ TypeOK
    /\ OneLife
    /\ timely \subseteq issued
    /\ \A p \in Process : InFlight(p)
    /\ EnrolledKeyIsOwned
    /\ ChallengeRedeemedOnce

LEMMA IdleIsTyped == Idle \in ProcessState /\ Idle.pc = "idle"
BY DEF Idle, ProcessState, ProgramCounter

LEMMA InitIInv == ASSUME Init PROVE IInv
<1>1. TypeOK
  BY IdleIsTyped DEF Init, TypeOK, NoSession, Session
<1> QED
  BY <1>1, IdleIsTyped, KeysHaveOwners
  DEF Init, IInv, OneLife, InFlight, EnrolledKeyIsOwned, ChallengeRedeemedOnce, At

\* One call moves to call; challenges keep what they say, and none is stored.
LEMMA CallStep ==
    ASSUME IInv, NEW p \in Process, NEW call \in ProcessState,
           process' = [process EXCEPT ![p] = call],
           call.pc # "store",
           UNCHANGED <<challenge, issued, lost, now>>,
           timely \subseteq timely', timely' \subseteq issued,
           redeemed' \in [Challenge -> Nat],
           \A c \in Challenge : stored'[c] \in {0, stored[c]},
           stored' \in [Challenge -> Nat],
           \A c \in Challenge : redeemed'[c] # redeemed[c] =>
               redeemed'[c] = 1 /\ stored[c] # 0 /\ stored'[c] = 0 /\ c \in issued,
           did' \in [Holder -> Key \cup {NoKey, ServerKey}],
           \A h \in Holder : did'[h] # did[h] => (did'[h] \in Key => Enrolled(h, did'[h])),
           InFlight(p)'
    PROVE  IInv'
<1>1. /\ process'[p] = call
      /\ \A q \in Process \ {p} : process'[q] = process[q]
      /\ process' \in [Process -> ProcessState]
  BY DEF IInv, TypeOK
<1>2. timely' \subseteq Challenge
  BY DEF IInv, TypeOK
<1>3. TypeOK'
  BY <1>1, <1>2 DEF IInv, TypeOK
<1>4. OneLife'
  <2>1. \A c \in Challenge : c \notin issued => stored'[c] = 0 /\ redeemed'[c] = 0
    BY DEF IInv, OneLife
  <2>2. \A c \in Challenge : stored'[c] # 0 => redeemed'[c] = 0
    BY DEF IInv, OneLife
  <2>3. \A q \in Process : process'[q].pc = "store" => q # p /\ process'[q] = process[q]
    BY <1>1
  <2>4. \A q \in Process : process[q].pc = "store" =>
            LET c == process[q].challenge IN
            c \in Challenge /\ c \in issued /\ stored'[c] = 0 /\ redeemed'[c] = 0
    BY DEF IInv, TypeOK, OneLife, InFlight
  <2>5. \A q \in Process : process'[q].pc = "store" =>
            LET c == process'[q].challenge IN
            c \in issued /\ stored'[c] = 0 /\ redeemed'[c] = 0
    BY <2>3, <2>4
  <2>6. ASSUME NEW q \in Process, NEW u \in Process,
               process'[q].pc = "store", process'[u].pc = "store",
               process'[q].challenge = process'[u].challenge
        PROVE  q = u
    BY <2>3, <2>6 DEF IInv, OneLife
  <2> QED
    BY <2>1, <2>2, <2>5, <2>6 DEF OneLife
<1>5. ASSUME NEW h, NEW k, Enrolled(h, k) PROVE Enrolled(h, k)'
  BY <1>5 DEF Enrolled
<1>6. ASSUME NEW q \in Process \ {p} PROVE InFlight(q)'
  <2>1. InFlight(q) /\ process'[q] = process[q]
    BY <1>1 DEF IInv
  <2> QED
    BY <1>5, <2>1 DEF InFlight
<1>7. EnrolledKeyIsOwned'
  <2> SUFFICES ASSUME NEW h \in Holder, NEW k \in Key, did'[h] = k PROVE Enrolled(h, k)'
    BY DEF EnrolledKeyIsOwned, Enrolled
  <2>1. Enrolled(h, k)
    BY DEF IInv, EnrolledKeyIsOwned, Enrolled
  <2> QED
    BY <1>5, <2>1
<1>8. ChallengeRedeemedOnce'
  BY DEF IInv, TypeOK, ChallengeRedeemedOnce
<1> QED
  BY <1>3, <1>4, <1>6, <1>7, <1>8 DEF IInv

\* A call ends, or changes nothing but its locals.
LEMMA LocalStep ==
    ASSUME IInv, NEW p \in Process, NEW call \in ProcessState,
           process' = [process EXCEPT ![p] = call],
           call.pc # "store",
           UNCHANGED <<did, challenge, stored, issued, redeemed, timely, lost, now>>,
           InFlight(p)'
    PROVE  IInv'
<1>1. /\ redeemed \in [Challenge -> Nat] /\ stored \in [Challenge -> Nat]
      /\ did \in [Holder -> Key \cup {NoKey, ServerKey}] /\ timely \subseteq issued
  BY DEF IInv, TypeOK
<1> QED
  BY <1>1, CallStep

LEMMA ReturnStep ==
    ASSUME IInv, NEW p \in Process, Return(p),
           UNCHANGED <<did, challenge, stored, issued, redeemed, timely, lost, now>>
    PROVE  IInv'
<1>1. process'[p] = Idle
  BY DEF Return, IInv, TypeOK
<1>2. InFlight(p)'
  BY <1>1, IdleIsTyped DEF InFlight
<1> QED
  BY <1>2, IdleIsTyped, LocalStep DEF Return

LEMMA StartBeginStep ==
    ASSUME IInv, NEW p \in Process, NEW h \in Holder, NEW k \in Key, NEW c \in Challenge,
           StartBegin(p, h, k, c)
    PROVE  IInv'
<1> DEFINE call == [Idle EXCEPT !.pc = "store", !.holder = h, !.challenge = c]
           text == [holder |-> h, key |-> k, expires |-> now + TTL]
<1>1. /\ process' = [process EXCEPT ![p] = call]
      /\ challenge' = [challenge EXCEPT ![c] = text]
      /\ issued' = issued \cup {c} /\ c \notin issued
      /\ UNCHANGED <<did, stored, redeemed, timely, lost, now>>
      /\ At(p, "idle")
  BY DEF StartBegin, Start
<1>2. call \in ProcessState /\ call.pc = "store" /\ call.challenge = c
  BY DEF Idle, ProcessState, ProgramCounter
<1>3. text \in Session
  BY TimesAreNaturals DEF IInv, TypeOK, Session
<1> HIDE DEF call, text
<1>4. /\ process'[p] = call
      /\ \A q \in Process \ {p} : process'[q] = process[q]
      /\ \A d \in Challenge \ {c} : challenge'[d] = challenge[d]
  BY <1>1 DEF IInv, TypeOK
<1>5. TypeOK'
  BY <1>1, <1>2, <1>3 DEF IInv, TypeOK
<1>6. OneLife'
  <2>1. stored[c] = 0 /\ redeemed[c] = 0
    BY <1>1 DEF IInv, OneLife
  <2>2. \A q \in Process \ {p} : process[q].pc = "store" => process[q].challenge # c
    BY <1>1 DEF IInv, OneLife
  <2>3. \A d \in Challenge : d \notin issued' => stored'[d] = 0 /\ redeemed'[d] = 0
    BY <1>1 DEF IInv, OneLife
  <2>4. \A d \in Challenge : stored'[d] # 0 => redeemed'[d] = 0
    BY <1>1 DEF IInv, OneLife
  <2>5. \A q \in Process : process'[q].pc = "store" =>
            LET d == process'[q].challenge IN
            d \in issued' /\ stored'[d] = 0 /\ redeemed'[d] = 0
    <3> SUFFICES ASSUME NEW q \in Process, process'[q].pc = "store"
                 PROVE  LET d == process'[q].challenge IN
                        d \in issued' /\ stored'[d] = 0 /\ redeemed'[d] = 0
      OBVIOUS
    <3>1. CASE q = p
      BY <1>1, <1>2, <1>4, <2>1, <3>1
    <3>2. CASE q # p
      BY <1>1, <1>4, <3>2 DEF IInv, OneLife
    <3> QED
      BY <3>1, <3>2
  <2>6. ASSUME NEW q \in Process, NEW u \in Process,
               process'[q].pc = "store", process'[u].pc = "store",
               process'[q].challenge = process'[u].challenge
        PROVE  q = u
    <3>1. CASE q # p /\ u # p
      BY <1>4, <2>6, <3>1 DEF IInv, OneLife
    <3>2. CASE q = p \/ u = p
      BY <1>2, <1>4, <2>2, <2>6, <3>2
    <3> QED
      BY <3>1, <3>2
  <2> QED
    BY <2>3, <2>4, <2>5, <2>6 DEF OneLife
<1>7. ASSUME NEW holder, NEW key, Enrolled(holder, key) PROVE Enrolled(holder, key)'
  BY <1>1, <1>4, <1>7 DEF IInv, TypeOK, Enrolled
<1>8. InFlight(p)'
  BY <1>2, <1>4 DEF InFlight
<1>9. ASSUME NEW q \in Process \ {p} PROVE InFlight(q)'
  <2>1. InFlight(q) /\ process'[q] = process[q]
    BY <1>4 DEF IInv
  <2> QED
    BY <1>1, <1>4, <1>7, <2>1 DEF InFlight
<1>10. EnrolledKeyIsOwned'
  <2> SUFFICES ASSUME NEW g \in Holder, NEW key \in Key, did'[g] = key PROVE Enrolled(g, key)'
    BY DEF EnrolledKeyIsOwned, Enrolled
  <2>1. Enrolled(g, key)
    BY <1>1 DEF IInv, EnrolledKeyIsOwned, Enrolled
  <2> QED
    BY <1>7, <2>1
<1> QED
  BY <1>1, <1>5, <1>6, <1>8, <1>9, <1>10 DEF IInv, ChallengeRedeemedOnce

LEMMA StoreChallengeStep ==
    ASSUME IInv, NEW p \in Process, StoreChallenge(p)
    PROVE  IInv'
<1> DEFINE c == Chosen(p)
<1>1. /\ process' = [process EXCEPT ![p] = Idle] /\ At(p, "store")
      /\ stored' = [stored EXCEPT ![c] = now + TTL]
      /\ UNCHANGED <<did, challenge, issued, redeemed, timely, lost, now>>
  BY DEF StoreChallenge, Return
<1>2. c \in Challenge /\ c \in issued /\ redeemed[c] = 0
  BY <1>1 DEF IInv, InFlight, OneLife, At, Chosen
<1> HIDE DEF c
<1>3. /\ process'[p] = Idle
      /\ \A q \in Process \ {p} : process'[q] = process[q]
      /\ \A d \in Challenge \ {c} : stored'[d] = stored[d]
  BY <1>1 DEF IInv, TypeOK
<1>4. TypeOK'
  BY <1>1, <1>2, IdleIsTyped, TimesAreNaturals DEF IInv, TypeOK
<1>5. OneLife'
  <2>1. \A q \in Process : process'[q].pc = "store" => q # p /\ process'[q] = process[q]
    BY <1>3, IdleIsTyped
  <2>2. \A q \in Process \ {p} : process[q].pc = "store" =>
            process[q].challenge # c /\ process[q].challenge \in Challenge
    BY <1>1 DEF IInv, OneLife, InFlight, c, At, Chosen
  <2>3. \A d \in Challenge : d \notin issued' => stored'[d] = 0 /\ redeemed'[d] = 0
    BY <1>1, <1>2, <1>3 DEF IInv, OneLife
  <2>4. \A d \in Challenge : stored'[d] # 0 => redeemed'[d] = 0
    BY <1>1, <1>2, <1>3 DEF IInv, OneLife
  <2>5. \A q \in Process : process'[q].pc = "store" =>
            LET d == process'[q].challenge IN
            d \in issued' /\ stored'[d] = 0 /\ redeemed'[d] = 0
    BY <1>1, <1>3, <2>1, <2>2 DEF IInv, OneLife
  <2>6. ASSUME NEW q \in Process, NEW u \in Process,
               process'[q].pc = "store", process'[u].pc = "store",
               process'[q].challenge = process'[u].challenge
        PROVE  q = u
    BY <2>1, <2>6 DEF IInv, OneLife
  <2> QED
    BY <2>3, <2>4, <2>5, <2>6 DEF OneLife
<1>6. \A q \in Process : InFlight(q)'
  BY <1>1, <1>3, IdleIsTyped DEF IInv, InFlight, Enrolled
<1> QED
  BY <1>1, <1>4, <1>5, <1>6 DEF IInv, EnrolledKeyIsOwned, ChallengeRedeemedOnce

LEMMA StartCompleteStep ==
    ASSUME IInv, NEW p \in Process, NEW h \in Holder, NEW k \in Key, NEW c \in Challenge,
           StartComplete(p, h, c, k)
    PROVE  IInv'
<1> DEFINE call == [Idle EXCEPT !.pc = "readChallenge", !.holder = h, !.challenge = c,
                                !.signer = k]
<1>1. /\ process' = [process EXCEPT ![p] = call]
      /\ c \in issued /\ KeyOwner[k] = h
      /\ UNCHANGED <<did, challenge, stored, issued, redeemed, timely, lost, now>>
  BY DEF StartComplete, Start
<1>2. /\ call \in ProcessState /\ call.pc = "readChallenge" /\ call.challenge = c
      /\ call.holder = h /\ call.signer = k
  BY DEF Idle, ProcessState, ProgramCounter
<1> HIDE DEF call
<1>3. process'[p] = call
  BY <1>1 DEF IInv, TypeOK
<1>4. InFlight(p)'
  BY <1>1, <1>2, <1>3 DEF InFlight
<1> QED
  BY <1>1, <1>2, <1>4, LocalStep

LEMMA ReadChallengeStep ==
    ASSUME IInv, NEW p \in Process, ReadChallenge(p)
    PROVE  IInv'
<1>0. UNCHANGED <<did, challenge, stored, issued, redeemed, timely, lost, now>>
  BY DEF ReadChallenge
<1>1. CASE InRedis(Chosen(p)) /\ challenge[Chosen(p)].holder = Caller(p)
  <2> DEFINE call == [process[p] EXCEPT !.pc = "consume"]
  <2>1. process' = [process EXCEPT ![p] = call] /\ At(p, "readChallenge")
    BY <1>1 DEF ReadChallenge, IInv, TypeOK
  <2>2. process[p] \in ProcessState
    BY DEF IInv, TypeOK
  <2>3. /\ call \in ProcessState /\ call.pc = "consume" /\ call.challenge = Chosen(p)
        /\ call.holder = Caller(p) /\ call.signer = process[p].signer
    BY <2>2 DEF ProcessState, ProgramCounter, Chosen, Caller
  <2> HIDE DEF call
  <2>4. process'[p] = call
    BY <2>1 DEF IInv, TypeOK
  <2>5. InFlight(p)'
    BY <1>0, <1>1, <2>1, <2>3, <2>4 DEF IInv, InFlight, At, Chosen, Caller
  <2> QED
    BY <1>0, <2>1, <2>3, <2>5, LocalStep
<1>2. CASE ~(InRedis(Chosen(p)) /\ challenge[Chosen(p)].holder = Caller(p))
  BY <1>0, <1>2, ReturnStep DEF ReadChallenge
<1> QED
  BY <1>1, <1>2

LEMMA ConsumeStep ==
    ASSUME IInv, NEW p \in Process, Consume(p)
    PROVE  IInv'
<1> DEFINE c == Chosen(p)
<1>0. /\ UNCHANGED <<did, challenge, issued, lost, now>> /\ At(p, "consume")
      /\ process[p] \in ProcessState
  BY DEF Consume, IInv, TypeOK
<1>1. CASE ~InRedis(c)
  BY <1>0, <1>1, ReturnStep DEF Consume
<1>2. CASE InRedis(c)
  <2>1. /\ c \in Challenge /\ c \in issued
        /\ process[p].holder \in Holder
        /\ process[p].signer \in Key /\ KeyOwner[process[p].signer] = process[p].holder
        /\ challenge[c].holder = process[p].holder
    BY <1>0 DEF IInv, InFlight, At, Chosen
  <2>2. stored[c] # 0 /\ redeemed[c] = 0
    BY <1>2, <2>1 DEF InRedis, IInv, TypeOK, OneLife
  <2>3. /\ stored' = [stored EXCEPT ![c] = 0]
        /\ redeemed' = [redeemed EXCEPT ![c] = @ + 1]
        /\ timely' = IF now < challenge[c].expires THEN timely \cup {c} ELSE timely
    BY <1>2 DEF Consume, Taken
  <2>4. /\ redeemed' \in [Challenge -> Nat] /\ stored' \in [Challenge -> Nat]
        /\ \A d \in Challenge : stored'[d] \in {0, stored[d]}
        /\ \A d \in Challenge : redeemed'[d] # redeemed[d] =>
               redeemed'[d] = 1 /\ stored[d] # 0 /\ stored'[d] = 0 /\ d \in issued
    BY <2>1, <2>2, <2>3 DEF IInv, TypeOK
  <2>5. timely \subseteq timely' /\ timely' \subseteq issued
    BY <2>1, <2>3 DEF IInv
  <2>6. did' \in [Holder -> Key \cup {NoKey, ServerKey}] /\ did' = did
    BY <1>0 DEF IInv, TypeOK
  <2>7. CASE Accepted(p)
    <3> DEFINE call == [process[p] EXCEPT !.pc = "create", !.key = challenge[c].key]
    <3>1. process' = [process EXCEPT ![p] = call]
      BY <1>2, <2>7 DEF Consume, IInv, TypeOK
    <3>2. challenge[c].key = process[p].signer /\ now < challenge[c].expires
      BY <2>7 DEF Accepted
    <3>3. /\ call \in ProcessState /\ call.pc = "create" /\ call.holder = process[p].holder
          /\ call.key = process[p].signer
      BY <1>0, <2>1, <3>2 DEF ProcessState, ProgramCounter
    <3> HIDE DEF call
    <3>4. process'[p] = call
      BY <3>1 DEF IInv, TypeOK
    <3>5. /\ KeyOwner[call.key] = call.holder
          /\ c \in timely' /\ challenge'[c].holder = call.holder /\ challenge'[c].key = call.key
      BY <1>0, <2>1, <2>3, <3>2, <3>3
    <3>6. /\ KeyOwner[process'[p].key] = process'[p].holder
          /\ \E d \in timely' : /\ challenge'[d].holder = process'[p].holder
                               /\ challenge'[d].key = process'[p].key
      BY <3>4, <3>5
    <3>7. /\ process'[p].pc = "create" /\ process'[p].holder \in Holder
          /\ process'[p].key \in Key
      BY <2>1, <3>3, <3>4
    <3>8. InFlight(p)'
      BY <3>6, <3>7 DEF InFlight, Enrolled
    <3> QED
      BY <1>0, <2>4, <2>5, <2>6, <3>1, <3>3, <3>8, CallStep
  <2>8. CASE ~Accepted(p)
    <3>1. process' = [process EXCEPT ![p] = Idle]
      BY <1>2, <2>8 DEF Consume, Return
    <3>2. process'[p] = Idle
      BY <3>1 DEF IInv, TypeOK
    <3>3. InFlight(p)'
      BY <3>2, IdleIsTyped DEF InFlight
    <3> QED
      BY <1>0, <2>4, <2>5, <2>6, <3>1, <3>3, IdleIsTyped, CallStep
  <2> QED
    BY <2>7, <2>8
<1> QED
  BY <1>1, <1>2

LEMMA CreateDidStep ==
    ASSUME IInv, NEW p \in Process, CreateDid(p)
    PROVE  IInv'
<1>1. /\ process[p].holder \in Holder /\ process[p].key \in Key \cup {ServerKey}
      /\ process[p].key \in Key => Enrolled(process[p].holder, process[p].key)
  BY DEF IInv, InFlight, CreateDid, At
<1>2. /\ did' = IF Creatable(Caller(p)) THEN [did EXCEPT ![Caller(p)] = process[p].key] ELSE did
      /\ process' = [process EXCEPT ![p] = Idle]
      /\ UNCHANGED <<challenge, stored, issued, redeemed, timely, lost, now>>
  BY DEF CreateDid, Return
<1>3. /\ redeemed \in [Challenge -> Nat] /\ stored \in [Challenge -> Nat]
      /\ did \in [Holder -> Key \cup {NoKey, ServerKey}] /\ timely \subseteq issued
  BY DEF IInv, TypeOK
<1>4. /\ did' \in [Holder -> Key \cup {NoKey, ServerKey}]
      /\ \A h \in Holder : did'[h] # did[h] => h = process[p].holder /\ did'[h] = process[p].key
  BY <1>1, <1>2, <1>3 DEF Caller
<1>5. \A h \in Holder : did'[h] # did[h] => (did'[h] \in Key => Enrolled(h, did'[h]))
  BY <1>1, <1>4
<1>6. process'[p] = Idle
  BY <1>2 DEF IInv, TypeOK
<1>7. InFlight(p)'
  BY <1>6, IdleIsTyped DEF InFlight
<1> QED
  BY <1>2, <1>3, <1>4, <1>5, <1>7, IdleIsTyped, CallStep

LEMMA StartCreateForUserStep ==
    ASSUME IInv, NEW p \in Process, NEW h \in Holder, StartCreateForUser(p, h)
    PROVE  IInv'
<1> DEFINE call == [Idle EXCEPT !.pc = "create", !.holder = h, !.key = ServerKey]
<1>1. /\ process' = [process EXCEPT ![p] = call]
      /\ UNCHANGED <<did, challenge, stored, issued, redeemed, timely, lost, now>>
  BY DEF StartCreateForUser, Start
<1>2. /\ call \in ProcessState /\ call.pc = "create" /\ call.holder = h /\ call.key = ServerKey
  BY DEF Idle, ProcessState, ProgramCounter
<1> HIDE DEF call
<1>3. process'[p] = call
  BY <1>1 DEF IInv, TypeOK
<1>4. InFlight(p)'
  BY <1>2, <1>3, KeysHaveOwners DEF InFlight
<1> QED
  BY <1>1, <1>2, <1>4, LocalStep

LEMMA LoseChallengeStep ==
    ASSUME IInv, NEW c \in Challenge, LoseChallenge(c)
    PROVE  IInv'
<1>1. /\ stored' = [stored EXCEPT ![c] = 0] /\ lost' = lost \cup {c}
      /\ UNCHANGED <<did, challenge, issued, redeemed, timely, now, process>>
  BY DEF LoseChallenge
<1>2. \A d \in Challenge : stored'[d] \in {0, stored[d]}
  BY <1>1 DEF IInv, TypeOK
<1>3. TypeOK'
  BY <1>1 DEF IInv, TypeOK
<1>4. OneLife'
  BY <1>1, <1>2 DEF IInv, OneLife, InFlight, At, Chosen
<1> QED
  BY <1>1, <1>3, <1>4 DEF IInv, InFlight, Enrolled, EnrolledKeyIsOwned, ChallengeRedeemedOnce

-----------------------------------------------------------------------------
\* The invariant is inductive.
THEOREM Invariance == Spec => []IInv
<1>1. IInv /\ [Next]_vars => IInv'
  <2> SUFFICES ASSUME IInv, [Next]_vars PROVE IInv'
    OBVIOUS
  <2>1. ASSUME NEW p \in Process, Begin(p) PROVE IInv'
    BY <2>1, StartBeginStep, StoreChallengeStep DEF Begin
  <2>2. ASSUME NEW p \in Process, Complete(p) PROVE IInv'
    BY <2>2, StartCompleteStep, ReadChallengeStep, ConsumeStep, CreateDidStep DEF Complete
  <2>3. ASSUME NEW p \in Process, Crash(p) PROVE IInv'
    BY <2>3, ReturnStep DEF Crash
  <2>4. ASSUME NEW p \in Process, NEW h \in Holder, StartCreateForUser(p, h) PROVE IInv'
    BY <2>4, StartCreateForUserStep
  <2>5. ASSUME NEW c \in Challenge, LoseChallenge(c) PROVE IInv'
    BY <2>5, LoseChallengeStep
  <2>6. ASSUME UNCHANGED <<did, challenge, stored, issued, redeemed, timely, lost, process>>,
               now' \in Nat
        PROVE  IInv'
    BY <2>6 DEF IInv, TypeOK, OneLife, InFlight, Enrolled, EnrolledKeyIsOwned,
                ChallengeRedeemedOnce, At, Chosen
  <2>7. CASE Tick
    BY <2>6, <2>7 DEF Tick, IInv, TypeOK
  <2>8. CASE UNCHANGED vars
    BY <2>6, <2>8 DEF vars, IInv, TypeOK
  <2> QED
    BY <2>1, <2>2, <2>3, <2>4, <2>5, <2>7, <2>8 DEF Next
<1> QED
  BY InitIInv, <1>1, PTL DEF Spec

\* Rows, sessions and locals keep their types for any holders, keys and challenges.
THEOREM TypeCorrect == Spec => []TypeOK
BY Invariance, PTL DEF IInv

\* Every enrolled key was asked of its holder, answered in time and is the holder's own.
THEOREM EnrolmentsAreOwned == Spec => []EnrolledKeyIsOwned
BY Invariance, PTL DEF IInv

\* No challenge is redeemed twice.
THEOREM ChallengesAreUsedOnce == Spec => []ChallengeRedeemedOnce
BY Invariance, PTL DEF IInv

-----------------------------------------------------------------------------
(* What a step may never do. *)

\* Only the creation of a DID writes did, and only where there is none.
LEMMA BindStep ==
    ASSUME IInv, [Next]_vars, NEW h \in Holder, did[h] # NoKey
    PROVE  did'[h] = did[h]
<1>1. ASSUME NEW p \in Process, CreateDid(p)
      PROVE  did'[h] = did[h]
  <2>1. did' = IF Creatable(Caller(p)) THEN [did EXCEPT ![Caller(p)] = process[p].key] ELSE did
    BY <1>1 DEF CreateDid
  <2>2. Creatable(Caller(p)) => Caller(p) # h
    BY DEF Creatable
  <2>3. did \in [Holder -> Key \cup {NoKey, ServerKey}]
    BY DEF IInv, TypeOK
  <2> QED
    BY <2>1, <2>2, <2>3
<1>2. ASSUME NEW p \in Process, Begin(p) \/ Crash(p) \/ \E g \in Holder : StartCreateForUser(p, g)
      PROVE  UNCHANGED did
  BY <1>2 DEF Begin, StartBegin, StoreChallenge, Crash, StartCreateForUser
<1>3. ASSUME NEW p \in Process, Complete(p)
      PROVE  UNCHANGED did \/ CreateDid(p)
  BY <1>3 DEF Complete, StartComplete, ReadChallenge, Consume
<1>4. ASSUME Tick \/ (\E c \in Challenge : LoseChallenge(c)) \/ UNCHANGED vars
      PROVE  UNCHANGED did
  BY <1>4 DEF Tick, LoseChallenge, vars
<1> QED
  BY <1>1, <1>2, <1>3, <1>4 DEF Next

\* A holder's DID keeps its first key, whatever enrolments and server-made DIDs race for it.
THEOREM BoundOnce == Spec => DidIsBoundOnce
<1>1. IInv /\ [Next]_vars => [\A h \in Holder : did[h] # NoKey => did'[h] = did[h]]_did
  BY BindStep
<1> QED
  BY <1>1, Invariance, PTL DEF Spec, DidIsBoundOnce

\* Redis keeps a challenge at least until the deadline written into it, which is computed
\* before the SET that starts the TTL.
Kept ==
    /\ \A c \in Challenge : stored[c] # 0 => challenge[c].expires <= stored[c]
    /\ \A p \in Process : At(p, "store") => challenge[Chosen(p)].expires <= now + TTL

\* Steps that store no challenge and draw none.
LEMMA KeepsKept ==
    ASSUME IInv, Kept,
           UNCHANGED <<challenge, now>>,
           \A c \in Challenge : stored'[c] \in {0, stored[c]},
           \A p \in Process : process'[p].pc = "store" => process'[p] = process[p]
    PROVE  Kept'
BY DEF Kept, At, Chosen

LEMMA NotStoring ==
    ASSUME IInv, NEW p \in Process, NEW call, call.pc # "store",
           process' = [process EXCEPT ![p] = call]
    PROVE  \A q \in Process : process'[q].pc = "store" => process'[q] = process[q]
BY DEF IInv, TypeOK

LEMMA KeptStep ==
    ASSUME IInv, IInv', Kept, [Next]_vars
    PROVE  Kept'
<1>0. /\ process \in [Process -> ProcessState] /\ challenge \in [Challenge -> Session]
      /\ stored \in [Challenge -> Nat] /\ now \in Nat /\ TTL \in Nat
  BY TimesAreNaturals DEF IInv, TypeOK
<1>1. ASSUME NEW p \in Process, NEW h \in Holder, NEW k \in Key, NEW c \in Challenge,
             StartBegin(p, h, k, c)
      PROVE  Kept'
  <2> DEFINE call == [Idle EXCEPT !.pc = "store", !.holder = h, !.challenge = c]
             text == [holder |-> h, key |-> k, expires |-> now + TTL]
  <2>1. /\ process' = [process EXCEPT ![p] = call]
        /\ challenge' = [challenge EXCEPT ![c] = text]
        /\ c \notin issued
        /\ UNCHANGED <<stored, now>>
    BY <1>1 DEF StartBegin, Start
  <2>2. call.challenge = c /\ text.expires = now + TTL
    BY DEF Idle
  <2> HIDE DEF call, text
  <2>3. /\ process'[p] = call
        /\ \A q \in Process \ {p} : process'[q] = process[q]
        /\ challenge'[c] = text
        /\ \A d \in Challenge \ {c} : challenge'[d] = challenge[d]
    BY <1>0, <2>1
  <2>4. stored[c] = 0
    BY <2>1 DEF IInv, OneLife
  <2>5. \A d \in Challenge : stored'[d] # 0 => challenge'[d].expires <= stored'[d]
    BY <2>1, <2>3, <2>4 DEF Kept
  <2>6. ASSUME NEW q \in Process, process'[q].pc = "store"
        PROVE  challenge'[process'[q].challenge].expires <= now' + TTL
    <3>1. CASE q = p
      BY <1>0, <2>1, <2>2, <2>3, <3>1
    <3>2. CASE q # p
      <4>1. process[q].challenge \in issued /\ process[q].challenge \in Challenge
        BY <2>3, <2>6, <3>2 DEF IInv, OneLife, InFlight
      <4>2. challenge[process[q].challenge].expires <= now + TTL
        BY <2>3, <2>6, <3>2 DEF Kept, At, Chosen
      <4>3. challenge'[process[q].challenge] = challenge[process[q].challenge]
        BY <2>1, <2>3, <4>1
      <4> QED
        BY <2>1, <2>3, <3>2, <4>2, <4>3
    <3> QED
      BY <3>1, <3>2
  <2> QED
    BY <2>5, <2>6 DEF Kept, At, Chosen
<1>2. ASSUME NEW p \in Process, StoreChallenge(p)
      PROVE  Kept'
  <2>1. /\ process' = [process EXCEPT ![p] = Idle]
        /\ stored' = [stored EXCEPT ![Chosen(p)] = now + TTL]
        /\ UNCHANGED <<challenge, now>>
        /\ At(p, "store")
    BY <1>2 DEF StoreChallenge, Return
  <2>2. challenge[Chosen(p)].expires <= now + TTL
    BY <2>1 DEF Kept
  <2>3. \A d \in Challenge : stored'[d] # 0 => challenge'[d].expires <= stored'[d]
    BY <1>0, <2>1, <2>2 DEF Kept
  <2>4. \A q \in Process : process'[q].pc = "store" => process'[q] = process[q]
    BY <2>1, NotStoring, IdleIsTyped
  <2> QED
    BY <2>1, <2>3, <2>4 DEF Kept, At, Chosen
<1>3. ASSUME NEW p \in Process, Complete(p) \/ Crash(p) \/ \E h \in Holder : StartCreateForUser(p, h)
      PROVE  Kept'
  <2>1. \A q \in Process : process'[q].pc = "store" => process'[q] = process[q]
    <3>1. PICK call : process' = [process EXCEPT ![p] = call] /\ call.pc # "store"
      <4>1. CASE Crash(p) \/ CreateDid(p)
        BY <4>1, IdleIsTyped DEF Crash, CreateDid, Return
      <4>2. CASE \E h \in Holder : StartCreateForUser(p, h)
        <5>1. PICK h \in Holder : StartCreateForUser(p, h)
          BY <4>2
        <5>2. [Idle EXCEPT !.pc = "create", !.holder = h, !.key = ServerKey].pc # "store"
          BY DEF Idle
        <5> QED
          BY <5>1, <5>2 DEF StartCreateForUser, Start
      <4>3. CASE \E h \in Holder, k \in Key, c \in Challenge : StartComplete(p, h, c, k)
        <5>1. PICK h \in Holder, k \in Key, c \in Challenge : StartComplete(p, h, c, k)
          BY <4>3
        <5>2. [Idle EXCEPT !.pc = "readChallenge", !.holder = h, !.challenge = c,
                           !.signer = k].pc # "store"
          BY DEF Idle
        <5> QED
          BY <5>1, <5>2 DEF StartComplete, Start
      <4>4. CASE ReadChallenge(p)
        <5>1. [process[p] EXCEPT !.pc = "consume"].pc = "consume"
          BY <1>0 DEF ProcessState
        <5> QED
          BY <1>0, <4>4, <5>1, IdleIsTyped DEF ReadChallenge, Return
      <4>5. CASE Consume(p)
        <5>1. [process[p] EXCEPT !.pc = "create", !.key = challenge[Chosen(p)].key].pc = "create"
          BY <1>0 DEF ProcessState
        <5> QED
          BY <1>0, <4>5, <5>1, IdleIsTyped DEF Consume, Return
      <4> QED
        BY <1>3, <4>1, <4>2, <4>3, <4>4, <4>5 DEF Complete
    <3> QED
      BY <3>1, NotStoring
  <2>2. UNCHANGED <<challenge, now>>
    BY <1>3
    DEF Complete, Crash, StartComplete, ReadChallenge, Consume, CreateDid, StartCreateForUser
  <2>3. UNCHANGED stored \/ stored' = [stored EXCEPT ![Chosen(p)] = 0]
    BY <1>3
    DEF Complete, Crash, StartComplete, ReadChallenge, Consume, CreateDid, StartCreateForUser,
        Taken
  <2>4. \A c \in Challenge : stored'[c] \in {0, stored[c]}
    BY <1>0, <2>3
  <2> QED
    BY <2>1, <2>2, <2>4, KeepsKept
<1>4. ASSUME NEW c \in Challenge, LoseChallenge(c)
      PROVE  Kept'
  BY <1>0, <1>4, KeepsKept DEF LoseChallenge
<1>5. CASE Tick
  <2>1. UNCHANGED <<challenge, stored, process>> /\ now' = now + 1
    BY <1>5 DEF Tick
  <2>2. ASSUME NEW p \in Process, process[p].pc = "store"
        PROVE  challenge[process[p].challenge].expires <= now' + TTL
    <3>1. challenge[process[p].challenge].expires <= now + TTL
      BY <2>2 DEF Kept, At, Chosen
    <3>2. process[p].challenge \in Challenge
      BY <2>2 DEF IInv, InFlight
    <3>3. challenge[process[p].challenge].expires \in Nat
      BY <1>0, <3>2 DEF Session
    <3> QED
      BY <1>0, <2>1, <3>1, <3>3
  <2> QED
    BY <2>1, <2>2 DEF Kept, At, Chosen
<1>6. CASE UNCHANGED vars
  BY <1>6 DEF vars, Kept, At, Chosen
<1> QED
  BY <1>1, <1>2, <1>3, <1>4, <1>5, <1>6 DEF Next, Begin

\* Who takes a challenge that is still in Redis.
LEMMA RemovalStep ==
    ASSUME IInv, Kept, [Next]_vars, NEW c \in Challenge, InRedis(c), stored'[c] <= now'
    PROVE  \/ now' >= challenge[c].expires
           \/ c \in lost'
           \/ \E p \in Process :
                 At(p, "consume") /\ Chosen(p) = c /\ Caller(p) = challenge[c].holder
<1>0. /\ challenge \in [Challenge -> Session] /\ stored \in [Challenge -> Nat]
      /\ now \in Nat /\ stored[c] > now /\ TTL \in Nat
  BY TimesAreNaturals DEF IInv, TypeOK, InRedis
<1>1. ~(UNCHANGED <<stored, now>>)
  BY <1>0
<1>2. ASSUME NEW p \in Process, StoreChallenge(p)
      PROVE  FALSE
  <2>1. stored[Chosen(p)] = 0
    BY <1>2 DEF StoreChallenge, IInv, OneLife, At, Chosen
  <2>2. stored'[c] = stored[c] /\ now' = now
    BY <1>0, <1>2, <2>1 DEF StoreChallenge
  <2> QED
    BY <1>0, <2>2
<1>3. ASSUME NEW p \in Process, Consume(p)
      PROVE  At(p, "consume") /\ Chosen(p) = c /\ Caller(p) = challenge[c].holder
  <2>1. stored'[c] # stored[c]
    BY <1>0, <1>3 DEF Consume
  <2>2. stored' = stored \/ stored' = [stored EXCEPT ![Chosen(p)] = 0]
    BY <1>3 DEF Consume, Taken
  <2>3. Chosen(p) = c /\ At(p, "consume")
    BY <1>0, <1>3, <2>1, <2>2 DEF Consume
  <2> QED
    BY <2>3 DEF IInv, InFlight, At, Chosen, Caller
<1>4. ASSUME NEW d \in Challenge, LoseChallenge(d)
      PROVE  c \in lost'
  BY <1>0, <1>4 DEF LoseChallenge
<1>5. CASE Tick
  <2>1. stored[c] <= now' /\ now' \in Nat
    BY <1>0, <1>5 DEF Tick
  <2>2. challenge[c].expires <= stored[c] /\ challenge[c].expires \in Nat
    BY <1>0 DEF Kept, Session
  <2> QED
    BY <1>0, <2>1, <2>2
<1>6. ASSUME NEW p \in Process,
             \/ \E h \in Holder, k \in Key, d \in Challenge :
                   StartBegin(p, h, k, d) \/ StartComplete(p, h, d, k)
             \/ ReadChallenge(p) \/ CreateDid(p) \/ Crash(p)
             \/ \E h \in Holder : StartCreateForUser(p, h)
      PROVE  FALSE
  BY <1>1, <1>6
  DEF StartBegin, StartComplete, ReadChallenge, CreateDid, Crash, StartCreateForUser
<1>7. CASE UNCHANGED vars
  BY <1>1, <1>7 DEF vars
<1> QED
  BY <1>2, <1>3, <1>4, <1>5, <1>6, <1>7 DEF Next, Begin, Complete

\* Until the deadline its holder was told a challenge can be redeemed: no other holder and
\* no expiry in Redis takes it away.
THEOREM StaysRedeemable == Spec => ChallengeStaysRedeemable
<1> DEFINE Removal ==
        \A c \in Challenge :
            InRedis(c) /\ stored'[c] <= now' =>
                \/ now' >= challenge[c].expires
                \/ c \in lost'
                \/ \E p \in Process :
                      At(p, "consume") /\ Chosen(p) = c /\ Caller(p) = challenge[c].holder
<1>1. Init => Kept
  BY IdleIsTyped DEF Init, Kept, At
<1>2. IInv /\ IInv' /\ Kept /\ [Next]_vars => Kept'
  BY KeptStep
<1>3. IInv /\ Kept /\ [Next]_vars => [Removal]_vars
  BY RemovalStep
<1> QED
  BY <1>1, <1>2, <1>3, Invariance, PTL DEF Spec, ChallengeStaysRedeemable
=============================================================================
