-------------------------- MODULE HolderEnrollment --------------------------
(***************************************************************************)
(* How a holder gets its DID: HolderDidEnrollmentService with the key      *)
(* ownership challenges of HolderKeyProofService in Redis, racing with     *)
(* itself and with createForUser of DidService, which makes a key that the *)
(* server keeps.  Every await ends a step.  What becomes of the keys       *)
(* afterwards is the subject of DidKeys.tla.                               *)
(***************************************************************************)
EXTENDS Naturals

CONSTANTS
    Holder,         \* users with the role HOLDER
    Key,            \* Ed25519 key pairs of clients
    KeyOwner,       \* who can sign with the private key
    Challenge,      \* challenge ids, drawn by randomUUID
    Process,        \* calls running at the same time, on any instance
    NoHolder, NoKey, NoChallenge,
    ServerKey,      \* a key pair the server generates and keeps
    TTL,            \* challengeTtlSeconds
    MaxTime         \* bound: the clock stops here, and so do new challenges

ASSUME KeysHaveOwners ==
    /\ KeyOwner \in [Key -> Holder]
    /\ NoHolder \notin Holder
    /\ NoKey \notin Key \cup {ServerKey}
    /\ ServerKey \notin Key
    /\ NoChallenge \notin Challenge

ASSUME TimesAreNaturals == TTL \in Nat \ {0} /\ MaxTime \in Nat

VARIABLES
    did,            \* the key of the holder's only DID, or NoKey when it has none
    challenge,      \* the session's contents, kept here when Redis no longer has it
    stored,         \* the time at which Redis drops the session; 0 when it has none
    issued,         \* challenge ids drawn so far
    redeemed,       \* history: how often a challenge was taken out of Redis
    timely,         \* history: challenges taken before the deadline their holder was told
    lost,           \* history: challenges that a fault removed from Redis
    now,
    process         \* what each call is doing

vars == <<did, challenge, stored, issued, redeemed, timely, lost, now, process>>

NoSession == [holder |-> NoHolder, key |-> NoKey, expires |-> 0]

Session ==
    [holder : Holder \cup {NoHolder}, key : Key \cup {NoKey}, expires : Nat]

ProgramCounter ==
    {"idle", "store", "readChallenge", "consume", "create"}

Idle == [pc |-> "idle", holder |-> NoHolder, challenge |-> NoChallenge,
         signer |-> NoKey, key |-> NoKey]

ProcessState ==
    [pc : ProgramCounter,
     holder : Holder \cup {NoHolder},
     challenge : Challenge \cup {NoChallenge},
     signer : Key \cup {NoKey},                 \* the key that made the signature sent
     key : Key \cup {NoKey, ServerKey}]         \* the key the DID is created with

TypeOK ==
    /\ did \in [Holder -> Key \cup {NoKey, ServerKey}]
    /\ challenge \in [Challenge -> Session]
    /\ stored \in [Challenge -> Nat]
    /\ issued \subseteq Challenge
    /\ redeemed \in [Challenge -> Nat]
    /\ timely \subseteq Challenge
    /\ lost \subseteq Challenge
    /\ now \in Nat
    /\ process \in [Process -> ProcessState]

Init ==
    /\ did = [h \in Holder |-> NoKey]
    /\ challenge = [c \in Challenge |-> NoSession]
    /\ stored = [c \in Challenge |-> 0]
    /\ issued = {}
    /\ redeemed = [c \in Challenge |-> 0]
    /\ timely = {}
    /\ lost = {}
    /\ now = 0
    /\ process = [p \in Process |-> Idle]

-----------------------------------------------------------------------------
At(p, pc) == process[p].pc = pc
Return(p) == process' = [process EXCEPT ![p] = Idle]
Start(p, call) == At(p, "idle") /\ process' = [process EXCEPT ![p] = call]

Chosen(p) == process[p].challenge
Caller(p) == process[p].holder

InRedis(c) == stored[c] > now

\* assertEligibleHolder, and createForUser's look at the owner.
Eligible(h) == did[h] = NoKey

-----------------------------------------------------------------------------
(* begin *)

\* The holder names any public key.  Id, message and expiresAt are made before the SET.
StartBegin(p, h, k, c) ==
    /\ Eligible(h)
    /\ c \notin issued
    /\ now + TTL <= MaxTime
    /\ Start(p, [Idle EXCEPT !.pc = "store", !.holder = h, !.challenge = c])
    /\ challenge' = [challenge EXCEPT ![c] = [holder |-> h, key |-> k, expires |-> now + TTL]]
    /\ issued' = issued \cup {c}
    /\ UNCHANGED <<did, stored, redeemed, timely, lost, now>>

StoreChallenge(p) ==
    /\ At(p, "store")
    /\ stored' = [stored EXCEPT ![Chosen(p)] = now + TTL]
    /\ Return(p)
    /\ UNCHANGED <<did, challenge, issued, redeemed, timely, lost, now>>

-----------------------------------------------------------------------------
(* complete *)

\* Holder h sends a signature of the challenge's message by a key it can sign with.
StartComplete(p, h, c, k) ==
    /\ Eligible(h)
    /\ c \in issued
    /\ KeyOwner[k] = h
    /\ Start(p, [Idle EXCEPT !.pc = "readChallenge", !.holder = h, !.challenge = c, !.signer = k])
    /\ UNCHANGED <<did, challenge, stored, issued, redeemed, timely, lost, now>>

\* Mutant: the session is taken out before its holder is compared.
ReadChallengeTakes(p) ==
    /\ At(p, "readChallenge")
    /\ stored' = [stored EXCEPT ![Chosen(p)] = 0]
    /\ IF InRedis(Chosen(p)) /\ challenge[Chosen(p)].holder = Caller(p)
       THEN process' = [process EXCEPT ![p].pc = "consume"]
       ELSE Return(p)
    /\ UNCHANGED <<did, challenge, issued, redeemed, timely, lost, now>>

\* getJson: somebody else's challenge is left alone.
ReadChallenge(p) ==
    /\ At(p, "readChallenge")
    /\ IF InRedis(Chosen(p)) /\ challenge[Chosen(p)].holder = Caller(p)
       THEN process' = [process EXCEPT ![p].pc = "consume"]
       ELSE Return(p)
    /\ UNCHANGED <<did, challenge, stored, issued, redeemed, timely, lost, now>>

\* Mutant: Redis is left to see to the deadline.
AcceptedLate(p) == process[p].signer = challenge[Chosen(p)].key

\* Mutant: no signature is asked for.
AcceptedUnsigned(p) == now < challenge[Chosen(p)].expires

\* After GETDEL, without another await: the session's own deadline, then the signature.
Accepted(p) ==
    /\ now < challenge[Chosen(p)].expires
    /\ process[p].signer = challenge[Chosen(p)].key

\* Mutant: GET instead of GETDEL.
TakenByGet(c) == stored' = stored

Taken(c) == stored' = [stored EXCEPT ![c] = 0]

\* consumeJson: only one of simultaneous calls gets the session, valid signature or not.
Consume(p) ==
    /\ At(p, "consume")
    /\ IF InRedis(Chosen(p))
       THEN /\ Taken(Chosen(p))
            /\ redeemed' = [redeemed EXCEPT ![Chosen(p)] = @ + 1]
            /\ timely' = IF now < challenge[Chosen(p)].expires THEN timely \cup {Chosen(p)}
                         ELSE timely
            /\ IF Accepted(p)
               THEN process' = [process EXCEPT ![p].pc = "create", ![p].key = challenge[Chosen(p)].key]
               ELSE Return(p)
       ELSE UNCHANGED <<stored, redeemed, timely>> /\ Return(p)
    /\ UNCHANGED <<did, challenge, issued, lost, now>>

\* Mutant: the DID is upserted.
CreatableAlways(h) == TRUE

\* The unique index on the owner.
Creatable(h) == did[h] = NoKey

\* Mutant: the challenge is stored in place of the key.
CreateDidSwapsFields(p) ==
    /\ At(p, "create")
    /\ did' = IF Creatable(Caller(p)) THEN [did EXCEPT ![Caller(p)] = Chosen(p)] ELSE did
    /\ Return(p)
    /\ UNCHANGED <<challenge, stored, issued, redeemed, timely, lost, now>>

\* The transaction of complete, and of createForUser.
CreateDid(p) ==
    /\ At(p, "create")
    /\ did' = IF Creatable(Caller(p)) THEN [did EXCEPT ![Caller(p)] = process[p].key] ELSE did
    /\ Return(p)
    /\ UNCHANGED <<challenge, stored, issued, redeemed, timely, lost, now>>

\* createForUser: no challenge, and a key that the server generates.
StartCreateForUser(p, h) ==
    /\ Eligible(h)
    /\ Start(p, [Idle EXCEPT !.pc = "create", !.holder = h, !.key = ServerKey])
    /\ UNCHANGED <<did, challenge, stored, issued, redeemed, timely, lost, now>>

-----------------------------------------------------------------------------
Tick ==
    /\ now < MaxTime
    /\ now' = now + 1
    /\ UNCHANGED <<did, challenge, stored, issued, redeemed, timely, lost, process>>

\* A call can stop anywhere; a challenge it took is gone.
Crash(p) ==
    /\ ~At(p, "idle")
    /\ Return(p)
    /\ UNCHANGED <<did, challenge, stored, issued, redeemed, timely, lost, now>>

\* Redis restarts empty or evicts the key.
LoseChallenge(c) ==
    /\ InRedis(c)
    /\ stored' = [stored EXCEPT ![c] = 0]
    /\ lost' = lost \cup {c}
    /\ UNCHANGED <<did, challenge, issued, redeemed, timely, now, process>>

Begin(p) ==
    \/ \E h \in Holder, k \in Key, c \in Challenge : StartBegin(p, h, k, c)
    \/ StoreChallenge(p)

Complete(p) ==
    \/ \E h \in Holder, k \in Key, c \in Challenge : StartComplete(p, h, c, k)
    \/ ReadChallenge(p)
    \/ Consume(p)
    \/ CreateDid(p)

Next ==
    \/ \E p \in Process :
        Begin(p) \/ Complete(p) \/ Crash(p) \/ \E h \in Holder : StartCreateForUser(p, h)
    \/ \E c \in Challenge : LoseChallenge(c)
    \/ Tick

Spec == Init /\ [][Next]_vars

-----------------------------------------------------------------------------
(* Properties *)

\* A DID is only ever bound to a key its holder can sign with, and that was asked of this
\* holder and answered before the deadline, although begin takes any public key, Redis keeps
\* a challenge longer than the deadline written into it, and several challenges, holders and
\* calls are under way at once.
EnrolledKeyIsOwned ==
    \A h \in Holder : did[h] \in Key =>
        /\ KeyOwner[did[h]] = h
        /\ \E c \in timely : challenge[c].holder = h /\ challenge[c].key = did[h]

\* A challenge is redeemed at most once, whatever runs at the same time.
ChallengeRedeemedOnce == \A c \in Challenge : redeemed[c] <= 1

\* A holder's DID and its first key never change hands: of two enrolments, or of an enrolment
\* and a server-made DID, one is refused.
DidIsBoundOnce ==
    [][\A h \in Holder : did[h] # NoKey => did'[h] = did[h]]_did

\* A challenge that was stored can be redeemed until the deadline its holder was told: only
\* its holder's own completion or a fault removes it earlier, whatever other holders send.
ChallengeStaysRedeemable ==
    [][\A c \in Challenge :
          InRedis(c) /\ stored'[c] <= now' =>
              \/ now' >= challenge[c].expires
              \/ c \in lost'
              \/ \E p \in Process :
                    At(p, "consume") /\ Chosen(p) = c /\ Caller(p) = challenge[c].holder]_vars
=============================================================================
