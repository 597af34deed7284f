------------------------------ MODULE DidKeys ------------------------------
(***************************************************************************)
(* DidService and its callers: the versioned keys of the DIDs of           *)
(* organizations and holders, their rotation, recovery and revocation, and *)
(* the signing loops of CredentialsService.addIssuerProof and              *)
(* VerificationRequestsService.createHolderDataIntegrityProof, which read  *)
(* a DID twice and retry when its key changed in between.                  *)
(*                                                                         *)
(* Every await ends a step.  The transactions begin with the update of the *)
(* row they are conditional on, keep its lock and are one step.  No code   *)
(* writes a DidStatus other than ACTIVE, so the tests of it are left out.  *)
(***************************************************************************)
EXTENDS Naturals, Sequences

CONSTANTS
    Owner,          \* active organizations and users with the role HOLDER
    NoOwner,
    Process,        \* calls running at the same time, on any instance
    MaxVersion,     \* bound: the last key version a call may create
    MaxAttempts     \* maximumSigningAttempts of both signing loops

ASSUME OwnersAreOwners == NoOwner \notin Owner
ASSUME BoundsArePositive == MaxVersion \in Nat \ {0} /\ MaxAttempts \in Nat \ {0}

VARIABLES
    ownerType,  \* Did.ownerType, fixed for each owner
    current,    \* Did.currentKeyVersion of the owner's only DID, 0 when there is none
    keys,       \* the DidKey rows of that DID, by version
    proofs,     \* proofs returned: the version verificationMethod names, the version that signed
    process     \* what each call is doing

vars == <<ownerType, current, keys, proofs, process>>

Organization == {o \in Owner : ownerType[o] = "ORGANIZATION"}
Holder == {o \in Owner : ownerType[o] = "USER"}

Version == 1..MaxVersion
Algorithm == {"Ed25519", "P-256"}

\* Client custody: encryptedPrivateKey, iv and authTag are null.
KeyRow ==
    [status : {"ACTIVE", "RETIRED", "REVOKED"},
     custody : {"server", "client"},
     algorithm : Algorithm]

NoKey == [status |-> "NONE", custody |-> "none", algorithm |-> "none"]
ActiveKey(custody, algorithm) == [status |-> "ACTIVE", custody |-> custody, algorithm |-> algorithm]

Operation == {"none", "create", "rotate", "recover", "revoke", "sign"}

ProgramCounter ==
    {"idle", "createDid", "custody", "algorithm", "commitChange",
     "readHistorical", "commitRevocation", "readMethod", "readSigner", "sign"}

Idle == [pc |-> "idle", op |-> "none", owner |-> NoOwner, version |-> 0, named |-> 0,
         custody |-> "server", algorithm |-> "Ed25519", attempt |-> 0, began |-> 0]

ProcessState ==
    [pc : ProgramCounter,
     op : Operation,
     owner : Owner \cup {NoOwner},
     version : 0..MaxVersion,       \* currentKeyVersion of the DID record last read
     named : 0..MaxVersion,         \* the key to revoke; the key in verificationMethod
     custody : {"server", "client"},
     algorithm : Algorithm,         \* of the key to create
     attempt : 0..MaxAttempts,
     began : 0..MaxVersion]         \* history: currentKeyVersion when the loop started

Proof == [owner : Owner, named : Version, signer : Version]

TypeOK ==
    /\ ownerType \in [Owner -> {"ORGANIZATION", "USER"}]
    /\ current \in [Owner -> 0..MaxVersion]
    /\ keys \in [Owner -> [Version -> KeyRow \cup {NoKey}]]
    /\ proofs \subseteq Proof
    /\ process \in [Process -> ProcessState]

Init ==
    /\ ownerType \in [Owner -> {"ORGANIZATION", "USER"}]
    /\ current = [o \in Owner |-> 0]
    /\ keys = [o \in Owner |-> [v \in Version |-> NoKey]]
    /\ proofs = {}
    /\ process = [p \in Process |-> Idle]

-----------------------------------------------------------------------------
At(p, pc) == process[p].pc = pc
OwnerOf(p) == process[p].owner
Goto(p, pc) == process' = [process EXCEPT ![p].pc = pc]
Return(p) == process' = [process EXCEPT ![p] = Idle]

HasDid(o) == current[o] # 0

\* The key a DID record of this version points to.
KeyRead(p) == keys[OwnerOf(p)][process[p].version]

-----------------------------------------------------------------------------
(* createForOrganization, createForUser, and the completion of a holder's  *)
(* enrolment with a key of its own.                                        *)

\* No DID of this owner is found.
StartCreate(p, o, custody, algorithm) ==
    /\ At(p, "idle")
    /\ ~HasDid(o)
    /\ o \in Holder => algorithm = "Ed25519"
    /\ custody = "client" => o \in Holder
    /\ process' = [process EXCEPT ![p] = [Idle EXCEPT !.pc = "createDid", !.op = "create",
                        !.owner = o, !.custody = custody, !.algorithm = algorithm]]
    /\ UNCHANGED <<current, keys, proofs>>

\* Mutant: without the unique index on the owner a second creation replaces the first.
CreateDidReplaces(p) ==
    /\ At(p, "createDid")
    /\ current' = [current EXCEPT ![OwnerOf(p)] = 1]
    /\ keys' = [keys EXCEPT ![OwnerOf(p)][1] = ActiveKey(process[p].custody, process[p].algorithm)]
    /\ Return(p)
    /\ UNCHANGED proofs

\* The transaction; the unique index on the owner refuses a second DID.
CreateDid(p) ==
    /\ At(p, "createDid")
    /\ LET o == OwnerOf(p) IN
       IF ~HasDid(o)
       THEN /\ current' = [current EXCEPT ![o] = 1]
            /\ keys' = [keys EXCEPT ![o][1] = ActiveKey(process[p].custody, process[p].algorithm)]
       ELSE UNCHANGED <<current, keys>>
    /\ Return(p)
    /\ UNCHANGED proofs

-----------------------------------------------------------------------------
(* rotateFor..., recoverFor... *)

StartChange(p, op, o, version, pc, algorithm) ==
    /\ At(p, "idle")
    /\ HasDid(o)
    /\ version < MaxVersion
    /\ process' = [process EXCEPT ![p] = [Idle EXCEPT !.pc = pc, !.op = op, !.owner = o,
                        !.version = version, !.algorithm = algorithm]]
    /\ UNCHANGED <<current, keys, proofs>>

\* An organization names the algorithm of the new key, or keeps that of the current one.
OrganizationChange(p, op, o) ==
    \/ \E algorithm \in Algorithm : StartChange(p, op, o, current[o], "commitChange", algorithm)
    \/ StartChange(p, op, o, current[o], "algorithm", "Ed25519")

\* Mutant: a holder's key is replaced without asking who holds it.
HolderChangeWithoutCustody(p, op, o) ==
    StartChange(p, op, o, current[o], "commitChange", "Ed25519")

HolderChange(p, op, o) == StartChange(p, op, o, current[o], "custody", "Ed25519")

\* requireServerManagedHolderKey
CheckCustody(p) ==
    /\ At(p, "custody")
    /\ IF KeyRead(p).status = "ACTIVE" /\ KeyRead(p).custody = "server"
       THEN Goto(p, "commitChange")
       ELSE Return(p)
    /\ UNCHANGED <<current, keys, proofs>>

\* currentKeyAlgorithm
ReadAlgorithm(p) ==
    /\ At(p, "algorithm")
    /\ IF KeyRead(p).status = "ACTIVE"
       THEN process' = [process EXCEPT ![p].pc = "commitChange", ![p].algorithm = KeyRead(p).algorithm]
       ELSE Return(p)
    /\ UNCHANGED <<current, keys, proofs>>

\* What becomes of the key that is replaced.
StatusAfter(op) == IF op = "rotate" THEN "RETIRED" ELSE "REVOKED"

\* Mutant: no condition on the version or status read earlier, and the new key is upserted.
CommitChangeUnconditionally(p) ==
    /\ At(p, "commitChange")
    /\ LET o == OwnerOf(p)
           previous == process[p].version IN
       /\ current' = [current EXCEPT ![o] = previous + 1]
       /\ keys' = [keys EXCEPT ![o][previous].status = StatusAfter(process[p].op),
                               ![o][previous + 1] = ActiveKey("server", process[p].algorithm)]
    /\ Return(p)
    /\ UNCHANGED proofs

\* rotateKey and recoverCurrentKey: conditional on the version read, on the status of its key
\* and on the unique index over (didId, version).
CommitChange(p) ==
    /\ At(p, "commitChange")
    /\ LET o == OwnerOf(p)
           previous == process[p].version
           next == previous + 1 IN
       IF /\ current[o] = previous
          /\ keys[o][previous].status = "ACTIVE"
          /\ keys[o][next] = NoKey
       THEN /\ current' = [current EXCEPT ![o] = next]
            /\ keys' = [keys EXCEPT ![o][previous].status = StatusAfter(process[p].op),
                                    ![o][next] = ActiveKey("server", process[p].algorithm)]
       ELSE UNCHANGED <<current, keys>>
    /\ Return(p)
    /\ UNCHANGED proofs

-----------------------------------------------------------------------------
(* revokeHistoricalKeyFor... *)

StartRevocation(p, o, v) ==
    /\ At(p, "idle")
    /\ HasDid(o)
    /\ v # current[o]
    /\ process' = [process EXCEPT ![p] = [Idle EXCEPT !.pc = "readHistorical", !.op = "revoke",
                        !.owner = o, !.version = current[o], !.named = v]]
    /\ UNCHANGED <<current, keys, proofs>>

ReadHistorical(p) ==
    /\ At(p, "readHistorical")
    /\ IF keys[OwnerOf(p)][process[p].named].status = "RETIRED"
       THEN Goto(p, "commitRevocation")
       ELSE Return(p)
    /\ UNCHANGED <<current, keys, proofs>>

CommitRevocation(p) ==
    /\ At(p, "commitRevocation")
    /\ IF keys[OwnerOf(p)][process[p].named].status = "RETIRED"
       THEN keys' = [keys EXCEPT ![OwnerOf(p)][process[p].named].status = "REVOKED"]
       ELSE UNCHANGED keys
    /\ Return(p)
    /\ UNCHANGED <<current, proofs>>

-----------------------------------------------------------------------------
(* The signing loops, and signForOrganization or signForUser inside them. *)

StartProof(p, o) ==
    /\ At(p, "idle")
    /\ HasDid(o)
    /\ process' = [process EXCEPT ![p] = [Idle EXCEPT !.pc = "readMethod", !.op = "sign",
                        !.owner = o, !.attempt = 1, !.began = current[o]]]
    /\ UNCHANGED <<current, keys, proofs>>

\* findPublicByOwner: the proof is built with this version in its verificationMethod.
ReadMethod(p) ==
    /\ At(p, "readMethod")
    /\ process' = [process EXCEPT ![p].pc = "readSigner", ![p].named = current[OwnerOf(p)]]
    /\ UNCHANGED <<current, keys, proofs>>

\* requireActiveOrganizationDid or requireActiveHolderDid, when signing begins.
ReadSigner(p) ==
    /\ At(p, "readSigner")
    /\ process' = [process EXCEPT ![p].pc = "sign", ![p].version = current[OwnerOf(p)]]
    /\ UNCHANGED <<current, keys, proofs>>

\* Mutant: a key that was replaced since the DID was read still signs.
CanSignAfterChange(key) ==
    /\ key.algorithm = "Ed25519"
    /\ key.custody = "server"

\* assertKeyCanSign for Ed25519, and assertServerManagedKey.
CanSign(key) ==
    /\ key.status = "ACTIVE"
    /\ key.algorithm = "Ed25519"
    /\ key.custody = "server"

SignatureProof(p) ==
    [owner |-> OwnerOf(p), named |-> process[p].named, signer |-> process[p].version]

\* Mutant: whatever key signed, the proof is returned.
SignWithoutComparing(p) ==
    /\ At(p, "sign")
    /\ CanSign(KeyRead(p))
    /\ proofs' = proofs \cup {SignatureProof(p)}
    /\ Return(p)
    /\ UNCHANGED <<current, keys>>

\* The key is read and signs, and its version is compared with the one named.
Sign(p) ==
    /\ At(p, "sign")
    /\ CanSign(KeyRead(p))
    /\ process[p].version = process[p].named
    /\ proofs' = proofs \cup {SignatureProof(p)}
    /\ Return(p)
    /\ UNCHANGED <<current, keys>>

SignRefused(p) ==
    /\ At(p, "sign")
    /\ ~CanSign(KeyRead(p))
    /\ Return(p)
    /\ UNCHANGED <<current, keys, proofs>>

\* Mutant: the proof is not built again before the next attempt.
RetryKeepsMethod(p) ==
    /\ At(p, "sign")
    /\ CanSign(KeyRead(p))
    /\ process[p].version # process[p].named
    /\ IF process[p].attempt < MaxAttempts
       THEN process' = [process EXCEPT ![p].pc = "readSigner", ![p].attempt = @ + 1]
       ELSE Return(p)
    /\ UNCHANGED <<current, keys, proofs>>

\* Another key signed: build the proof again, or give up with 409 after the last attempt.
Retry(p) ==
    /\ At(p, "sign")
    /\ CanSign(KeyRead(p))
    /\ process[p].version # process[p].named
    /\ IF process[p].attempt < MaxAttempts
       THEN process' = [process EXCEPT ![p].pc = "readMethod", ![p].attempt = @ + 1]
       ELSE Return(p)
    /\ UNCHANGED <<current, keys, proofs>>

-----------------------------------------------------------------------------
\* A call can stop anywhere: its process dies or the database throws.
Crash(p) ==
    /\ ~At(p, "idle")
    /\ Return(p)
    /\ UNCHANGED <<current, keys, proofs>>

Create(p) ==
    \/ \E o \in Owner, custody \in {"server", "client"}, algorithm \in Algorithm :
            StartCreate(p, o, custody, algorithm)
    \/ CreateDid(p)

Change(p) ==
    \/ \E op \in {"rotate", "recover"} :
        \/ \E o \in Organization : OrganizationChange(p, op, o)
        \/ \E o \in Holder : HolderChange(p, op, o)
    \/ CheckCustody(p)
    \/ ReadAlgorithm(p)
    \/ CommitChange(p)

Revoke(p) ==
    \/ \E o \in Owner, v \in Version : StartRevocation(p, o, v)
    \/ ReadHistorical(p)
    \/ CommitRevocation(p)

Prove(p) ==
    \/ \E o \in Owner : StartProof(p, o)
    \/ ReadMethod(p)
    \/ ReadSigner(p)
    \/ Sign(p)
    \/ SignRefused(p)
    \/ Retry(p)

Call(p) == Create(p) \/ Change(p) \/ Revoke(p) \/ Prove(p) \/ Crash(p)

Next == (\E p \in Process : Call(p)) /\ UNCHANGED ownerType

Spec == Init /\ [][Next]_vars

-----------------------------------------------------------------------------
\* The abstract specification, over the rows of a DID in the order of their versions.
Histories == INSTANCE KeyHistory WITH
    history <- [o \in Owner |-> SubSeq(keys[o], 1, current[o])]

(* Properties *)

\* Of the keys of a DID the current one, and no other, is ACTIVE; all earlier versions exist
\* and none later does: concurrent rotations and recoveries leave neither two active keys,
\* nor none, nor a gap.
OneActiveKey ==
    \A o \in Owner, v \in Version :
        /\ keys[o][v].status = "ACTIVE" <=> v = current[o]
        /\ keys[o][v].status = "NONE" <=> v > current[o]

\* A verification method that was published is never reused: its key material is fixed, a
\* retired key never signs again and a revoked one is revoked for good.
KeysAreAppendOnly ==
    [][\A o \in Owner, v \in Version :
          LET before == keys[o][v]
              after == keys'[o][v] IN
          before.status # "NONE" =>
              /\ after.custody = before.custody
              /\ after.algorithm = before.algorithm
              /\ after.status # "NONE"
              /\ before.status # "ACTIVE" => after.status # "ACTIVE"
              /\ before.status = "REVOKED" => after.status = "REVOKED"]_vars

\* A holder who enrolled a key of its own keeps the only key: the server never comes to hold
\* a signing key of that DID.
ClientCustodyKept ==
    \A o \in Owner, v \in Version :
        keys[o][1].custody = "client" => keys[o][v].custody \in {"client", "none"}

\* A proof that is returned names the key that signed it, although the DID is read once for
\* the name and once more for the key.
ProofNamesItsKey ==
    \A proof \in proofs :
        /\ proof.named = proof.signer
        /\ keys[proof.owner][proof.signer].custody = "server"
        /\ keys[proof.owner][proof.signer].algorithm = "Ed25519"

\* Each new attempt of a signing loop was caused by another key change, so the loop gives up
\* only if the key changed MaxAttempts times during one call.
RetriesNeedChanges ==
    \A p \in Process :
        process[p].pc \in {"readMethod", "readSigner", "sign"} =>
            current[OwnerOf(p)] + 1 >= process[p].began + process[p].attempt

\* Whatever calls run at once, what they do to the keys of a DID are the single steps of
\* KeyHistory.tla: each replaces the key in force, and a proof, for which the DID is read
\* twice and the key once, is made as if the three were read together.
ImplementsKeyHistory == Histories!Spec
=============================================================================
