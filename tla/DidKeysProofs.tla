---------------------------- MODULE DidKeysProofs ----------------------------
(***************************************************************************)
(* The key invariants of DidKeys.tla for any number of owners, calls, key  *)
(* versions and attempts.  OneActiveKey and ProofNamesItsKey depend on     *)
(* what the calls in progress hold in their locals: InProgress says that   *)
(* every version a call has read exists, and that a signing loop in its    *)
(* n-th attempt has seen the key change n - 1 times.                       *)
(*                                                                         *)
(* From these follows that it implements KeyHistory.tla: of the rows, each *)
(* transaction is a step of the history (CreatedBegins, ReplacedExtends,   *)
(* WithdrawnRevokes), and the key that signs is the one in force           *)
(* (SignSigns).                                                            *)
(***************************************************************************)
EXTENDS DidKeys, SequenceTheorems, TLAPS

Changing == {"custody", "algorithm", "commitChange"}
Signing == {"readMethod", "readSigner", "sign"}

Sound(p) ==
    LET o == process[p].owner
        seen == process[p].version
        named == process[p].named
        due == process[p].began + process[p].attempt IN
    /\ ~At(p, "idle") => o \in Owner
    /\ process[p].pc \in Changing =>
          /\ seen \in 1..current[o]
          /\ seen < MaxVersion
    /\ process[p].pc \in {"readHistorical", "commitRevocation"} => named \in Version
    /\ process[p].pc \in Signing => current[o] # 0
    /\ At(p, "readMethod") => due <= current[o] + 1
    /\ At(p, "readSigner") => named \in 1..current[o] /\ due <= named + 1
    /\ At(p, "sign") =>
          /\ named \in 1..current[o]
          /\ seen \in named..current[o]
          /\ due <= named + 1

InProgress == \A p \in Process : Sound(p)

IInv == TypeOK /\ OneActiveKey /\ InProgress /\ ProofNamesItsKey

\* A step of one call, when it leaves the tables alone: only the locals of that call change.
LEMMA TypesOfProcess ==
    ASSUME TypeOK, NEW p \in Process
    PROVE  /\ process[p] \in ProcessState
           /\ process[p].pc \in ProgramCounter
           /\ process[p].owner \in Owner \cup {NoOwner}
           /\ process[p].version \in 0..MaxVersion
           /\ process[p].named \in 0..MaxVersion
           /\ process[p].custody \in {"server", "client"}
           /\ process[p].algorithm \in Algorithm
           /\ process[p].attempt \in 0..MaxAttempts
           /\ process[p].began \in 0..MaxVersion
BY DEF TypeOK, ProcessState

LEMMA InitIInv == Init => IInv
<1> SUFFICES ASSUME Init PROVE IInv
  OBVIOUS
<1> USE BoundsArePositive, OwnersAreOwners
<1>1. Idle \in ProcessState
  BY DEF Idle, ProcessState, ProgramCounter, Operation, Algorithm
<1>2. TypeOK
  BY <1>1 DEF Init, TypeOK, NoKey, KeyRow
<1>3. OneActiveKey
  BY DEF Init, OneActiveKey, NoKey, Version
<1>4. InProgress
  BY DEF Init, InProgress, Sound, Idle, At, Changing, Signing
<1>5. ProofNamesItsKey
  BY DEF Init, ProofNamesItsKey
<1> QED
  BY <1>2, <1>3, <1>4, <1>5 DEF IInv

LEMMA TypeStep == TypeOK /\ InProgress /\ [Next]_vars => TypeOK'
<1> SUFFICES ASSUME TypeOK, InProgress, [Next]_vars
             PROVE  TypeOK'
  OBVIOUS
<1> USE BoundsArePositive, OwnersAreOwners
<1>0. ownerType' = ownerType
  BY DEF Next, vars
<1> USE <1>0
<1>a. Idle \in ProcessState
  BY DEF Idle, ProcessState, ProgramCounter, Operation, Algorithm
<1>b. /\ current \in [Owner -> 0..MaxVersion]
      /\ keys \in [Owner -> [Version -> KeyRow \cup {NoKey}]]
      /\ proofs \subseteq Proof
      /\ process \in [Process -> ProcessState]
  BY DEF TypeOK
<1>c. ASSUME NEW p \in Process, Return(p)
      PROVE  process' \in [Process -> ProcessState]
  BY <1>a, <1>b, <1>c DEF Return
<1>d. ASSUME NEW p \in Process, NEW pc \in ProgramCounter, Goto(p, pc)
      PROVE  process' \in [Process -> ProcessState]
  BY <1>b, <1>d DEF Goto, ProcessState
<1>1. CASE UNCHANGED vars
  BY <1>1, <1>b DEF vars, TypeOK
<1>2. ASSUME NEW p \in Process, Create(p)
      PROVE  TypeOK'
  <2>1. ASSUME NEW o \in Owner, NEW custody \in {"server", "client"},
               NEW algorithm \in Algorithm, StartCreate(p, o, custody, algorithm)
        PROVE  TypeOK'
    <3>1. process' \in [Process -> ProcessState]
      BY <2>1, <1>a, <1>b DEF StartCreate, Idle, ProcessState, ProgramCounter, Operation
    <3> QED
      BY <3>1, <2>1, <1>b DEF StartCreate, TypeOK
  <2>2. CASE CreateDid(p)
    <3>1. process' \in [Process -> ProcessState]
      BY <2>2, <1>c DEF CreateDid
    <3>2. ActiveKey(process[p].custody, process[p].algorithm) \in KeyRow
      BY TypesOfProcess DEF ActiveKey, KeyRow
    <3>3. process[p].owner \in Owner /\ 1 \in Version
      BY <2>2 DEF CreateDid, InProgress, Sound, At, Version
    <3>4. current' \in [Owner -> 0..MaxVersion]
      BY <2>2, <3>3, <1>b DEF CreateDid, OwnerOf
    <3>5. keys' \in [Owner -> [Version -> KeyRow \cup {NoKey}]]
      <4> DEFINE o == process[p].owner
                 changed == [keys[o] EXCEPT
                                ![1] = ActiveKey(process[p].custody, process[p].algorithm)]
      <4>1. changed \in [Version -> KeyRow \cup {NoKey}]
        BY <3>2, <3>3, <1>b
      <4>2. keys' = keys \/ keys' = [keys EXCEPT ![o] = changed]
        BY <2>2, <3>3, <1>b DEF CreateDid, OwnerOf
      <4> QED
        BY <4>1, <4>2, <3>3, <1>b
    <3> QED
      BY <3>1, <3>4, <3>5, <2>2, <1>b DEF CreateDid, TypeOK
  <2> QED
    BY <1>2, <2>1, <2>2 DEF Create
<1>3. ASSUME NEW p \in Process, Change(p)
      PROVE  TypeOK'
  <2>1. ASSUME NEW op \in {"rotate", "recover"}, NEW o \in Owner,
               NEW pc \in Changing, NEW algorithm \in Algorithm,
               StartChange(p, op, o, current[o], pc, algorithm)
        PROVE  TypeOK'
    <3>1. process' \in [Process -> ProcessState]
      BY <2>1, <1>a, <1>b DEF StartChange, Idle, ProcessState, ProgramCounter, Operation, Changing
    <3> QED
      BY <3>1, <2>1, <1>b DEF StartChange, TypeOK
  <2>2. ASSUME NEW op \in {"rotate", "recover"}, NEW o \in Organization, OrganizationChange(p, op, o)
        PROVE  TypeOK'
    BY <2>1, <2>2 DEF OrganizationChange, Changing, Algorithm, Organization
  <2>3. ASSUME NEW op \in {"rotate", "recover"}, NEW o \in Holder, HolderChange(p, op, o)
        PROVE  TypeOK'
    BY <2>1, <2>3 DEF HolderChange, Changing, Algorithm, Holder
  <2>4. CASE CheckCustody(p)
    <3>1. process' \in [Process -> ProcessState]
      BY <2>4, <1>c, <1>d DEF CheckCustody, ProgramCounter
    <3> QED
      BY <3>1, <2>4, <1>b DEF CheckCustody, TypeOK
  <2>5. CASE ReadAlgorithm(p)
    <3>1. KeyRead(p).status = "ACTIVE" => KeyRead(p).algorithm \in Algorithm
      <4>1. process[p].owner \in Owner /\ process[p].version \in Version
        BY <2>5, <1>b, TypesOfProcess DEF ReadAlgorithm, InProgress, Sound, At, Changing, Version
      <4>2. KeyRead(p) \in KeyRow \cup {NoKey}
        BY <4>1, <1>b DEF KeyRead, OwnerOf
      <4> QED
        BY <4>2 DEF KeyRow, NoKey
    <3>2. process' \in [Process -> ProcessState]
      <4> DEFINE next == [process[p] EXCEPT !.pc = "commitChange", !.algorithm = KeyRead(p).algorithm]
      <4>1. CASE KeyRead(p).status = "ACTIVE"
        <5>1. next \in ProcessState
          BY <4>1, <3>1, <1>b DEF ProcessState, ProgramCounter
        <5>2. process' = [process EXCEPT ![p] = next]
          BY <4>1, <2>5 DEF ReadAlgorithm
        <5> QED
          BY <5>1, <5>2, <1>b
      <4>2. CASE KeyRead(p).status # "ACTIVE"
        BY <4>2, <2>5, <1>c DEF ReadAlgorithm
      <4> QED
        BY <4>1, <4>2
    <3> QED
      BY <3>2, <2>5, <1>b DEF ReadAlgorithm, TypeOK
  <2>6. CASE CommitChange(p)
    <3>1. process' \in [Process -> ProcessState]
      BY <2>6, <1>c DEF CommitChange
    <3>2. ActiveKey("server", process[p].algorithm) \in KeyRow
      BY TypesOfProcess DEF ActiveKey, KeyRow
    <3>3. current' \in [Owner -> 0..MaxVersion]
      BY <2>6, <1>b, TypesOfProcess DEF CommitChange, InProgress, Sound, At, Changing
    <3>4. keys' \in [Owner -> [Version -> KeyRow \cup {NoKey}]]
      <4> DEFINE o == process[p].owner
                 previous == process[p].version
                 changed == [keys[o] EXCEPT
                                ![previous].status = StatusAfter(process[p].op),
                                ![previous + 1] = ActiveKey("server", process[p].algorithm)]
      <4>1. o \in Owner /\ previous \in Version /\ previous + 1 \in Version
        BY <2>6, <1>b, TypesOfProcess DEF CommitChange, InProgress, Sound, At, Changing, Version
      <4>2. CASE keys' = keys
        BY <4>2, <1>b
      <4>3. CASE keys[o][previous].status = "ACTIVE" /\ keys' = [keys EXCEPT ![o] = changed]
        <5>1. keys[o][previous] \in KeyRow
          BY <4>1, <4>3, <1>b DEF NoKey
        <5>2. [keys[o][previous] EXCEPT !.status = StatusAfter(process[p].op)] \in KeyRow
          BY <5>1 DEF KeyRow, StatusAfter
        <5>3. changed \in [Version -> KeyRow \cup {NoKey}]
          BY <4>1, <5>2, <3>2, <1>b
        <5> QED
          BY <4>1, <4>3, <5>3, <1>b
      <4> QED
        BY <2>6, <4>1, <4>2, <4>3, <1>b DEF CommitChange, OwnerOf
    <3> QED
      BY <3>1, <3>3, <3>4, <2>6, <1>b DEF CommitChange, TypeOK
  <2> QED
    BY <1>3, <2>2, <2>3, <2>4, <2>5, <2>6 DEF Change
<1>4. ASSUME NEW p \in Process, Revoke(p)
      PROVE  TypeOK'
  <2>1. ASSUME NEW o \in Owner, NEW v \in Version, StartRevocation(p, o, v)
        PROVE  TypeOK'
    <3>1. v \in 0..MaxVersion /\ current[o] \in 0..MaxVersion
      BY <1>b DEF Version
    <3>2. process' \in [Process -> ProcessState]
      BY <3>1, <2>1, <1>a, <1>b
      DEF StartRevocation, Idle, ProcessState, ProgramCounter, Operation
    <3> QED
      BY <3>2, <2>1, <1>b DEF StartRevocation, TypeOK
  <2>2. CASE ReadHistorical(p)
    <3>1. process' \in [Process -> ProcessState]
      BY <2>2, <1>c, <1>d DEF ReadHistorical, ProgramCounter
    <3> QED
      BY <3>1, <2>2, <1>b DEF ReadHistorical, TypeOK
  <2>3. CASE CommitRevocation(p)
    <3>1. process' \in [Process -> ProcessState]
      BY <2>3, <1>c DEF CommitRevocation
    <3>2. process[p].owner \in Owner /\ process[p].named \in Version
      BY <2>3 DEF CommitRevocation, InProgress, Sound, At
    <3>3. keys' \in [Owner -> [Version -> KeyRow \cup {NoKey}]]
      <4> DEFINE o == process[p].owner
                 v == process[p].named
      <4>1. keys[o][v].status = "RETIRED" => [keys[o][v] EXCEPT !.status = "REVOKED"] \in KeyRow
        BY <3>2, <1>b DEF KeyRow, NoKey
      <4>2. \/ keys' = keys
            \/ /\ keys[o][v].status = "RETIRED"
               /\ keys' = [keys EXCEPT ![o][v].status = "REVOKED"]
        BY <2>3 DEF CommitRevocation, OwnerOf
      <4>3. CASE keys[o][v].status = "RETIRED" /\ keys' = [keys EXCEPT ![o][v].status = "REVOKED"]
        <5> DEFINE row == [keys[o] EXCEPT ![v] = [keys[o][v] EXCEPT !.status = "REVOKED"]]
        <5>1. row \in [Version -> KeyRow \cup {NoKey}]
          BY <4>1, <4>3, <3>2, <1>b
        <5>2. keys' = [keys EXCEPT ![o] = row]
          BY <4>3, <3>2, <1>b
        <5> QED
          BY <5>1, <5>2, <3>2, <1>b
      <4> QED
        BY <4>2, <4>3, <1>b
    <3> QED
      BY <3>1, <3>3, <2>3, <1>b DEF CommitRevocation, TypeOK
  <2> QED
    BY <1>4, <2>1, <2>2, <2>3 DEF Revoke
<1>5. ASSUME NEW p \in Process, Prove(p)
      PROVE  TypeOK'
  <2>1. ASSUME NEW o \in Owner, StartProof(p, o)
        PROVE  TypeOK'
    <3>1. 1 \in 0..MaxAttempts /\ current[o] \in 0..MaxVersion
      BY <1>b
    <3>2. process' \in [Process -> ProcessState]
      BY <3>1, <2>1, <1>a, <1>b DEF StartProof, Idle, ProcessState, ProgramCounter, Operation
    <3> QED
      BY <3>2, <2>1, <1>b DEF StartProof, TypeOK
  <2>2. CASE ReadMethod(p)
    <3>1. current[OwnerOf(p)] \in 0..MaxVersion
      BY <2>2, <1>b DEF ReadMethod, InProgress, Sound, At, OwnerOf
    <3>2. process' \in [Process -> ProcessState]
      <4> DEFINE next == [process[p] EXCEPT !.pc = "readSigner", !.named = current[OwnerOf(p)]]
      <4>1. next \in ProcessState
        BY <3>1, <1>b DEF ProcessState, ProgramCounter
      <4>2. process' = [process EXCEPT ![p] = next]
        BY <2>2 DEF ReadMethod
      <4> QED
        BY <4>1, <4>2, <1>b
    <3> QED
      BY <3>2, <2>2, <1>b DEF ReadMethod, TypeOK
  <2>3. CASE ReadSigner(p)
    <3>1. current[OwnerOf(p)] \in 0..MaxVersion
      BY <2>3, <1>b DEF ReadSigner, InProgress, Sound, At, OwnerOf
    <3>2. process' \in [Process -> ProcessState]
      <4> DEFINE next == [process[p] EXCEPT !.pc = "sign", !.version = current[OwnerOf(p)]]
      <4>1. next \in ProcessState
        BY <3>1, <1>b DEF ProcessState, ProgramCounter
      <4>2. process' = [process EXCEPT ![p] = next]
        BY <2>3 DEF ReadSigner
      <4> QED
        BY <4>1, <4>2, <1>b
    <3> QED
      BY <3>2, <2>3, <1>b DEF ReadSigner, TypeOK
  <2>4. CASE Sign(p)
    <3>1. process' \in [Process -> ProcessState]
      BY <2>4, <1>c DEF Sign
    <3>2. SignatureProof(p) \in Proof
      BY <2>4, TypesOfProcess, <1>b DEF Sign, InProgress, Sound, At, SignatureProof, Proof, OwnerOf, Version
    <3> QED
      BY <3>1, <3>2, <2>4, <1>b DEF Sign, TypeOK
  <2>5. CASE SignRefused(p)
    <3>1. process' \in [Process -> ProcessState]
      BY <2>5, <1>c DEF SignRefused
    <3> QED
      BY <3>1, <2>5, <1>b DEF SignRefused, TypeOK
  <2>6. CASE Retry(p)
    <3>1. process' \in [Process -> ProcessState]
      <4>1. process[p].attempt < MaxAttempts => process[p].attempt + 1 \in 0..MaxAttempts
        BY TypesOfProcess
      <4> QED
        BY <4>1, <2>6, <1>b, <1>c DEF Retry, ProcessState, ProgramCounter
    <3> QED
      BY <3>1, <2>6, <1>b DEF Retry, TypeOK
  <2> QED
    BY <1>5, <2>1, <2>2, <2>3, <2>4, <2>5, <2>6 DEF Prove
<1>6. ASSUME NEW p \in Process, Crash(p)
      PROVE  TypeOK'
  <2>1. process' \in [Process -> ProcessState]
    BY <1>6, <1>c DEF Crash
  <2> QED
    BY <2>1, <1>6, <1>b DEF Crash, TypeOK
<1> QED
  BY <1>1, <1>2, <1>3, <1>4, <1>5, <1>6 DEF Next, Call

-----------------------------------------------------------------------------
(* What a step does to the tables, row by row. *)

\* A DID is created with its first key.
Created(o, key) ==
    /\ current[o] = 0
    /\ \A q \in Owner : current'[q] = IF q = o THEN 1 ELSE current[q]
    /\ \A q \in Owner, v \in Version :
            keys'[q][v] = IF q = o /\ v = 1 THEN key ELSE keys[q][v]

\* The current key gives way to the next one.
Replaced(o, status, key) ==
    /\ keys[o][current[o]].status = "ACTIVE"
    /\ keys[o][current[o] + 1] = NoKey
    /\ current[o] \in Version /\ current[o] + 1 \in Version
    /\ key.custody = "server"
    /\ \A q \in Owner : current'[q] = IF q = o THEN current[o] + 1 ELSE current[q]
    /\ \A q \in Owner, v \in Version :
            keys'[q][v] = IF q = o /\ v = current[o] THEN [keys[o][v] EXCEPT !.status = status]
                          ELSE IF q = o /\ v = current[o] + 1 THEN key
                          ELSE keys[q][v]

\* A retired key is revoked.
Withdrawn(o, old) ==
    /\ keys[o][old].status = "RETIRED"
    /\ UNCHANGED current
    /\ \A q \in Owner, v \in Version :
            keys'[q][v] = IF q = o /\ v = old THEN [keys[o][v] EXCEPT !.status = "REVOKED"]
                          ELSE keys[q][v]

LEMMA TableStep ==
    ASSUME TypeOK, InProgress, [Next]_vars
    PROVE  \/ UNCHANGED <<current, keys>>
           \/ \E o \in Owner, key \in KeyRow :
                key.status = "ACTIVE" /\ (Created(o, key) \/ \E status \in {"RETIRED", "REVOKED"} :
                                                               Replaced(o, status, key))
           \/ \E o \in Owner, old \in Version : Withdrawn(o, old)
<1> USE BoundsArePositive
<1>a. /\ current \in [Owner -> 0..MaxVersion]
      /\ keys \in [Owner -> [Version -> KeyRow \cup {NoKey}]]
  BY DEF TypeOK
<1>1. CASE UNCHANGED vars
  BY <1>1 DEF vars
<1>2. ASSUME NEW p \in Process, CreateDid(p), ~UNCHANGED <<current, keys>>
      PROVE  \E o \in Owner, key \in KeyRow : key.status = "ACTIVE" /\ Created(o, key)
  <2> DEFINE o == process[p].owner
             key == ActiveKey(process[p].custody, process[p].algorithm)
  <2>1. o \in Owner /\ 1 \in Version
    BY <1>2 DEF CreateDid, InProgress, Sound, At, Version
  <2>2. key \in KeyRow /\ key.status = "ACTIVE"
    BY TypesOfProcess DEF ActiveKey, KeyRow
  <2>3. /\ current[o] = 0
        /\ current' = [current EXCEPT ![o] = 1]
        /\ keys' = [keys EXCEPT ![o] = [keys[o] EXCEPT ![1] = key]]
    BY <1>2, <2>1, <1>a DEF CreateDid, HasDid, OwnerOf
  <2> HIDE DEF o, key
  <2>4. Created(o, key)
    BY <2>1, <2>3, <1>a DEF Created
  <2> QED
    BY <2>1, <2>2, <2>4
<1>3. ASSUME NEW p \in Process, CommitChange(p), ~UNCHANGED <<current, keys>>
      PROVE  \E o \in Owner, key \in KeyRow, status \in {"RETIRED", "REVOKED"} :
                key.status = "ACTIVE" /\ Replaced(o, status, key)
  <2> DEFINE o == process[p].owner
             previous == process[p].version
             key == ActiveKey("server", process[p].algorithm)
             status == StatusAfter(process[p].op)
             replaced == [keys[o][previous] EXCEPT !.status = status]
  <2>1. o \in Owner /\ previous \in Version /\ previous + 1 \in Version
    BY <1>3, <1>a, TypesOfProcess DEF CommitChange, InProgress, Sound, At, Changing, Version
  <2>2. key \in KeyRow /\ key.status = "ACTIVE" /\ key.custody = "server"
    BY TypesOfProcess DEF ActiveKey, KeyRow
  <2>3. status \in {"RETIRED", "REVOKED"}
    BY DEF StatusAfter
  <2>4. /\ current[o] = previous
        /\ keys[o][previous].status = "ACTIVE"
        /\ keys[o][previous + 1] = NoKey
        /\ current' = [current EXCEPT ![o] = previous + 1]
        /\ keys' = [keys EXCEPT ![o] = [keys[o] EXCEPT ![previous].status = status,
                                                        ![previous + 1] = key]]
    BY <1>3, <2>1, <1>a DEF CommitChange, OwnerOf
  <2>5. \A v \in Version : keys'[o][v] =
            IF v = previous THEN [keys[o][v] EXCEPT !.status = status]
            ELSE IF v = previous + 1 THEN key ELSE keys[o][v]
    <3> DEFINE row == [keys[o] EXCEPT ![previous].status = status, ![previous + 1] = key]
    <3>1. previous # previous + 1
      BY <2>1 DEF Version
    <3>2. keys'[o] = row
      BY <2>1, <2>4, <1>a
    <3> HIDE DEF o, previous, key, status
    <3>3. \A v \in Version : row[v] =
            IF v = previous THEN [keys[o][v] EXCEPT !.status = status]
            ELSE IF v = previous + 1 THEN key ELSE keys[o][v]
      BY <2>1, <3>1, <1>a
    <3> QED
      BY <3>2, <3>3
  <2>6. \A q \in Owner : q # o => keys'[q] = keys[q] /\ current'[q] = current[q]
    BY <2>1, <2>4, <1>a
  <2>7. current'[o] = previous + 1
    BY <2>1, <2>4, <1>a
  <2> HIDE DEF o, previous, key, status, replaced
  <2>8. Replaced(o, status, key)
    BY <2>1, <2>2, <2>4, <2>5, <2>6, <2>7, <1>a DEF Replaced
  <2> QED
    BY <2>1, <2>2, <2>3, <2>8
<1>4. ASSUME NEW p \in Process, CommitRevocation(p), ~UNCHANGED <<current, keys>>
      PROVE  \E o \in Owner, old \in Version : Withdrawn(o, old)
  <2> DEFINE o == process[p].owner
             old == process[p].named
  <2>1. o \in Owner /\ old \in Version
    BY <1>4 DEF CommitRevocation, InProgress, Sound, At
  <2>2. /\ keys[o][old].status = "RETIRED"
        /\ UNCHANGED current
        /\ keys' = [keys EXCEPT ![o] = [keys[o] EXCEPT ![old] = [@ EXCEPT !.status = "REVOKED"]]]
    BY <1>4, <2>1, <1>a DEF CommitRevocation, OwnerOf
  <2> HIDE DEF o, old
  <2>3. Withdrawn(o, old)
    BY <2>1, <2>2, <1>a DEF Withdrawn
  <2> QED
    BY <2>1, <2>3
<1>5. ASSUME NEW p \in Process, Create(p) \/ Change(p) \/ Revoke(p) \/ Prove(p) \/ Crash(p)
      PROVE  UNCHANGED <<current, keys>> \/ CreateDid(p) \/ CommitChange(p) \/ CommitRevocation(p)
  BY <1>5
  DEF Create, Change, Revoke, Prove, Crash, StartCreate, OrganizationChange, HolderChange,
      StartChange, CheckCustody, ReadAlgorithm, StartRevocation, ReadHistorical, StartProof,
      ReadMethod, ReadSigner, Sign, SignRefused, Retry
<1> QED
  BY <1>1, <1>2, <1>3, <1>4, <1>5 DEF Next, Call

LEMMA OneActiveKeyStep ==
    ASSUME TypeOK, OneActiveKey, InProgress, [Next]_vars
    PROVE  OneActiveKey'
<1> USE BoundsArePositive
<1>a. /\ current \in [Owner -> 0..MaxVersion]
      /\ keys \in [Owner -> [Version -> KeyRow \cup {NoKey}]]
      /\ NoKey.status = "NONE"
  BY DEF TypeOK, NoKey
<1>1. CASE UNCHANGED <<current, keys>>
  BY <1>1 DEF OneActiveKey
<1>2. ASSUME NEW o \in Owner, NEW key \in KeyRow, key.status = "ACTIVE", Created(o, key)
      PROVE  OneActiveKey'
  BY <1>2, <1>a DEF Created, OneActiveKey, Version
<1>3. ASSUME NEW o \in Owner, NEW key \in KeyRow, NEW status \in {"RETIRED", "REVOKED"},
             key.status = "ACTIVE", Replaced(o, status, key)
      PROVE  OneActiveKey'
  <2>1. keys[o][current[o]] \in KeyRow
    BY <1>3, <1>a DEF Replaced
  <2>2. keys'[o][current[o]].status = status
    BY <1>3, <2>1 DEF Replaced, KeyRow
  <2> SUFFICES ASSUME NEW q \in Owner, NEW v \in Version
               PROVE  /\ keys'[q][v].status = "ACTIVE" <=> v = current'[q]
                      /\ keys'[q][v].status = "NONE" <=> v > current'[q]
    BY DEF OneActiveKey
  <2>3. /\ keys[q][v].status = "ACTIVE" <=> v = current[q]
        /\ keys[q][v].status = "NONE" <=> v > current[q]
    BY DEF OneActiveKey
  <2>4. CASE q # o
    BY <2>3, <2>4, <1>3 DEF Replaced
  <2>5. CASE q = o /\ v = current[o]
    BY <2>2, <2>5, <1>3, <1>a DEF Replaced, Version
  <2>6. CASE q = o /\ v = current[o] + 1
    <3>1. v \in 1..MaxVersion /\ v # current[o] /\ current'[q] = v
      BY <2>6, <1>3, <1>a DEF Replaced, Version
    <3>2. keys'[q][v] = key
      BY <3>1, <2>6, <1>3 DEF Replaced
    <3> QED
      BY <3>1, <3>2, <1>3
  <2>7. CASE q = o /\ v # current[o] /\ v # current[o] + 1
    <3>1. keys'[q][v] = keys[q][v] /\ current'[q] = current[q] + 1
      BY <2>7, <1>3 DEF Replaced
    <3> QED
      BY <3>1, <2>3, <2>7, <1>a DEF Version
  <2> QED
    BY <2>4, <2>5, <2>6, <2>7
<1>4. ASSUME NEW o \in Owner, NEW old \in Version, Withdrawn(o, old)
      PROVE  OneActiveKey'
  <2>1. keys[o][old] \in KeyRow
    BY <1>4, <1>a DEF Withdrawn
  <2>2. keys'[o][old].status = "REVOKED"
    BY <1>4, <2>1 DEF Withdrawn, KeyRow
  <2> SUFFICES ASSUME NEW q \in Owner, NEW v \in Version
               PROVE  /\ keys'[q][v].status = "ACTIVE" <=> v = current'[q]
                      /\ keys'[q][v].status = "NONE" <=> v > current'[q]
    BY DEF OneActiveKey
  <2>3. /\ keys[q][v].status = "ACTIVE" <=> v = current[q]
        /\ keys[q][v].status = "NONE" <=> v > current[q]
        /\ current'[q] = current[q]
    BY <1>4 DEF OneActiveKey, Withdrawn
  <2>4. CASE q = o /\ v = old
    BY <2>2, <2>3, <2>4, <1>4 DEF Withdrawn
  <2>5. CASE ~(q = o /\ v = old)
    <3>1. keys'[q][v] = keys[q][v]
      BY <2>5, <1>4 DEF Withdrawn
    <3> QED
      BY <3>1, <2>3
  <2> QED
    BY <2>4, <2>5
<1> QED
  BY <1>1, <1>2, <1>3, <1>4, TableStep

\* Versions only grow, and the rows that exist keep their key material.
Monotone ==
    /\ \A o \in Owner : current[o] <= current'[o]
    /\ \A o \in Owner, v \in Version :
        keys[o][v].status # "NONE" =>
            /\ keys'[o][v].custody = keys[o][v].custody
            /\ keys'[o][v].algorithm = keys[o][v].algorithm
            /\ keys'[o][v].status # "NONE"
            /\ keys[o][v].status # "ACTIVE" => keys'[o][v].status # "ACTIVE"
            /\ keys[o][v].status = "REVOKED" => keys'[o][v].status = "REVOKED"

LEMMA MonotoneStep ==
    ASSUME TypeOK, OneActiveKey, InProgress, [Next]_vars
    PROVE  Monotone
<1> USE BoundsArePositive
<1>a. /\ current \in [Owner -> 0..MaxVersion]
      /\ keys \in [Owner -> [Version -> KeyRow \cup {NoKey}]]
      /\ NoKey.status = "NONE"
  BY DEF TypeOK, NoKey
<1>1. CASE UNCHANGED <<current, keys>>
  BY <1>1, <1>a DEF Monotone
<1>2. ASSUME NEW o \in Owner, NEW key \in KeyRow, Created(o, key)
      PROVE  Monotone
  <2>1. \A v \in Version : keys[o][v].status = "NONE"
    BY <1>2, <1>a DEF Created, OneActiveKey, Version
  <2>2. \A q \in Owner : current[q] <= current'[q]
    BY <1>2, <1>a DEF Created
  <2>3. \A q \in Owner, v \in Version : keys[q][v].status # "NONE" => keys'[q][v] = keys[q][v]
    BY <2>1, <1>2 DEF Created
  <2> QED
    BY <2>2, <2>3 DEF Monotone
<1>3. ASSUME NEW o \in Owner, NEW key \in KeyRow, NEW status \in {"RETIRED", "REVOKED"},
             Replaced(o, status, key)
      PROVE  Monotone
  <2>1. keys[o][current[o]] \in KeyRow
    BY <1>3, <1>a DEF Replaced
  <2>2. /\ keys'[o][current[o]].status = status
        /\ keys'[o][current[o]].custody = keys[o][current[o]].custody
        /\ keys'[o][current[o]].algorithm = keys[o][current[o]].algorithm
    BY <1>3, <2>1 DEF Replaced, KeyRow
  <2>3. \A q \in Owner : current[q] <= current'[q]
    BY <1>3, <1>a DEF Replaced
  <2>4. \A q \in Owner, v \in Version :
            keys[q][v].status # "NONE" /\ ~(q = o /\ v = current[o]) => keys'[q][v] = keys[q][v]
    BY <1>3, <1>a DEF Replaced
  <2> QED
    BY <2>2, <2>3, <2>4, <1>3 DEF Monotone, Replaced
<1>4. ASSUME NEW o \in Owner, NEW old \in Version, Withdrawn(o, old)
      PROVE  Monotone
  <2>1. keys[o][old] \in KeyRow
    BY <1>4, <1>a DEF Withdrawn
  <2>2. /\ keys'[o][old].status = "REVOKED"
        /\ keys'[o][old].custody = keys[o][old].custody
        /\ keys'[o][old].algorithm = keys[o][old].algorithm
    BY <1>4, <2>1 DEF Withdrawn, KeyRow
  <2>3. \A q \in Owner : current[q] <= current'[q]
    BY <1>4, <1>a DEF Withdrawn
  <2>4. \A q \in Owner, v \in Version : ~(q = o /\ v = old) => keys'[q][v] = keys[q][v]
    BY <1>4 DEF Withdrawn
  <2> QED
    BY <2>2, <2>3, <2>4 DEF Monotone
<1> QED
  BY <1>1, <1>2, <1>3, <1>4, TableStep

-----------------------------------------------------------------------------
(* The locals of the calls. *)

\* Whatever one call does, what another one has read stays true: versions only grow.
LEMMA OthersStaySound ==
    ASSUME TypeOK, NEW q \in Process, Sound(q), process'[q] = process[q],
           current' \in [Owner -> 0..MaxVersion],
           \A o \in Owner : current[o] <= current'[o]
    PROVE  Sound(q)'
<1> USE BoundsArePositive
<1>1. process[q] \in ProcessState /\ current \in [Owner -> 0..MaxVersion]
  BY DEF TypeOK
<1>2. At(q, "idle") => Sound(q)'
  BY DEF Sound, At, Changing, Signing
<1>3. CASE process[q].pc \in Changing
  BY <1>1, <1>3 DEF Sound, At, Changing, Signing, ProcessState
<1>4. CASE process[q].pc \in Signing
  BY <1>1, <1>4 DEF Sound, At, Changing, Signing, ProcessState
<1>5. CASE process[q].pc \notin Changing \cup Signing
  BY <1>1, <1>5 DEF Sound, At, Changing, Signing
<1> QED
  BY <1>2, <1>3, <1>4, <1>5

LEMMA InProgressStep ==
    ASSUME TypeOK, TypeOK', InProgress, Monotone, [Next]_vars
    PROVE  InProgress'
<1> USE BoundsArePositive
<1>a. /\ current \in [Owner -> 0..MaxVersion] /\ current' \in [Owner -> 0..MaxVersion]
      /\ process \in [Process -> ProcessState]
      /\ \A o \in Owner : current[o] <= current'[o]
  BY DEF TypeOK, Monotone
<1>b. ASSUME NEW q \in Process, process'[q] = process[q]
      PROVE  Sound(q)'
  BY <1>a, <1>b, OthersStaySound DEF InProgress
<1>c. ASSUME NEW p \in Process, NEW next, process' = [process EXCEPT ![p] = next], Sound(p)'
      PROVE  InProgress'
  BY <1>a, <1>b, <1>c DEF InProgress
<1>d. ASSUME NEW p \in Process, Return(p)
      PROVE  InProgress'
  <2>1. process'[p] = Idle /\ process' = [process EXCEPT ![p] = Idle]
    BY <1>a, <1>d DEF Return
  <2>2. Sound(p)'
    BY <2>1 DEF Sound, Idle, At, Changing, Signing
  <2> QED
    BY <2>1, <2>2, <1>c
<1>e. ASSUME NEW p \in Process, NEW next \in ProcessState, process' = [process EXCEPT ![p] = next]
      PROVE  process'[p] = next
  BY <1>a, <1>e
<1>1. CASE UNCHANGED vars
  BY <1>1, <1>b DEF vars, InProgress
<1>2. ASSUME NEW p \in Process, Create(p)
      PROVE  InProgress'
  <2>1. ASSUME NEW o \in Owner, NEW custody, NEW algorithm, StartCreate(p, o, custody, algorithm)
        PROVE  InProgress'
    <3> DEFINE next == [Idle EXCEPT !.pc = "createDid", !.op = "create", !.owner = o,
                                    !.custody = custody, !.algorithm = algorithm]
    <3>1. process' = [process EXCEPT ![p] = next] /\ process'[p] = next
      BY <2>1, <1>a DEF StartCreate
    <3>2. next.pc = "createDid" /\ next.owner = o
      BY DEF Idle
    <3> HIDE DEF next
    <3>3. Sound(p)'
      BY <3>1, <3>2 DEF Sound, At, Changing, Signing
    <3> QED
      BY <3>1, <3>3, <1>c
  <2>2. CASE CreateDid(p)
    BY <2>2, <1>d DEF CreateDid
  <2> QED
    BY <1>2, <2>1, <2>2 DEF Create
<1>3. ASSUME NEW p \in Process, Change(p)
      PROVE  InProgress'
  <2>1. ASSUME NEW op, NEW o \in Owner, NEW pc \in Changing, NEW algorithm,
               StartChange(p, op, o, current[o], pc, algorithm)
        PROVE  InProgress'
    <3> DEFINE next == [Idle EXCEPT !.pc = pc, !.op = op, !.owner = o,
                                    !.version = current[o], !.algorithm = algorithm]
    <3>1. process' = [process EXCEPT ![p] = next] /\ process'[p] = next
      BY <2>1, <1>a DEF StartChange
    <3>2. current'[o] = current[o] /\ current[o] \in 1..MaxVersion /\ current[o] < MaxVersion
      BY <2>1, <1>a DEF StartChange, HasDid
    <3>3. next.pc = pc /\ next.owner = o /\ next.version = current[o]
      BY DEF Idle
    <3> HIDE DEF next
    <3>4. Sound(p)'
      BY <3>1, <3>2, <3>3 DEF Sound, At, Changing, Signing
    <3> QED
      BY <3>1, <3>4, <1>c
  <2>2. ASSUME NEW op, NEW o \in Organization, OrganizationChange(p, op, o)
        PROVE  InProgress'
    BY <2>1, <2>2 DEF OrganizationChange, Changing, Organization
  <2>3. ASSUME NEW op, NEW o \in Holder, HolderChange(p, op, o)
        PROVE  InProgress'
    BY <2>1, <2>3 DEF HolderChange, Changing, Holder
  <2>4. ASSUME CheckCustody(p) \/ ReadAlgorithm(p), ~Return(p)
        PROVE  InProgress'
    <3> DEFINE next == process'[p]
    <3>1. /\ next.pc = "commitChange" /\ next.owner = process[p].owner
          /\ next.version = process[p].version
          /\ process' = [process EXCEPT ![p] = next]
      BY <2>4, <1>a DEF CheckCustody, ReadAlgorithm, Goto, Return, ProcessState
    <3>2. process[p].pc \in Changing /\ UNCHANGED current /\ ~At(p, "idle")
      BY <2>4 DEF CheckCustody, ReadAlgorithm, Changing, At
    <3>3. Sound(p)'
      BY <3>1, <3>2 DEF InProgress, Sound, At, Changing, Signing
    <3> QED
      BY <3>1, <3>3, <1>c
  <2>5. CASE CommitChange(p)
    BY <2>5, <1>d DEF CommitChange
  <2> QED
    BY <1>3, <2>2, <2>3, <2>4, <2>5, <1>d DEF Change
<1>4. ASSUME NEW p \in Process, Revoke(p)
      PROVE  InProgress'
  <2>1. ASSUME NEW o \in Owner, NEW v \in Version, StartRevocation(p, o, v)
        PROVE  InProgress'
    <3> DEFINE next == [Idle EXCEPT !.pc = "readHistorical", !.op = "revoke",
                                    !.owner = o, !.version = current[o], !.named = v]
    <3>1. process' = [process EXCEPT ![p] = next] /\ process'[p] = next
      BY <2>1, <1>a DEF StartRevocation
    <3>2. next.pc = "readHistorical" /\ next.owner = o /\ next.named = v
      BY DEF Idle
    <3> HIDE DEF next
    <3>3. Sound(p)'
      BY <3>1, <3>2 DEF Sound, At, Changing, Signing
    <3> QED
      BY <3>1, <3>3, <1>c
  <2>2. ASSUME ReadHistorical(p), ~Return(p)
        PROVE  InProgress'
    <3> DEFINE next == process'[p]
    <3>1. /\ next.pc = "commitRevocation" /\ next.owner = process[p].owner
          /\ next.named = process[p].named
          /\ process' = [process EXCEPT ![p] = next]
      BY <2>2, <1>a DEF ReadHistorical, Goto, ProcessState
    <3>2. At(p, "readHistorical")
      BY <2>2 DEF ReadHistorical
    <3>3. Sound(p)'
      BY <3>1, <3>2 DEF InProgress, Sound, At, Changing, Signing
    <3> QED
      BY <3>1, <3>3, <1>c
  <2>3. CASE CommitRevocation(p)
    BY <2>3, <1>d DEF CommitRevocation
  <2> QED
    BY <1>4, <2>1, <2>2, <2>3, <1>d DEF Revoke
<1>5. ASSUME NEW p \in Process, Prove(p)
      PROVE  InProgress'
  <2>1. ASSUME NEW o \in Owner, StartProof(p, o)
        PROVE  InProgress'
    <3> DEFINE next == [Idle EXCEPT !.pc = "readMethod", !.op = "sign", !.owner = o,
                                    !.attempt = 1, !.began = current[o]]
    <3>1. process' = [process EXCEPT ![p] = next] /\ process'[p] = next
      BY <2>1, <1>a DEF StartProof
    <3>2. /\ next.pc = "readMethod" /\ next.owner = o
          /\ next.attempt = 1 /\ next.began = current[o]
      BY DEF Idle
    <3>3. current'[o] = current[o] /\ current[o] \in 1..MaxVersion
      BY <2>1, <1>a DEF StartProof, HasDid
    <3> HIDE DEF next
    <3>4. Sound(p)'
      BY <3>1, <3>2, <3>3 DEF Sound, At, Changing, Signing
    <3> QED
      BY <3>1, <3>4, <1>c
  <2>2. CASE ReadMethod(p)
    <3> DEFINE o == process[p].owner
               next == [process[p] EXCEPT !.pc = "readSigner", !.named = current[o]]
    <3>1. process' = [process EXCEPT ![p] = next] /\ process'[p] = next
      BY <2>2, <1>a DEF ReadMethod, OwnerOf
    <3>2. /\ next.pc = "readSigner" /\ next.owner = o /\ next.named = current[o]
          /\ next.attempt = process[p].attempt /\ next.began = process[p].began
      BY <1>a DEF ProcessState
    <3>3. /\ o \in Owner /\ current[o] \in 1..MaxVersion /\ current' = current
          /\ process[p].began + process[p].attempt <= current[o] + 1
      BY <2>2, <1>a DEF ReadMethod, InProgress, Sound, At, Signing
    <3> HIDE DEF next, o
    <3>4. Sound(p)'
      BY <3>1, <3>2, <3>3 DEF Sound, At, Changing, Signing
    <3> QED
      BY <3>1, <3>4, <1>c
  <2>3. CASE ReadSigner(p)
    <3> DEFINE o == process[p].owner
               next == [process[p] EXCEPT !.pc = "sign", !.version = current[o]]
    <3>1. process' = [process EXCEPT ![p] = next] /\ process'[p] = next
      BY <2>3, <1>a DEF ReadSigner, OwnerOf
    <3>2. /\ next.pc = "sign" /\ next.owner = o /\ next.version = current[o]
          /\ next.named = process[p].named
          /\ next.attempt = process[p].attempt /\ next.began = process[p].began
      BY <1>a DEF ProcessState
    <3>3. /\ o \in Owner /\ current[o] \in 1..MaxVersion /\ current' = current
          /\ process[p].named \in 1..current[o]
          /\ process[p].began + process[p].attempt <= process[p].named + 1
      BY <2>3, <1>a DEF ReadSigner, InProgress, Sound, At, Signing
    <3> HIDE DEF next, o
    <3>4. Sound(p)'
      BY <3>1, <3>2, <3>3 DEF Sound, At, Changing, Signing
    <3> QED
      BY <3>1, <3>4, <1>c
  <2>4. CASE Sign(p) \/ SignRefused(p)
    BY <2>4, <1>d DEF Sign, SignRefused
  <2>5. ASSUME Retry(p), ~Return(p)
        PROVE  InProgress'
    <3> DEFINE o == process[p].owner
               next == [process[p] EXCEPT !.pc = "readMethod", !.attempt = process[p].attempt + 1]
    <3>1. process' = [process EXCEPT ![p] = next] /\ process'[p] = next
      BY <2>5, <1>a DEF Retry
    <3>2. /\ next.pc = "readMethod" /\ next.owner = o
          /\ next.attempt = process[p].attempt + 1 /\ next.began = process[p].began
      BY <1>a DEF ProcessState
    <3>3. /\ o \in Owner /\ current[o] \in 1..MaxVersion /\ current' = current
          /\ process[p].named \in 1..current[o] /\ process[p].version \in process[p].named..current[o]
          /\ process[p].version # process[p].named
          /\ process[p].began + process[p].attempt <= process[p].named + 1
      BY <2>5, <1>a DEF Retry, InProgress, Sound, At, Signing
    <3>4. process[p].began + (process[p].attempt + 1) <= current[o] + 1
      BY <3>3, <1>a, TypesOfProcess
    <3> HIDE DEF next, o
    <3>5. Sound(p)'
      BY <3>1, <3>2, <3>3, <3>4 DEF Sound, At, Changing, Signing
    <3> QED
      BY <3>1, <3>5, <1>c
  <2> QED
    BY <1>5, <2>1, <2>2, <2>3, <2>4, <2>5, <1>d DEF Prove
<1>6. ASSUME NEW p \in Process, Crash(p)
      PROVE  InProgress'
  BY <1>6, <1>d DEF Crash
<1> QED
  BY <1>1, <1>2, <1>3, <1>4, <1>5, <1>6 DEF Next, Call

-----------------------------------------------------------------------------
(* The proofs returned, and the theorems. *)

LEMMA ProofsStep ==
    ASSUME TypeOK, InProgress, ProofNamesItsKey, Monotone, [Next]_vars
    PROVE  ProofNamesItsKey'
<1>a. /\ keys \in [Owner -> [Version -> KeyRow \cup {NoKey}]]
      /\ proofs \subseteq Proof
      /\ NoKey.status = "NONE" /\ NoKey.custody = "none"
  BY DEF TypeOK, NoKey
<1>1. ASSUME NEW proof \in proofs
      PROVE  /\ proof.named = proof.signer
             /\ keys'[proof.owner][proof.signer].custody = "server"
             /\ keys'[proof.owner][proof.signer].algorithm = "Ed25519"
  <2>1. proof.owner \in Owner /\ proof.signer \in Version
    BY <1>a DEF Proof
  <2>2. keys[proof.owner][proof.signer].status # "NONE"
    BY <2>1, <1>a DEF ProofNamesItsKey, KeyRow
  <2> QED
    BY <2>1, <2>2 DEF ProofNamesItsKey, Monotone
<1>2. CASE UNCHANGED proofs
  BY <1>1, <1>2 DEF ProofNamesItsKey
<1>3. ASSUME NEW p \in Process, Sign(p)
      PROVE  ProofNamesItsKey'
  <2> DEFINE new == SignatureProof(p)
  <2>1. /\ new.named = new.signer
        /\ keys'[new.owner][new.signer].custody = "server"
        /\ keys'[new.owner][new.signer].algorithm = "Ed25519"
    BY <1>3 DEF Sign, SignatureProof, CanSign, KeyRead, OwnerOf
  <2>2. proofs' = proofs \cup {new}
    BY <1>3 DEF Sign
  <2> HIDE DEF new
  <2> QED
    BY <2>1, <2>2, <1>1 DEF ProofNamesItsKey
<1>4. ASSUME NEW p \in Process, Create(p) \/ Change(p) \/ Revoke(p) \/ Prove(p) \/ Crash(p)
      PROVE  UNCHANGED proofs \/ Sign(p)
  BY <1>4
  DEF Create, Change, Revoke, Prove, Crash, StartCreate, CreateDid, OrganizationChange,
      HolderChange, StartChange, CheckCustody, ReadAlgorithm, CommitChange, StartRevocation,
      ReadHistorical, CommitRevocation, StartProof, ReadMethod, ReadSigner, SignRefused, Retry
<1> QED
  BY <1>2, <1>3, <1>4 DEF Next, Call, vars

-----------------------------------------------------------------------------
\* ClientCustodyKept is inductive together with what the calls on their way to a new key have
\* established: a client's key is only ever created for a holder, and no call that is about to
\* replace a key works on a DID that began with a client's key.
CustodyInv ==
    /\ ClientCustodyKept
    /\ \A o \in Organization : keys[o][1].custody # "client"
    /\ \A p \in Process : At(p, "createDid") /\ process[p].custody = "client" =>
                            process[p].owner \in Holder
    /\ \A p \in Process : process[p].pc \in {"algorithm", "commitChange"} =>
                            keys[process[p].owner][1].custody # "client"

LEMMA InitCustody == Init => CustodyInv
<1> SUFFICES ASSUME Init PROVE CustodyInv
  OBVIOUS
<1>1. 1 \in Version
  BY BoundsArePositive DEF Version
<1>2. \A o \in Owner, v \in Version : keys[o][v].custody = "none"
  BY DEF Init, NoKey
<1> QED
  BY <1>1, <1>2 DEF Init, CustodyInv, ClientCustodyKept, Organization, Idle, At

\* A step that leaves the rows alone, and the call it belongs to.
LEMMA CustodyLocal ==
    ASSUME CustodyInv, NEW p \in Process, ownerType' = ownerType, keys' = keys,
           \A q \in Process : q # p => process'[q] = process[q],
           process'[p].pc = "createDid" /\ process'[p].custody = "client" =>
                process'[p].owner \in Holder,
           process'[p].pc \in {"algorithm", "commitChange"} =>
                keys[process'[p].owner][1].custody # "client"
    PROVE  CustodyInv'
<1>1. Organization' = Organization /\ Holder' = Holder
  BY DEF Organization, Holder
<1>2. ASSUME NEW q \in Process
      PROVE  /\ process'[q].pc = "createDid" /\ process'[q].custody = "client" =>
                    process'[q].owner \in Holder
             /\ process'[q].pc \in {"algorithm", "commitChange"} =>
                    keys[process'[q].owner][1].custody # "client"
  <2>1. CASE q = p
    BY <2>1
  <2>2. CASE q # p
    BY <2>2 DEF CustodyInv, At
  <2> QED
    BY <2>1, <2>2
<1> QED
  BY <1>1, <1>2 DEF CustodyInv, ClientCustodyKept, At

\* A step that changes rows ends its call.
LEMMA CustodyRows ==
    ASSUME CustodyInv, NEW p \in Process, ownerType' = ownerType,
           process'[p].pc = "idle",
           \A q \in Process : q # p => process'[q] = process[q],
           ClientCustodyKept',
           \A o \in Owner : keys'[o][1].custody = "client" /\ keys[o][1].custody # "client" =>
                /\ o \in Holder
                /\ \A q \in Process : process[q].pc \in {"algorithm", "commitChange"} =>
                                        process[q].owner # o,
           \A q \in Process : process[q].pc \in {"algorithm", "commitChange"} =>
                                process[q].owner \in Owner
    PROVE  CustodyInv'
<1>1. Organization' = Organization /\ Holder' = Holder
  BY DEF Organization, Holder
<1>2. \A o \in Organization : o \in Owner /\ o \notin Holder
  BY DEF Organization, Holder
<1>3. \A o \in Organization' : keys'[o][1].custody # "client"
  BY <1>1, <1>2 DEF CustodyInv
<1>4. ASSUME NEW q \in Process
      PROVE  /\ process'[q].pc = "createDid" /\ process'[q].custody = "client" =>
                    process'[q].owner \in Holder'
             /\ process'[q].pc \in {"algorithm", "commitChange"} =>
                    keys'[process'[q].owner][1].custody # "client"
  <2>1. CASE q = p
    BY <2>1
  <2>2. CASE q # p
    BY <2>2, <1>1 DEF CustodyInv, At
  <2> QED
    BY <2>1, <2>2
<1> QED
  BY <1>3, <1>4 DEF CustodyInv, At

LEMMA CustodyStep ==
    ASSUME TypeOK, OneActiveKey, InProgress, Monotone, CustodyInv, [Next]_vars
    PROVE  CustodyInv'
<1> USE BoundsArePositive, OwnersAreOwners
<1>a. /\ current \in [Owner -> 0..MaxVersion]
      /\ keys \in [Owner -> [Version -> KeyRow \cup {NoKey}]]
      /\ process \in [Process -> ProcessState]
      /\ NoKey.status = "NONE" /\ NoKey.custody = "none"
      /\ 1 \in Version
  BY DEF TypeOK, NoKey, Version
<1>b. ownerType' = ownerType
  BY DEF Next, vars
<1>c. \A o \in Owner : o \in Organization => o \notin Holder
  BY DEF Organization, Holder
<1>d. \A q \in Process : process[q].pc \in {"algorithm", "commitChange"} =>
            process[q].owner \in Owner /\ current[process[q].owner] # 0
  BY <1>a DEF InProgress, Sound, At, Changing
<1>e. \A o \in Owner, v \in Version : keys[o][v].custody = "none" <=> keys[o][v].status = "NONE"
  BY <1>a DEF KeyRow
<1>1. CASE UNCHANGED vars
  BY <1>1, <1>b DEF vars, CustodyInv, ClientCustodyKept, Organization, Holder, At
<1>2. ASSUME NEW p \in Process, Create(p)
      PROVE  CustodyInv'
  <2>1. ASSUME NEW o \in Owner, NEW custody \in {"server", "client"},
               NEW algorithm \in Algorithm, StartCreate(p, o, custody, algorithm)
        PROVE  CustodyInv'
    <3>1. /\ process'[p].pc = "createDid"
          /\ process'[p].custody = custody
          /\ process'[p].owner = o
          /\ keys' = keys
          /\ \A q \in Process : q # p => process'[q] = process[q]
      BY <2>1, <1>a DEF StartCreate, Idle
    <3> QED
      BY <3>1, <2>1, <1>b, CustodyLocal DEF StartCreate
  <2>2. CASE CreateDid(p)
    <3> DEFINE o == process[p].owner
               key == ActiveKey(process[p].custody, process[p].algorithm)
    <3>1. o \in Owner
      BY <2>2 DEF CreateDid, InProgress, Sound, At
    <3>2. /\ process'[p].pc = "idle"
          /\ \A q \in Process : q # p => process'[q] = process[q]
      BY <2>2, <1>a DEF CreateDid, Return, Idle
    <3>3. CASE HasDid(o)
      <4>1. keys' = keys
        BY <3>3, <2>2 DEF CreateDid, OwnerOf
      <4> QED
        BY <4>1, <3>2, <1>b, CustodyLocal
    <3>4. CASE ~HasDid(o)
      <4>1. current[o] = 0 /\ keys' = [keys EXCEPT ![o] = [keys[o] EXCEPT ![1] = key]]
        BY <3>4, <3>1, <2>2, <1>a DEF CreateDid, OwnerOf, HasDid
      <4>2. \A v \in Version : keys[o][v].custody = "none"
        BY <4>1, <3>1, <1>e DEF OneActiveKey, Version
      <4>3. key.custody = process[p].custody
        BY DEF ActiveKey
      <4>4. /\ keys'[o][1] = key
            /\ \A v \in Version : v # 1 => keys'[o][v] = keys[o][v]
            /\ \A q \in Owner : q # o => keys'[q] = keys[q]
        BY <4>1, <3>1, <1>a
      <4>5. key.custody = "client" => o \in Holder
        BY <4>3, <2>2 DEF CreateDid, CustodyInv
      <4> HIDE DEF o, key
      <4>6. ClientCustodyKept'
        BY <4>2, <4>4 DEF ClientCustodyKept, CustodyInv
      <4>7. \A q \in Process : process[q].pc \in {"algorithm", "commitChange"} =>
                                process[q].owner # o
        BY <4>1, <1>d
      <4>8. \A q \in Owner : keys'[q][1].custody = "client" /\ keys[q][1].custody # "client" => q = o
        BY <4>4
      <4> QED
        BY <4>4, <4>5, <4>6, <4>7, <4>8, <3>2, <1>b, <1>d, CustodyRows
    <3> QED
      BY <3>3, <3>4
  <2> QED
    BY <1>2, <2>1, <2>2 DEF Create
<1>3. ASSUME NEW p \in Process, Change(p)
      PROVE  CustodyInv'
  <2>1. ASSUME NEW op \in {"rotate", "recover"}, NEW o \in Owner, NEW pc \in Changing,
               NEW algorithm \in Algorithm,
               StartChange(p, op, o, current[o], pc, algorithm),
               pc # "custody" => o \in Organization
        PROVE  CustodyInv'
    <3>1. /\ process'[p].pc = pc
          /\ process'[p].owner = o
          /\ keys' = keys
          /\ \A q \in Process : q # p => process'[q] = process[q]
      BY <2>1, <1>a DEF StartChange, Idle
    <3> QED
      BY <3>1, <2>1, <1>b, CustodyLocal DEF Changing, CustodyInv
  <2>2. ASSUME NEW op \in {"rotate", "recover"}, NEW o \in Organization, OrganizationChange(p, op, o)
        PROVE  CustodyInv'
    BY <2>1, <2>2 DEF OrganizationChange, Changing, Algorithm, Organization
  <2>3. ASSUME NEW op \in {"rotate", "recover"}, NEW o \in Holder, HolderChange(p, op, o)
        PROVE  CustodyInv'
    BY <2>1, <2>3 DEF HolderChange, Changing, Algorithm, Holder
  <2>4. CASE CheckCustody(p) \/ ReadAlgorithm(p)
    <3> DEFINE o == process[p].owner
               seen == process[p].version
    <3>1. /\ keys' = keys
          /\ \A q \in Process : q # p => process'[q] = process[q]
      BY <2>4, <1>a DEF CheckCustody, ReadAlgorithm, Goto, Return
    <3>2. o \in Owner /\ seen \in Version
      BY <2>4, <1>a, TypesOfProcess
      DEF CheckCustody, ReadAlgorithm, InProgress, Sound, At, Changing, Version
    <3>3. process'[p].pc \in {"idle", "commitChange"}
      BY <2>4, <1>a DEF CheckCustody, ReadAlgorithm, Goto, Return, Idle, ProcessState
    <3>4. process'[p].pc = "commitChange" => process'[p].owner = o /\ keys[o][1].custody # "client"
      <4>1. CASE CheckCustody(p)
        <5>1. process'[p].pc = "commitChange" =>
                    process'[p].owner = o /\ keys[o][seen].custody = "server"
          BY <4>1, <1>a DEF CheckCustody, Goto, Return, Idle, KeyRead, OwnerOf, ProcessState
        <5> QED
          BY <5>1, <3>2 DEF CustodyInv, ClientCustodyKept
      <4>2. CASE ReadAlgorithm(p)
        <5>1. process'[p].pc = "commitChange" => process'[p].owner = o
          BY <4>2, <1>a DEF ReadAlgorithm, Return, Idle, ProcessState
        <5> QED
          BY <5>1, <4>2 DEF ReadAlgorithm, At, CustodyInv
      <4> QED
        BY <2>4, <4>1, <4>2
    <3> QED
      BY <3>1, <3>3, <3>4, <1>b, CustodyLocal
  <2>5. CASE CommitChange(p)
    <3> DEFINE o == process[p].owner
               next == process[p].version + 1
    <3>1. /\ process'[p].pc = "idle"
          /\ \A q \in Process : q # p => process'[q] = process[q]
      BY <2>5, <1>a DEF CommitChange, Return, Idle
    <3>2. /\ o \in Owner /\ keys[o][1].custody # "client"
          /\ process[p].version \in Version /\ next \in Version /\ next # 1
          /\ next # process[p].version
      BY <2>5, <1>a, TypesOfProcess
      DEF CommitChange, CustodyInv, InProgress, Sound, At, Changing, Version
    <3>3. \A q \in Owner, v \in Version : ~(q = o /\ v = next) => keys'[q][v].custody = keys[q][v].custody
      <4>1. CASE keys' = keys
        BY <4>1
      <4>2. CASE keys' # keys
        <5>1. keys' = [keys EXCEPT ![o][process[p].version].status = StatusAfter(process[p].op),
                                   ![o][next] = ActiveKey("server", process[p].algorithm)]
          BY <4>2, <2>5 DEF CommitChange, OwnerOf
        <5>2. keys[o][process[p].version] \in KeyRow
          BY <4>2, <3>2, <2>5, <1>a DEF CommitChange, OwnerOf
        <5> QED
          BY <5>1, <5>2, <3>2, <1>a DEF KeyRow
      <4> QED
        BY <4>1, <4>2
    <3> HIDE DEF o, next
    <3>4. ClientCustodyKept'
      BY <3>2, <3>3, <1>a DEF ClientCustodyKept, CustodyInv
    <3>5. \A q \in Owner : keys'[q][1].custody = keys[q][1].custody
      BY <3>2, <3>3, <1>a
    <3> QED
      BY <3>1, <3>4, <3>5, <1>b, <1>d, CustodyRows
  <2> QED
    BY <1>3, <2>2, <2>3, <2>4, <2>5 DEF Change
<1>4. ASSUME NEW p \in Process, Revoke(p)
      PROVE  CustodyInv'
  <2>1. \A q \in Process : q # p => process'[q] = process[q]
    BY <1>4, <1>a DEF Revoke, StartRevocation, ReadHistorical, CommitRevocation, Goto, Return
  <2>2. process'[p].pc \in {"idle", "readHistorical", "commitRevocation"}
    <3>1. ASSUME NEW o, NEW v, StartRevocation(p, o, v)
          PROVE  process'[p].pc = "readHistorical"
      BY <3>1, <1>a DEF StartRevocation, Idle
    <3>2. CASE ReadHistorical(p)
      BY <3>2, <1>a DEF ReadHistorical, Goto, Return, Idle, ProcessState
    <3>3. CASE CommitRevocation(p)
      BY <3>3, <1>a DEF CommitRevocation, Return, Idle
    <3> QED
      BY <1>4, <3>1, <3>2, <3>3 DEF Revoke
  <2>3. CASE keys' = keys
    BY <2>1, <2>2, <2>3, <1>b, CustodyLocal
  <2>4. CASE keys' # keys
    <3> DEFINE o == process[p].owner
               v == process[p].named
    <3>1. CommitRevocation(p)
      BY <1>4, <2>4 DEF Revoke, StartRevocation, ReadHistorical
    <3>2. o \in Owner /\ v \in Version
      BY <3>1 DEF CommitRevocation, InProgress, Sound, At
    <3>3. /\ keys' = [keys EXCEPT ![o][v].status = "REVOKED"]
          /\ keys[o][v].status = "RETIRED"
          /\ process'[p].pc = "idle"
      BY <3>1, <2>4, <1>a DEF CommitRevocation, OwnerOf, Return, Idle
    <3>4. keys[o][v] \in KeyRow
      BY <3>2, <3>3, <1>a
    <3>5. \A q \in Owner, w \in Version : keys'[q][w].custody = keys[q][w].custody
      BY <3>2, <3>3, <3>4, <1>a DEF KeyRow
    <3>6. ClientCustodyKept'
      BY <3>5, <1>a DEF ClientCustodyKept, CustodyInv
    <3> QED
      BY <3>3, <3>5, <3>6, <2>1, <1>a, <1>b, <1>d, CustodyRows
  <2> QED
    BY <2>3, <2>4
<1>5. ASSUME NEW p \in Process, Prove(p) \/ Crash(p)
      PROVE  CustodyInv'
  <2>1. /\ keys' = keys
        /\ \A q \in Process : q # p => process'[q] = process[q]
    BY <1>5, <1>a
    DEF Prove, Crash, StartProof, ReadMethod, ReadSigner, Sign, SignRefused, Retry, Return
  <2>2. process'[p].pc \in {"idle", "readMethod", "readSigner", "sign"}
    <3>1. ASSUME NEW o, StartProof(p, o)
          PROVE  process'[p].pc = "readMethod"
      BY <3>1, <1>a DEF StartProof, Idle
    <3>2. CASE ReadMethod(p) \/ ReadSigner(p)
      BY <3>2, <1>a DEF ReadMethod, ReadSigner, ProcessState
    <3>3. CASE Sign(p) \/ SignRefused(p) \/ Crash(p)
      BY <3>3, <1>a DEF Sign, SignRefused, Crash, Return, Idle
    <3>4. CASE Retry(p)
      BY <3>4, <1>a DEF Retry, Return, Idle, ProcessState
    <3> QED
      BY <1>5, <3>1, <3>2, <3>3, <3>4 DEF Prove
  <2> QED
    BY <2>1, <2>2, <1>b, CustodyLocal
<1> QED
  BY <1>1, <1>2, <1>3, <1>4, <1>5 DEF Next, Call

LEMMA Invariance == Spec => []IInv
<1>1. Init => IInv
  BY InitIInv
<1>2. IInv /\ [Next]_vars => IInv'
  BY TypeStep, OneActiveKeyStep, MonotoneStep, InProgressStep, ProofsStep DEF IInv
<1> QED
  BY <1>1, <1>2, PTL DEF Spec

\* The rows of Did and DidKey, and the locals of every call, keep their types.
THEOREM TypeCorrect == Spec => []TypeOK
BY Invariance, PTL DEF IInv

\* Rotations, recoveries and revocations in any interleaving leave exactly one active key,
\* the one currentKeyVersion points to (rotateKey, recoverCurrentKey, revokeHistoricalKey).
THEOREM KeyIsUnique == Spec => []OneActiveKey
BY Invariance, PTL DEF IInv

\* No step brings a key back or changes its material (the same handlers, and createDid).
THEOREM KeysStay == Spec => KeysAreAppendOnly
<1>1. IInv /\ [Next]_vars =>
        [\A o \in Owner, v \in Version :
            LET before == keys[o][v]
                after == keys'[o][v] IN
            before.status # "NONE" =>
                /\ after.custody = before.custody
                /\ after.algorithm = before.algorithm
                /\ after.status # "NONE"
                /\ before.status # "ACTIVE" => after.status # "ACTIVE"
                /\ before.status = "REVOKED" => after.status = "REVOKED"]_vars
  BY MonotoneStep DEF IInv, Monotone
<1> QED
  BY <1>1, Invariance, PTL DEF Spec, KeysAreAppendOnly

\* A proof that is returned names the key that signed it (addIssuerProof and
\* createHolderDataIntegrityProof around signForOrganization and signForUser).
THEOREM ProofsNameTheirKey == Spec => []ProofNamesItsKey
BY Invariance, PTL DEF IInv

\* A signing loop that gives up after MaxAttempts saw the key change as often.
THEOREM RetriesAreCaused == Spec => []RetriesNeedChanges
<1>1. IInv => RetriesNeedChanges
  <2> SUFFICES ASSUME IInv, NEW p \in Process, process[p].pc \in Signing
               PROVE  current[OwnerOf(p)] + 1 >= process[p].began + process[p].attempt
    BY DEF RetriesNeedChanges, Signing
  <2>1. OwnerOf(p) \in Owner /\ Sound(p)
    BY DEF IInv, InProgress, Sound, OwnerOf, At, Signing
  <2>2. current[OwnerOf(p)] \in Nat
    BY <2>1 DEF IInv, TypeOK
  <2> QED
    BY <2>1, <2>2, TypesOfProcess, BoundsArePositive DEF IInv, Sound, At, OwnerOf, Signing
<1> QED
  BY <1>1, Invariance, PTL

\* The server never holds a signing key of a DID whose holder enrolled a key of its own
\* (requireServerManagedHolderKey before rotation and recovery, completeEnrollment).
THEOREM ClientKeysStay == Spec => []ClientCustodyKept
<1>1. Init => CustodyInv
  BY InitCustody
<1>2. IInv /\ CustodyInv /\ [Next]_vars => CustodyInv'
  BY CustodyStep, MonotoneStep DEF IInv
<1>3. CustodyInv => ClientCustodyKept
  BY DEF CustodyInv
<1> QED
  BY <1>1, <1>2, <1>3, Invariance, PTL DEF Spec

-----------------------------------------------------------------------------
(* The histories of KeyHistory.tla. *)

\* The rows up to a version, as a sequence.
LEMMA RowsInOrder ==
    ASSUME NEW rows \in [Version -> KeyRow \cup {NoKey}], NEW n \in 0..MaxVersion
    PROVE  /\ SubSeq(rows, 1, n) \in Seq(KeyRow \cup {NoKey})
           /\ Len(SubSeq(rows, 1, n)) = n
           /\ \A v \in 1..n : SubSeq(rows, 1, n)[v] = rows[v]
<1>1. \A v \in 1..n : rows[v] \in KeyRow \cup {NoKey}
  BY BoundsArePositive DEF Version
<1>2. n \in Int /\ 1 \in Int /\ n \in Nat
  BY BoundsArePositive
<1> DEFINE taken == SubSeq(rows, 1, n)
           Row == KeyRow \cup {NoKey}
<1> HIDE DEF Row
<1>3. \A v \in 1..n : rows[v] \in Row
  BY <1>1 DEF Row
<1>4. /\ taken \in Seq(Row)
      /\ Len(taken) = IF 1 <= n THEN n - 1 + 1 ELSE 0
      /\ \A v \in 1..(n - 1 + 1) : taken[v] = rows[1 + v - 1]
  BY <1>2, <1>3, SubSeqProperties
<1>5. Len(taken) = n /\ \A v \in 1..n : taken[v] = rows[v]
  BY <1>2, <1>4
<1> QED
  BY <1>4, <1>5 DEF Row

LEMMA HistoriesBegin == Init => Histories!Init
<1> SUFFICES ASSUME Init PROVE Histories!Init
  OBVIOUS
<1>1. ASSUME NEW o \in Owner
      PROVE  SubSeq(keys[o], 1, current[o]) = <<>>
  BY SubSeqEmpty DEF Init
<1> QED
  BY <1>1 DEF Init, Histories!Init

\* One history changes.
LEMMA OneHistory ==
    ASSUME NEW o \in Owner, NEW changed, SubSeq(keys'[o], 1, current'[o]) = changed,
           \A q \in Owner \ {o} : keys'[q] = keys[q] /\ current'[q] = current[q]
    PROVE  [q \in Owner |-> SubSeq(keys[q], 1, current[q])]'
           = [[q \in Owner |-> SubSeq(keys[q], 1, current[q])] EXCEPT ![o] = changed]
<1> DEFINE before == [q \in Owner |-> SubSeq(keys[q], 1, current[q])]
           after == [q \in Owner |-> SubSeq(keys'[q], 1, current'[q])]
<1>1. \A q \in Owner : after[q] = IF q = o THEN changed ELSE before[q]
  <2> SUFFICES ASSUME NEW q \in Owner, q # o PROVE after[q] = before[q]
    OBVIOUS
  <2> QED
    OBVIOUS
<1> QED
  BY <1>1

\* A creation puts the first key into an empty history.
LEMMA CreatedBegins ==
    ASSUME TypeOK, TypeOK', NEW o \in Owner, NEW key \in KeyRow, key.status = "ACTIVE",
           Created(o, key), UNCHANGED proofs
    PROVE  Histories!Begin(o, key) /\ key \in Histories!NewKey
<1> DEFINE before == SubSeq(keys[o], 1, current[o])
           after == SubSeq(keys'[o], 1, current'[o])
           Row == KeyRow \cup {NoKey}
<1>a. /\ keys \in [Owner -> [Version -> Row]] /\ keys' \in [Owner -> [Version -> Row]]
      /\ current \in [Owner -> 0..MaxVersion] /\ current' \in [Owner -> 0..MaxVersion]
  BY DEF TypeOK
<1>b. 1 \in Version
  BY BoundsArePositive DEF Version
<1>1. before = <<>>
  BY <1>a, SubSeqEmpty DEF Created
<1>2. after = <<key>>
  <2>1. after \in Seq(Row) /\ Len(after) = 1 /\ after[1] = keys'[o][1]
    BY <1>a, RowsInOrder DEF Created
  <2>2. keys'[o][1] = key
    BY <1>b DEF Created
  <2> HIDE DEF after
  <2> QED
    BY <2>1, <2>2
<1>3. \A q \in Owner \ {o} : keys'[q] = keys[q] /\ current'[q] = current[q]
  BY <1>a DEF Created
<1>4. key \in Histories!NewKey
  BY DEF Histories!NewKey, Histories!Key, KeyRow, Algorithm
<1> QED
  BY <1>1, <1>2, <1>3, <1>4, OneHistory DEF Histories!Begin

\* A change of the current key ends its time in force and puts the next one at the end.
LEMMA ReplacedExtends ==
    ASSUME TypeOK, TypeOK', OneActiveKey, ClientCustodyKept', NEW o \in Owner, NEW key \in KeyRow,
           NEW status \in {"RETIRED", "REVOKED"}, key.status = "ACTIVE",
           Replaced(o, status, key), UNCHANGED proofs
    PROVE  Histories!Replace(o, status, key) /\ key \in Histories!NewKey
<1> DEFINE before == SubSeq(keys[o], 1, current[o])
           after == SubSeq(keys'[o], 1, current'[o])
           last == current[o]
           ended == [before EXCEPT ![last].status = status]
           Row == KeyRow \cup {NoKey}
<1>a. /\ keys \in [Owner -> [Version -> Row]] /\ keys' \in [Owner -> [Version -> Row]]
      /\ current \in [Owner -> 0..MaxVersion] /\ current' \in [Owner -> 0..MaxVersion]
  BY DEF TypeOK
<1>b. /\ last \in Version /\ last + 1 \in Version /\ current'[o] = last + 1
      /\ last \in Nat \ {0}
      /\ keys[o][last].status = "ACTIVE" /\ key.custody = "server"
  BY BoundsArePositive DEF Replaced, Version
<1>d. /\ last + 1 # last /\ \A v \in 1..(last + 1) : v \in Version
      /\ \A v \in 1..(last + 1) : v = last + 1 \/ v \in 1..last
      /\ \A v \in 1..last : v # last + 1
      /\ 1 \in Version /\ 1 \in 1..last /\ last \in 1..last
  BY <1>b, BoundsArePositive DEF Version
<1>c. \A v \in Version : keys'[o][v] = IF v = last THEN [keys[o][v] EXCEPT !.status = status]
                                       ELSE IF v = last + 1 THEN key ELSE keys[o][v]
  BY DEF Replaced
<1>1. before \in Seq(Row) /\ Len(before) = last /\ \A v \in 1..last : before[v] = keys[o][v]
  BY <1>a, RowsInOrder
<1>2. after \in Seq(Row) /\ Len(after) = last + 1 /\ \A v \in 1..(last + 1) : after[v] = keys'[o][v]
  BY <1>a, <1>b, RowsInOrder
<1>3. /\ keys[o][last] \in KeyRow
      /\ [keys[o][last] EXCEPT !.status = status] \in KeyRow
      /\ [keys[o][last] EXCEPT !.status = status] = [before[last] EXCEPT !.status = status]
  <2>1. keys[o][last] \in KeyRow
    BY <1>a, <1>b DEF NoKey
  <2>2. before[last] = keys[o][last]
    BY <1>1, <1>b
  <2> QED
    BY <2>1, <2>2 DEF KeyRow
<1> HIDE DEF before, after
<1>4. /\ ended \in Seq(Row) /\ Len(ended) = last
      /\ \A v \in 1..last : ended[v] = IF v = last THEN [before[last] EXCEPT !.status = status]
                                       ELSE before[v]
  <2> DEFINE row == [before[last] EXCEPT !.status = status]
  <2>1. row \in Row /\ last \in 1..Len(before)
    BY <1>1, <1>3, <1>b
  <2>2. ended = [before EXCEPT ![last] = row]
    OBVIOUS
  <2> HIDE DEF row, ended, Row
  <2>3. ended \in Seq(Row) /\ Len(ended) = Len(before)
        /\ \A v \in 1..Len(before) : ended[v] = IF v = last THEN row ELSE before[v]
    BY <1>1, <2>1, <2>2, ExceptSeq
  <2> QED
    BY <1>1, <2>3 DEF row
<1> HIDE DEF ended
<1>5. /\ Append(ended, key) \in Seq(Row) /\ Len(Append(ended, key)) = last + 1
      /\ \A v \in 1..last : Append(ended, key)[v] = ended[v]
      /\ Append(ended, key)[last + 1] = key
  <2> HIDE DEF Row
  <2>1. key \in Row
    BY DEF Row
  <2> QED
    BY <1>4, <2>1, AppendProperties
<1>6. after = Append(ended, key)
  <2>1. \A v \in 1..(last + 1) : after[v] = Append(ended, key)[v]
    <3> SUFFICES ASSUME NEW v \in 1..(last + 1) PROVE after[v] = Append(ended, key)[v]
      OBVIOUS
    <3>1. after[v] = keys'[o][v] /\ v \in Version
      BY <1>2, <1>d
    <3>2. CASE v = last + 1
      BY <1>5, <1>c, <1>d, <3>1, <3>2
    <3>3. CASE v \in 1..last
      <4>1. Append(ended, key)[v] = IF v = last THEN [before[last] EXCEPT !.status = status]
                                    ELSE before[v]
        BY <1>4, <1>5, <3>3
      <4>2. keys'[o][v] = IF v = last THEN [keys[o][last] EXCEPT !.status = status]
                          ELSE keys[o][v]
        BY <1>c, <1>d, <3>1, <3>3
      <4>3. before[v] = keys[o][v] /\ before[last] = keys[o][last]
        BY <1>1, <1>d, <3>3
      <4> QED
        BY <3>1, <4>1, <4>2, <4>3
    <3> QED
      BY <3>2, <3>3, <1>d
  <2> HIDE DEF Row
  <2> QED
    BY <1>2, <1>5, <2>1, SeqEqual
<1>7. \A q \in Owner \ {o} : keys'[q] = keys[q] /\ current'[q] = current[q]
  <2> SUFFICES ASSUME NEW q \in Owner \ {o} PROVE keys'[q] = keys[q] /\ current'[q] = current[q]
    OBVIOUS
  <2>1. \A v \in Version : keys'[q][v] = keys[q][v]
    BY DEF Replaced
  <2> QED
    BY <2>1, <1>a DEF Replaced
\* The server's key is no successor of a client's.
<1>8. keys[o][1].custody = "server" /\ before[1] = keys[o][1]
  <2>1. keys'[o][last + 1] = key
    BY <1>b, <1>c, <1>d
  <2>2. keys'[o][1].custody # "client"
    BY <1>b, <2>1 DEF ClientCustodyKept
  <2>3. 1 \in Version /\ 1 \in 1..last
    BY <1>d
  <2>4. keys[o][1].custody # "client"
    <3>1. CASE last = 1
      BY <1>3, <1>c, <2>2, <2>3, <3>1 DEF KeyRow
    <3>2. CASE last # 1
      BY <1>d, <1>c, <2>2, <2>3, <3>2
    <3> QED
      BY <3>1, <3>2
  <2>5. keys[o][1] \in KeyRow
    <3>1. keys[o][1].status # "NONE"
      BY <1>b, <2>3 DEF OneActiveKey
    <3> QED
      BY <1>a, <2>3, <3>1 DEF NoKey
  <2> QED
    BY <1>1, <2>3, <2>4, <2>5 DEF KeyRow
<1>9. before # <<>>
  BY <1>1, <1>b
<1>10. key \in Histories!NewKey
  BY DEF Histories!NewKey, Histories!Key, KeyRow, Algorithm
<1> DEFINE history == [q \in Owner |-> SubSeq(keys[q], 1, current[q])]
<1>11. history' = [history EXCEPT ![o] = after]
  BY <1>7, OneHistory DEF after
<1>12. history[o] = before
  BY DEF before
<1> HIDE DEF history, last
<1>13. Len(history[o]) = last /\ history[o] # <<>> /\ history[o][1].custody = "server"
  BY <1>1, <1>8, <1>9, <1>12
<1>14. history' = [history EXCEPT ![o] = Append([@ EXCEPT ![Len(history[o])].status = status], key)]
  BY <1>6, <1>11, <1>12, <1>13 DEF ended
<1> QED
  BY <1>10, <1>13, <1>14, <1>b DEF Histories!Replace, history

\* A revocation changes one retired key of the history.
LEMMA WithdrawnRevokes ==
    ASSUME TypeOK, TypeOK', OneActiveKey, NEW o \in Owner, NEW old \in Version,
           Withdrawn(o, old), UNCHANGED proofs
    PROVE  /\ Histories!Withdraw(o, old)
           /\ old \in DOMAIN SubSeq(keys[o], 1, current[o])
<1> DEFINE before == SubSeq(keys[o], 1, current[o])
           after == SubSeq(keys'[o], 1, current'[o])
           row == [keys[o][old] EXCEPT !.status = "REVOKED"]
           changed == [before EXCEPT ![old] = row]
           Row == KeyRow \cup {NoKey}
<1>a. /\ keys \in [Owner -> [Version -> Row]] /\ keys' \in [Owner -> [Version -> Row]]
      /\ current \in [Owner -> 0..MaxVersion] /\ current' = current
      /\ keys[o][old].status = "RETIRED"
  BY DEF TypeOK, Withdrawn
<1>b. \A v \in Version : keys'[o][v] = IF v = old THEN row ELSE keys[o][v]
  BY DEF Withdrawn
<1>c. \A v \in 1..current[o] : v \in Version
  BY <1>a, BoundsArePositive DEF Version
<1>d. old \in 1..current[o] /\ row \in Row
  <2>1. ~(old > current[o])
    BY <1>a DEF OneActiveKey
  <2>2. keys[o][old] \in KeyRow
    BY <1>a DEF NoKey
  <2>3. row \in KeyRow
    BY <2>2 DEF KeyRow
  <2>4. old \in 1..current[o]
    <3>1. current[o] \in 0..MaxVersion
      BY <1>a
    <3> HIDE DEF row, Row
    <3> QED
      BY <2>1, <3>1, BoundsArePositive DEF Version
  <2> QED
    BY <2>3, <2>4
<1>1. before \in Seq(Row) /\ Len(before) = current[o]
      /\ \A v \in 1..current[o] : before[v] = keys[o][v]
  BY <1>a, RowsInOrder
<1>2. after \in Seq(Row) /\ Len(after) = current[o]
      /\ \A v \in 1..current[o] : after[v] = keys'[o][v]
  BY <1>a, RowsInOrder
<1> HIDE DEF before, after, row, Row
<1>3. changed \in Seq(Row) /\ Len(changed) = current[o]
      /\ \A v \in 1..current[o] : changed[v] = IF v = old THEN row ELSE before[v]
  BY <1>1, <1>d, ExceptSeq
<1> HIDE DEF changed
<1>4. after = changed
  <2>1. \A v \in 1..current[o] : after[v] = changed[v]
    BY <1>1, <1>2, <1>3, <1>b, <1>c
  <2> QED
    BY <1>2, <1>3, <2>1, SeqEqual
<1>5. \A q \in Owner \ {o} : keys'[q] = keys[q] /\ current'[q] = current[q]
  <2> SUFFICES ASSUME NEW q \in Owner \ {o} PROVE keys'[q] = keys[q]
    BY <1>a
  <2>1. \A v \in Version : keys'[q][v] = keys[q][v]
    BY DEF Withdrawn
  <2> QED
    BY <2>1, <1>a
<1> DEFINE history == [q \in Owner |-> SubSeq(keys[q], 1, current[q])]
<1>6. history' = [history EXCEPT ![o] = changed]
  BY <1>4, <1>5, OneHistory DEF after
<1>7. history[o] = before /\ before[old] = keys[o][old]
  BY <1>1, <1>d DEF before
<1>8. old \in DOMAIN before
  BY <1>1, <1>d, LenProperties
<1> HIDE DEF history
<1>9. history' = [history EXCEPT ![o][old].status = "REVOKED"]
  BY <1>6, <1>7 DEF changed, row
<1> QED
  BY <1>7, <1>8, <1>9, <1>a DEF Histories!Withdraw, history, before

\* A proof is made by the key in force: the reads of the DID and of the key are one step.
LEMMA SignSigns ==
    ASSUME TypeOK, OneActiveKey, InProgress, NEW p \in Process, Sign(p)
    PROVE  OwnerOf(p) \in Owner /\ Histories!Sign(OwnerOf(p))
<1> DEFINE o == process[p].owner
           last == current[o]
           history == [q \in Owner |-> SubSeq(keys[q], 1, current[q])]
<1>1. /\ o \in Owner
      /\ process[p].version \in 1..last /\ process[p].named = process[p].version
      /\ keys[o][process[p].version].status = "ACTIVE"
      /\ keys[o][process[p].version].algorithm = "Ed25519"
      /\ keys[o][process[p].version].custody = "server"
      /\ UNCHANGED <<current, keys>>
  <2>1. o \in Owner /\ process[p].named \in 1..last
    BY DEF Sign, InProgress, Sound, At
  <2> QED
    BY <2>1 DEF Sign, CanSign, KeyRead, OwnerOf
<1>2. /\ keys \in [Owner -> [Version -> KeyRow \cup {NoKey}]]
      /\ current \in [Owner -> 0..MaxVersion]
  BY DEF TypeOK
<1>3. process[p].version = last
  BY <1>1, <1>2, BoundsArePositive DEF OneActiveKey, Version
<1>4. Len(history[o]) = last /\ history[o][last] = keys[o][last] /\ history[o] # <<>>
  <2>1. Len(SubSeq(keys[o], 1, last)) = last
        /\ \A v \in 1..last : SubSeq(keys[o], 1, last)[v] = keys[o][v]
    BY <1>1, <1>2, RowsInOrder
  <2>2. last \in 1..last /\ last # 0
    BY <1>1, <1>3
  <2> QED
    BY <1>1, <2>1, <2>2
<1>5. proofs' = proofs \cup {[owner |-> o, named |-> last, signer |-> last]}
  BY <1>1, <1>3 DEF Sign, SignatureProof, OwnerOf
<1>6. history' = history
  BY <1>1
<1> HIDE DEF history, last, o
<1>7. o \in Owner /\ history[o][last].custody = "server" /\ history[o][last].algorithm = "Ed25519"
  BY <1>1, <1>3, <1>4
<1> QED
  BY <1>4, <1>5, <1>6, <1>7 DEF Histories!Sign, OwnerOf, history, o

\* A step changes keys or proofs, never both, and proofs only by signing.
LEMMA KeysOrProofs ==
    ASSUME [Next]_vars
    PROVE  /\ UNCHANGED <<current, keys>> \/ UNCHANGED proofs
           /\ UNCHANGED proofs \/ \E p \in Process : Sign(p)
BY DEF Next, vars, Call, Create, Change, Revoke, Prove, Crash, StartCreate, CreateDid,
       OrganizationChange, HolderChange, StartChange, CheckCustody, ReadAlgorithm, CommitChange,
       StartRevocation, ReadHistorical, CommitRevocation, StartProof, ReadMethod, ReadSigner,
       Sign, SignRefused, Retry

LEMMA StepImplements ==
    ASSUME IInv, IInv', ClientCustodyKept', [Next]_vars
    PROVE  [Histories!Next]_(Histories!vars)
<1> USE DEF IInv
<1> DEFINE history == [q \in Owner |-> SubSeq(keys[q], 1, current[q])]
<1>1. CASE UNCHANGED <<current, keys, proofs>>
  BY <1>1 DEF Histories!vars
<1>2. ASSUME NEW p \in Process, Sign(p)
      PROVE  Histories!Next
  BY <1>2, SignSigns DEF Histories!Next
<1>3. ASSUME NEW o \in Owner, NEW key \in KeyRow, key.status = "ACTIVE", Created(o, key),
             UNCHANGED proofs
      PROVE  Histories!Next
  BY <1>3, CreatedBegins DEF Histories!Next
<1>4. ASSUME NEW o \in Owner, NEW key \in KeyRow, NEW status \in {"RETIRED", "REVOKED"},
             key.status = "ACTIVE", Replaced(o, status, key), UNCHANGED proofs
      PROVE  Histories!Next
  BY <1>4, ReplacedExtends DEF Histories!Next
<1>5. ASSUME NEW o \in Owner, NEW old \in Version, Withdrawn(o, old), UNCHANGED proofs
      PROVE  Histories!Next
  <2>1. Histories!Withdraw(o, old) /\ old \in DOMAIN history[o]
    BY <1>5, WithdrawnRevokes
  <2> QED
    BY <2>1 DEF Histories!Next
<1>6. CASE ~UNCHANGED proofs
  BY <1>2, <1>6, KeysOrProofs
<1>7. CASE UNCHANGED proofs /\ ~UNCHANGED <<current, keys>>
  BY <1>3, <1>4, <1>5, <1>7, TableStep
<1> QED
  BY <1>1, <1>6, <1>7

\* Concurrent rotations, recoveries, revocations and signatures are, on the keys and the
\* proofs, steps made one after the other (createDid, rotateKey, recoverCurrentKey,
\* revokeHistoricalKey, signForOrganization, signForUser and their callers' loops).
THEOREM ServiceImplementsKeyHistory == Spec => ImplementsKeyHistory
<1>1. IInv /\ IInv' /\ ClientCustodyKept' /\ [Next]_vars => [Histories!Next]_(Histories!vars)
  BY StepImplements
<1> QED
  BY <1>1, HistoriesBegin, Invariance, ClientKeysStay, PTL
  DEF Spec, ImplementsKeyHistory, Histories!Spec
=============================================================================
