--------------------------- MODULE CredentialsProofs ---------------------------
(***************************************************************************)
(* For any records, credentials, issuers and calls: the history and the    *)
(* audit log agree with the rows, revocation is final, and nothing expired *)
(* becomes active.                                                         *)
(*                                                                         *)
(* A call decides on a status it has read outside of its transaction.  The *)
(* status may have changed since, but the transition it stands for remains *)
(* one the code allows (Allowed), and the update is conditional on it.     *)
(***************************************************************************)
EXTENDS Credentials, SequenceTheorems, TLAPS

\* The transitions that suspend, revoke and reactivate ask for.
Allowed(from, to) ==
    \/ from = "ACTIVE" /\ to = "SUSPENDED"
    \/ from \in {"ACTIVE", "SUSPENDED"} /\ to = "REVOKED"
    \/ from = "SUSPENDED" /\ to = "ACTIVE"

\* What a call that goes on has read.
HasRead(p) ==
    LET call == process[p] IN
    /\ call.pc = "issue" => call.record \in Record
    /\ call.pc = "changeStatus" => call.credential \in Credential /\ Allowed(call.from, call.to)
    /\ call.pc \in {"addIssuer", "suspendIssuer"} => call.issuer \in Issuer

\* The history of one credential, given its status.
Tells(rows, current) ==
    IF current = "ABSENT" THEN rows = <<>>
    ELSE /\ rows # <<>>
         /\ rows[1] = [previousStatus |-> "null", newStatus |-> "ACTIVE"]
         /\ \A n \in 2..Len(rows) : rows[n].previousStatus = rows[n - 1].newStatus
         /\ Last(rows).newStatus = current

IInv ==
    /\ TypeOK
    /\ \A c \in Credential : status[c] # "EXPIRED" /\ Tells(history[c], status[c])
    /\ TrustLogTellsStatus
    /\ \A p \in Process : HasRead(p)

LEMMA IdleIsTyped == Idle \in ProcessState /\ Idle.pc = "idle"
BY BoundsArePositive DEF Idle, ProcessState, ProgramCounter, CredentialStatus

LEMMA InitIInv == ASSUME Init PROVE IInv
<1>1. TypeOK
  BY IdleIsTyped, BoundsArePositive DEF Init, TypeOK, RecordStatus, CredentialStatus
<1> QED
  BY <1>1, IdleIsTyped DEF Init, IInv, TrustLogTellsStatus, HasRead, Tells

\* One row more continues a history.
LEMMA NextRow ==
    ASSUME NEW rows \in Seq(HistoryRow), NEW from \in CredentialStatus,
           NEW to \in CredentialStatus, Tells(rows, from)
    PROVE  LET row == [previousStatus |-> from, newStatus |-> to] IN
           Append(rows, row) \in Seq(HistoryRow) /\ Tells(Append(rows, row), to)
<1> DEFINE row == [previousStatus |-> from, newStatus |-> to]
           new == Append(rows, row)
<1>1. row \in HistoryRow /\ row.previousStatus = from /\ row.newStatus = to
  BY DEF HistoryRow
<1> HIDE DEF row
<1>2. /\ rows # <<>> /\ rows[1] = [previousStatus |-> "null", newStatus |-> "ACTIVE"]
      /\ \A n \in 2..Len(rows) : rows[n].previousStatus = rows[n - 1].newStatus
      /\ rows[Len(rows)].newStatus = from
  BY DEF Tells, Last, CredentialStatus
<1>3. /\ new \in Seq(HistoryRow) /\ Len(new) = Len(rows) + 1 /\ Len(rows) \in Nat \ {0}
      /\ \A n \in 1..Len(rows) : new[n] = rows[n]
      /\ new[Len(rows) + 1] = row
  BY <1>1, <1>2
<1> HIDE DEF new
<1>4. ASSUME NEW n \in 2..Len(new) PROVE new[n].previousStatus = new[n - 1].newStatus
  <2>1. CASE n = Len(rows) + 1
    <3>1. n - 1 = Len(rows) /\ n - 1 \in 1..Len(rows)
      BY <1>3, <2>1
    <3> QED
      BY <1>1, <1>2, <1>3, <2>1, <3>1
  <2>2. CASE n # Len(rows) + 1
    <3>1. n \in 2..Len(rows) /\ n \in 1..Len(rows) /\ n - 1 \in 1..Len(rows)
      BY <1>3, <2>2
    <3> QED
      BY <1>2, <1>3, <3>1
  <2> QED
    BY <2>1, <2>2
<1>5. new # <<>> /\ new[1] = rows[1] /\ Last(new) = row
  BY <1>3 DEF Last
<1> QED
  BY <1>1, <1>2, <1>3, <1>4, <1>5 DEF Tells, CredentialStatus, new, row

LEMMA FirstRow ==
    LET row == [previousStatus |-> "null", newStatus |-> "ACTIVE"] IN
    Append(<<>>, row) \in Seq(HistoryRow) /\ Tells(Append(<<>>, row), "ACTIVE")
<1> DEFINE row == [previousStatus |-> "null", newStatus |-> "ACTIVE"]
           new == Append(<<>>, row)
<1>1. row \in HistoryRow /\ row.newStatus = "ACTIVE"
  BY DEF HistoryRow, CredentialStatus
<1> HIDE DEF row
<1>2. new \in Seq(HistoryRow) /\ Len(new) = 1 /\ new[1] = row /\ new # <<>>
  BY <1>1
<1> HIDE DEF new
<1> QED
  BY <1>1, <1>2 DEF Tells, Last, new, row

\* One call moves to call; the rows keep their types and their tales.
LEMMA CallStep ==
    ASSUME IInv, NEW p \in Process, NEW call \in ProcessState,
           process' = [process EXCEPT ![p] = call],
           UNCHANGED <<recordStatus, now>>,
           status' \in [Credential -> CredentialStatus \cup {"ABSENT"}],
           recordOf' \in [Credential -> Record \cup {NoRecord}],
           expiresAt' \in [Credential -> 0..MaxTime],
           history' \in [Credential -> Seq(HistoryRow)],
           \A c \in Credential : status'[c] # "EXPIRED" /\ Tells(history'[c], status'[c]),
           trust' \in [Issuer -> {"ABSENT", "TRUSTED", "SUSPENDED"}],
           trustLog' \in [Issuer -> Seq({"TRUSTED_ISSUER_ADDED", "TRUSTED_ISSUER_SUSPENDED"})],
           TrustLogTellsStatus',
           HasRead(p)'
    PROVE  IInv'
<1>1. /\ process' \in [Process -> ProcessState]
      /\ \A q \in Process \ {p} : process'[q] = process[q]
  BY DEF IInv, TypeOK
<1>2. TypeOK'
  BY <1>1 DEF IInv, TypeOK
<1>3. \A q \in Process : HasRead(q)'
  BY <1>1 DEF IInv, HasRead
<1> QED
  BY <1>2, <1>3 DEF IInv

\* A step of a call that leaves the rows alone.
LEMMA LocalStep ==
    ASSUME IInv, NEW p \in Process, NEW call \in ProcessState,
           process' = [process EXCEPT ![p] = call],
           UNCHANGED <<recordStatus, credentials, issuers, now>>,
           HasRead(p)'
    PROVE  IInv'
<1>1. UNCHANGED <<recordStatus, status, recordOf, expiresAt, history, trust, trustLog, now>>
  BY DEF credentials, issuers
<1>2. TypeOK /\ TrustLogTellsStatus'
  BY <1>1 DEF IInv, TrustLogTellsStatus
<1>3. \A c \in Credential : status'[c] # "EXPIRED" /\ Tells(history'[c], status'[c])
  BY <1>1 DEF IInv
<1> QED
  BY <1>1, <1>2, <1>3, CallStep DEF TypeOK

LEMMA Returned ==
    ASSUME IInv, NEW p \in Process, Return(p)
    PROVE  HasRead(p)' /\ process' = [process EXCEPT ![p] = Idle]
BY IdleIsTyped DEF Return, IInv, TypeOK, HasRead

LEMMA ReturnStep ==
    ASSUME IInv, NEW p \in Process, Return(p),
           UNCHANGED <<recordStatus, credentials, issuers, now>>
    PROVE  IInv'
BY Returned, IdleIsTyped, LocalStep

LEMMA StartIssueStep ==
    ASSUME IInv, NEW p \in Process, NEW a \in Record, NEW expires \in 0..MaxTime,
           StartIssue(p, a, expires)
    PROVE  IInv'
<1> DEFINE call == [Idle EXCEPT !.pc = "issue", !.record = a, !.expires = expires]
<1>1. /\ process' = [process EXCEPT ![p] = call]
      /\ UNCHANGED <<recordStatus, credentials, issuers, now>>
  BY DEF StartIssue, Start
<1>2. call \in ProcessState /\ call.pc = "issue" /\ call.record = a
  BY DEF Idle, ProcessState, ProgramCounter, CredentialStatus
<1> HIDE DEF call
<1>3. HasRead(p)'
  BY <1>1, <1>2 DEF HasRead, IInv, TypeOK
<1> QED
  BY <1>1, <1>2, <1>3, LocalStep

LEMMA IssueStep ==
    ASSUME IInv, NEW p \in Process, NEW c \in Credential, Issue(p, c)
    PROVE  IInv'
<1> DEFINE row == [previousStatus |-> "null", newStatus |-> "ACTIVE"]
<1>1. /\ At(p, "issue") /\ status[c] = "ABSENT"
      /\ status' = [status EXCEPT ![c] = "ACTIVE"]
      /\ recordOf' = [recordOf EXCEPT ![c] = process[p].record]
      /\ expiresAt' = [expiresAt EXCEPT ![c] = process[p].expires]
      /\ history' = [history EXCEPT ![c] = Append(history[c], row)]
      /\ UNCHANGED <<recordStatus, trust, trustLog, now>>
      /\ Return(p)
  BY DEF Issue, AddHistory, issuers
<1>2. history[c] = <<>> /\ process[p] \in ProcessState
  BY <1>1 DEF IInv, Tells, TypeOK
<1>3. Append(history[c], row) \in Seq(HistoryRow) /\ Tells(Append(history[c], row), "ACTIVE")
  BY <1>2, FirstRow
<1> HIDE DEF row
<1>4. /\ status' \in [Credential -> CredentialStatus \cup {"ABSENT"}]
      /\ recordOf' \in [Credential -> Record \cup {NoRecord}]
      /\ expiresAt' \in [Credential -> 0..MaxTime]
  BY <1>1, <1>2 DEF IInv, TypeOK, ProcessState, CredentialStatus
<1>5. history' \in [Credential -> Seq(HistoryRow)]
  BY <1>1, <1>3 DEF IInv, TypeOK
<1>6. ASSUME NEW d \in Credential PROVE status'[d] # "EXPIRED" /\ Tells(history'[d], status'[d])
  <2>1. CASE d = c
    <3>1. history'[c] = Append(history[c], row) /\ status'[c] = "ACTIVE"
      BY <1>1 DEF IInv, TypeOK
    <3> QED
      BY <1>3, <2>1, <3>1
  <2>2. CASE d # c
    <3>1. history'[d] = history[d] /\ status'[d] = status[d]
      BY <1>1, <2>2 DEF IInv, TypeOK
    <3> QED
      BY <3>1 DEF IInv
  <2> QED
    BY <2>1, <2>2
<1>7. /\ trust' \in [Issuer -> {"ABSENT", "TRUSTED", "SUSPENDED"}]
      /\ trustLog' \in [Issuer -> Seq({"TRUSTED_ISSUER_ADDED", "TRUSTED_ISSUER_SUSPENDED"})]
      /\ TrustLogTellsStatus'
  BY <1>1 DEF IInv, TypeOK, TrustLogTellsStatus
<1>8. HasRead(p)' /\ process' = [process EXCEPT ![p] = Idle]
  BY <1>1, Returned
<1> QED
  BY <1>1, <1>4, <1>5, <1>6, <1>7, <1>8, IdleIsTyped, CallStep

LEMMA StartChangeStep ==
    ASSUME IInv, NEW p \in Process, NEW c \in Credential, NEW to \in CredentialStatus,
           Allowed(status[c], to), StartChange(p, c, to)
    PROVE  IInv'
<1> DEFINE call == [Idle EXCEPT !.pc = "changeStatus", !.credential = c,
                                !.from = status[c], !.to = to]
<1>1. /\ process' = [process EXCEPT ![p] = call]
      /\ UNCHANGED <<recordStatus, credentials, issuers, now>>
  BY DEF StartChange, Start
<1>2. status[c] \in CredentialStatus
  BY DEF Allowed, CredentialStatus
<1>3. call \in ProcessState
  BY <1>2, IdleIsTyped DEF ProcessState, ProgramCounter
<1>4. call.pc = "changeStatus" /\ call.credential = c /\ call.from = status[c] /\ call.to = to
  BY DEF Idle
<1> HIDE DEF call
<1>5. process'[p] = call
  BY <1>1 DEF IInv, TypeOK
<1>6. HasRead(p)'
  BY <1>4, <1>5 DEF HasRead
<1> QED
  BY <1>1, <1>3, <1>6, LocalStep

LEMMA RequestChangeStep ==
    ASSUME IInv, NEW p \in Process, NEW c \in Credential,
           Suspend(p, c) \/ Revoke(p, c) \/ Reactivate(p, c)
    PROVE  IInv'
<1>1. CASE Suspend(p, c)
  BY <1>1, StartChangeStep DEF Suspend, Allowed, CredentialStatus
<1>2. CASE Revoke(p, c)
  <2>1. status[c] \in {"ACTIVE", "SUSPENDED"}
    BY <1>2 DEF Revoke, IInv, TypeOK, CredentialStatus
  <2> QED
    BY <1>2, <2>1, StartChangeStep DEF Revoke, Allowed, CredentialStatus
<1>3. CASE Reactivate(p, c)
  BY <1>3, StartChangeStep DEF Reactivate, Allowed, CredentialStatus
<1> QED
  BY <1>1, <1>2, <1>3

LEMMA ChangeStatusStep ==
    ASSUME IInv, NEW p \in Process, ChangeStatus(p)
    PROVE  IInv'
<1> DEFINE c == process[p].credential
           from == process[p].from
           to == process[p].to
           row == [previousStatus |-> from, newStatus |-> to]
<1>1. /\ c \in Credential /\ Allowed(from, to)
      /\ from \in CredentialStatus /\ to \in CredentialStatus /\ to # "EXPIRED"
  BY DEF ChangeStatus, At, IInv, HasRead, TypeOK, ProcessState, Allowed, CredentialStatus
<1>2. /\ Return(p) /\ UNCHANGED <<recordOf, expiresAt, recordStatus, trust, trustLog, now>>
  BY DEF ChangeStatus, issuers
<1>3. CASE ~Matches(p)
  BY <1>2, <1>3, ReturnStep DEF ChangeStatus, credentials, issuers
<1>4. CASE Matches(p)
  <2>1. /\ status' = [status EXCEPT ![c] = to]
        /\ history' = [history EXCEPT ![c] = Append(history[c], row)]
        /\ status[c] = from
    BY <1>4 DEF ChangeStatus, AddHistory, Matches
  <2>2. history[c] \in Seq(HistoryRow) /\ Tells(history[c], from)
    BY <1>1, <2>1 DEF IInv, TypeOK
  <2>3. Append(history[c], row) \in Seq(HistoryRow) /\ Tells(Append(history[c], row), to)
    BY <1>1, <2>2, NextRow
  <2> HIDE DEF row, c, from, to
  <2>4. /\ status' \in [Credential -> CredentialStatus \cup {"ABSENT"}]
        /\ history' \in [Credential -> Seq(HistoryRow)]
    BY <1>1, <2>1, <2>3 DEF IInv, TypeOK
  <2>5. ASSUME NEW d \in Credential
        PROVE  status'[d] # "EXPIRED" /\ Tells(history'[d], status'[d])
    <3>1. CASE d = c
      <4>1. history'[c] = Append(history[c], row) /\ status'[c] = to
        BY <1>1, <2>1 DEF IInv, TypeOK
      <4> QED
        BY <1>1, <2>3, <3>1, <4>1
    <3>2. CASE d # c
      <4>1. history'[d] = history[d] /\ status'[d] = status[d]
        BY <2>1, <3>2 DEF IInv, TypeOK
      <4> QED
        BY <4>1 DEF IInv
    <3> QED
      BY <3>1, <3>2
  <2>6. /\ recordOf' \in [Credential -> Record \cup {NoRecord}]
        /\ expiresAt' \in [Credential -> 0..MaxTime]
        /\ trust' \in [Issuer -> {"ABSENT", "TRUSTED", "SUSPENDED"}]
        /\ trustLog' \in [Issuer -> Seq({"TRUSTED_ISSUER_ADDED", "TRUSTED_ISSUER_SUSPENDED"})]
        /\ TrustLogTellsStatus'
    BY <1>2 DEF IInv, TypeOK, TrustLogTellsStatus
  <2>7. HasRead(p)' /\ process' = [process EXCEPT ![p] = Idle]
    BY <1>2, Returned
  <2> QED
    BY <1>2, <2>4, <2>5, <2>6, <2>7, IdleIsTyped, CallStep
<1> QED
  BY <1>3, <1>4

LEMMA StartTrustStep ==
    ASSUME IInv, NEW p \in Process, NEW i \in Issuer,
           StartAddIssuer(p, i) \/ StartSuspendIssuer(p, i)
    PROVE  IInv'
<1>1. ASSUME NEW pc \in {"addIssuer", "suspendIssuer"},
             process' = [process EXCEPT ![p] = [Idle EXCEPT !.pc = pc, !.issuer = i]],
             UNCHANGED <<recordStatus, credentials, issuers, now>>
      PROVE  IInv'
  <2> DEFINE call == [Idle EXCEPT !.pc = pc, !.issuer = i]
  <2>1. call \in ProcessState
    <3>1. pc \in ProgramCounter
      BY DEF ProgramCounter
    <3> QED
      BY <3>1, IdleIsTyped DEF ProcessState
  <2>2. call.pc = pc /\ call.issuer = i
    BY DEF Idle
  <2> HIDE DEF call
  <2>3. process' = [process EXCEPT ![p] = call] /\ process'[p] = call
    BY <1>1 DEF call, IInv, TypeOK
  <2>4. HasRead(p)'
    BY <2>2, <2>3 DEF HasRead
  <2> QED
    BY <1>1, <2>1, <2>3, <2>4, LocalStep
<1> QED
  BY <1>1 DEF StartAddIssuer, StartSuspendIssuer, Start

\* A second action appended to a log of one.
LEMMA Appended ==
    ASSUME NEW a, NEW b
    PROVE  Append(<<a>>, b) = <<a, b>>
<1>1. <<a>> \in Seq({a, b}) /\ <<a, b>> \in Seq({a, b}) /\ Append(<<a>>, b) \in Seq({a, b})
  OBVIOUS
<1>2. Len(Append(<<a>>, b)) = 2 /\ Len(<<a, b>>) = 2
  OBVIOUS
<1>3. Append(<<a>>, b)[1] = a /\ Append(<<a>>, b)[2] = b
  OBVIOUS
<1>4. \A n \in 1..2 : Append(<<a>>, b)[n] = <<a, b>>[n]
  BY <1>3
<1> QED
  BY <1>1, <1>2, <1>4, SeqEqual

LEMMA TrustStep ==
    ASSUME IInv, NEW p \in Process, AddIssuer(p) \/ SuspendIssuer(p)
    PROVE  IInv'
<1> DEFINE i == process[p].issuer
           Action == {"TRUSTED_ISSUER_ADDED", "TRUSTED_ISSUER_SUSPENDED"}
<1>1. i \in Issuer /\ Return(p) /\ UNCHANGED <<recordStatus, credentials, now>>
  BY DEF AddIssuer, SuspendIssuer, At, IInv, HasRead
<1>2. CASE UNCHANGED issuers
  BY <1>1, <1>2, ReturnStep
<1>3. CASE \E to \in {"TRUSTED", "SUSPENDED"}, action \in Action :
              /\ trust' = [trust EXCEPT ![i] = to]
              /\ trustLog' = [trustLog EXCEPT ![i] = Append(trustLog[i], action)]
              /\ \/ trust[i] = "ABSENT" /\ to = "TRUSTED" /\ action = "TRUSTED_ISSUER_ADDED"
                 \/ trust[i] = "TRUSTED" /\ to = "SUSPENDED" /\ action = "TRUSTED_ISSUER_SUSPENDED"
  <2>1. PICK to \in {"TRUSTED", "SUSPENDED"}, action \in Action :
            /\ trust' = [trust EXCEPT ![i] = to]
            /\ trustLog' = [trustLog EXCEPT ![i] = Append(trustLog[i], action)]
            /\ \/ trust[i] = "ABSENT" /\ to = "TRUSTED" /\ action = "TRUSTED_ISSUER_ADDED"
               \/ trust[i] = "TRUSTED" /\ to = "SUSPENDED" /\ action = "TRUSTED_ISSUER_SUSPENDED"
    BY <1>3
  <2>2. trustLog[i] \in Seq(Action) /\ Append(trustLog[i], action) \in Seq(Action)
    BY <1>1 DEF IInv, TypeOK
  <2> HIDE DEF i
  <2>3. /\ trust' \in [Issuer -> {"ABSENT", "TRUSTED", "SUSPENDED"}]
        /\ trustLog' \in [Issuer -> Seq(Action)]
    BY <1>1, <2>1, <2>2 DEF IInv, TypeOK
  <2>4. trustLog[i] = IF trust[i] = "ABSENT" THEN <<>> ELSE
                      IF trust[i] = "TRUSTED" THEN <<"TRUSTED_ISSUER_ADDED">>
                      ELSE <<"TRUSTED_ISSUER_ADDED", "TRUSTED_ISSUER_SUSPENDED">>
    BY <1>1 DEF IInv, TrustLogTellsStatus
  <2>5. Append(trustLog[i], action) =
            IF to = "TRUSTED" THEN <<"TRUSTED_ISSUER_ADDED">>
            ELSE <<"TRUSTED_ISSUER_ADDED", "TRUSTED_ISSUER_SUSPENDED">>
    <3>1. CASE trust[i] = "ABSENT"
      BY <2>1, <2>4, <3>1
    <3>2. CASE trust[i] = "TRUSTED"
      <4>1. trustLog[i] = <<"TRUSTED_ISSUER_ADDED">>
        BY <2>4, <3>2
      <4>2. Append(<<"TRUSTED_ISSUER_ADDED">>, "TRUSTED_ISSUER_SUSPENDED")
                = <<"TRUSTED_ISSUER_ADDED", "TRUSTED_ISSUER_SUSPENDED">>
        BY Appended
      <4>3. to = "SUSPENDED" /\ action = "TRUSTED_ISSUER_SUSPENDED"
        BY <2>1, <3>2
      <4> QED
        BY <4>1, <4>2, <4>3
    <3> QED
      BY <2>1, <3>1, <3>2
  <2>6. TrustLogTellsStatus'
    <3> SUFFICES ASSUME NEW j \in Issuer
                 PROVE  trustLog'[j] = IF trust'[j] = "ABSENT" THEN <<>> ELSE
                                       IF trust'[j] = "TRUSTED" THEN <<"TRUSTED_ISSUER_ADDED">>
                                       ELSE <<"TRUSTED_ISSUER_ADDED", "TRUSTED_ISSUER_SUSPENDED">>
      BY DEF TrustLogTellsStatus
    <3>1. CASE j = i
      <4>1. trustLog'[i] = Append(trustLog[i], action) /\ trust'[i] = to
        BY <1>1, <2>1 DEF IInv, TypeOK
      <4> QED
        BY <2>5, <3>1, <4>1
    <3>2. CASE j # i
      <4>1. trustLog'[j] = trustLog[j] /\ trust'[j] = trust[j]
        BY <2>1, <3>2 DEF IInv, TypeOK
      <4> QED
        BY <4>1 DEF IInv, TrustLogTellsStatus
    <3> QED
      BY <3>1, <3>2
  <2>7. /\ status' \in [Credential -> CredentialStatus \cup {"ABSENT"}]
        /\ recordOf' \in [Credential -> Record \cup {NoRecord}]
        /\ expiresAt' \in [Credential -> 0..MaxTime]
        /\ history' \in [Credential -> Seq(HistoryRow)]
        /\ \A c \in Credential : status'[c] # "EXPIRED" /\ Tells(history'[c], status'[c])
    BY <1>1 DEF IInv, TypeOK, credentials
  <2>8. HasRead(p)' /\ process' = [process EXCEPT ![p] = Idle]
    BY <1>1, Returned
  <2> QED
    BY <1>1, <2>3, <2>6, <2>7, <2>8, IdleIsTyped, CallStep
<1> QED
  BY <1>1, <1>2, <1>3 DEF AddIssuer, SuspendIssuer, MayAdd

LEMMA WorldStep ==
    ASSUME IInv,
           Tick \/ \E a \in Record, new \in RecordStatus : UpdateRecord(a, new)
    PROVE  IInv'
<1>1. UNCHANGED <<status, recordOf, expiresAt, history, trust, trustLog, process>>
  BY DEF Tick, UpdateRecord, credentials, issuers
<1>2. recordStatus' \in [Record -> RecordStatus] /\ now' \in 0..MaxTime
  <2>1. CASE Tick
    BY <2>1, BoundsArePositive DEF Tick, IInv, TypeOK
  <2>2. CASE \E a \in Record, new \in RecordStatus : UpdateRecord(a, new)
    BY <2>2 DEF UpdateRecord, IInv, TypeOK
  <2> QED
    BY <2>1, <2>2
<1>3. TypeOK'
  BY <1>1, <1>2 DEF IInv, TypeOK
<1> QED
  BY <1>1, <1>3 DEF IInv, TrustLogTellsStatus, HasRead

LEMMA IInvStep ==
    ASSUME IInv, [Next]_vars
    PROVE  IInv'
<1>1. CASE UNCHANGED vars
  BY <1>1 DEF vars, credentials, issuers, IInv, TypeOK, TrustLogTellsStatus, HasRead
<1>2. ASSUME NEW p \in Process, IssueCredential(p) PROVE IInv'
  BY <1>2, StartIssueStep, IssueStep DEF IssueCredential
<1>3. ASSUME NEW p \in Process, ChangeCredential(p) PROVE IInv'
  BY <1>3, RequestChangeStep, ChangeStatusStep DEF ChangeCredential
<1>4. ASSUME NEW p \in Process, ManageTrust(p) PROVE IInv'
  BY <1>4, StartTrustStep, TrustStep DEF ManageTrust
<1>5. ASSUME NEW p \in Process, Crash(p) PROVE IInv'
  BY <1>5, ReturnStep DEF Crash
<1> QED
  BY <1>1, <1>2, <1>3, <1>4, <1>5, WorldStep DEF Next

LEMMA Invariance == Spec => []IInv
<1>1. Init => IInv
  BY InitIInv
<1>2. IInv /\ [Next]_vars => IInv'
  BY IInvStep
<1> QED
  BY <1>1, <1>2, PTL DEF Spec

\* Rows, logs and the locals of calls keep their types.
THEOREM TypeCorrect == Spec => []TypeOK
<1>1. IInv => TypeOK
  BY DEF IInv
<1> QED
  BY <1>1, Invariance, PTL

\* Each status change is recorded (CredentialStatusService.changeStatus): the history leads
\* from the issuance to the status the credential has, although the status a row starts from
\* was read outside of the transaction.
THEOREM HistoriesAreComplete == Spec => []HistoryTellsStatus
<1>1. IInv => HistoryTellsStatus
  BY DEF IInv, HistoryTellsStatus, Tells
<1> QED
  BY <1>1, Invariance, PTL

\* An issuer is registered once and suspended once, and the audit log says so
\* (TrustRegistryService.create and suspend).
THEOREM TrustLogsAreComplete == Spec => []TrustLogTellsStatus
<1>1. IInv => TrustLogTellsStatus
  BY DEF IInv
<1> QED
  BY <1>1, Invariance, PTL

\* What a step does to the status of a credential.
LEMMA StatusChanges ==
    ASSUME IInv, [Next]_vars, NEW c \in Credential, status'[c] # status[c]
    PROVE  \/ status[c] = "ABSENT" /\ status'[c] = "ACTIVE"
           \/ /\ Allowed(status[c], status'[c])
              /\ status'[c] = "ACTIVE" => ~IsExpired(c)
<1>1. PICK p \in Process : (\E d \in Credential : Issue(p, d)) \/ ChangeStatus(p)
  BY DEF Next, vars, credentials, issuers, IssueCredential, ChangeCredential, ManageTrust,
         Crash, Tick, UpdateRecord, StartIssue, Suspend, Revoke, Reactivate, StartChange,
         StartAddIssuer, StartSuspendIssuer, AddIssuer, SuspendIssuer
<1>2. CASE \E d \in Credential : Issue(p, d)
  BY <1>2 DEF Issue, IInv, TypeOK
<1>3. CASE ChangeStatus(p)
  <2> DEFINE d == process[p].credential
  <2>1. d \in Credential /\ Allowed(process[p].from, process[p].to)
    BY <1>3 DEF ChangeStatus, At, IInv, HasRead
  <2>2. Matches(p) /\ status' = [status EXCEPT ![d] = process[p].to]
    BY <1>3 DEF ChangeStatus
  <2>3. c = d /\ status[c] = process[p].from /\ status'[c] = process[p].to
    BY <2>1, <2>2 DEF Matches, IInv, TypeOK
  <2> QED
    BY <2>1, <2>2, <2>3 DEF Matches
<1> QED
  BY <1>1, <1>2, <1>3

\* Nothing follows REVOKED, whatever other calls have read (changeStatus is conditional on
\* the status read, and no call goes on from REVOKED).
THEOREM RevocationIsFinal == Spec => RevokedIsFinal
<1>1. IInv /\ [Next]_vars =>
          [\A c \in Credential : status[c] = "REVOKED" => status'[c] = "REVOKED"]_status
  BY StatusChanges DEF Allowed
<1> QED
  BY <1>1, Invariance, PTL DEF Spec, RevokedIsFinal

\* No credential becomes active after its expiry, even if it expires between the check of
\* reactivate and its update (requireUnexpired).
THEOREM ReactivationsAreInTime == Spec => NothingExpiredIsReactivated
<1>1. IInv /\ [Next]_vars =>
          [\A c \in Credential :
              status[c] = "SUSPENDED" /\ status'[c] = "ACTIVE" => ~IsExpired(c)]_status
  BY StatusChanges DEF Allowed
<1> QED
  BY <1>1, Invariance, PTL DEF Spec, NothingExpiredIsReactivated
=============================================================================
