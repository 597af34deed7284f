----------------------------- MODULE Credentials -----------------------------
(***************************************************************************)
(* The issuer's side: AcademicRecordsService.update,                       *)
(* CredentialIssuanceService.issue, CredentialStatusService and            *)
(* TrustRegistryService.  Every operation reads what it decides on outside *)
(* of the transaction it then writes with; the transactions begin with the *)
(* update they are conditional on, keep the row's lock and are one step.   *)
(* Calls for another university's records and credentials end at the first *)
(* read with 404.  Signing is the subject of DidKeys.tla.                  *)
(***************************************************************************)
EXTENDS Naturals, SequencesExt

CONSTANTS
    Record,         \* academic records of a university
    Credential,     \* identifiers of credentials, drawn by randomUUID
    Issuer,         \* issuer DIDs of universities
    Process,        \* calls running at the same time, on any instance
    NoRecord, NoCredential, NoIssuer,
    MaxTime,        \* bound: the clock stops here
    MaxHistory      \* bound: no status change is started after so many

ASSUME NullsAreNotValues ==
    /\ NoRecord \notin Record
    /\ NoCredential \notin Credential
    /\ NoIssuer \notin Issuer

ASSUME BoundsArePositive == MaxTime \in Nat \ {0} /\ MaxHistory \in Nat \ {0}

VARIABLES
    recordStatus,   \* AcademicRecord.status
    status,         \* Credential.status, or ABSENT
    recordOf,       \* Credential.academicRecordId
    expiresAt,      \* Credential.expiresAt, 0 for null
    history,        \* CredentialStatusHistory rows in the order of their creation
    trust,          \* TrustedIssuer.status, or ABSENT
    trustLog,       \* audit actions about the issuer in the order of their creation
    now,
    process         \* what each call is doing

credentials == <<status, recordOf, expiresAt, history>>
issuers == <<trust, trustLog>>
vars == <<recordStatus, credentials, issuers, now, process>>

RecordStatus == {"ACTIVE", "GRADUATED", "WITHDRAWN", "INVALID"}
CredentialStatus == {"ACTIVE", "SUSPENDED", "REVOKED", "EXPIRED"}
HistoryRow == [previousStatus : CredentialStatus \cup {"null"}, newStatus : CredentialStatus]

ProgramCounter == {"idle", "issue", "changeStatus", "addIssuer", "suspendIssuer"}

Idle == [pc |-> "idle", record |-> NoRecord, credential |-> NoCredential, issuer |-> NoIssuer,
         expires |-> 0, from |-> "ACTIVE", to |-> "ACTIVE"]

ProcessState ==
    [pc : ProgramCounter,
     record : Record \cup {NoRecord},
     credential : Credential \cup {NoCredential},
     issuer : Issuer \cup {NoIssuer},
     expires : 0..MaxTime,          \* issue: the expiresAt asked for
     from : CredentialStatus,       \* the status read
     to : CredentialStatus]

TypeOK ==
    /\ recordStatus \in [Record -> RecordStatus]
    /\ status \in [Credential -> CredentialStatus \cup {"ABSENT"}]
    /\ recordOf \in [Credential -> Record \cup {NoRecord}]
    /\ expiresAt \in [Credential -> 0..MaxTime]
    /\ history \in [Credential -> Seq(HistoryRow)]
    /\ trust \in [Issuer -> {"ABSENT", "TRUSTED", "SUSPENDED"}]
    /\ trustLog \in [Issuer -> Seq({"TRUSTED_ISSUER_ADDED", "TRUSTED_ISSUER_SUSPENDED"})]
    /\ now \in 0..MaxTime
    /\ process \in [Process -> ProcessState]

Init ==
    /\ recordStatus = [a \in Record |-> "ACTIVE"]
    /\ status = [c \in Credential |-> "ABSENT"]
    /\ recordOf = [c \in Credential |-> NoRecord]
    /\ expiresAt = [c \in Credential |-> 0]
    /\ history = [c \in Credential |-> <<>>]
    /\ trust = [i \in Issuer |-> "ABSENT"]
    /\ trustLog = [i \in Issuer |-> <<>>]
    /\ now = 0
    /\ process = [p \in Process |-> Idle]

-----------------------------------------------------------------------------
At(p, pc) == process[p].pc = pc
Return(p) == process' = [process EXCEPT ![p] = Idle]
Start(p, call) == At(p, "idle") /\ process' = [process EXCEPT ![p] = call]

IsExpired(c) == expiresAt[c] # 0 /\ expiresAt[c] <= now

\* The status-history row a transaction adds.
AddHistory(c, previous, new) ==
    history' = [history EXCEPT ![c] = Append(@, [previousStatus |-> previous, newStatus |-> new])]

-----------------------------------------------------------------------------
(* AcademicRecordsService.update: one conditional update, no read before it. *)

UpdateRecord(a, new) ==
    /\ recordStatus' = [recordStatus EXCEPT ![a] = new]
    /\ UNCHANGED <<credentials, issuers, now, process>>

-----------------------------------------------------------------------------
(* CredentialIssuanceService *)

\* prepare: the record is read and the credential built from it and signed.
StartIssue(p, a, expires) ==
    /\ recordStatus[a] \in {"ACTIVE", "GRADUATED"}
    /\ expires = 0 \/ expires > now
    /\ Start(p, [Idle EXCEPT !.pc = "issue", !.record = a, !.expires = expires])
    /\ UNCHANGED <<recordStatus, credentials, issuers, now>>

\* issue: the credential, its wallet entry and its first history row; nothing is read again.
Issue(p, c) ==
    /\ At(p, "issue")
    /\ status[c] = "ABSENT"
    /\ status' = [status EXCEPT ![c] = "ACTIVE"]
    /\ recordOf' = [recordOf EXCEPT ![c] = process[p].record]
    /\ expiresAt' = [expiresAt EXCEPT ![c] = process[p].expires]
    /\ AddHistory(c, "null", "ACTIVE")
    /\ Return(p)
    /\ UNCHANGED <<recordStatus, issuers, now>>

-----------------------------------------------------------------------------
(* CredentialStatusService *)

\* The credential is read and may make this change.
StartChange(p, c, to) ==
    /\ Len(history[c]) < MaxHistory
    /\ Start(p, [Idle EXCEPT !.pc = "changeStatus", !.credential = c,
                             !.from = status[c], !.to = to])
    /\ UNCHANGED <<recordStatus, credentials, issuers, now>>

Suspend(p, c) == status[c] = "ACTIVE" /\ StartChange(p, c, "SUSPENDED")
Revoke(p, c) == status[c] \notin {"ABSENT", "REVOKED", "EXPIRED"} /\ StartChange(p, c, "REVOKED")
Reactivate(p, c) == status[c] = "SUSPENDED" /\ ~IsExpired(c) /\ StartChange(p, c, "ACTIVE")

\* Mutants: the update looks only at the id, or requireUnexpired is forgotten.
MatchesIdOnly(p) == TRUE
MatchesIgnoresExpiry(p) == status[process[p].credential] = process[p].from

\* WHERE status = the status read and, for a reactivation, not expired.
Matches(p) ==
    /\ status[process[p].credential] = process[p].from
    /\ process[p].to = "ACTIVE" => ~IsExpired(process[p].credential)

\* changeStatus
ChangeStatus(p) ==
    /\ At(p, "changeStatus")
    /\ LET c == process[p].credential IN
       IF Matches(p)
       THEN /\ status' = [status EXCEPT ![c] = process[p].to]
            /\ AddHistory(c, process[p].from, process[p].to)
       ELSE UNCHANGED <<status, history>>
    /\ Return(p)
    /\ UNCHANGED <<recordOf, expiresAt, recordStatus, issuers, now>>

-----------------------------------------------------------------------------
(* TrustRegistryService *)

\* create: the organization and its DID are in order and the DID is not registered.
StartAddIssuer(p, i) ==
    /\ trust[i] = "ABSENT"
    /\ Start(p, [Idle EXCEPT !.pc = "addIssuer", !.issuer = i])
    /\ UNCHANGED <<recordStatus, credentials, issuers, now>>

\* The unique index on issuerDid.
MayAdd(i) == trust[i] = "ABSENT"

AddIssuer(p) ==
    /\ At(p, "addIssuer")
    /\ LET i == process[p].issuer IN
       IF MayAdd(i)
       THEN /\ trust' = [trust EXCEPT ![i] = "TRUSTED"]
            /\ trustLog' = [trustLog EXCEPT ![i] = Append(@, "TRUSTED_ISSUER_ADDED")]
       ELSE UNCHANGED issuers
    /\ Return(p)
    /\ UNCHANGED <<recordStatus, credentials, now>>

StartSuspendIssuer(p, i) ==
    /\ trust[i] = "TRUSTED"
    /\ Start(p, [Idle EXCEPT !.pc = "suspendIssuer", !.issuer = i])
    /\ UNCHANGED <<recordStatus, credentials, issuers, now>>

\* Mutant: the update looks only at the id.
SuspendIssuerAgain(p) ==
    /\ At(p, "suspendIssuer")
    /\ trust' = [trust EXCEPT ![process[p].issuer] = "SUSPENDED"]
    /\ trustLog' = [trustLog EXCEPT ![process[p].issuer] = Append(@, "TRUSTED_ISSUER_SUSPENDED")]
    /\ Return(p)
    /\ UNCHANGED <<recordStatus, credentials, now>>

\* WHERE status = TRUSTED
SuspendIssuer(p) ==
    /\ At(p, "suspendIssuer")
    /\ LET i == process[p].issuer IN
       IF trust[i] = "TRUSTED"
       THEN /\ trust' = [trust EXCEPT ![i] = "SUSPENDED"]
            /\ trustLog' = [trustLog EXCEPT ![i] = Append(@, "TRUSTED_ISSUER_SUSPENDED")]
       ELSE UNCHANGED issuers
    /\ Return(p)
    /\ UNCHANGED <<recordStatus, credentials, now>>

-----------------------------------------------------------------------------
\* A call can stop anywhere: its process dies or the database throws.
Crash(p) ==
    /\ ~At(p, "idle")
    /\ Return(p)
    /\ UNCHANGED <<recordStatus, credentials, issuers, now>>

Tick ==
    /\ now < MaxTime
    /\ now' = now + 1
    /\ UNCHANGED <<recordStatus, credentials, issuers, process>>

IssueCredential(p) ==
    \/ \E a \in Record, expires \in 0..MaxTime : StartIssue(p, a, expires)
    \/ \E c \in Credential : Issue(p, c)

ChangeCredential(p) ==
    \/ \E c \in Credential : Suspend(p, c) \/ Revoke(p, c) \/ Reactivate(p, c)
    \/ ChangeStatus(p)

ManageTrust(p) ==
    \/ \E i \in Issuer : StartAddIssuer(p, i) \/ StartSuspendIssuer(p, i)
    \/ AddIssuer(p)
    \/ SuspendIssuer(p)

Next ==
    \/ \E p \in Process : IssueCredential(p) \/ ChangeCredential(p) \/ ManageTrust(p) \/ Crash(p)
    \/ \E a \in Record, new \in RecordStatus : UpdateRecord(a, new)
    \/ Tick

Spec == Init /\ [][Next]_vars

-----------------------------------------------------------------------------
(* Properties *)

\* "Each status change is recorded in credential status history" (README.md): the history of
\* a credential starts with its issuance, each row continues where the one before ended and
\* the last one ends in the status the credential has, although the status was read outside
\* of the transaction that writes it into the history.
HistoryTellsStatus ==
    \A c \in Credential :
        IF status[c] = "ABSENT" THEN history[c] = <<>>
        ELSE /\ history[c] # <<>>
             /\ history[c][1] = [previousStatus |-> "null", newStatus |-> "ACTIVE"]
             /\ \A n \in 2..Len(history[c]) :
                    history[c][n].previousStatus = history[c][n - 1].newStatus
             /\ Last(history[c]).newStatus = status[c]

\* "REVOKED -> ACTIVE" is not allowed (README.md), nor anything else after REVOKED.
RevokedIsFinal ==
    [][\A c \in Credential : status[c] = "REVOKED" => status'[c] = "REVOKED"]_status

\* No credential becomes active after its expiry, even if it expires during the call.
NothingExpiredIsReactivated ==
    [][\A c \in Credential :
          status[c] = "SUSPENDED" /\ status'[c] = "ACTIVE" => ~IsExpired(c)]_status

\* An issuer is registered once and suspended once, and the audit log says so: of two
\* simultaneous calls one is refused, and a suspended issuer is not trusted again.
TrustLogTellsStatus ==
    \A i \in Issuer :
        trustLog[i] = IF trust[i] = "ABSENT" THEN <<>>
                      ELSE IF trust[i] = "TRUSTED" THEN <<"TRUSTED_ISSUER_ADDED">>
                      ELSE <<"TRUSTED_ISSUER_ADDED", "TRUSTED_ISSUER_SUSPENDED">>

\* "Cannot issue a credential for a withdrawn or invalid academic record": when a credential
\* comes into being its record is neither.  The code reads the record only before signing.
IssuedForValidRecord ==
    [][\A c \in Credential :
          status[c] = "ABSENT" /\ status'[c] = "ACTIVE" =>
              recordStatus[recordOf'[c]] \in {"ACTIVE", "GRADUATED"}]_status
=============================================================================
