---------------------------- MODULE Presentations ----------------------------
(***************************************************************************)
(* The data behind one verification: the claims a job requires, a bank     *)
(* requests, a holder approves and a credential contains, and the checks   *)
(* that verifyPresentation makes of them, with the keys, the credential    *)
(* and the trust in its issuer changing between its awaits.                *)
(*                                                                         *)
(* There is one job, one credential and one request.  Calls that race for  *)
(* one decision are the subject of VerificationRequests.tla: here          *)
(* verifyPresentation runs once at a time, and again after an answer,      *)
(* while the deadline passes, another call expires the request and         *)
(* another request of the application is decided.  Every call of a store   *)
(* may throw, before or after it took effect.                              *)
(* What no code rewrites (the schema, the wallet entry and its hash, the   *)
(* ids, DIDs and nonces in session, request and presentation) matches for  *)
(* ever and is not compared here.  A hash is the content it was made of, a *)
(* proof value the content that was signed.                                *)
(***************************************************************************)
EXTENDS FailureReport, FiniteSets

CONSTANTS
    Claim,          \* names of claims, University among them
    University,     \* its value is the issuer's name, not in the credentialSubject
    Optional,       \* claims a credential may be without: department, cgpa
    Blank,          \* the name of a text without any character but blanks
    MaxList,        \* bound: the length of a list of claims in a call
    MaxEvents       \* bound: kinds of events that happen to one presentation

ASSUME ClaimsAreNamed ==
    /\ University \in Claim
    /\ Optional \subseteq Claim \ {University}
    /\ Blank \notin Claim
ASSUME BoundsAreNaturals == MaxList \in Nat /\ MaxEvents \in Nat

VARIABLES
    job,            \* Job.requiredClaims, {} before the job exists
    subject,        \* the claims in the credentialSubject, fixed when it was issued
    schema,         \* CredentialSchema.schemaJson.requiredClaims, fixed
    request,        \* VerificationRequest: status, requestedClaims, has expiresAt passed
    session,        \* whether Redis has the verification session
    presentation,   \* the Presentation row
    credential,     \* Credential.status, and whether expiresAt has passed
    trust,          \* TrustedIssuer.status
    keyStatus,      \* of the keys that signed the presentation and the credential
    readable,       \* whether the encryption key of the wallet entry is configured
    application,    \* Application.educationVerificationStatus
    result,         \* the VerificationResult row
    data,           \* Application.verifiedAcademicData, and the request it is of
    call,           \* what verifyPresentation is doing
    events          \* history: kinds of events that happened

claims == <<job, subject, schema, request, presentation>>
outcome == <<application, result, data>>
surroundings == <<session, credential, trust, keyStatus, readable, events>>
vars == <<claims, outcome, surroundings, call>>

Value == {"issued", "altered"}
Disclosure == UNION {[names -> Value] : names \in SUBSET Claim}
PresentationRow == [approved : SUBSET Claim, disclosed : Disclosure, hash : Disclosure,
                    signed : Disclosure]
CredentialStatus == {"ACTIVE", "SUSPENDED", "REVOKED"}

\* A string of a request's body: a name, with or without blanks around it.
Text == [name : Claim \cup {Blank}, padded : BOOLEAN]
Trimmed(text) == [name |-> text.name, padded |-> FALSE]
Name(text) == text.name

NoRequest == [status |-> "NONE", claims |-> {}, allowed |-> {}, overdue |-> FALSE]
Nothing == [c \in {} |-> "issued"]
NoPresentation == [approved |-> {}, disclosed |-> Nothing, hash |-> Nothing, signed |-> Nothing]
NoResult == [final |-> "NONE", reason |-> "", flags |-> AllValid, stage |-> 0]
NoData == [of |-> "none", approved |-> {}, disclosed |-> Nothing]
OtherData == [NoData EXCEPT !.of = "other"]

ProgramCounter == {"idle", "expire", "dropExpired", "session", "existing", "context",
                   "sessionAgain", "holder", "wallet", "issuer", "trust", "claims", "latest",
                   "commitVerified", "commitFailed", "drop"}

\* "doomed" is history: what the call found when it began could not be repaired any more.
Idle(code) == [pc |-> "idle", doomed |-> FALSE, seen |-> NoPresentation, status |-> "ACTIVE",
               stage |-> 0, reason |-> "", code |-> code]

\* The messages of the exceptions that verifyPresentation turns into a failure; of those
\* that end with the name of a claim, what comes before it.
Reason == {"",
    "Verification session not found or expired",
    "Holder verification method does not match holder DID",
    "Presentation hash is invalid",
    "Holder proof is invalid",
    "Issuer verification method does not match issuer DID",
    "Credential issuer is not trusted",
    "Credential has been revoked",
    "Credential has been suspended",
    "Credential has expired",
    "Missing required credential claims: ",
    "No claims were disclosed",
    "Disclosed claim was not requested: ",
    "Credential does not contain disclosed claim: ",
    "Disclosed claim does not match credential: "}

Event == {"suspended", "revoked", "expired", "untrusted", "sessionLost", "unreadable",
          "holderKeyRevoked", "issuerKeyRevoked", "rotated", "altered", "alteredAndSigned",
          "jobEdited", "overdue", "otherDecided"}

-----------------------------------------------------------------------------
(* The rules for lists of claims, and the claims of a credential. *)

\* What validateRequiredClaims, validateRequestedClaims and validateApprovedClaims share:
\* some text, none of it blank, no name twice.
WellFormed(list) ==
    /\ list # <<>>
    /\ \A i \in DOMAIN list : Name(list[i]) # Blank
    /\ \A i, j \in DOMAIN list : Name(list[i]) = Name(list[j]) => i = j

Texts(list) == {list[i] : i \in DOMAIN list}

\* The trimmed texts are looked up among the stored ones, which are not trimmed.
Among(list, stored) == {Trimmed(text) : text \in Texts(list)} \subseteq stored

\* credentialSubject, and the issuer's name for the university.
CredentialClaims == subject \cup {University}

\* CredentialSchemasService.validateClaims
Missing(required, present) == required \ present

\* What CredentialIssuanceService.prepare may have issued: every claim but the optional
\* ones, with the schema's among them.
Issuable(required, names) ==
    /\ required # {}
    /\ Claim \ (Optional \cup {University}) \subseteq names
    /\ Missing(required, names \cup {University}) = {}

-----------------------------------------------------------------------------
\* The codes of the answers, from their status and wording.
Consumed == ErrorCode(409, "Verification request has already been consumed")
NoSession == ErrorCode(400, "Verification session not found or expired")
NotApproved == ErrorCode(409, "Verification request is not approved")
NoLongerApproved == ErrorCode(409, "Verification request is no longer approved")
AlreadyVerified == ErrorCode(409, "Presentation has already been verified")
StateChanged == ErrorCode(409, "Application verification state has changed")
Overdue == ErrorCode(400, "Verification request has expired")
Failed == ErrorCode(Unprocessable.status, Unprocessable.message)
Broken == ErrorCode(ServerError.status, ServerError.message)
Refused == [reason \in Reason |-> ErrorCode(400, reason)]
Code == {"NONE", "OK", Consumed, NotApproved, NoLongerApproved, AlreadyVerified, StateChanged,
         Overdue, NoSession, Failed, Broken} \cup {Refused[reason] : reason \in Reason}

\* The codes of a check's exception that goes to the bank as it is.
CodeOfCheck == {"CREDENTIAL_REVOKED", "CREDENTIAL_SUSPENDED", "CREDENTIAL_EXPIRED",
                "ISSUER_NOT_TRUSTED"}

\* What FailureReport.tla makes of these words.  The two formulas name no constant: TLC
\* computes them, string by string, and the proofs, which cannot look into a string, take
\* the result from here.
ASSUME BlameOfWords ==
    /\ \A reason \in {"Holder verification method does not match holder DID",
                       "Presentation hash is invalid", "Holder proof is invalid"} :
           Blamed(reason) = HolderProof
    /\ Blamed("Issuer verification method does not match issuer DID") = IssuerProof
    /\ Blamed("Credential issuer is not trusted") = IssuerTrust
    /\ \A reason \in {"Credential has been revoked", "Credential has been suspended",
                       "Credential has expired"} :
           Blamed(reason) = StatusAndExpiry
    /\ \A reason \in {"Missing required credential claims: ", "No claims were disclosed",
                       "Disclosed claim was not requested: ",
                       "Credential does not contain disclosed claim: ",
                       "Disclosed claim does not match credential: "} :
           Blamed(reason) = Claims
ASSUME CodeOfWords ==
    /\ {Consumed, NotApproved, NoLongerApproved, AlreadyVerified, StateChanged} = {"CONFLICT"}
    /\ Overdue = "VERIFICATION_REQUEST_EXPIRED"
    /\ \A reason \in Reason : Refused[reason] \in CodeOfCheck \cup {"VALIDATION_ERROR"}
    /\ NoSession = "VALIDATION_ERROR"
    /\ Failed = "BUSINESS_RULE_VIOLATION"
    /\ Broken = "INTERNAL_SERVER_ERROR"

RequestRow == [status : {"NONE", "PENDING", "APPROVED", "VERIFIED", "FAILED", "EXPIRED"},
               claims : SUBSET Text, allowed : SUBSET (Claim \cup {Blank}), overdue : BOOLEAN]
ApplicationStatus == {"NOT_VERIFIED", "PENDING", "VERIFIED", "FAILED"}
DataColumn == [of : {"none", "this", "other"}, approved : SUBSET Claim, disclosed : Disclosure]
ResultRow == [final : {"NONE", "VERIFIED", "FAILED"}, reason : Reason, flags : FlagColumns,
              stage : 0..Claims]
CallState == [pc : ProgramCounter, doomed : BOOLEAN, seen : PresentationRow,
              status : CredentialStatus, stage : 0..Claims, reason : Reason, code : Code]

TypeOK ==
    /\ job \subseteq Text
    /\ subject \subseteq Claim \ {University}
    /\ schema \subseteq Claim
    /\ request \in RequestRow
    /\ session \in BOOLEAN
    /\ presentation \in PresentationRow
    /\ credential \in [status : CredentialStatus, expired : BOOLEAN]
    /\ trust \in {"NONE", "TRUSTED", "SUSPENDED"}
    /\ keyStatus \in [{"holder", "issuer"} -> {"ACTIVE", "RETIRED", "REVOKED"}]
    /\ readable \in BOOLEAN
    /\ result \in ResultRow
    /\ application \in ApplicationStatus
    /\ data \in DataColumn
    /\ call \in CallState
    /\ events \subseteq Event

Init ==
    /\ job = {}
    /\ subject \in SUBSET (Claim \ {University})
    /\ schema \in SUBSET Claim
    /\ Issuable(schema, subject)
    /\ request = NoRequest
    /\ session = FALSE
    /\ presentation = NoPresentation
    /\ credential = [status |-> "ACTIVE", expired |-> FALSE]
    /\ trust \in {"NONE", "TRUSTED"}
    /\ keyStatus = [key \in {"holder", "issuer"} |-> "ACTIVE"]
    /\ readable = TRUE
    /\ application = "NOT_VERIFIED"
    /\ result = NoResult
    /\ data = NoData
    /\ call = Idle("NONE")
    /\ events = IF trust = "NONE" THEN {"untrusted"} ELSE {}

-----------------------------------------------------------------------------
Happens(kind) ==
    /\ events' = events \cup {kind}
    /\ Cardinality(events') <= MaxEvents

(* The bank and the holder. *)

\* JobsService.create and update: the texts are stored as they came.  Bound: one update
\* after the request, to a single text.
SaveJob(list) ==
    /\ request # NoRequest => "jobEdited" \notin events /\ Len(list) = 1
    /\ WellFormed(list)
    /\ job' = Texts(list)
    /\ IF request = NoRequest THEN UNCHANGED events ELSE Happens("jobEdited")
    /\ UNCHANGED <<subject, schema, request, presentation, outcome, call>>
    /\ UNCHANGED <<session, credential, trust, keyStatus, readable>>

\* VerificationRequestsService.create
RequestClaims(list) ==
    /\ request.status = "NONE"
    /\ WellFormed(list)
    /\ Among(list, job)
    /\ request' = [status |-> "PENDING", claims |-> Texts(list),
                   allowed |-> {Name(text) : text \in job}, overdue |-> FALSE]
    /\ application' = "PENDING"
    /\ session' = TRUE
    /\ UNCHANGED <<job, subject, schema, presentation, result, data, call>>
    /\ UNCHANGED <<credential, trust, keyStatus, readable, events>>

\* extractDisclosedClaims finds every claim.
Contained(names) == names \subseteq CredentialClaims

\* approve and approveClient, whose checks of claims and credential are the same.
Approve(list) ==
    LET names == {Name(text) : text \in Texts(list)}
        disclosed == [c \in names |-> "issued"]
    IN
    /\ request.status = "PENDING"
    /\ session
    /\ readable
    /\ WellFormed(list)
    /\ Among(list, request.claims)
    /\ Contained(names)
    /\ request' = [request EXCEPT !.status = "APPROVED"]
    /\ presentation' = [approved |-> names, disclosed |-> disclosed,
                        hash |-> disclosed, signed |-> disclosed]
    /\ UNCHANGED <<job, subject, schema, outcome, surroundings, call>>

-----------------------------------------------------------------------------
(* verifyPresentation *)

At(pc) == call.pc = pc
Goto(pc) == call' = [call EXCEPT !.pc = pc]
Answer(code) == call' = Idle(code)

\* A store has done what it was asked for; that it has may not be learned.
Acknowledged(next) == call' = next \/ Answer(Broken)

\* A check throws: its stage (0 for the request's context) and the reason it gives.
Fail(stage, reason) ==
    call' = [call EXCEPT !.pc = "latest", !.stage = stage, !.reason = reason]

\* Checks made one after the other without an await in between; the first to fail throws.
Check(stage, holds, reason) == [stage |-> stage, holds |-> holds, reason |-> reason]
Make(checks, next) ==
    \/ (\A i \in DOMAIN checks : checks[i].holds) /\ Goto(next)
    \/ \E i \in DOMAIN checks :
          /\ ~checks[i].holds /\ \A j \in 1..(i - 1) : checks[j].holds
          /\ Fail(checks[i].stage, checks[i].reason)

\* What no later step takes back: a key or the credential revoked, the credential expired,
\* its issuer suspended.
Doomed ==
    \/ \E key \in DOMAIN keyStatus : keyStatus[key] = "REVOKED"
    \/ credential.status = "REVOKED" \/ credential.expired
    \/ trust = "SUSPENDED"

Begins == [Idle("NONE") EXCEPT !.pc = "session", !.doomed = Doomed]
Expiring == [Idle("NONE") EXCEPT !.pc = "expire"]

\* What both passes make of the request they have read.
Context(open) ==
    /\ presentation # NoPresentation
    /\ \/ request.status \in {"VERIFIED", "FAILED"} /\ Answer(Consumed)
       \/ request.status = "EXPIRED" /\ Answer(NotApproved)
       \/ request.status = "APPROVED" /\ request.overdue /\ call' = Expiring
       \/ request.status = "APPROVED" /\ ~request.overdue /\ call' = open
    /\ UNCHANGED <<claims, outcome, surroundings>>

\* validateRequestContextForBank reads the presentation and its request.
Begin == At("idle") /\ Context(Begins)

\* Another call may have expired the request meanwhile.
ExpireRequest ==
    /\ At("expire")
    /\ IF request.status = "APPROVED"
       THEN /\ request' = [request EXCEPT !.status = "EXPIRED"]
            /\ Acknowledged([call EXCEPT !.pc = "dropExpired"])
       ELSE Answer(NoLongerApproved) /\ UNCHANGED request
    /\ UNCHANGED <<job, subject, schema, presentation, outcome, surroundings>>

\* In the second pass this goes through the catch clause, which finds the request expired.
DropExpired ==
    /\ At("dropExpired")
    /\ session' = FALSE
    /\ Acknowledged(Idle(Overdue))
    /\ UNCHANGED <<claims, outcome, credential, trust, keyStatus, readable, events>>

\* Without a session the first pass ends the call.
FirstSession ==
    /\ At("session")
    /\ IF session THEN Goto("existing") ELSE Answer(NoSession)
    /\ UNCHANGED <<claims, outcome, surroundings>>

FindExisting ==
    /\ At("existing")
    /\ IF result = NoResult THEN Goto("context") ELSE Answer(AlreadyVerified)
    /\ UNCHANGED <<claims, outcome, surroundings>>

\* The second pass reads the presentation again, with the credential, and keeps both.
ReadContext ==
    /\ At("context")
    /\ Context([call EXCEPT !.pc = "sessionAgain", !.seen = presentation,
                            !.status = credential.status])

SecondSession ==
    /\ At("sessionAgain")
    /\ IF session THEN Goto("holder")
       ELSE Fail(0, "Verification session not found or expired")
    /\ UNCHANGED <<claims, outcome, surroundings>>

\* Mutant: the status of a key is not looked at.
VerifiesAlways(key) == key \in DOMAIN keyStatus

\* Mutant: only the current key verifies, not one that a rotation has retired.
VerifiesIfActive(key) == keyStatus[key] = "ACTIVE"

\* resolveVerificationMethod: a retired key still verifies.
Verifies(key) == keyStatus[key] # "REVOKED"

\* The key in the holder's proof is resolved; then come the hash and the proof.
CheckHolder ==
    /\ At("holder")
    /\ Make(<<Check(HolderProof, Verifies("holder"),
                    "Holder verification method does not match holder DID"),
              Check(HolderProof, call.seen.hash = call.seen.disclosed,
                    "Presentation hash is invalid"),
              Check(HolderProof, call.seen.signed = call.seen.disclosed,
                    "Holder proof is invalid")>>, "wallet")
    /\ UNCHANGED <<claims, outcome, surroundings>>

\* decryptForWallet throws an error that is no HttpException, and verifyPresentation
\* passes it on: nothing is recorded.
ReadWallet ==
    /\ At("wallet")
    /\ IF readable THEN Goto("issuer") ELSE Answer(Broken)
    /\ UNCHANGED <<claims, outcome, surroundings>>

CheckIssuer ==
    /\ At("issuer")
    /\ Make(<<Check(IssuerProof, Verifies("issuer"),
                    "Issuer verification method does not match issuer DID")>>, "trust")
    /\ UNCHANGED <<claims, outcome, surroundings>>

\* isTrusted is awaited, the status was read with the presentation, expiry is a matter of now.
CheckTrust ==
    /\ At("trust")
    /\ Make(<<Check(IssuerTrust, trust = "TRUSTED", "Credential issuer is not trusted"),
              Check(StatusAndExpiry, call.status # "REVOKED", "Credential has been revoked"),
              Check(StatusAndExpiry, call.status # "SUSPENDED", "Credential has been suspended"),
              Check(StatusAndExpiry, ~credential.expired, "Credential has expired")>>, "claims")
    /\ UNCHANGED <<claims, outcome, surroundings>>

\* Why a disclosed claim is refused, if it is: the first of three tests it fails.
Refusals(c) ==
    IF [name |-> c, padded |-> FALSE] \notin request.claims
    THEN {"Disclosed claim was not requested: "}
    ELSE IF c \notin CredentialClaims THEN {"Credential does not contain disclosed claim: "}
    ELSE IF call.seen.disclosed[c] # "issued" THEN {"Disclosed claim does not match credential: "}
    ELSE {}

\* The schema's claims, then the disclosed ones in any order.
CheckClaims ==
    /\ At("claims")
    /\ LET disclosed == DOMAIN call.seen.disclosed
           refusals == UNION {Refusals(c) : c \in disclosed} IN
       \/ /\ Missing(schema, CredentialClaims) # {}
          /\ Fail(Claims, "Missing required credential claims: ")
       \/ /\ Missing(schema, CredentialClaims) = {} /\ disclosed = {}
          /\ Fail(Claims, "No claims were disclosed")
       \/ /\ Missing(schema, CredentialClaims) = {}
          /\ \E reason \in refusals : Fail(Claims, reason)
       \/ /\ Missing(schema, CredentialClaims) = {} /\ disclosed # {} /\ refusals = {}
          /\ Goto("commitVerified")
    /\ UNCHANGED <<claims, outcome, surroundings>>

\* The catch clause records a failure, unless the request has expired meanwhile: then the
\* exception of the check goes to the bank.
ReadLatest ==
    /\ At("latest")
    /\ IF request.status = "EXPIRED" THEN Answer(Refused[call.reason]) ELSE Goto("commitFailed")
    /\ UNCHANGED <<claims, outcome, surroundings>>

\* Both transactions: an update that matches no row rolls all of it back.
Decide(verdict, row, column) ==
    /\ \/ request.status # "APPROVED" /\ Answer(NoLongerApproved) /\ UNCHANGED <<request, outcome>>
       \/ /\ request.status = "APPROVED" /\ application # "PENDING"
          /\ Answer(StateChanged) /\ UNCHANGED <<request, outcome>>
       \/ /\ request.status = "APPROVED" /\ application = "PENDING"
          /\ request' = [request EXCEPT !.status = verdict]
          /\ application' = verdict
          /\ result' = row
          /\ data' = column
          /\ Acknowledged([call EXCEPT !.pc = "drop"])
    /\ UNCHANGED <<job, subject, schema, presentation, surroundings>>

\* Mutant: the row is read again for what goes into the application.
DeliversRowAsItIs ==
    [of |-> "this", approved |-> presentation.approved, disclosed |-> presentation.disclosed]

\* The disclosed claims of the presentation that was checked.
Delivers == [of |-> "this", approved |-> call.seen.approved, disclosed |-> call.seen.disclosed]

CommitVerified ==
    /\ At("commitVerified")
    /\ Decide("VERIFIED", [NoResult EXCEPT !.final = "VERIFIED"], Delivers)

\* The flags of every failure, worked out once.
FlagsOf == [reason \in Reason |-> Flags(reason)]

CommitFailed ==
    /\ At("commitFailed")
    /\ Decide("FAILED", [final |-> "FAILED", reason |-> call.reason,
                         flags |-> FlagsOf[call.reason], stage |-> call.stage], NoData)

\* Mutant: a failure is answered like a success, with verified = FALSE.
DropAnswersOK ==
    /\ At("drop")
    /\ session' = FALSE
    /\ Acknowledged(Idle("OK"))
    /\ UNCHANGED <<claims, outcome, credential, trust, keyStatus, readable, events>>

\* The session goes; then the call answers.
Drop ==
    /\ At("drop")
    /\ session' = FALSE
    /\ Acknowledged(Idle(IF call.reason = "" THEN "OK" ELSE Failed))
    /\ UNCHANGED <<claims, outcome, credential, trust, keyStatus, readable, events>>

\* PostgreSQL or Redis throws without effect, in whatever step: no HttpException, so that the
\* filter answers 500.
StoreFails ==
    /\ presentation # NoPresentation
    /\ Answer(Broken)
    /\ UNCHANGED <<claims, outcome, surroundings>>

\* The process dies: no answer.
Crash ==
    /\ ~At("idle")
    /\ Answer("NONE")
    /\ UNCHANGED <<claims, outcome, surroundings>>

Verify ==
    \/ Begin \/ ExpireRequest \/ DropExpired \/ FirstSession \/ FindExisting \/ ReadContext
    \/ SecondSession \/ CheckHolder \/ ReadWallet \/ CheckIssuer \/ CheckTrust \/ CheckClaims
    \/ ReadLatest \/ CommitVerified \/ CommitFailed \/ Drop \/ StoreFails \/ Crash

-----------------------------------------------------------------------------
(* What happens meanwhile. *)

\* suspend, reactivate and revoke of CredentialStatusService, and the passing of expiresAt.
ChangeStatus(from, to) ==
    /\ credential.status \in from
    /\ credential' = [credential EXCEPT !.status = to]
    /\ UNCHANGED <<claims, outcome, call, session, trust, keyStatus, readable>>

Suspend == ChangeStatus({"ACTIVE"}, "SUSPENDED") /\ Happens("suspended")
Reactivate == ~credential.expired /\ ChangeStatus({"SUSPENDED"}, "ACTIVE") /\ UNCHANGED events
Revoke == ChangeStatus({"ACTIVE", "SUSPENDED"}, "REVOKED") /\ Happens("revoked")

Expire ==
    /\ credential' = [credential EXCEPT !.expired = TRUE]
    /\ Happens("expired")
    /\ UNCHANGED <<claims, outcome, call, session, trust, keyStatus, readable>>

\* create and suspend of TrustRegistryService.
ChangeTrust ==
    /\ \/ trust = "NONE" /\ trust' = "TRUSTED" /\ UNCHANGED events
       \/ trust = "TRUSTED" /\ trust' = "SUSPENDED" /\ Happens("untrusted")
    /\ UNCHANGED <<claims, outcome, call, session, credential, keyStatus, readable>>

\* DidService: a rotation retires the key that signed, a recovery or a later revocation
\* revokes it (DidKeys.tla).
ChangeKey(key, from, to) ==
    /\ key = "holder" => presentation # NoPresentation
    /\ keyStatus[key] \in from
    /\ keyStatus' = [keyStatus EXCEPT ![key] = to]
    /\ UNCHANGED <<claims, outcome, call, session, credential, trust, readable>>

Rotate(key) == ChangeKey(key, {"ACTIVE"}, "RETIRED") /\ Happens("rotated")
RevokeKey(key) ==
    /\ ChangeKey(key, {"ACTIVE", "RETIRED"}, "REVOKED")
    /\ Happens(IF key = "holder" THEN "holderKeyRevoked" ELSE "issuerKeyRevoked")

\* Redis restarts empty or evicts the session; it drops it at its TTL, which ends with the
\* deadline, and another call that expires the request deletes it.
LoseSession ==
    /\ session
    /\ session' = FALSE
    /\ IF request.overdue THEN UNCHANGED events ELSE Happens("sessionLost")
    /\ UNCHANGED <<claims, outcome, call, credential, trust, keyStatus, readable>>

\* A deployment leaves out the encryption key of the entry, and another one restores it.
Redeploy ==
    /\ readable' = ~readable
    /\ IF readable THEN Happens("unreadable") ELSE UNCHANGED events
    /\ UNCHANGED <<claims, outcome, call, session, credential, trust, keyStatus>>

\* Somebody rewrites a disclosed claim in the database, as the end-to-end test does, adds one
\* or takes one away; in the second case with a hash and a proof made anew with the holder's
\* key.  Bound: each case happens once.
Entry(disclosed, c) == IF c \in DOMAIN disclosed THEN disclosed[c] ELSE "none"

Alter(c, disclosed, signed) ==
    LET kind == IF signed THEN "alteredAndSigned" ELSE "altered" IN
    /\ request.status = "APPROVED"
    /\ kind \notin events
    /\ \A name \in Claim :
          Entry(disclosed, name) = Entry(presentation.disclosed, name) <=> name # c
    /\ presentation' = IF signed
                       THEN [presentation EXCEPT !.disclosed = disclosed, !.hash = disclosed,
                                                 !.signed = disclosed]
                       ELSE [presentation EXCEPT !.disclosed = disclosed]
    /\ Happens(kind)
    /\ UNCHANGED <<job, subject, schema, request, outcome, call>>
    /\ UNCHANGED <<session, credential, trust, keyStatus, readable>>

\* expiresAt of the approved request passes (before the approval: VerificationRequests.tla).
PassDeadline ==
    /\ request.status = "APPROVED"
    /\ request' = [request EXCEPT !.overdue = TRUE]
    /\ Happens("overdue")
    /\ UNCHANGED <<job, subject, schema, presentation, outcome, call>>
    /\ UNCHANGED <<session, credential, trust, keyStatus, readable>>

\* Another call of validateRequestContext finds the request overdue.
ExpireElsewhere ==
    /\ request.status = "APPROVED" /\ request.overdue
    /\ request' = [request EXCEPT !.status = "EXPIRED"]
    /\ UNCHANGED <<job, subject, schema, presentation, outcome, surroundings, call>>

\* Another request of the application, as long as this one is open: it is decided, and the
\* application may be opened again for a third.
DecideOther(verdict) ==
    /\ request.status = "APPROVED"
    /\ application = "PENDING"
    /\ application' = verdict
    /\ data' = IF verdict = "VERIFIED" THEN OtherData ELSE NoData
    /\ Happens("otherDecided")
    /\ UNCHANGED <<claims, result, call, session, credential, trust, keyStatus, readable>>

OpenOther ==
    /\ request.status = "APPROVED"
    /\ application # "PENDING"
    /\ application' = "PENDING"
    /\ UNCHANGED <<claims, result, data, call, surroundings>>

Surroundings ==
    \/ Suspend \/ Reactivate \/ Revoke \/ Expire \/ ChangeTrust
    \/ \E key \in {"holder", "issuer"} : Rotate(key) \/ RevokeKey(key)
    \/ LoseSession \/ Redeploy
    \/ \E c \in Claim, disclosed \in Disclosure, signed \in BOOLEAN :
          Alter(c, disclosed, signed)
    \/ PassDeadline \/ ExpireElsewhere
    \/ \E verdict \in {"VERIFIED", "FAILED"} : DecideOther(verdict)
    \/ OpenOther

Lists == BoundedSeq(Text, MaxList)

Next ==
    \/ \E list \in Lists : SaveJob(list) \/ RequestClaims(list) \/ Approve(list)
    \/ Verify
    \/ Surroundings

Spec == Init /\ [][Next]_vars

-----------------------------------------------------------------------------
(* Properties *)

StageOf == [holderProofValid |-> HolderProof, hashValid |-> CredentialHash,
            issuerSignatureValid |-> IssuerProof, issuerTrusted |-> IssuerTrust,
            credentialStatusValid |-> StatusAndExpiry, schemaValid |-> SchemaAndIssuer,
            claimsValid |-> Claims]

\* The flags stored with a failed verification tell which check failed: those of the checks
\* that had passed are TRUE, its own and those of the checks not reached are FALSE, although
\* they are guessed from the wording of the reason.  For a session that vanished between the
\* two passes they are wrong: "expired" is taken for the credential's expiry, so proofs and
\* trust that nobody looked at are stored as valid.
BlameIsRight ==
    result.final = "FAILED" /\ result.stage # 0 =>
        \A flag \in DOMAIN StageOf : result.flags[flag] = (StageOf[flag] < result.stage)

\* The event that each reason for a failure names.
Cause == {
    <<"Verification session not found or expired", "sessionLost">>,
    <<"Verification session not found or expired", "overdue">>,
    <<"Holder verification method does not match holder DID", "holderKeyRevoked">>,
    <<"Presentation hash is invalid", "altered">>,
    <<"Issuer verification method does not match issuer DID", "issuerKeyRevoked">>,
    <<"Credential issuer is not trusted", "untrusted">>,
    <<"Credential has been revoked", "revoked">>,
    <<"Credential has been suspended", "suspended">>,
    <<"Credential has expired", "expired">>,
    <<"No claims were disclosed", "alteredAndSigned">>,
    <<"Disclosed claim was not requested: ", "alteredAndSigned">>,
    <<"Credential does not contain disclosed claim: ", "alteredAndSigned">>,
    <<"Disclosed claim does not match credential: ", "alteredAndSigned">> }

\* Nothing fails that was presented in good faith: a failure is recorded only when something
\* happened that its reason names.  A rotation of either key, an edit of the job, blanks
\* around a claim, a claim the credential is without or a schema with optional claims never
\* make a verification fail.
FailureHasCause ==
    result.final = "FAILED" => \E event \in events : <<result.reason, event>> \in Cause

\* What the bank receives of this request is what all parties agreed to: claims requested by
\* the bank and required by the job when it asked, each with the issuer's value, whatever is
\* rewritten while the checks run.  They are exactly the claims the holder approved, unless
\* the row was rewritten and signed anew with the holder's key: no check compares the names
\* disclosed with approvedClaims, the holder's proof alone vouches for them.
DeliveredAsAgreed ==
    data.of = "this" =>
        LET names == DOMAIN data.disclosed IN
        /\ names = data.approved \/ "alteredAndSigned" \in events
        /\ names # {}
        /\ names \subseteq {Name(text) : text \in request.claims}
        /\ {Name(text) : text \in request.claims} \subseteq request.allowed
        /\ \A c \in names : c \in CredentialClaims /\ data.disclosed[c] = "issued"

\* A revocation counts: a call that begins after a key or the credential was revoked, the
\* credential has expired or its issuer was suspended does not end in a success, although
\* each of these is read at a time of its own, some in the second pass only, and acted on
\* after further awaits.
SuccessWasDue ==
    [][result'.final = "VERIFIED" => result.final = "VERIFIED" \/ ~call.doomed]_result

\* The code of the answer tells the bank what has become of the request:
\* decided as it says; CONFLICT: decided before, expired, or its application is not open, so
\* that to repeat the call is no use now; expired, also when the code is that of a check of
\* the credential; VALIDATION_ERROR: without a verdict.  Only INTERNAL_SERVER_ERROR and
\* silence tell nothing: a store may have thrown before the decision or after it, also when
\* the session is deleted.
CodeTellsVerdict ==
    [][call'.pc = "idle" =>
        /\ call'.code = "OK" => result'.final = "VERIFIED"
        /\ call'.code = "BUSINESS_RULE_VIOLATION" => result'.final = "FAILED"
        /\ call'.code = "CONFLICT" =>
              \/ result'.final # "NONE" \/ request'.status = "EXPIRED"
              \/ application' # "PENDING"
        /\ call'.code \in CodeOfCheck \cup {"VERIFICATION_REQUEST_EXPIRED"} =>
              request'.status = "EXPIRED" /\ result'.final = "NONE"
        /\ call'.code = "VALIDATION_ERROR" => result'.final = "NONE"
      ]_call
=============================================================================
