------------------------ MODULE VerificationRequests ------------------------
(***************************************************************************)
(* The verification workflow as the service runs it: create, approve,      *)
(* prepareClientApproval, approveClient and reject of                      *)
(* VerificationRequestsService, verifyPresentation of VerificationService  *)
(* and the expiry sweep of WalletService, against PostgreSQL (one column   *)
(* or row per variable) and Redis (the verification sessions).             *)
(*                                                                         *)
(* A handler is a process (a Server) that runs one call at a time; every   *)
(* await is the end of a step, so handlers of all instances interleave     *)
(* there.  A transaction that begins with its compare-and-set update holds *)
(* the row's lock until it commits and is one step.  All calls considered  *)
(* are by the owner of the request or job: for anybody else the first read *)
(* finds nothing and the call ends there with 404.  All requests are to    *)
(* one holder, whose wallet the sweep expires.  A session is written       *)
(* once under a random id, from the columns of the request it belongs to,  *)
(* so comparing its holder, application, bank, nonce and claims with them  *)
(* always succeeds: what matters is whether it is there.                   *)
(***************************************************************************)
EXTENDS Naturals, FiniteSets

CONSTANTS
    Request, Application, Credential, NoRequest, NoApplication, NoCredential,
                \* as in RequestLifecycle.tla
    Server,     \* request handlers running at the same time, on any instance
    TTL,        \* ttlSeconds, the life of a request and of its session
    MaxTime,    \* bound: the clock stops here, and no request's deadline is later
    Faults      \* which of "crash", "database" and "redis" can happen

ASSUME NullsAreNotValues ==
    /\ NoRequest \notin Request
    /\ NoApplication \notin Application
    /\ NoCredential \notin Credential

ASSUME TimesAreNaturals == TTL \in Nat \ {0} /\ MaxTime \in Nat

VARIABLES
    reqStatus, reqApp, presentation, result, appStatus, appData,
                    \* the columns RequestLifecycle.tla describes
    reqExpires,     \* VerificationRequest.expiresAt
    session,        \* the time at which Redis drops the key; 0 when there is no key
    credStatus,     \* Credential.status (EXPIRED is never written)
    issuerTrust,    \* TrustedIssuer.status of the credential's issuer, or NONE
    now,
    issued,         \* request ids drawn by randomUUID so far
    handler,        \* what each handler is doing: program counter and locals
    lost            \* history: requests whose session a fault removed

tables == <<reqStatus, reqApp, presentation, result, appStatus, appData>>
stores == <<tables, reqExpires, session, credStatus, issuerTrust, now, issued, lost>>
vars == <<stores, handler>>

\* The abstract specification, over the columns of the database; sessions, clocks, locals
\* and whatever a handler has read are no part of it.
Lifecycle == INSTANCE RequestLifecycle WITH
    reqStatus <- reqStatus, reqApp <- reqApp, presentation <- presentation,
    result <- result, appStatus <- appStatus, appData <- appData

CredentialStatus == {"ACTIVE", "SUSPENDED", "REVOKED"}
TrustStatus == {"NONE", "TRUSTED", "SUSPENDED"}

\* Between two awaits, by operation: create; approve, approveClient, prepareClientApproval and
\* reject; verifyPresentation.  The last one is common: redis.delete at the end of a call.
ProgramCounter ==
    {"idle", "writeSession", "insert",
     "readSession", "sign", "payload", "proof", "commitApproval", "commitRejection", "expire",
     "contextSession", "existingResult", "recheck", "recheckSession", "check",
     "latestStatus", "commitVerified", "commitFailed", "expireApproved",
     "dropSession"}

Operation == {"none", "create", "approve", "approveClient", "prepare", "reject", "verify"}

Idle == [pc |-> "idle", op |-> "none", req |-> NoRequest, app |-> NoApplication,
         expires |-> 0, cred |-> NoCredential, seen |-> "ACTIVE", sound |-> TRUE,
         cause |-> "none"]

HandlerState ==
    [pc : ProgramCounter,
     op : Operation,
     req : Request \cup {NoRequest},
     app : Application \cup {NoApplication},       \* create: the application read
     expires : Nat,                                \* create: expiresAt computed
     cred : Credential \cup {NoCredential},        \* approve: the credential disclosed
     seen : CredentialStatus,                      \* verify: status read with the presentation
     sound : BOOLEAN,                              \* history: nothing withdrawn or late at its start
     cause : {"none", "session", "checks"}]        \* verify: what the failure reason is about

TypeOK ==
    /\ Lifecycle!TypeOK
    /\ reqExpires \in [Request -> Nat]
    /\ session \in [Request -> Nat]
    /\ credStatus \in [Credential -> CredentialStatus]
    /\ issuerTrust \in [Credential -> TrustStatus]
    /\ now \in Nat
    /\ issued \subseteq Request
    /\ handler \in [Server -> HandlerState]
    /\ lost \subseteq Request

Init ==
    /\ Lifecycle!Init
    /\ reqExpires = [r \in Request |-> 0]
    /\ session = [r \in Request |-> 0]
    /\ credStatus = [c \in Credential |-> "ACTIVE"]
    /\ issuerTrust \in [Credential -> {"NONE", "TRUSTED"}]
    /\ now = 0
    /\ issued = {}
    /\ handler = [s \in Server |-> Idle]
    /\ lost = {}

-----------------------------------------------------------------------------
(* Helpers. *)

At(s, pc) == handler[s].pc = pc
Req(s) == handler[s].req

Goto(s, pc) == handler' = [handler EXCEPT ![s].pc = pc]
Return(s) == handler' = [handler EXCEPT ![s] = Idle]

SessionLive(r) == session[r] > now
IsExpired(r) == reqExpires[r] <= now

SetSession(r, until) == session' = [session EXCEPT ![r] = until]

SetStatus(r, status) == reqStatus' = [reqStatus EXCEPT ![r] = status]

-----------------------------------------------------------------------------
(* VerificationRequestsService.create *)

\* The application of the bank's job is read and the claims are validated; the id and the
\* deadline are fixed here, before the session is written.
StartCreate(s, r, a) ==
    /\ At(s, "idle")
    /\ now + TTL <= MaxTime
    /\ r \notin issued
    /\ issued' = issued \cup {r}
    /\ handler' = [handler EXCEPT ![s] = [Idle EXCEPT !.pc = "writeSession", !.op = "create",
                        !.req = r, !.app = a, !.expires = now + TTL]]
    /\ UNCHANGED <<tables, reqExpires, session, credStatus, issuerTrust, now, lost>>

WriteSession(s) ==
    /\ At(s, "writeSession")
    /\ SetSession(Req(s), now + TTL)
    /\ Goto(s, "insert")
    /\ UNCHANGED <<tables, reqExpires, credStatus, issuerTrust, now, issued, lost>>

\* What the transaction of create writes.
InsertRequest(r, a, expires) ==
    /\ reqStatus[r] = "ABSENT"
    /\ appStatus' = [appStatus EXCEPT ![a] = "PENDING"]
    /\ SetStatus(r, "PENDING")
    /\ reqApp' = [reqApp EXCEPT ![r] = a]
    /\ reqExpires' = [reqExpires EXCEPT ![r] = expires]
    /\ UNCHANGED <<presentation, result, appData>>

CreateCommits(s) ==
    /\ At(s, "insert")
    /\ InsertRequest(Req(s), handler[s].app, handler[s].expires)
    /\ Return(s)
    /\ UNCHANGED <<session, credStatus, issuerTrust, now, issued, lost>>

\* The transaction is rolled back: the catch clause deletes the session.
CreateRollsBack(s) ==
    /\ "database" \in Faults
    /\ At(s, "insert")
    /\ Goto(s, "dropSession")
    /\ UNCHANGED stores

\* It commits but the acknowledgement is lost: the same catch clause runs.
CreateUnacknowledged(s) ==
    /\ "database" \in Faults
    /\ At(s, "insert")
    /\ InsertRequest(Req(s), handler[s].app, handler[s].expires)
    /\ Goto(s, "dropSession")
    /\ lost' = lost \cup {Req(s)}
    /\ UNCHANGED <<session, credStatus, issuerTrust, now, issued>>

-----------------------------------------------------------------------------
(* approve, prepareClientApproval ("prepare"), approveClient and reject.   *)
(* The keys the proofs are made with are the subject of DidKeys.tla.       *)

\* The request is read and ensurePendingAndActive looks at what was read.
ReadPending(s, op, r) ==
    /\ At(s, "idle")
    /\ reqStatus[r] = "PENDING"
    /\ handler' = [handler EXCEPT ![s] = [Idle EXCEPT !.op = op, !.req = r,
                        !.pc = IF IsExpired(r) THEN "expire" ELSE "readSession"]]
    /\ UNCHANGED stores

ReadSession(s) ==
    /\ At(s, "readSession")
    /\ \/ ~SessionLive(Req(s)) /\ Goto(s, "expire")
       \/ SessionLive(Req(s)) /\ handler[s].op = "approve" /\ Goto(s, "sign")
       \/ SessionLive(Req(s)) /\ handler[s].op = "reject" /\ Goto(s, "commitRejection")
       \/ SessionLive(Req(s)) /\ handler[s].op \in {"prepare", "approveClient"} /\ Goto(s, "payload")
    /\ UNCHANGED stores

\* Mutant: the request's id is kept where the credential's belongs.
SignSwapsIds(s, c) ==
    /\ At(s, "sign")
    /\ handler' = [handler EXCEPT ![s].cred = Req(s), ![s].pc = "commitApproval"]
    /\ UNCHANGED stores

\* approve: the claims are among the requested ones, credential c is in the holder's wallet
\* and contains them, and the server signs with the holder's key.
Sign(s, c) ==
    /\ At(s, "sign")
    /\ handler' = [handler EXCEPT ![s].cred = c, ![s].pc = "commitApproval"]
    /\ UNCHANGED stores

\* prepareClientApproval, on its own or as the first half of approveClient: the same checks,
\* a key of the client's, and the payload to sign.
PreparePayload(s, c) ==
    /\ At(s, "payload")
    /\ IF handler[s].op = "prepare" THEN Return(s)
       ELSE handler' = [handler EXCEPT ![s].cred = c, ![s].pc = "proof"]
    /\ UNCHANGED stores

\* approveClient: the signature sent by the client verifies with the key resolved now.
CheckClientProof(s) ==
    /\ At(s, "proof")
    /\ Goto(s, "commitApproval")
    /\ UNCHANGED stores

\* Claims, wallet entry, key or signature are not in order: the call throws.
AnswerRefused(s) ==
    /\ handler[s].pc \in {"sign", "payload", "proof"}
    /\ Return(s)
    /\ UNCHANGED stores

\* Mutant: the update does not look at the status.
StillPendingIgnoresStatus(r) == ~IsExpired(r)

\* WHERE status = PENDING AND "expiresAt" > now, of the approving and rejecting updates.
StillPending(r) ==
    /\ reqStatus[r] = "PENDING"
    /\ ~IsExpired(r)

CommitApproval(s) ==
    /\ At(s, "commitApproval")
    /\ IF StillPending(Req(s)) /\ presentation[Req(s)] = NoCredential
       THEN /\ SetStatus(Req(s), "APPROVED")
            /\ presentation' = [presentation EXCEPT ![Req(s)] = handler[s].cred]
       ELSE UNCHANGED <<reqStatus, presentation>>
    /\ Return(s)
    /\ UNCHANGED <<reqApp, result, appStatus, appData>>
    /\ UNCHANGED <<reqExpires, session, credStatus, issuerTrust, now, issued, lost>>

\* Mutant: the session is deleted whether or not the update matched (a finally clause).
CommitRejectionAlwaysDrops(s) ==
    /\ At(s, "commitRejection")
    /\ IF StillPending(Req(s)) THEN SetStatus(Req(s), "REJECTED") ELSE UNCHANGED reqStatus
    /\ Goto(s, "dropSession")
    /\ UNCHANGED <<reqApp, presentation, result, appStatus, appData>>
    /\ UNCHANGED <<reqExpires, session, credStatus, issuerTrust, now, issued, lost>>

CommitRejection(s) ==
    /\ At(s, "commitRejection")
    /\ IF StillPending(Req(s))
       THEN SetStatus(Req(s), "REJECTED") /\ Goto(s, "dropSession")
       ELSE UNCHANGED reqStatus /\ Return(s)
    /\ UNCHANGED <<reqApp, presentation, result, appStatus, appData>>
    /\ UNCHANGED <<reqExpires, session, credStatus, issuerTrust, now, issued, lost>>

\* expireRequest: the session goes even if the update matched nothing.
ExpirePending(s) ==
    /\ At(s, "expire")
    /\ IF reqStatus[Req(s)] = "PENDING" THEN SetStatus(Req(s), "EXPIRED") ELSE UNCHANGED reqStatus
    /\ Goto(s, "dropSession")
    /\ UNCHANGED <<reqApp, presentation, result, appStatus, appData>>
    /\ UNCHANGED <<reqExpires, session, credStatus, issuerTrust, now, issued, lost>>

\* Mutant: the sweep takes every pending request.
OverdueIgnoresDeadline == {r \in Request : reqStatus[r] = "PENDING"}

\* WalletService.findPendingRequests(Paginated): one update of the holder's requests.
Overdue == {r \in Request : reqStatus[r] = "PENDING" /\ IsExpired(r)}

WalletSweep ==
    /\ Overdue # {}
    /\ reqStatus' = [r \in Request |-> IF r \in Overdue THEN "EXPIRED" ELSE reqStatus[r]]
    /\ UNCHANGED <<reqApp, presentation, result, appStatus, appData>>
    /\ UNCHANGED <<reqExpires, session, credStatus, issuerTrust, now, issued, lost, handler>>

\* The last await of create's catch clause, reject, expireRequest and verifyPresentation.
DropSession(s) ==
    /\ At(s, "dropSession")
    /\ SetSession(Req(s), 0)
    /\ Return(s)
    /\ UNCHANGED <<tables, reqExpires, credStatus, issuerTrust, now, issued, lost>>

-----------------------------------------------------------------------------
(* VerificationService.verifyPresentation *)

\* Mutant: the deadline is left to the session's TTL.
ContextStepIgnoresDeadline(r, readSession) == readSession

\* validateRequestContext up to its first write or Redis read; handler fields set by the caller.
ContextStep(r, readSession) == IF IsExpired(r) THEN "expireApproved" ELSE readSession

\* validateRequestContextForBank: the presentation with its request and credential.
ReadContext(s, r) ==
    /\ At(s, "idle")
    /\ presentation[r] # NoCredential
    /\ reqStatus[r] = "APPROVED"
    /\ handler' = [handler EXCEPT ![s] = [Idle EXCEPT !.op = "verify", !.req = r,
                        !.pc = ContextStep(r, "contextSession"),
                        !.sound = /\ credStatus[presentation[r]] # "REVOKED"
                                  /\ issuerTrust[presentation[r]] # "SUSPENDED"
                                  /\ ~IsExpired(r)]]
    /\ UNCHANGED stores

\* Without a session this first pass ends the call with 400 and changes nothing.
ContextSession(s) ==
    /\ At(s, "contextSession")
    /\ IF SessionLive(Req(s)) THEN Goto(s, "existingResult") ELSE Return(s)
    /\ UNCHANGED stores

ExistingResult(s) ==
    /\ At(s, "existingResult")
    /\ IF result[Req(s)] = "NONE" THEN Goto(s, "recheck") ELSE Return(s)
    /\ UNCHANGED stores

\* validateCredentialChecks begins with validateRequestContext again; the credential's
\* status is part of this read and is not read again.
Recheck(s) ==
    /\ At(s, "recheck")
    /\ IF reqStatus[Req(s)] = "APPROVED"
       THEN handler' = [handler EXCEPT ![s].pc = ContextStep(Req(s), "recheckSession"),
                                       ![s].seen = credStatus[presentation[Req(s)]]]
       ELSE Return(s)
    /\ UNCHANGED stores

\* Here a missing session is a failure of the verification.
RecheckSession(s) ==
    /\ At(s, "recheckSession")
    /\ IF SessionLive(Req(s)) THEN Goto(s, "check")
       ELSE handler' = [handler EXCEPT ![s].pc = "latestStatus", ![s].cause = "session"]
    /\ UNCHANGED stores

\* Mutant: the trust registry is not asked.
MayPassWithoutTrust(s) == handler[s].seen = "ACTIVE"

\* Proofs, hash, DIDs, schema and claims hold, the issuer is trusted, the status read is ACTIVE.
MayPass(s) ==
    /\ issuerTrust[presentation[Req(s)]] = "TRUSTED"
    /\ handler[s].seen = "ACTIVE"

ChecksPass(s) ==
    /\ At(s, "check")
    /\ MayPass(s)
    /\ Goto(s, "commitVerified")
    /\ UNCHANGED stores

ChecksFail(s) ==
    /\ At(s, "check")
    /\ handler' = [handler EXCEPT ![s].pc = "latestStatus", ![s].cause = "checks"]
    /\ UNCHANGED stores

LatestStatus(s) ==
    /\ At(s, "latestStatus")
    /\ IF reqStatus[Req(s)] = "EXPIRED" THEN Return(s) ELSE Goto(s, "commitFailed")
    /\ UNCHANGED stores

\* Mutants: the update of the request, or that of the application, does not look at the status.
MayDecideIgnoresRequest(r) ==
    /\ appStatus[reqApp[r]] = "PENDING"
    /\ result[r] = "NONE"

MayDecideIgnoresApplication(r) ==
    /\ reqStatus[r] = "APPROVED"
    /\ result[r] = "NONE"

\* The two compare-and-set updates and the unique result of either final transaction.
MayDecide(r) ==
    /\ reqStatus[r] = "APPROVED"
    /\ appStatus[reqApp[r]] = "PENDING"
    /\ result[r] = "NONE"

\* Mutant: the update has no condition on the application's id.
DataAfterAnyApplication(r, verdict) ==
    [a \in Application |-> IF appStatus[a] # "PENDING" THEN appData[a]
                           ELSE IF verdict = "VERIFIED" THEN r ELSE NoRequest]

\* What the decision leaves in verifiedAcademicData.
DataAfter(r, verdict) ==
    [appData EXCEPT ![reqApp[r]] = IF verdict = "VERIFIED" THEN r ELSE NoRequest]

\* Either final transaction; when it does not apply it is rolled back, with 409.
CommitDecision(s, pc, verdict) ==
    /\ At(s, pc)
    /\ LET r == Req(s) IN
       IF MayDecide(r)
       THEN /\ SetStatus(r, verdict)
            /\ result' = [result EXCEPT ![r] = verdict]
            /\ appStatus' = [appStatus EXCEPT ![reqApp[r]] = verdict]
            /\ appData' = DataAfter(r, verdict)
            /\ Goto(s, "dropSession")
       ELSE UNCHANGED <<reqStatus, result, appStatus, appData>> /\ Return(s)
    /\ UNCHANGED <<reqApp, presentation>>
    /\ UNCHANGED <<reqExpires, session, credStatus, issuerTrust, now, issued, lost>>

CommitVerified(s) == CommitDecision(s, "commitVerified", "VERIFIED")
CommitFailed(s) == CommitDecision(s, "commitFailed", "FAILED")

\* Mutant: a stale expiry overwrites whatever came first.
StillApprovedIgnoresStatus(r) == IsExpired(r)

\* WHERE status = APPROVED AND "expiresAt" <= now.
StillApproved(r) == reqStatus[r] = "APPROVED" /\ IsExpired(r)

\* The expiry found by either pass.  On the second one the failure handler then reads EXPIRED,
\* which is final, and rethrows, so both end after the session is deleted.
ExpireApproved(s) ==
    /\ At(s, "expireApproved")
    /\ IF StillApproved(Req(s))
       THEN SetStatus(Req(s), "EXPIRED") /\ Goto(s, "dropSession")
       ELSE UNCHANGED reqStatus /\ Return(s)
    /\ UNCHANGED <<reqApp, presentation, result, appStatus, appData>>
    /\ UNCHANGED <<reqExpires, session, credStatus, issuerTrust, now, issued, lost>>

-----------------------------------------------------------------------------
(* The surroundings: credential status, trust registry, clock and faults. *)

ChangeCredential(c, from, to) ==
    /\ credStatus[c] \in from
    /\ credStatus' = [credStatus EXCEPT ![c] = to]
    /\ UNCHANGED <<tables, reqExpires, session, issuerTrust, now, issued, lost, handler>>

\* suspend, reactivate and revoke of CredentialStatusService.
CredentialChanges(c) ==
    \/ ChangeCredential(c, {"ACTIVE"}, "SUSPENDED")
    \/ ChangeCredential(c, {"SUSPENDED"}, "ACTIVE")
    \/ ChangeCredential(c, {"ACTIVE", "SUSPENDED"}, "REVOKED")

ChangeTrust(c, from, to) ==
    /\ issuerTrust[c] = from
    /\ issuerTrust' = [issuerTrust EXCEPT ![c] = to]
    /\ UNCHANGED <<tables, reqExpires, session, credStatus, now, issued, lost, handler>>

\* create and suspend of TrustRegistryService; nothing makes an issuer TRUSTED again.
TrustChanges(c) == ChangeTrust(c, "NONE", "TRUSTED") \/ ChangeTrust(c, "TRUSTED", "SUSPENDED")

Tick ==
    /\ now < MaxTime
    /\ now' = now + 1
    /\ UNCHANGED <<tables, reqExpires, session, credStatus, issuerTrust, issued, lost, handler>>

\* The process dies, or the client of a store throws: the call stops where it is.
Crash(s) ==
    /\ "crash" \in Faults
    /\ ~At(s, "idle")
    /\ Return(s)
    /\ UNCHANGED stores

\* Redis restarts empty or evicts the key.
LoseSession(r) ==
    /\ "redis" \in Faults
    /\ SessionLive(r)
    /\ SetSession(r, 0)
    /\ lost' = lost \cup {r}
    /\ UNCHANGED <<tables, reqExpires, credStatus, issuerTrust, now, issued, handler>>

-----------------------------------------------------------------------------
Create(s) ==
    \/ \E r \in Request, a \in Application : StartCreate(s, r, a)
    \/ WriteSession(s)
    \/ CreateCommits(s)
    \/ CreateRollsBack(s)
    \/ CreateUnacknowledged(s)

HolderAnswers(s) ==
    \/ \E op \in {"approve", "approveClient", "prepare", "reject"}, r \in Request :
            ReadPending(s, op, r)
    \/ ReadSession(s)
    \/ \E c \in Credential : Sign(s, c) \/ PreparePayload(s, c)
    \/ CheckClientProof(s)
    \/ AnswerRefused(s)
    \/ CommitApproval(s)
    \/ CommitRejection(s)
    \/ ExpirePending(s)

Verify(s) ==
    \/ \E r \in Request : ReadContext(s, r)
    \/ ContextSession(s)
    \/ ExistingResult(s)
    \/ Recheck(s)
    \/ RecheckSession(s)
    \/ ChecksPass(s)
    \/ ChecksFail(s)
    \/ LatestStatus(s)
    \/ CommitVerified(s)
    \/ CommitFailed(s)
    \/ ExpireApproved(s)

Handle(s) == Create(s) \/ HolderAnswers(s) \/ Verify(s) \/ DropSession(s)

Next ==
    \/ \E s \in Server : Handle(s) \/ Crash(s)
    \/ WalletSweep
    \/ \E c \in Credential : CredentialChanges(c) \/ TrustChanges(c)
    \/ \E r \in Request : LoseSession(r)
    \/ Tick

Spec == Init /\ [][Next]_vars

\* Calls in progress go on, time passes, the holder looks at the wallet and the bank asks
\* again for every approved request.  Crashes are left out of the run that assumes this.
FairSpec ==
    /\ Spec
    /\ WF_vars(Tick)
    /\ WF_vars(WalletSweep)
    /\ \A s \in Server : WF_vars(~At(s, "idle") /\ Handle(s))
    /\ \A r \in Request : SF_vars(\E s \in Server : ReadContext(s, r))
-----------------------------------------------------------------------------
(* Properties *)

\* Every committed step of every handler, whatever the interleaving and the faults, is a
\* step of the abstract lifecycle: at most one approval and one decision per request, a
\* decision only of an approved request and of an application that waits for one.
ImplementsLifecycle == Lifecycle!Spec

\* RequestLifecycle's consequences, on the tables of the service.
ResultMatchesStatus == Lifecycle!ResultMatchesStatus
DisclosureNeedsApproval == Lifecycle!DisclosureNeedsApproval
DataWasVerified == Lifecycle!DataWasVerified
DecisionsAreFinal == Lifecycle!DecisionsAreFinal

\* The decision of an application is only ever replaced by opening another request for it:
\* a second approved request, verified late, cannot overwrite it.
VerdictReplacedOnlyByNewRequest ==
    [][\A a \in Application :
          appStatus[a] \in Lifecycle!FinalResult /\ appStatus'[a] # appStatus[a] =>
              /\ appStatus'[a] = "PENDING"
              /\ \E r \in Request : reqStatus[r] = "ABSENT" /\ reqApp'[r] = a]_vars

\* A pending or approved request that is within its deadline has its session, so it can be
\* answered and verified, unless a fault took the session away: create writes the session
\* first, for at least as long as the request, and only ended requests lose theirs.
LiveRequestHasSession ==
    \A r \in Request :
        reqStatus[r] \in {"PENDING", "APPROVED"} /\ ~IsExpired(r) =>
            SessionLive(r) \/ r \in lost

\* A request is EXPIRED before its deadline only when a fault took its session away.
EarlyExpiryNeedsLoss ==
    \A r \in Request : reqStatus[r] = "EXPIRED" /\ ~IsExpired(r) => r \in lost

\* A verification fails for want of a session only after the deadline or after a fault: no
\* other handler's clean-up makes an approved request fail.
SessionFailureNeedsLoss ==
    [][\A s \in Server :
          /\ At(s, "commitFailed")
          /\ handler[s].cause = "session"
          /\ handler'[s].pc = "dropSession"
          => Req(s) \in lost \/ IsExpired(Req(s))]_vars

\* An open request does not stay open for ever: the wallet's sweep ends what was never
\* answered, and the bank's next call ends an approved request after its deadline even if
\* its session is gone or its application was decided by another request.
OpenRequestsEnd ==
    \A r \in Request :
        reqStatus[r] \in {"PENDING", "APPROVED"} ~> reqStatus[r] \in Lifecycle!Terminal

\* "A failed verification does not silently pass; it is persisted as a failure" (README.md):
\* when a call is about to record a failure of a request that is still approved, the
\* transaction that records it can commit.  The code rolls it back when the application
\* was decided meanwhile by another request.
FailedVerificationIsRecorded ==
    \A s \in Server :
        At(s, "commitFailed") /\ reqStatus[Req(s)] = "APPROVED" => MayDecide(Req(s))

\* No credential that was revoked, or whose issuer was suspended, before the bank's call
\* began is accepted by that call, however long its checks take; and although the final
\* transaction does not look at the deadline, and the session outlives it, no call that
\* began after the deadline succeeds.
VerifiedWasSoundAtStart ==
    [][\A s \in Server :
          At(s, "commitVerified") /\ handler'[s].pc = "dropSession" => handler[s].sound]_vars
=============================================================================
