--------------------- MODULE VerificationRequestsProofs ---------------------
(***************************************************************************)
(* The service implements the lifecycle, for any number of handlers,       *)
(* requests and applications, any TTL and all faults.  What a handler      *)
(* remembers need not be true of the tables any more: the proof only uses  *)
(* that it remembers a request, an application or a credential where it    *)
(* goes on to write one, and the conditions of the final updates.          *)
(***************************************************************************)
EXTENDS VerificationRequests, TLAPS

Consequences == INSTANCE RequestLifecycleProofs

\* What a call has read by the time it uses it.
LocalsRead(h) ==
    /\ h.pc # "idle" => h.req \in Request
    /\ h.pc \in {"writeSession", "insert"} => h.app \in Application
    /\ h.pc \in {"proof", "commitApproval"} => h.cred \in Credential

HandlersOK ==
    /\ handler \in [Server -> HandlerState]
    /\ \A s \in Server : LocalsRead(handler[s])

IInv == TypeOK /\ HandlersOK /\ DisclosureNeedsApproval

-----------------------------------------------------------------------------
(* How one call goes on, given what the step makes of its locals. *)

LEMMA IdleOK == Idle \in HandlerState /\ LocalsRead(Idle)
BY DEF Idle, HandlerState, LocalsRead, ProgramCounter, Operation, CredentialStatus

LEMMA OneHandlerStep ==
    ASSUME HandlersOK, NEW s \in Server, NEW h \in HandlerState, LocalsRead(h),
           handler' = [handler EXCEPT ![s] = h]
    PROVE  HandlersOK'
BY DEF HandlersOK

LEMMA ReturnStep ==
    ASSUME HandlersOK, NEW s \in Server, Return(s)
    PROVE  HandlersOK'
BY IdleOK, OneHandlerStep DEF Return

\* A step to another program counter keeps the locals, so they must already hold
\* what is needed there.
LEMMA GotoStep ==
    ASSUME HandlersOK, NEW s \in Server, NEW pc \in ProgramCounter, ~At(s, "idle"), Goto(s, pc),
           pc \in {"writeSession", "insert"} => At(s, "writeSession"),
           pc \in {"proof", "commitApproval"} => At(s, "proof")
    PROVE  HandlersOK'
<1> DEFINE h == [handler[s] EXCEPT !.pc = pc]
<1>1. handler[s] \in HandlerState /\ LocalsRead(handler[s])
  BY DEF HandlersOK
<1>2. h \in HandlerState
  BY <1>1 DEF HandlerState
<1>3. LocalsRead(h)
  BY <1>1 DEF HandlerState, LocalsRead, At
<1>4. handler' = [handler EXCEPT ![s] = h]
  BY DEF Goto
<1> QED
  BY <1>2, <1>3, <1>4, OneHandlerStep
\* A fresh call, or one that remembers something new.
LEMMA StartCreateStep ==
    ASSUME TypeOK, HandlersOK, NEW s \in Server, NEW r \in Request, NEW a \in Application,
           StartCreate(s, r, a)
    PROVE  HandlersOK'
<1> DEFINE h == [Idle EXCEPT !.pc = "writeSession", !.op = "create",
                             !.req = r, !.app = a, !.expires = now + TTL]
<1>1. now + TTL \in Nat
  BY TimesAreNaturals DEF TypeOK
<1>2. h \in HandlerState
  BY <1>1, IdleOK DEF HandlerState, ProgramCounter, Operation
<1>3. LocalsRead(h)
  BY IdleOK DEF HandlerState, LocalsRead
<1>4. handler' = [handler EXCEPT ![s] = h]
  BY DEF StartCreate
<1> QED
  BY <1>2, <1>3, <1>4, OneHandlerStep

LEMMA ReadPendingStep ==
    ASSUME HandlersOK, NEW s \in Server, NEW r \in Request,
           NEW op \in {"approve", "approveClient", "prepare", "reject"}, ReadPending(s, op, r)
    PROVE  HandlersOK'
<1> DEFINE h == [Idle EXCEPT !.op = op, !.req = r,
                             !.pc = IF IsExpired(r) THEN "expire" ELSE "readSession"]
<1>1. h.pc \in {"expire", "readSession"}
  BY IdleOK DEF HandlerState
<1>2. h \in HandlerState
  <2> DEFINE pc == IF IsExpired(r) THEN "expire" ELSE "readSession"
  <2>1. pc \in ProgramCounter /\ op \in Operation
    BY DEF ProgramCounter, Operation
  <2> HIDE DEF pc
  <2>2. [Idle EXCEPT !.op = op, !.req = r, !.pc = pc] \in HandlerState
    BY <2>1, IdleOK DEF HandlerState
  <2> QED
    BY <2>2 DEF pc
<1>3. LocalsRead(h)
  BY <1>1, IdleOK DEF HandlerState, LocalsRead
<1>4. handler' = [handler EXCEPT ![s] = h]
  BY DEF ReadPending
<1> QED
  BY <1>2, <1>3, <1>4, OneHandlerStep

LEMMA ReadContextStep ==
    ASSUME HandlersOK, NEW s \in Server, NEW r \in Request, ReadContext(s, r)
    PROVE  HandlersOK'
<1> DEFINE sound == /\ credStatus[presentation[r]] # "REVOKED"
                    /\ issuerTrust[presentation[r]] # "SUSPENDED"
                    /\ ~IsExpired(r)
           h == [Idle EXCEPT !.op = "verify", !.req = r,
                             !.pc = ContextStep(r, "contextSession"), !.sound = sound]
<1>1. ContextStep(r, "contextSession") \in {"expireApproved", "contextSession"}
  BY DEF ContextStep
<1>2. sound \in BOOLEAN
  OBVIOUS
<1> HIDE DEF sound
<1>3. h \in HandlerState
  BY <1>1, <1>2, IdleOK DEF HandlerState, ProgramCounter, Operation
<1>4. LocalsRead(h)
  BY <1>1, IdleOK DEF HandlerState, LocalsRead
<1>5. handler' = [handler EXCEPT ![s] = h]
  BY DEF ReadContext, sound
<1> QED
  BY <1>3, <1>4, <1>5, OneHandlerStep

\* The credential chosen is in the wallet.
LEMMA ChosenCredentialStep ==
    ASSUME HandlersOK, NEW s \in Server, NEW c \in Credential, NEW pc \in {"commitApproval", "proof"},
           ~At(s, "idle"), handler' = [handler EXCEPT ![s].cred = c, ![s].pc = pc]
    PROVE  HandlersOK'
<1> DEFINE h == [handler[s] EXCEPT !.cred = c, !.pc = pc]
<1>1. handler[s] \in HandlerState /\ LocalsRead(handler[s])
  BY DEF HandlersOK
<1>2. h \in HandlerState
  BY <1>1 DEF HandlerState, ProgramCounter
<1>3. LocalsRead(h)
  BY <1>1 DEF HandlerState, LocalsRead, At
<1>4. handler' = [handler EXCEPT ![s] = h]
  BY DEF HandlersOK
<1> QED
  BY <1>2, <1>3, <1>4, OneHandlerStep

\* A failure's cause is kept with the call.
LEMMA FailureStep ==
    ASSUME HandlersOK, NEW s \in Server, NEW cause \in {"session", "checks"}, ~At(s, "idle"),
           handler' = [handler EXCEPT ![s].pc = "latestStatus", ![s].cause = cause]
    PROVE  HandlersOK'
<1> DEFINE h == [handler[s] EXCEPT !.pc = "latestStatus", !.cause = cause]
<1>1. handler[s] \in HandlerState /\ LocalsRead(handler[s])
  BY DEF HandlersOK
<1>2. h \in HandlerState
  BY <1>1 DEF HandlerState, ProgramCounter
<1>3. LocalsRead(h)
  BY <1>1 DEF HandlerState, LocalsRead, At
<1>4. handler' = [handler EXCEPT ![s] = h]
  BY DEF HandlersOK
<1> QED
  BY <1>2, <1>3, <1>4, OneHandlerStep

LEMMA RecheckStep ==
    ASSUME IInv, NEW s \in Server, Recheck(s)
    PROVE  HandlersOK'
<1>1. handler[s] \in HandlerState /\ LocalsRead(handler[s]) /\ handler[s].req \in Request
  BY DEF IInv, HandlersOK, Recheck, At, LocalsRead
<1>2. CASE reqStatus[Req(s)] # "APPROVED"
  BY <1>2, ReturnStep DEF IInv, Recheck
<1>3. CASE reqStatus[Req(s)] = "APPROVED"
  <2> DEFINE seen == credStatus[presentation[Req(s)]]
             pc == ContextStep(Req(s), "recheckSession")
             h == [handler[s] EXCEPT !.pc = pc, !.seen = seen]
  <2>1. presentation[Req(s)] \in Credential
    BY <1>1, <1>3 DEF IInv, TypeOK, Lifecycle!TypeOK, Req, DisclosureNeedsApproval,
        Lifecycle!DisclosureNeedsApproval
  <2>2. seen \in CredentialStatus
    BY <2>1 DEF IInv, TypeOK
  <2>3. pc \in {"expireApproved", "recheckSession"}
    BY DEF ContextStep
  <2>4. handler' = [handler EXCEPT ![s] = h]
    BY <1>3 DEF Recheck, IInv, HandlersOK
  <2> HIDE DEF seen, pc
  <2>5. h \in HandlerState
    BY <1>1, <2>2, <2>3 DEF HandlerState, ProgramCounter
  <2>6. LocalsRead(h)
    BY <1>1, <2>3 DEF HandlerState, LocalsRead
  <2> QED
    BY <2>4, <2>5, <2>6, OneHandlerStep DEF IInv
<1> QED
  BY <1>2, <1>3

LEMMA CreateStep ==
    ASSUME IInv, NEW s \in Server, Create(s)
    PROVE  HandlersOK'
<1> USE DEF IInv
<1>1. CASE \E r \in Request, a \in Application : StartCreate(s, r, a)
  BY <1>1, StartCreateStep
<1>2. CASE WriteSession(s)
  BY <1>2, GotoStep DEF WriteSession, At, ProgramCounter
<1>3. CASE CreateCommits(s)
  BY <1>3, ReturnStep DEF CreateCommits
<1>4. CASE CreateRollsBack(s)
  BY <1>4, GotoStep DEF CreateRollsBack, At, ProgramCounter
<1>5. CASE CreateUnacknowledged(s)
  BY <1>5, GotoStep DEF CreateUnacknowledged, At, ProgramCounter
<1> QED
  BY <1>1, <1>2, <1>3, <1>4, <1>5 DEF Create

LEMMA HolderAnswersStep ==
    ASSUME IInv, NEW s \in Server, HolderAnswers(s)
    PROVE  HandlersOK'
<1> USE DEF IInv
<1>1. CASE \E op \in {"approve", "approveClient", "prepare", "reject"}, r \in Request :
                ReadPending(s, op, r)
  BY <1>1, ReadPendingStep
<1>2. CASE ReadSession(s)
  <2>1. PICK pc \in {"expire", "sign", "commitRejection", "payload"} : Goto(s, pc)
    BY <1>2 DEF ReadSession
  <2> QED
    BY <1>2, <2>1, GotoStep DEF ReadSession, At, ProgramCounter
<1>3. CASE \E c \in Credential : Sign(s, c)
  BY <1>3, ChosenCredentialStep DEF Sign, At
<1>4. CASE \E c \in Credential : PreparePayload(s, c)
  BY <1>4, ChosenCredentialStep, ReturnStep DEF PreparePayload, At
<1>5. CASE CheckClientProof(s)
  BY <1>5, GotoStep DEF CheckClientProof, At, ProgramCounter
<1>6. CASE AnswerRefused(s)
  BY <1>6, ReturnStep DEF AnswerRefused
<1>7. CASE CommitApproval(s)
  BY <1>7, ReturnStep DEF CommitApproval
<1>8. CASE CommitRejection(s)
  BY <1>8, ReturnStep, GotoStep DEF CommitRejection, At, ProgramCounter
<1>9. CASE ExpirePending(s)
  BY <1>9, GotoStep DEF ExpirePending, At, ProgramCounter
<1> QED
  BY <1>1, <1>2, <1>3, <1>4, <1>5, <1>6, <1>7, <1>8, <1>9 DEF HolderAnswers

LEMMA VerifyStep ==
    ASSUME IInv, NEW s \in Server, Verify(s)
    PROVE  HandlersOK'
<1> USE DEF IInv
<1>1. CASE \E r \in Request : ReadContext(s, r)
  BY <1>1, ReadContextStep
<1>2. CASE ContextSession(s)
  BY <1>2, GotoStep, ReturnStep DEF ContextSession, At, ProgramCounter
<1>3. CASE ExistingResult(s)
  BY <1>3, GotoStep, ReturnStep DEF ExistingResult, At, ProgramCounter
<1>4. CASE Recheck(s)
  BY <1>4, RecheckStep
<1>5. CASE RecheckSession(s)
  BY <1>5, GotoStep, FailureStep DEF RecheckSession, At, ProgramCounter
<1>6. CASE ChecksPass(s)
  BY <1>6, GotoStep DEF ChecksPass, At, ProgramCounter
<1>7. CASE ChecksFail(s)
  BY <1>7, FailureStep DEF ChecksFail, At
<1>8. CASE LatestStatus(s)
  BY <1>8, GotoStep, ReturnStep DEF LatestStatus, At, ProgramCounter
<1>9. CASE CommitVerified(s)
  BY <1>9, GotoStep, ReturnStep DEF CommitVerified, CommitDecision, At, ProgramCounter
<1>10. CASE CommitFailed(s)
  BY <1>10, GotoStep, ReturnStep DEF CommitFailed, CommitDecision, At, ProgramCounter
<1>11. CASE ExpireApproved(s)
  BY <1>11, GotoStep, ReturnStep DEF ExpireApproved, At, ProgramCounter
<1> QED
  BY <1>1, <1>2, <1>3, <1>4, <1>5, <1>6, <1>7, <1>8, <1>9, <1>10, <1>11 DEF Verify

LEMMA HandlersStep == IInv /\ [Next]_vars => HandlersOK'
<1> SUFFICES ASSUME IInv, [Next]_vars
             PROVE  HandlersOK'
  OBVIOUS
<1>1. CASE \E s \in Server : Handle(s)
  <2>1. CASE \E s \in Server : DropSession(s)
    BY <2>1, ReturnStep DEF DropSession, IInv
  <2> QED
    BY <1>1, <2>1, CreateStep, HolderAnswersStep, VerifyStep DEF Handle
<1>2. CASE \E s \in Server : Crash(s)
  BY <1>2, ReturnStep DEF Crash, IInv
<1>3. CASE WalletSweep \/ Tick \/ \E r \in Request : LoseSession(r)
  BY <1>3 DEF WalletSweep, Tick, LoseSession, IInv, HandlersOK
<1>4. CASE \E c \in Credential : CredentialChanges(c) \/ TrustChanges(c)
  BY <1>4 DEF CredentialChanges, ChangeCredential, TrustChanges, ChangeTrust, IInv, HandlersOK
<1>5. CASE UNCHANGED vars
  BY <1>5 DEF vars, IInv, HandlersOK
<1> QED
  BY <1>1, <1>2, <1>3, <1>4, <1>5 DEF Next

-----------------------------------------------------------------------------
(* Every step is a step of the lifecycle or leaves its tables alone. *)

LEMMA CreateImplements ==
    ASSUME IInv, NEW s \in Server, Create(s)
    PROVE  [Lifecycle!Next]_(Lifecycle!vars)
<1>1. ASSUME NEW pc \in {"insert"}, At(s, pc), InsertRequest(Req(s), handler[s].app, handler[s].expires)
      PROVE  Lifecycle!Next
  <2>1. Req(s) \in Request /\ handler[s].app \in Application
    BY <1>1 DEF IInv, HandlersOK, LocalsRead, At, Req
  <2>2. Lifecycle!Open(Req(s), handler[s].app)
    BY <1>1 DEF InsertRequest, SetStatus, Lifecycle!Open
  <2> QED
    BY <2>1, <2>2 DEF Lifecycle!Next
<1>2. CASE CreateCommits(s) \/ CreateUnacknowledged(s)
  BY <1>1, <1>2 DEF CreateCommits, CreateUnacknowledged
<1>3. CASE ~(CreateCommits(s) \/ CreateUnacknowledged(s))
  BY <1>3 DEF Create, StartCreate, WriteSession, CreateRollsBack, stores, tables, Lifecycle!vars
<1> QED
  BY <1>2, <1>3

LEMMA HolderAnswersImplements ==
    ASSUME IInv, NEW s \in Server, HolderAnswers(s)
    PROVE  [Lifecycle!Next]_(Lifecycle!vars)
<1>1. CASE CommitApproval(s)
  <2>1. Req(s) \in Request /\ handler[s].cred \in Credential
    BY <1>1 DEF IInv, HandlersOK, LocalsRead, CommitApproval, At, Req
  <2>2. CASE StillPending(Req(s)) /\ presentation[Req(s)] = NoCredential
    BY <1>1, <2>1, <2>2
    DEF CommitApproval, StillPending, SetStatus, Lifecycle!Next, Lifecycle!Approve
  <2> QED
    BY <1>1, <2>2 DEF CommitApproval, Lifecycle!vars
<1>2. CASE CommitRejection(s)
  <2>1. Req(s) \in Request
    BY <1>2 DEF IInv, HandlersOK, LocalsRead, CommitRejection, At, Req
  <2> QED
    BY <1>2, <2>1
    DEF CommitRejection, StillPending, SetStatus, Lifecycle!Next, Lifecycle!Reject, Lifecycle!vars
<1>3. CASE ExpirePending(s)
  <2>1. Req(s) \in Request
    BY <1>3 DEF IInv, HandlersOK, LocalsRead, ExpirePending, At, Req
  <2>2. CASE reqStatus[Req(s)] = "PENDING"
    <3>1. Lifecycle!Expire({Req(s)})
      BY <1>3, <2>1, <2>2
      DEF ExpirePending, SetStatus, Lifecycle!Expire, IInv, TypeOK, Lifecycle!TypeOK
    <3> QED
      BY <2>1, <3>1 DEF Lifecycle!Next
  <2> QED
    BY <1>3, <2>2 DEF ExpirePending, Lifecycle!vars
<1>4. CASE ~(CommitApproval(s) \/ CommitRejection(s) \/ ExpirePending(s))
  BY <1>4 DEF HolderAnswers, ReadPending, ReadSession, Sign, PreparePayload, CheckClientProof,
      AnswerRefused, stores, tables, Lifecycle!vars
<1> QED
  BY <1>1, <1>2, <1>3, <1>4

LEMMA VerifyImplements ==
    ASSUME IInv, NEW s \in Server, Verify(s)
    PROVE  [Lifecycle!Next]_(Lifecycle!vars)
<1>1. ASSUME NEW pc \in {"commitVerified", "commitFailed"}, NEW verdict \in Lifecycle!FinalResult,
             CommitDecision(s, pc, verdict)
      PROVE  [Lifecycle!Next]_(Lifecycle!vars)
  <2>1. Req(s) \in Request
    BY <1>1 DEF IInv, HandlersOK, LocalsRead, CommitDecision, At, Req
  <2>2. CASE MayDecide(Req(s))
    <3>1. Lifecycle!Decide(Req(s), verdict)
      BY <1>1, <2>2 DEF CommitDecision, MayDecide, DataAfter, SetStatus, Lifecycle!Decide
    <3> QED
      BY <2>1, <3>1 DEF Lifecycle!Next
  <2> QED
    BY <1>1, <2>2 DEF CommitDecision, Lifecycle!vars
<1>2. CASE CommitVerified(s) \/ CommitFailed(s)
  BY <1>1, <1>2 DEF CommitVerified, CommitFailed, Lifecycle!FinalResult
<1>3. CASE ExpireApproved(s)
  <2>1. Req(s) \in Request
    BY <1>3 DEF IInv, HandlersOK, LocalsRead, ExpireApproved, At, Req
  <2>2. CASE StillApproved(Req(s))
    <3>1. Lifecycle!Expire({Req(s)})
      BY <1>3, <2>1, <2>2
      DEF ExpireApproved, StillApproved, SetStatus, Lifecycle!Expire, IInv, TypeOK, Lifecycle!TypeOK
    <3> QED
      BY <2>1, <3>1 DEF Lifecycle!Next
  <2> QED
    BY <1>3, <2>2 DEF ExpireApproved, Lifecycle!vars
<1>4. CASE ~(CommitVerified(s) \/ CommitFailed(s) \/ ExpireApproved(s))
  BY <1>4 DEF Verify, ReadContext, ContextSession, ExistingResult, Recheck, RecheckSession,
      ChecksPass, ChecksFail, LatestStatus, stores, tables, Lifecycle!vars
<1> QED
  BY <1>2, <1>3, <1>4

LEMMA StepImplements == IInv /\ [Next]_vars => [Lifecycle!Next]_(Lifecycle!vars)
<1> SUFFICES ASSUME IInv, [Next]_vars
             PROVE  [Lifecycle!Next]_(Lifecycle!vars)
  OBVIOUS
<1>1. CASE \E s \in Server : Handle(s)
  <2>1. CASE \E s \in Server : DropSession(s)
    BY <2>1 DEF DropSession, tables, Lifecycle!vars
  <2> QED
    BY <1>1, <2>1, CreateImplements, HolderAnswersImplements, VerifyImplements DEF Handle
<1>2. CASE WalletSweep
  <2>1. Overdue \in SUBSET Request
    BY DEF Overdue
  <2>2. Lifecycle!Expire(Overdue)
    BY <1>2 DEF WalletSweep, Overdue, Lifecycle!Expire
  <2> QED
    BY <2>1, <2>2 DEF Lifecycle!Next
<1>3. CASE Tick \/ \E s \in Server : Crash(s)
  BY <1>3 DEF Tick, Crash, stores, tables, Lifecycle!vars
<1>4. CASE \E c \in Credential : CredentialChanges(c) \/ TrustChanges(c)
  BY <1>4 DEF CredentialChanges, ChangeCredential, TrustChanges, ChangeTrust, tables, Lifecycle!vars
<1>5. CASE \E r \in Request : LoseSession(r)
  BY <1>5 DEF LoseSession, tables, Lifecycle!vars
<1>6. CASE UNCHANGED vars
  BY <1>6 DEF vars, stores, tables, Lifecycle!vars
<1> QED
  BY <1>1, <1>2, <1>3, <1>4, <1>5, <1>6 DEF Next

-----------------------------------------------------------------------------
(* The invariant. *)

\* The proofs about the lifecycle are about the same formulas.
LEMMA SameLifecycle ==
    /\ Consequences!Init <=> Lifecycle!Init
    /\ [Consequences!Next]_(Consequences!vars) <=> [Lifecycle!Next]_(Lifecycle!vars)
    /\ Consequences!TypeOK <=> Lifecycle!TypeOK
    /\ Consequences!TypeOK' <=> Lifecycle!TypeOK'
    /\ Consequences!DisclosureNeedsApproval <=> DisclosureNeedsApproval
    /\ Consequences!DisclosureNeedsApproval' <=> DisclosureNeedsApproval'
BY DEF Consequences!Init, Lifecycle!Init, Consequences!Next, Lifecycle!Next,
    Consequences!vars, Lifecycle!vars, Consequences!TypeOK, Lifecycle!TypeOK,
    Consequences!RequestStatus, Lifecycle!RequestStatus,
    Consequences!FinalResult, Lifecycle!FinalResult,
    Consequences!EducationStatus, Lifecycle!EducationStatus,
    Consequences!Open, Lifecycle!Open, Consequences!Approve, Lifecycle!Approve,
    Consequences!Reject, Lifecycle!Reject, Consequences!Expire, Lifecycle!Expire,
    Consequences!Decide, Lifecycle!Decide,
    Consequences!DisclosureNeedsApproval, DisclosureNeedsApproval,
    Lifecycle!DisclosureNeedsApproval

LEMMA InitIInv == Init => IInv
<1> SUFFICES ASSUME Init
             PROVE  IInv
  OBVIOUS
<1>1. Lifecycle!TypeOK
  BY DEF Init, Lifecycle!Init, Lifecycle!TypeOK, Lifecycle!RequestStatus, Lifecycle!FinalResult,
      Lifecycle!EducationStatus
<1>2. HandlersOK
  BY IdleOK DEF Init, HandlersOK
<1>3. DisclosureNeedsApproval
  BY DEF Init, Lifecycle!Init, DisclosureNeedsApproval, Lifecycle!DisclosureNeedsApproval
<1>4. TypeOK
  BY <1>1, <1>2 DEF Init, TypeOK, HandlersOK, CredentialStatus, TrustStatus
<1> QED
  BY <1>2, <1>3, <1>4 DEF IInv

\* The columns and keys the lifecycle does not speak of.
LEMMA StoresStep ==
    ASSUME IInv, [Next]_vars
    PROVE  /\ reqExpires' \in [Request -> Nat]
           /\ session' \in [Request -> Nat]
           /\ credStatus' \in [Credential -> CredentialStatus]
           /\ issuerTrust' \in [Credential -> TrustStatus]
           /\ now' \in Nat
           /\ issued' \subseteq Request
           /\ lost' \subseteq Request
<1> USE DEF IInv, TypeOK
<1>1. CASE \E s \in Server : Create(s)
  <2>1. PICK s \in Server : Create(s)
    BY <1>1
  <2>2. handler[s] \in HandlerState /\ LocalsRead(handler[s])
    BY DEF HandlersOK
  <2>3. CASE \E r \in Request, a \in Application : StartCreate(s, r, a)
    BY <2>3 DEF StartCreate
  <2>4. CASE WriteSession(s)
    <3>1. now + TTL \in Nat
      BY TimesAreNaturals
    <3>2. session' = [session EXCEPT ![Req(s)] = now + TTL]
      BY <2>4 DEF WriteSession, SetSession
    <3> QED
      BY <2>4, <3>1, <3>2 DEF WriteSession
  <2>5. CASE CreateCommits(s)
    BY <2>2, <2>5 DEF CreateCommits, InsertRequest, HandlerState
  <2>6. CASE CreateRollsBack(s)
    BY <2>6 DEF CreateRollsBack, stores
  <2>7. CASE CreateUnacknowledged(s)
    BY <2>2, <2>7 DEF CreateUnacknowledged, InsertRequest, HandlerState, LocalsRead, Req, At
  <2> QED
    BY <2>1, <2>3, <2>4, <2>5, <2>6, <2>7 DEF Create
<1>2. CASE \E s \in Server : HolderAnswers(s)
  BY <1>2 DEF HolderAnswers, ReadPending, ReadSession, Sign, PreparePayload, CheckClientProof,
      AnswerRefused, CommitApproval, CommitRejection, ExpirePending, stores
<1>3. CASE \E s \in Server : Verify(s)
  BY <1>3 DEF Verify, ReadContext, ContextSession, ExistingResult, Recheck, RecheckSession,
      ChecksPass, ChecksFail, LatestStatus, CommitVerified, CommitFailed, CommitDecision,
      ExpireApproved, stores
<1>4. CASE \E s \in Server : DropSession(s)
  <2>1. PICK s \in Server : DropSession(s)
    BY <1>4
  <2>2. session' = [session EXCEPT ![Req(s)] = 0]
    BY <2>1 DEF DropSession, SetSession
  <2> QED
    BY <2>1, <2>2 DEF DropSession
<1>5. CASE WalletSweep \/ Tick \/ \E s \in Server : Crash(s)
  BY <1>5 DEF WalletSweep, Tick, Crash, stores
<1>6. CASE \E c \in Credential : CredentialChanges(c) \/ TrustChanges(c)
  BY <1>6 DEF CredentialChanges, ChangeCredential, TrustChanges, ChangeTrust, CredentialStatus,
      TrustStatus
<1>7. CASE \E r \in Request : LoseSession(r)
  BY <1>7 DEF LoseSession, SetSession
<1>8. CASE UNCHANGED vars
  BY <1>8 DEF vars, stores
<1> QED
  BY <1>1, <1>2, <1>3, <1>4, <1>5, <1>6, <1>7, <1>8 DEF Next, Handle

LEMMA IInvStep == IInv /\ [Next]_vars => IInv'
<1> SUFFICES ASSUME IInv, [Next]_vars
             PROVE  IInv'
  OBVIOUS
<1>1. [Consequences!Next]_(Consequences!vars) /\ Consequences!TypeOK
  BY StepImplements, SameLifecycle DEF IInv, TypeOK
<1>2. Lifecycle!TypeOK'
  BY <1>1, Consequences!TypeStep, NullsAreNotValues, SameLifecycle
<1>3. DisclosureNeedsApproval'
  BY <1>1, Consequences!DisclosureStep, NullsAreNotValues, SameLifecycle DEF IInv, TypeOK
<1>4. HandlersOK'
  BY HandlersStep
<1>5. TypeOK'
  BY <1>2, <1>4, StoresStep DEF TypeOK, HandlersOK
<1> QED
  BY <1>3, <1>4, <1>5 DEF IInv

LEMMA Invariance == Spec => []IInv
BY InitIInv, IInvStep, PTL DEF Spec

-----------------------------------------------------------------------------
\* Tables, sessions and the locals of calls keep their types (schema.prisma, and the local
\* variables of VerificationRequestsService and VerificationService).
THEOREM TypeCorrect == Spec => []TypeOK
BY Invariance, PTL DEF IInv

\* Whatever the interleaving of handlers, the loss of sessions and commits, and crashes, the
\* tables go through steps of the lifecycle only (create, approve, approveClient, reject,
\* verifyPresentation and findPendingRequests).
THEOREM ServiceImplementsLifecycle == Spec => ImplementsLifecycle
<1>1. Init => Lifecycle!Init
  BY DEF Init
<1> QED
  BY <1>1, Invariance, StepImplements, PTL DEF Spec, ImplementsLifecycle, Lifecycle!Spec

LEMMA LifecycleBehaviour == Spec => Consequences!Spec
<1>1. Spec => Lifecycle!Init /\ [][Lifecycle!Next]_(Lifecycle!vars)
  BY ServiceImplementsLifecycle DEF ImplementsLifecycle, Lifecycle!Spec
<1> QED
  BY <1>1, SameLifecycle, PTL DEF Consequences!Spec

\* So the consequences of the lifecycle hold of the service: a request has a result exactly
\* when it was decided, and the one it was decided with (verifyPresentation).
THEOREM ResultsMatch == Spec => []ResultMatchesStatus
<1>1. Consequences!ResultMatchesStatus <=> ResultMatchesStatus
  BY DEF Consequences!ResultMatchesStatus, ResultMatchesStatus, Lifecycle!ResultMatchesStatus,
      Consequences!FinalResult, Lifecycle!FinalResult
<1> QED
  BY <1>1, LifecycleBehaviour, Consequences!ResultsMatch, NullsAreNotValues, PTL

\* Nothing is disclosed without the holder's approval (approve and approveClient).
THEOREM DisclosureIsApproved == Spec => []DisclosureNeedsApproval
BY Invariance, PTL DEF IInv

\* The data of an application was disclosed for it by a request that was verified
\* (verifyPresentation).
THEOREM DataIsVerified == Spec => []DataWasVerified
<1>1. Consequences!DataWasVerified <=> DataWasVerified
  BY DEF Consequences!DataWasVerified, DataWasVerified, Lifecycle!DataWasVerified
<1> QED
  BY <1>1, LifecycleBehaviour, Consequences!DataIsVerified, NullsAreNotValues, PTL

\* An ended request never changes again (the conditional updates of all handlers).
THEOREM DecisionsStay == Spec => DecisionsAreFinal
<1>1. [\A r \in Request : reqStatus[r] \in Consequences!Terminal => reqStatus'[r] = reqStatus[r]
        ]_(Consequences!vars)
      <=> [\A r \in Request : reqStatus[r] \in Lifecycle!Terminal => reqStatus'[r] = reqStatus[r]
            ]_(Lifecycle!vars)
  BY DEF Consequences!Terminal, Lifecycle!Terminal, Consequences!vars, Lifecycle!vars
<1> QED
  BY <1>1, LifecycleBehaviour, Consequences!DecisionsStay, NullsAreNotValues, PTL
  DEF DecisionsAreFinal, Lifecycle!DecisionsAreFinal, Consequences!DecisionsAreFinal

\* A verdict of an application is only replaced by a new request (the condition on
\* educationVerificationStatus in both final transactions of verifyPresentation).
THEOREM VerdictsStay == Spec => VerdictReplacedOnlyByNewRequest
<1>1. IInv /\ [Next]_vars =>
        [\A a \in Application :
            appStatus[a] \in Lifecycle!FinalResult /\ appStatus'[a] # appStatus[a] =>
                /\ appStatus'[a] = "PENDING"
                /\ \E r \in Request : reqStatus[r] = "ABSENT" /\ reqApp'[r] = a]_vars
  <2> SUFFICES ASSUME IInv, [Next]_vars, NEW a \in Application,
                      appStatus[a] \in Lifecycle!FinalResult, appStatus'[a] # appStatus[a]
               PROVE  /\ appStatus'[a] = "PENDING"
                      /\ \E r \in Request : reqStatus[r] = "ABSENT" /\ reqApp'[r] = a
    OBVIOUS
  <2>1. Lifecycle!Next
    BY StepImplements DEF Lifecycle!vars
  <2>2. ~ \E expiring \in SUBSET Request : Lifecycle!Expire(expiring)
    BY DEF Lifecycle!Expire
  <2>3. ~ \E r \in Request : Lifecycle!Reject(r) \/ \E c \in Credential : Lifecycle!Approve(r, c)
    BY DEF Lifecycle!Reject, Lifecycle!Approve
  <2>4. ~ \E r \in Request, verdict \in Lifecycle!FinalResult : Lifecycle!Decide(r, verdict)
    BY DEF Lifecycle!Decide, Lifecycle!FinalResult, IInv, TypeOK, Lifecycle!TypeOK
  <2>5. PICK r \in Request, b \in Application : Lifecycle!Open(r, b)
    BY <2>1, <2>2, <2>3, <2>4 DEF Lifecycle!Next
  <2> QED
    BY <2>5 DEF Lifecycle!Open, IInv, TypeOK, Lifecycle!TypeOK
<1> QED
  BY <1>1, Invariance, PTL DEF Spec, VerdictReplacedOnlyByNewRequest

-----------------------------------------------------------------------------
(***************************************************************************)
(* PostgreSQL and Redis agree: a request that can still be answered or     *)
(* verified has its session, whatever the order in which handlers write    *)
(* and delete sessions, unless a fault took it away.  No transaction spans *)
(* the two stores, so the invariant follows each session through the calls *)
(* that are about to write or delete it.                                   *)
(***************************************************************************)

\* Nothing is lost when the session goes: the request has ended or its deadline has passed;
\* or a fault took the session already.
Gone(r) == reqStatus[r] \in Lifecycle!Terminal \/ IsExpired(r) \/ r \in lost

\* The life of a session, seen from the requests ...
RequestSound(r) ==
    /\ reqStatus[r] # "ABSENT" => r \in issued
    /\ reqStatus[r] # "ABSENT" => session[r] >= reqExpires[r] \/ Gone(r)
    /\ reqStatus[r] = "EXPIRED" => IsExpired(r) \/ r \in lost

\* ... and from the calls: nobody else knows the id of a request that is being created, its
\* session is written for at least as long as its row will say, and who goes on to expire a
\* request, to delete its session or to fail it for want of one has cause to.
CallSound(s) ==
    /\ ~At(s, "idle") => Req(s) \in issued
    /\ handler[s].pc \in {"writeSession", "insert"} =>
          /\ reqStatus[Req(s)] = "ABSENT"
          /\ \A t \in Server \ {s} : ~At(t, "idle") => Req(t) # Req(s)
    /\ At(s, "writeSession") => handler[s].expires <= now + TTL
    /\ At(s, "insert") => session[Req(s)] >= handler[s].expires \/ Req(s) \in lost
    /\ handler[s].pc \notin {"idle", "writeSession", "insert", "dropSession"} =>
          reqStatus[Req(s)] # "ABSENT"
    /\ At(s, "expire") => Gone(Req(s))
    /\ At(s, "dropSession") => Gone(Req(s)) \/ reqStatus[Req(s)] = "ABSENT"
    /\ handler[s].pc \in {"latestStatus", "commitFailed"} /\ handler[s].cause = "session" =>
          Gone(Req(s))

SessionsSound ==
    /\ \A r \in Request : RequestSound(r)
    /\ \A s \in Server : CallSound(s)

SInv == IInv /\ SessionsSound

-----------------------------------------------------------------------------
(* What every step leaves alone. *)

\* Requests that exist go on to exist, keep their deadline and, once ended, their status.
LEMMA StoresGrow ==
    ASSUME IInv, [Next]_vars
    PROVE  /\ now \in Nat /\ now' \in Nat /\ now <= now'
           /\ issued \subseteq issued'
           /\ lost \subseteq lost'
<1> USE DEF IInv, TypeOK
<1>1. now' \in Nat
  BY StoresStep
<1>2. CASE \E s \in Server : Create(s)
  <2>1. now' = now /\ issued \subseteq issued' /\ lost \subseteq lost'
    BY <1>2 DEF Create, StartCreate, WriteSession, CreateCommits, CreateRollsBack,
        CreateUnacknowledged, stores
  <2> QED
    BY <2>1
<1>3. CASE \E s \in Server : HolderAnswers(s)
  <2>1. UNCHANGED <<now, issued, lost>>
    BY <1>3 DEF HolderAnswers, ReadPending, ReadSession, Sign, PreparePayload, CheckClientProof,
        AnswerRefused, CommitApproval, CommitRejection, ExpirePending, stores
  <2> QED
    BY <2>1
<1>4. CASE \E s \in Server : Verify(s)
  <2>1. UNCHANGED <<now, issued, lost>>
    BY <1>4 DEF Verify, ReadContext, ContextSession, ExistingResult, Recheck, RecheckSession,
        ChecksPass, ChecksFail, LatestStatus, CommitVerified, CommitFailed, CommitDecision,
        ExpireApproved, stores
  <2> QED
    BY <2>1
<1>5. CASE \E s \in Server : DropSession(s)
  BY <1>5 DEF DropSession
<1>6. CASE WalletSweep \/ Tick \/ \E s \in Server : Crash(s)
  BY <1>6 DEF WalletSweep, Tick, Crash, stores
<1>7. CASE \E c \in Credential : CredentialChanges(c) \/ TrustChanges(c)
  BY <1>7 DEF CredentialChanges, ChangeCredential, TrustChanges, ChangeTrust
<1>8. CASE \E r \in Request : LoseSession(r)
  BY <1>8 DEF LoseSession
<1>9. CASE UNCHANGED vars
  BY <1>9 DEF vars, stores
<1> QED
  BY <1>1, <1>2, <1>3, <1>4, <1>5, <1>6, <1>7, <1>8, <1>9 DEF Next, Handle

-----------------------------------------------------------------------------
(* The steps that leave sessions, deadlines, ids and the clock alone. *)

\* Call t is over, or goes on with a request that exists (or, after a creation that was
\* rolled back, with the request it was to create) and with cause for what it does next.
GoesOnWith(t, r) ==
    /\ handler'[t].req = r
    /\ handler'[t].pc \notin {"idle", "writeSession", "insert"}
    /\ \/ reqStatus[r] # "ABSENT"
       \/ handler'[t].pc = "dropSession" /\ ~At(t, "idle") /\ r = Req(t)
    /\ handler'[t].pc = "expire" => Gone(r)'
    /\ handler'[t].pc = "dropSession" => Gone(r)' \/ reqStatus'[r] = "ABSENT"
    /\ handler'[t].pc \in {"latestStatus", "commitFailed"} /\ handler'[t].cause = "session" =>
          Gone(r)'

GoesOn(t) == handler'[t].pc = "idle" \/ \E r \in Request : GoesOnWith(t, r)

\* Statuses change, but none of a request that has ended, and EXPIRED only with cause.
StatusesGoOn ==
    \A r \in Request :
        /\ reqStatus'[r] = "ABSENT" <=> reqStatus[r] = "ABSENT"
        /\ reqStatus[r] \in Lifecycle!Terminal => reqStatus'[r] = reqStatus[r]
        /\ reqStatus'[r] = "EXPIRED" =>
              reqStatus[r] = "EXPIRED" \/ IsExpired(r) \/ r \in lost

LEMMA CallsGoOn ==
    ASSUME IInv, SessionsSound, UNCHANGED <<reqExpires, session, now, issued, lost>>,
           StatusesGoOn, \A t \in Server : handler'[t] = handler[t] \/ GoesOn(t)
    PROVE  SessionsSound'
<1>1. ASSUME NEW r \in Request, Gone(r)
      PROVE  Gone(r)'
  BY <1>1 DEF Gone, StatusesGoOn, IsExpired
<1>2. ASSUME NEW r \in Request
      PROVE  RequestSound(r)'
  BY <1>1 DEF SessionsSound, RequestSound, StatusesGoOn, IsExpired
<1>3. ASSUME NEW s \in Server, ~At(s, "idle")
      PROVE  Req(s) \in Request
  BY <1>3 DEF IInv, HandlersOK, LocalsRead, At, Req
<1>4. ASSUME NEW s \in Server, NEW t \in Server, s # t, ~At(t, "idle")',
             handler[s].pc \in {"writeSession", "insert"}
      PROVE  Req(t)' # Req(s)
  <2>1. /\ reqStatus[Req(s)] = "ABSENT"
        /\ ~At(t, "idle") => Req(t) # Req(s)
    BY <1>4 DEF SessionsSound, CallSound
  <2> QED
    BY <1>4, <2>1 DEF GoesOn, GoesOnWith, At, Req
<1>5. ASSUME NEW s \in Server, handler'[s] = handler[s]
      PROVE  CallSound(s)'
  <2>1. CallSound(s)
    BY DEF SessionsSound
  <2>2. CASE At(s, "idle")
    BY <1>5, <2>2 DEF CallSound, At
  <2>3. CASE handler[s].pc \in {"writeSession", "insert"}
    BY <1>3, <1>4, <1>5, <2>1, <2>3 DEF CallSound, At, Req, StatusesGoOn
  <2>4. CASE handler[s].pc \notin {"idle", "writeSession", "insert"}
    BY <1>1, <1>3, <1>5, <2>1, <2>4 DEF CallSound, At, Req, StatusesGoOn
  <2> QED
    BY <2>2, <2>3, <2>4 DEF At
<1>6. ASSUME NEW s \in Server, GoesOn(s)
      PROVE  CallSound(s)'
  <2>1. CASE handler'[s].pc = "idle"
    BY <2>1 DEF CallSound, At
  <2>2. CASE handler'[s].pc # "idle"
    <3>1. PICK r \in Request : GoesOnWith(s, r)
      BY <1>6, <2>2 DEF GoesOn
    <3>2. r \in issued
      BY <3>1 DEF GoesOnWith, SessionsSound, RequestSound, CallSound, At, Req
    <3>3. (Gone(Req(s)))' <=> Gone(r)'
      BY <3>1 DEF GoesOnWith, Gone, IsExpired, Req
    <3> QED
      BY <2>2, <3>1, <3>2, <3>3 DEF GoesOnWith, CallSound, At, Req, StatusesGoOn
  <2> QED
    BY <2>1, <2>2
<1> QED
  BY <1>2, <1>5, <1>6 DEF SessionsSound
LEMMA ReturnSound ==
    ASSUME IInv, SessionsSound, UNCHANGED <<reqExpires, session, now, issued, lost>>,
           StatusesGoOn, NEW s \in Server, Return(s)
    PROVE  SessionsSound'
<1>1. GoesOn(s)
  BY DEF Return, GoesOn, Idle, IInv, HandlersOK
<1>2. \A t \in Server : t # s => handler'[t] = handler[t]
  BY DEF Return, IInv, HandlersOK
<1> QED
  BY <1>1, <1>2, CallsGoOn

LEMMA GotoSound ==
    ASSUME IInv, SessionsSound, UNCHANGED <<reqExpires, session, now, issued, lost>>,
           StatusesGoOn, NEW s \in Server, NEW pc \in ProgramCounter, Goto(s, pc), ~At(s, "idle"),
           pc \notin {"idle", "writeSession", "insert"},
           pc = "dropSession" \/ handler[s].pc \notin {"writeSession", "insert", "dropSession"},
           pc = "expire" => Gone(Req(s)),
           pc = "dropSession" =>
                (\E r \in Request : r = Req(s) /\ (Gone(r)' \/ reqStatus'[r] = "ABSENT")),
           pc \in {"latestStatus", "commitFailed"} /\ handler[s].cause = "session" => Gone(Req(s))
    PROVE  SessionsSound'
<1>1. Req(s) \in Request /\ handler[s] \in HandlerState
  BY DEF IInv, HandlersOK, LocalsRead, At, Req
<1>2. /\ handler'[s].pc = pc
      /\ handler'[s].req = Req(s)
      /\ handler'[s].cause = handler[s].cause
  BY <1>1 DEF Goto, IInv, HandlersOK, HandlerState, Req
<1>3. PICK r \in Request : r = Req(s)
  BY <1>1
<1>4. Gone(r) => Gone(r)'
  BY DEF Gone, StatusesGoOn, IsExpired
<1>5. pc # "dropSession" => reqStatus[r] # "ABSENT"
  BY <1>3 DEF SessionsSound, CallSound, At, Req
<1>6. GoesOnWith(s, r)
  BY <1>2, <1>3, <1>4, <1>5 DEF GoesOnWith
<1>7. \A t \in Server : t # s => handler'[t] = handler[t]
  BY DEF Goto, IInv, HandlersOK
<1> QED
  BY <1>6, <1>7, CallsGoOn DEF GoesOn

\* A call that begins with a request that exists, or learns something about its own.
LEMMA NextLocalsSound ==
    ASSUME IInv, SessionsSound, UNCHANGED stores, NEW s \in Server, NEW r \in Request, NEW h,
           handler' = [handler EXCEPT ![s] = h], h.req = r, reqStatus[r] # "ABSENT",
           h.pc \notin {"idle", "writeSession", "insert", "dropSession"},
           h.pc = "expire" => Gone(r),
           h.pc \in {"latestStatus", "commitFailed"} /\ h.cause = "session" => Gone(r)
    PROVE  SessionsSound'
<1>1. UNCHANGED <<reqStatus, reqExpires, session, now, issued, lost>>
  BY DEF stores, tables
<1>2. StatusesGoOn
  BY <1>1 DEF StatusesGoOn
<1>3. Gone(r)' <=> Gone(r)
  BY <1>1 DEF Gone, IsExpired
<1>4. handler'[s] = h /\ \A t \in Server : t # s => handler'[t] = handler[t]
  BY DEF IInv, HandlersOK
<1>5. GoesOnWith(s, r)
  BY <1>3, <1>4 DEF GoesOnWith
<1> QED
  BY <1>1, <1>2, <1>4, <1>5, CallsGoOn DEF GoesOn

\* Without a live session a request that exists has ended, is over its deadline or lost it.
LEMMA NoSessionGone ==
    ASSUME IInv, SessionsSound, NEW r \in Request, reqStatus[r] # "ABSENT", ~SessionLive(r)
    PROVE  Gone(r)
<1>1. session[r] >= reqExpires[r] \/ Gone(r)
  BY DEF SessionsSound, RequestSound
<1>2. session[r] \in Nat /\ reqExpires[r] \in Nat /\ now \in Nat
  BY DEF IInv, TypeOK
<1> QED
  BY <1>1, <1>2 DEF SessionLive, Gone, IsExpired

LEMMA HolderAnswersSound ==
    ASSUME IInv, SessionsSound, NEW s \in Server, HolderAnswers(s)
    PROVE  SessionsSound'
<1>a. UNCHANGED stores => UNCHANGED <<reqExpires, session, now, issued, lost>> /\ StatusesGoOn
  BY DEF stores, tables, StatusesGoOn
<1>b. ~At(s, "idle") => Req(s) \in Request
  BY DEF IInv, HandlersOK, LocalsRead, At, Req
<1>c. handler[s] \in HandlerState /\ handler \in [Server -> HandlerState] /\ CallSound(s)
  BY DEF IInv, HandlersOK, SessionsSound
<1>1. ASSUME NEW op \in {"approve", "approveClient", "prepare", "reject"}, NEW r \in Request,
             ReadPending(s, op, r)
      PROVE  SessionsSound'
  <2> DEFINE h == [Idle EXCEPT !.op = op, !.req = r,
                               !.pc = IF IsExpired(r) THEN "expire" ELSE "readSession"]
  <2>1. /\ h.req = r
        /\ h.pc = IF IsExpired(r) THEN "expire" ELSE "readSession"
    BY DEF Idle
  <2>2. handler' = [handler EXCEPT ![s] = h] /\ UNCHANGED stores /\ reqStatus[r] # "ABSENT"
    BY <1>1 DEF ReadPending
  <2> HIDE DEF h
  <2>3. h.pc = "expire" => Gone(r)
    BY <2>1 DEF Gone
  <2> QED
    BY <2>1, <2>2, <2>3, NextLocalsSound
<1>2. CASE ReadSession(s)
  <2>1. ~SessionLive(Req(s)) => Gone(Req(s))
    BY <1>2, <1>b, <1>c, NoSessionGone DEF ReadSession, CallSound, At
  <2>2. PICK pc \in {"expire", "sign", "commitRejection", "payload"} :
            Goto(s, pc) /\ (pc = "expire" => Gone(Req(s)))
    BY <1>2, <2>1 DEF ReadSession
  <2> QED
    BY <1>2, <1>a, <2>2, GotoSound DEF ReadSession, At, ProgramCounter
<1>3. ASSUME NEW c \in Credential, Sign(s, c) \/ PreparePayload(s, c)
      PROVE  SessionsSound'
  <2>1. CASE Return(s)
    BY <1>3, <1>a, <2>1, ReturnSound DEF Sign, PreparePayload
  <2>2. CASE \E pc \in {"commitApproval", "proof"} :
                handler' = [handler EXCEPT ![s].cred = c, ![s].pc = pc]
    <3>1. PICK pc \in {"commitApproval", "proof"} :
                handler' = [handler EXCEPT ![s].cred = c, ![s].pc = pc]
      BY <2>2
    <3> DEFINE h == [handler[s] EXCEPT !.cred = c, !.pc = pc]
    <3>2. handler' = [handler EXCEPT ![s] = h] /\ h.req = Req(s) /\ h.pc = pc
      BY <1>c, <3>1 DEF HandlerState, Req
    <3>3. reqStatus[Req(s)] # "ABSENT" /\ UNCHANGED stores /\ Req(s) \in Request
      BY <1>3, <1>b, <1>c DEF Sign, PreparePayload, CallSound, At
    <3> HIDE DEF h
    <3> QED
      BY <3>2, <3>3, NextLocalsSound
  <2> QED
    BY <1>3, <2>1, <2>2 DEF Sign, PreparePayload
<1>4. CASE CheckClientProof(s)
  BY <1>4, <1>a, GotoSound DEF CheckClientProof, At, ProgramCounter
<1>5. CASE AnswerRefused(s)
  BY <1>5, <1>a, ReturnSound DEF AnswerRefused
<1>6. CASE CommitApproval(s)
  <2>1. StatusesGoOn
    BY <1>6, <1>b DEF CommitApproval, StillPending, SetStatus, StatusesGoOn, At, IInv, TypeOK,
        Lifecycle!TypeOK, Lifecycle!Terminal
  <2> QED
    BY <1>6, <2>1, ReturnSound DEF CommitApproval
<1>7. CASE CommitRejection(s)
  <2>1. StatusesGoOn
    BY <1>7, <1>b DEF CommitRejection, StillPending, SetStatus, StatusesGoOn, At, IInv, TypeOK,
        Lifecycle!TypeOK, Lifecycle!Terminal
  <2>2. CASE StillPending(Req(s))
    <3>1. PICK r \in Request : r = Req(s)
      BY <1>7, <1>b DEF CommitRejection, At
    <3>2. Gone(r)'
      BY <1>7, <2>2, <3>1 DEF CommitRejection, SetStatus, Gone, IInv, TypeOK, Lifecycle!TypeOK,
          Lifecycle!Terminal
    <3> QED
      BY <1>7, <2>1, <2>2, <3>1, <3>2, GotoSound DEF CommitRejection, At, ProgramCounter
  <2>3. CASE ~StillPending(Req(s))
    BY <1>7, <2>1, <2>3, ReturnSound DEF CommitRejection
  <2> QED
    BY <2>2, <2>3
<1>8. CASE ExpirePending(s)
  <2>1. PICK r \in Request : r = Req(s) /\ Gone(r)
    BY <1>8, <1>b, <1>c DEF ExpirePending, At, CallSound
  <2>2. StatusesGoOn
    BY <1>8, <2>1 DEF ExpirePending, SetStatus, StatusesGoOn, IInv, TypeOK, Lifecycle!TypeOK,
        Lifecycle!Terminal, Gone
  <2>3. Gone(r)'
    BY <1>8, <2>1, <2>2 DEF ExpirePending, StatusesGoOn, Gone, IsExpired
  <2> QED
    BY <1>8, <2>1, <2>2, <2>3, GotoSound DEF ExpirePending, At, ProgramCounter
<1> QED
  BY <1>1, <1>2, <1>3, <1>4, <1>5, <1>6, <1>7, <1>8 DEF HolderAnswers

LEMMA VerifySound ==
    ASSUME IInv, SessionsSound, NEW s \in Server, Verify(s)
    PROVE  SessionsSound'
<1>a. UNCHANGED stores => UNCHANGED <<reqExpires, session, now, issued, lost>> /\ StatusesGoOn
  BY DEF stores, tables, StatusesGoOn
<1>b. ~At(s, "idle") => Req(s) \in Request
  BY DEF IInv, HandlersOK, LocalsRead, At, Req
<1>c. handler[s] \in HandlerState /\ handler \in [Server -> HandlerState] /\ CallSound(s)
  BY DEF IInv, HandlersOK, SessionsSound
<1>1. ASSUME NEW r \in Request, ReadContext(s, r)
      PROVE  SessionsSound'
  <2> DEFINE h == [Idle EXCEPT !.op = "verify", !.req = r,
                               !.pc = ContextStep(r, "contextSession"),
                               !.sound = /\ credStatus[presentation[r]] # "REVOKED"
                                         /\ issuerTrust[presentation[r]] # "SUSPENDED"
                                         /\ ~IsExpired(r)]
  <2>1. h.req = r /\ h.pc \in {"expireApproved", "contextSession"}
    BY DEF Idle, ContextStep
  <2>2. handler' = [handler EXCEPT ![s] = h] /\ UNCHANGED stores /\ reqStatus[r] # "ABSENT"
    BY <1>1 DEF ReadContext
  <2> HIDE DEF h
  <2> QED
    BY <2>1, <2>2, NextLocalsSound
<1>2. CASE ContextSession(s)
  BY <1>2, <1>a, GotoSound, ReturnSound DEF ContextSession, At, ProgramCounter
<1>3. CASE ExistingResult(s)
  BY <1>3, <1>a, GotoSound, ReturnSound DEF ExistingResult, At, ProgramCounter
<1>4. CASE Recheck(s)
  <2>1. CASE reqStatus[Req(s)] = "APPROVED"
    <3> DEFINE h == [handler[s] EXCEPT !.pc = ContextStep(Req(s), "recheckSession"),
                                       !.seen = credStatus[presentation[Req(s)]]]
    <3>1. h.req = Req(s) /\ h.pc \in {"expireApproved", "recheckSession"}
      BY <1>c DEF HandlerState, Req, ContextStep
    <3>2. handler' = [handler EXCEPT ![s] = h] /\ UNCHANGED stores
      BY <1>4, <1>c, <2>1 DEF Recheck
    <3>3. Req(s) \in Request
      BY <1>4, <1>b DEF Recheck, At
    <3> HIDE DEF h
    <3> QED
      BY <2>1, <3>1, <3>2, <3>3, NextLocalsSound
  <2>2. CASE reqStatus[Req(s)] # "APPROVED"
    BY <1>4, <1>a, <2>2, ReturnSound DEF Recheck
  <2> QED
    BY <2>1, <2>2
<1>5. CASE RecheckSession(s)
  <2>1. reqStatus[Req(s)] # "ABSENT" /\ Req(s) \in Request /\ UNCHANGED stores
    BY <1>5, <1>b, <1>c DEF RecheckSession, CallSound, At
  <2>2. CASE SessionLive(Req(s))
    BY <1>5, <1>a, <2>2, GotoSound DEF RecheckSession, At, ProgramCounter
  <2>3. CASE ~SessionLive(Req(s))
    <3> DEFINE h == [handler[s] EXCEPT !.pc = "latestStatus", !.cause = "session"]
    <3>1. h.req = Req(s) /\ h.pc = "latestStatus"
      BY <1>c DEF HandlerState, Req
    <3>2. handler' = [handler EXCEPT ![s] = h]
      BY <1>5, <1>c, <2>3 DEF RecheckSession
    <3>3. Gone(Req(s))
      BY <2>1, <2>3, NoSessionGone
    <3> HIDE DEF h
    <3> QED
      BY <2>1, <3>1, <3>2, <3>3, NextLocalsSound
  <2> QED
    BY <2>2, <2>3
<1>6. CASE ChecksPass(s)
  BY <1>6, <1>a, GotoSound DEF ChecksPass, At, ProgramCounter
<1>7. CASE ChecksFail(s)
  <2> DEFINE h == [handler[s] EXCEPT !.pc = "latestStatus", !.cause = "checks"]
  <2>1. h.req = Req(s) /\ h.pc = "latestStatus" /\ h.cause = "checks"
    BY <1>c DEF HandlerState, Req
  <2>2. handler' = [handler EXCEPT ![s] = h]
    BY <1>7, <1>c DEF ChecksFail
  <2>3. reqStatus[Req(s)] # "ABSENT" /\ Req(s) \in Request /\ UNCHANGED stores
    BY <1>7, <1>b, <1>c DEF ChecksFail, CallSound, At
  <2> HIDE DEF h
  <2> QED
    BY <2>1, <2>2, <2>3, NextLocalsSound
<1>8. CASE LatestStatus(s)
  <2>1. handler[s].cause = "session" => Gone(Req(s))
    BY <1>8, <1>c DEF LatestStatus, CallSound, At
  <2> QED
    BY <1>8, <1>a, <2>1, GotoSound, ReturnSound DEF LatestStatus, At, ProgramCounter
<1>9. ASSUME NEW pc \in {"commitVerified", "commitFailed"}, NEW verdict \in {"VERIFIED", "FAILED"},
             CommitDecision(s, pc, verdict)
      PROVE  SessionsSound'
  <2>1. PICK r \in Request : r = Req(s)
    BY <1>9, <1>b DEF CommitDecision, At
  <2>2. StatusesGoOn
    BY <1>9, <2>1 DEF CommitDecision, MayDecide, SetStatus, StatusesGoOn, IInv, TypeOK,
        Lifecycle!TypeOK, Lifecycle!Terminal
  <2>3. CASE MayDecide(r)
    <3>1. Gone(r)'
      BY <1>9, <2>1, <2>3 DEF CommitDecision, SetStatus, Gone, IInv, TypeOK, Lifecycle!TypeOK,
          Lifecycle!Terminal
    <3> QED
      BY <1>9, <2>1, <2>2, <2>3, <3>1, GotoSound DEF CommitDecision, At, ProgramCounter
  <2>4. CASE ~MayDecide(r)
    BY <1>9, <2>1, <2>2, <2>4, ReturnSound DEF CommitDecision
  <2> QED
    BY <2>3, <2>4
<1>10. CASE ExpireApproved(s)
  <2>1. PICK r \in Request : r = Req(s)
    BY <1>10, <1>b DEF ExpireApproved, At
  <2>2. StatusesGoOn
    BY <1>10, <2>1 DEF ExpireApproved, StillApproved, SetStatus, StatusesGoOn, IInv, TypeOK,
        Lifecycle!TypeOK, Lifecycle!Terminal
  <2>3. CASE StillApproved(r)
    <3>1. Gone(r)'
      BY <1>10, <2>1, <2>3 DEF ExpireApproved, SetStatus, Gone, IInv, TypeOK, Lifecycle!TypeOK,
          Lifecycle!Terminal
    <3> QED
      BY <1>10, <2>1, <2>2, <2>3, <3>1, GotoSound DEF ExpireApproved, At, ProgramCounter
  <2>4. CASE ~StillApproved(r)
    BY <1>10, <2>1, <2>2, <2>4, ReturnSound DEF ExpireApproved
  <2> QED
    BY <2>3, <2>4
<1> QED
  BY <1>1, <1>2, <1>3, <1>4, <1>5, <1>6, <1>7, <1>8, <1>9, <1>10
  DEF Verify, CommitVerified, CommitFailed

-----------------------------------------------------------------------------
(* The steps that write or delete a session, insert a row or move the clock. *)

\* A request whose row the step leaves alone.
LEMMA RequestStaysSound ==
    ASSUME IInv, SessionsSound, [Next]_vars, NEW r \in Request,
           reqStatus'[r] = reqStatus[r], reqExpires'[r] = reqExpires[r],
           session' \in [Request -> Nat],
           reqStatus[r] # "ABSENT" => session'[r] >= session[r] \/ r \in lost' \/ Gone(r)
    PROVE  RequestSound(r)'
<1>1. RequestSound(r) /\ session[r] \in Nat /\ session'[r] \in Nat /\ reqExpires[r] \in Nat
  BY DEF SessionsSound, IInv, TypeOK
<1>2. now \in Nat /\ now' \in Nat /\ now <= now' /\ issued \subseteq issued' /\ lost \subseteq lost'
  BY StoresGrow
<1>3. Gone(r) => Gone(r)'
  BY <1>1, <1>2 DEF Gone, IsExpired
<1> QED
  BY <1>1, <1>2, <1>3 DEF RequestSound, Gone, IsExpired

\* A call that takes no part in the step, on a request whose row the step leaves alone.
LEMMA BystanderSound ==
    ASSUME IInv, SessionsSound, [Next]_vars, NEW t \in Server, handler'[t] = handler[t],
           \A u \in Server : u # t /\ ~At(u, "idle")' =>
                (~At(u, "idle") /\ Req(u)' = Req(u)) \/ Req(u)' \notin issued,
           ~At(t, "idle") => reqStatus'[Req(t)] = reqStatus[Req(t)]
                                /\ reqExpires'[Req(t)] = reqExpires[Req(t)],
           At(t, "insert") => session'[Req(t)] = session[Req(t)] \/ Req(t) \in lost'
    PROVE  CallSound(t)'
<1>1. CallSound(t)
  BY DEF SessionsSound
<1>2. now \in Nat /\ now' \in Nat /\ now <= now' /\ issued \subseteq issued' /\ lost \subseteq lost'
  BY StoresGrow
<1>3. CASE At(t, "idle")
  BY <1>3 DEF CallSound, At
<1>4. CASE ~At(t, "idle")
  <2>1. PICK r \in Request : r = Req(t)
    BY <1>4 DEF IInv, HandlersOK, LocalsRead, At, Req
  <2>2. reqExpires[r] \in Nat
    BY DEF IInv, TypeOK
  <2>3. Gone(r) => Gone(r)'
    BY <1>2, <1>4, <2>1, <2>2 DEF Gone, IsExpired
  <2>4. (Gone(Req(t)))' <=> Gone(r)'
    BY <2>1 DEF Gone, IsExpired, Req
  <2>5. At(t, "writeSession") => handler[t].expires <= now' + TTL
    <3>1. handler[t].expires \in Nat
      BY DEF IInv, HandlersOK, HandlerState
    <3> QED
      BY <1>1, <1>2, <3>1, TimesAreNaturals DEF CallSound
  <2>6. handler[t].pc \in {"writeSession", "insert"} =>
            \A u \in Server \ {t} : ~At(u, "idle")' => Req(u)' # Req(t)
    BY <1>1 DEF CallSound, At
  <2> QED
    BY <1>1, <1>2, <1>4, <2>1, <2>3, <2>4, <2>5, <2>6 DEF CallSound, At, Req
<1> QED
  BY <1>3, <1>4

LEMMA CreateSound ==
    ASSUME IInv, SessionsSound, [Next]_vars, NEW s \in Server, Create(s)
    PROVE  SessionsSound'
<1>a. handler[s] \in HandlerState /\ handler \in [Server -> HandlerState] /\ CallSound(s)
  BY DEF IInv, HandlersOK, SessionsSound
<1>b. ~At(s, "idle") => Req(s) \in Request
  BY DEF IInv, HandlersOK, LocalsRead, At, Req
<1>c. session' \in [Request -> Nat]
  BY StoresStep
<1>1. ASSUME NEW r \in Request, NEW a \in Application, StartCreate(s, r, a)
      PROVE  SessionsSound'
  <2>1. /\ handler'[s].pc = "writeSession"
        /\ handler'[s].req = r
        /\ handler'[s].expires = now + TTL
        /\ \A t \in Server : t # s => handler'[t] = handler[t]
    BY <1>1, <1>a DEF StartCreate, Idle
  <2>2. r \notin issued /\ issued' = issued \cup {r} /\ reqStatus[r] = "ABSENT"
    BY <1>1 DEF StartCreate, SessionsSound, RequestSound
  <2>3. UNCHANGED <<reqStatus, reqExpires, session, now, lost>>
    BY <1>1 DEF StartCreate, tables
  <2>4. ASSUME NEW q \in Request
        PROVE  RequestSound(q)'
    <3>1. session[q] >= session[q]
      BY DEF IInv, TypeOK
    <3> QED
      BY <1>c, <2>3, <3>1, RequestStaysSound
  <2>5. ASSUME NEW t \in Server, t # s
        PROVE  CallSound(t)'
    BY <2>1, <2>2, <2>3, <2>5, BystanderSound DEF At, Req
  <2>6. \A t \in Server : t # s /\ ~At(t, "idle") => Req(t) # r
    BY <2>2 DEF SessionsSound, CallSound
  <2>7. now + TTL <= now + TTL
    BY TimesAreNaturals DEF IInv, TypeOK
  <2>8. CallSound(s)'
    BY <2>1, <2>2, <2>3, <2>6, <2>7 DEF CallSound, At, Req
  <2> QED
    BY <2>4, <2>5, <2>8 DEF SessionsSound
<1>2. CASE WriteSession(s)
  <2>1. PICK r \in Request : r = Req(s)
    BY <1>2, <1>b DEF WriteSession, At
  <2>2. /\ handler'[s].pc = "insert"
        /\ handler'[s].req = r
        /\ handler'[s].expires = handler[s].expires
        /\ \A t \in Server : t # s => handler'[t] = handler[t]
    BY <1>2, <1>a, <2>1 DEF WriteSession, Goto, HandlerState, Req
  <2>3. UNCHANGED <<reqStatus, reqExpires, now, issued, lost>>
    BY <1>2 DEF WriteSession, tables
  <2>4. session'[r] = now + TTL /\ \A q \in Request : q # r => session'[q] = session[q]
    BY <1>2, <2>1 DEF WriteSession, SetSession, IInv, TypeOK
  <2>5. /\ r \in issued
        /\ reqStatus[r] = "ABSENT"
        /\ handler[s].expires <= now + TTL
        /\ \A t \in Server \ {s} : ~At(t, "idle") => Req(t) # r
    BY <1>2, <1>a, <2>1 DEF WriteSession, CallSound, At
  <2>6. ASSUME NEW q \in Request
        PROVE  RequestSound(q)'
    <3>1. session[q] >= session[q]
      BY DEF IInv, TypeOK
    <3> QED
      BY <1>c, <2>3, <2>4, <2>5, <3>1, RequestStaysSound
  <2>7. ASSUME NEW t \in Server, t # s
        PROVE  CallSound(t)'
    <3>1. ~At(t, "idle") => Req(t) \in Request /\ Req(t) # r
      BY <2>5, <2>7 DEF IInv, HandlersOK, LocalsRead, At, Req
    <3>2. At(t, "insert") => session'[Req(t)] = session[Req(t)]
      BY <2>4, <3>1 DEF At
    <3>3. \A u \in Server : ~At(u, "idle")' => ~At(u, "idle") /\ Req(u)' = Req(u)
      BY <1>2, <2>1, <2>2 DEF WriteSession, At, Req
    <3> QED
      BY <2>2, <2>3, <2>7, <3>2, <3>3, BystanderSound
  <2>8. CallSound(s)'
    <3>1. session'[r] >= handler[s].expires
      BY <1>a, <2>4, <2>5, TimesAreNaturals DEF HandlerState, IInv, TypeOK
    <3> QED
      BY <2>2, <2>3, <2>5, <3>1 DEF CallSound, At, Req
  <2> QED
    BY <2>6, <2>7, <2>8 DEF SessionsSound
<1>3. CASE CreateRollsBack(s)
  <2>1. PICK r \in Request : r = Req(s)
    BY <1>3, <1>b DEF CreateRollsBack, At
  <2>2. UNCHANGED <<reqStatus, reqExpires, session, now, issued, lost>> /\ StatusesGoOn
    BY <1>3 DEF CreateRollsBack, stores, tables, StatusesGoOn
  <2>3. reqStatus'[r] = "ABSENT"
    BY <1>3, <1>a, <2>1, <2>2 DEF CreateRollsBack, CallSound, At
  <2> QED
    BY <1>3, <2>1, <2>2, <2>3, GotoSound DEF CreateRollsBack, At, ProgramCounter
<1>4. CASE CreateCommits(s) \/ CreateUnacknowledged(s)
  <2>1. PICK r \in Request : r = Req(s)
    BY <1>4, <1>b DEF CreateCommits, CreateUnacknowledged, At
  <2>2. /\ At(s, "insert")
        /\ reqStatus[r] = "ABSENT"
        /\ reqStatus' = [reqStatus EXCEPT ![r] = "PENDING"]
        /\ reqExpires' = [reqExpires EXCEPT ![r] = handler[s].expires]
        /\ UNCHANGED <<session, now, issued>>
    BY <1>4, <2>1 DEF CreateCommits, CreateUnacknowledged, InsertRequest, SetStatus
  <2>3. /\ r \in issued
        /\ session[r] >= handler[s].expires \/ r \in lost
        /\ \A t \in Server \ {s} : ~At(t, "idle") => Req(t) # r
    BY <1>a, <2>1, <2>2 DEF CallSound, At
  <2>4. /\ reqStatus'[r] = "PENDING"
        /\ reqExpires'[r] = handler[s].expires
        /\ \A q \in Request : q # r =>
                reqStatus'[q] = reqStatus[q] /\ reqExpires'[q] = reqExpires[q]
    BY <2>2 DEF IInv, TypeOK, Lifecycle!TypeOK
  <2>5. /\ \A t \in Server : t # s => handler'[t] = handler[t]
        /\ \/ handler'[s].pc = "idle"
           \/ handler'[s].pc = "dropSession" /\ handler'[s].req = r /\ r \in lost'
    BY <1>4, <1>a, <2>1
    DEF CreateCommits, CreateUnacknowledged, Return, Goto, Idle, HandlerState, Req
  <2>6. lost \subseteq lost'
    BY StoresGrow
  <2>7. ASSUME NEW q \in Request
        PROVE  RequestSound(q)'
    <3>1. session[q] >= session[q]
      BY DEF IInv, TypeOK
    <3>2. CASE q = r
      BY <2>2, <2>3, <2>4, <2>6, <3>2 DEF RequestSound, Gone, IsExpired
    <3>3. CASE q # r
      BY <1>c, <2>2, <2>4, <3>1, <3>3, RequestStaysSound
    <3> QED
      BY <3>2, <3>3
  <2>8. ASSUME NEW t \in Server, t # s
        PROVE  CallSound(t)'
    <3>1. ~At(t, "idle") => Req(t) \in Request /\ Req(t) # r
      BY <2>3, <2>8 DEF IInv, HandlersOK, LocalsRead, At, Req
    <3>2. \A u \in Server : ~At(u, "idle")' => ~At(u, "idle") /\ Req(u)' = Req(u)
      BY <2>1, <2>2, <2>5 DEF At, Req
    <3> QED
      BY <2>2, <2>4, <2>5, <2>8, <3>1, <3>2, BystanderSound
  <2>9. CallSound(s)'
    BY <2>2, <2>3, <2>5 DEF CallSound, Gone, At, Req
  <2> QED
    BY <2>7, <2>8, <2>9 DEF SessionsSound
<1> QED
  BY <1>1, <1>2, <1>3, <1>4 DEF Create

LEMMA DropSessionSound ==
    ASSUME IInv, SessionsSound, [Next]_vars, NEW s \in Server, DropSession(s)
    PROVE  SessionsSound'
<1>1. PICK r \in Request : r = Req(s)
  BY DEF DropSession, IInv, HandlersOK, LocalsRead, At, Req
<1>2. UNCHANGED <<reqStatus, reqExpires, now, issued, lost>>
  BY DEF DropSession, tables
<1>3. session' \in [Request -> Nat] /\ \A q \in Request : q # r => session'[q] = session[q]
  BY <1>1, StoresStep DEF DropSession, SetSession, IInv, TypeOK
<1>4. Gone(r) \/ reqStatus[r] = "ABSENT"
  BY <1>1 DEF DropSession, SessionsSound, CallSound
<1>5. handler'[s].pc = "idle" /\ \A t \in Server : t # s => handler'[t] = handler[t]
  BY DEF DropSession, Return, Idle, IInv, HandlersOK
<1>6. ASSUME NEW q \in Request
      PROVE  RequestSound(q)'
  <2>1. session[q] >= session[q]
    BY DEF IInv, TypeOK
  <2> QED
    BY <1>2, <1>3, <1>4, <2>1, RequestStaysSound
<1>7. ASSUME NEW t \in Server, t # s
      PROVE  CallSound(t)'
  <2>1. At(t, "insert") => Req(t) \in Request /\ Req(t) # r
    BY <1>1, <1>7 DEF DropSession, SessionsSound, CallSound, IInv, HandlersOK, LocalsRead, At, Req
  <2>2. \A u \in Server : ~At(u, "idle")' => ~At(u, "idle") /\ Req(u)' = Req(u)
    BY <1>5 DEF At, Req
  <2> QED
    BY <1>2, <1>3, <1>5, <1>7, <2>1, <2>2, BystanderSound
<1>8. CallSound(s)'
  BY <1>5 DEF CallSound, At
<1> QED
  BY <1>6, <1>7, <1>8 DEF SessionsSound

\* Time passes, or a session is lost: no call moves.
LEMMA SurroundingsSound ==
    ASSUME IInv, SessionsSound, [Next]_vars, Tick \/ \E r \in Request : LoseSession(r)
    PROVE  SessionsSound'
<1>1. UNCHANGED <<reqStatus, reqExpires, issued, handler>>
  BY DEF Tick, LoseSession, tables
<1>2. ASSUME NEW q \in Request
      PROVE  session'[q] = session[q] \/ q \in lost'
  BY DEF Tick, LoseSession, SetSession, IInv, TypeOK
<1>3. session' \in [Request -> Nat]
  BY StoresStep
<1>4. ASSUME NEW q \in Request
      PROVE  RequestSound(q)'
  <2>1. session[q] >= session[q]
    BY DEF IInv, TypeOK
  <2> QED
    BY <1>1, <1>2, <1>3, <2>1, RequestStaysSound
<1>5. ASSUME NEW t \in Server
      PROVE  CallSound(t)'
  <2>1. ~At(t, "idle") => Req(t) \in Request
    BY DEF IInv, HandlersOK, LocalsRead, At, Req
  <2>2. \A u \in Server : ~At(u, "idle")' => ~At(u, "idle") /\ Req(u)' = Req(u)
    BY <1>1 DEF At, Req
  <2>3. At(t, "insert") => session'[Req(t)] = session[Req(t)] \/ Req(t) \in lost'
    BY <1>2, <2>1 DEF At
  <2> QED
    BY <1>1, <2>2, <2>3, BystanderSound
<1> QED
  BY <1>4, <1>5 DEF SessionsSound

-----------------------------------------------------------------------------
LEMMA InitSound == Init => SessionsSound
BY DEF Init, Lifecycle!Init, SessionsSound, RequestSound, CallSound, Idle, At

LEMMA SoundStep == IInv /\ SessionsSound /\ [Next]_vars => SessionsSound'
<1> SUFFICES ASSUME IInv, SessionsSound, [Next]_vars
             PROVE  SessionsSound'
  OBVIOUS
<1>1. CASE \E s \in Server : Handle(s)
  BY <1>1, CreateSound, HolderAnswersSound, VerifySound, DropSessionSound DEF Handle
<1>2. CASE \E s \in Server : Crash(s)
  <2>1. UNCHANGED <<reqStatus, reqExpires, session, now, issued, lost>> /\ StatusesGoOn
    BY <1>2 DEF Crash, stores, tables, StatusesGoOn
  <2> QED
    BY <1>2, <2>1, ReturnSound DEF Crash
<1>3. CASE WalletSweep
  <2>1. StatusesGoOn
    BY <1>3 DEF WalletSweep, Overdue, StatusesGoOn, Lifecycle!Terminal
  <2> QED
    BY <1>3, <2>1, CallsGoOn DEF WalletSweep
<1>4. CASE Tick \/ \E r \in Request : LoseSession(r)
  BY <1>4, SurroundingsSound
<1>5. CASE UNCHANGED vars \/ \E c \in Credential : CredentialChanges(c) \/ TrustChanges(c)
  <2>1. UNCHANGED <<reqStatus, reqExpires, session, now, issued, lost, handler>> /\ StatusesGoOn
    BY <1>5 DEF CredentialChanges, ChangeCredential, TrustChanges, ChangeTrust, vars, stores,
        tables, StatusesGoOn
  <2> QED
    BY <2>1, CallsGoOn
<1> QED
  BY <1>1, <1>2, <1>3, <1>4, <1>5 DEF Next

LEMMA SessionsInvariance == Spec => []SInv
<1>1. Init => SInv
  BY InitIInv, InitSound DEF SInv
<1>2. SInv /\ [Next]_vars => SInv'
  BY IInvStep, SoundStep DEF SInv
<1> QED
  BY <1>1, <1>2, PTL DEF Spec

\* A pending or approved request within its deadline has its session, whatever other handlers
\* write and delete, unless a fault took it (create, reject, expireRequest and
\* verifyPresentation with their redis calls).
THEOREM LiveRequestsHaveSessions == Spec => []LiveRequestHasSession
<1>1. SInv => LiveRequestHasSession
  <2> SUFFICES ASSUME SInv, NEW r \in Request, reqStatus[r] \in {"PENDING", "APPROVED"},
                      ~IsExpired(r)
               PROVE  SessionLive(r) \/ r \in lost
    BY DEF LiveRequestHasSession
  <2>1. session[r] >= reqExpires[r] \/ r \in lost
    BY DEF SInv, SessionsSound, RequestSound, Gone, Lifecycle!Terminal
  <2>2. session[r] \in Nat /\ reqExpires[r] \in Nat /\ now \in Nat
    BY DEF SInv, IInv, TypeOK
  <2> QED
    BY <2>1, <2>2 DEF SessionLive, IsExpired
<1> QED
  BY <1>1, SessionsInvariance, PTL

\* No request is EXPIRED before its deadline, but for a fault (ensurePendingAndActive, the
\* missing session in approve and reject, and findPendingRequests).
THEOREM ExpiryIsDue == Spec => []EarlyExpiryNeedsLoss
<1>1. SInv => EarlyExpiryNeedsLoss
  BY DEF SInv, SessionsSound, RequestSound, EarlyExpiryNeedsLoss
<1> QED
  BY <1>1, SessionsInvariance, PTL

\* The only step from commitFailed to dropSession is the transaction that records the failure.
LEMMA CommitFailedMayDecide ==
    ASSUME IInv, [Next]_vars, NEW s \in Server, At(s, "commitFailed"),
           handler'[s].pc = "dropSession"
    PROVE  MayDecide(Req(s))
<1> USE DEF IInv, HandlersOK
<1>1. ASSUME NEW t \in Server, Create(t)
      PROVE  handler'[s].pc = "commitFailed"
  BY <1>1 DEF Create, StartCreate, WriteSession, CreateCommits, CreateRollsBack,
      CreateUnacknowledged, At, Goto, Return
<1>2. ASSUME NEW t \in Server, HolderAnswers(t)
      PROVE  handler'[s].pc = "commitFailed"
  BY <1>2 DEF HolderAnswers, ReadPending, ReadSession, Sign, PreparePayload, CheckClientProof,
      AnswerRefused, CommitApproval, CommitRejection, ExpirePending, At, Goto, Return
<1>3. ASSUME NEW t \in Server, Verify(t), ~CommitFailed(t)
      PROVE  handler'[s].pc = "commitFailed"
  BY <1>3 DEF Verify, ReadContext, ContextSession, ExistingResult, Recheck, RecheckSession,
      ChecksPass, ChecksFail, LatestStatus, CommitVerified, CommitDecision, ExpireApproved,
      At, Goto, Return
<1>4. ASSUME NEW t \in Server, CommitFailed(t)
      PROVE  MayDecide(Req(s))
  BY <1>4 DEF CommitFailed, CommitDecision, At, Goto, Return, Idle
<1>5. ASSUME NEW t \in Server, DropSession(t) \/ Crash(t)
      PROVE  handler'[s].pc \in {"commitFailed", "idle"}
  BY <1>5 DEF DropSession, Crash, At, Return, Idle
<1>6. CASE UNCHANGED handler
  BY <1>6 DEF At
<1>7. CASE WalletSweep \/ Tick \/ \E r \in Request : LoseSession(r)
  BY <1>6, <1>7 DEF WalletSweep, Tick, LoseSession
<1>8. CASE UNCHANGED vars \/ \E c \in Credential : CredentialChanges(c) \/ TrustChanges(c)
  BY <1>6, <1>8 DEF CredentialChanges, ChangeCredential, TrustChanges, ChangeTrust, vars
<1> QED
  BY <1>1, <1>2, <1>3, <1>4, <1>5, <1>7, <1>8 DEF Next, Handle

\* No verification within the deadline is failed for want of a session, but for a fault
\* (the second pass of validateRequestContext).
THEOREM SessionFailuresAreFaults == Spec => SessionFailureNeedsLoss
<1>1. SInv /\ [Next]_vars =>
        [\A s \in Server :
            /\ At(s, "commitFailed")
            /\ handler[s].cause = "session"
            /\ handler'[s].pc = "dropSession"
            => Req(s) \in lost \/ IsExpired(Req(s))]_vars
  <2> SUFFICES ASSUME SInv, [Next]_vars, NEW s \in Server, At(s, "commitFailed"),
                      handler[s].cause = "session", handler'[s].pc = "dropSession"
               PROVE  Req(s) \in lost \/ IsExpired(Req(s))
    OBVIOUS
  <2>1. Gone(Req(s))
    BY DEF SInv, SessionsSound, CallSound, At
  <2>2. reqStatus[Req(s)] = "APPROVED"
    BY CommitFailedMayDecide DEF MayDecide, SInv
  <2> QED
    BY <2>1, <2>2 DEF Gone, Lifecycle!Terminal
<1> QED
  BY <1>1, SessionsInvariance, PTL DEF Spec, SessionFailureNeedsLoss

-----------------------------------------------------------------------------
(***************************************************************************)
(* What was withdrawn when a verification began is never accepted by it.   *)
(* Revocation, the suspension of an issuer and the deadline are for good,  *)
(* so a call that began too late still finds the cause, in the stores or   *)
(* in the status it has read, when it comes to its checks.                 *)
(***************************************************************************)

\* What makes a credential unacceptable for ever.
Withdrawn(r) ==
    \/ credStatus[presentation[r]] = "REVOKED"
    \/ issuerTrust[presentation[r]] = "SUSPENDED"

BeforeRead == {"contextSession", "existingResult", "recheck"}
AfterRead == {"recheckSession", "check"}

\* A call that began unsound will notice, before and after it reads the status.
WillNotice(h) ==
    /\ h.pc \in BeforeRead \cup AfterRead => h.req \in Request /\ presentation[h.req] # NoCredential
    /\ h.pc \in BeforeRead /\ ~h.sound => Withdrawn(h.req)
    /\ h.pc \in AfterRead /\ ~h.sound =>
          h.seen = "REVOKED" \/ issuerTrust[presentation[h.req]] = "SUSPENDED"
    /\ h.pc = "commitVerified" => h.sound

AllWillNotice == \A s \in Server : WillNotice(handler[s])

\* Nothing takes a revocation or a suspension of trust back.
LEMMA WithdrawalsLast ==
    ASSUME IInv, [Next]_vars, NEW c \in Credential
    PROVE  /\ credStatus[c] = "REVOKED" => credStatus'[c] = "REVOKED"
           /\ issuerTrust[c] = "SUSPENDED" => issuerTrust'[c] = "SUSPENDED"
<1>1. CASE \E d \in Credential : CredentialChanges(d)
  BY <1>1 DEF CredentialChanges, ChangeCredential, IInv, TypeOK
<1>2. CASE \E d \in Credential : TrustChanges(d)
  BY <1>2 DEF TrustChanges, ChangeTrust, IInv, TypeOK
<1>3. CASE \E s \in Server : Create(s)
  <2>1. UNCHANGED <<credStatus, issuerTrust>>
    BY <1>3 DEF Create, StartCreate, WriteSession, CreateCommits, CreateRollsBack,
        CreateUnacknowledged, InsertRequest, stores
  <2> QED
    BY <2>1
<1>4. CASE \E s \in Server : HolderAnswers(s)
  <2>1. UNCHANGED <<credStatus, issuerTrust>>
    BY <1>4 DEF HolderAnswers, ReadPending, ReadSession, Sign, PreparePayload, CheckClientProof,
        AnswerRefused, CommitApproval, CommitRejection, ExpirePending, stores
  <2> QED
    BY <2>1
<1>5. CASE \E s \in Server : Verify(s)
  <2>1. UNCHANGED <<credStatus, issuerTrust>>
    BY <1>5 DEF Verify, ReadContext, ContextSession, ExistingResult, Recheck, RecheckSession,
        ChecksPass, ChecksFail, LatestStatus, CommitVerified, CommitFailed, CommitDecision,
        ExpireApproved, stores
  <2> QED
    BY <2>1
<1>6. CASE \/ WalletSweep \/ Tick \/ \E r \in Request : LoseSession(r)
           \/ \E s \in Server : DropSession(s) \/ Crash(s)
  <2>1. UNCHANGED <<credStatus, issuerTrust>>
    BY <1>6 DEF WalletSweep, Tick, LoseSession, DropSession, Crash, stores
  <2> QED
    BY <2>1
<1>7. CASE UNCHANGED vars
  BY <1>7 DEF vars, stores
<1> QED
  BY <1>1, <1>2, <1>3, <1>4, <1>5, <1>6, <1>7 DEF Next, Handle

\* What was presented stays presented: the row of an approved request is not written again.
LEMMA PresentationsStay ==
    ASSUME IInv, [Next]_vars, NEW r \in Request, presentation[r] # NoCredential
    PROVE  presentation'[r] = presentation[r]
<1>1. reqStatus[r] # "PENDING"
  BY DEF IInv, DisclosureNeedsApproval, Lifecycle!DisclosureNeedsApproval
<1>2. CASE UNCHANGED Lifecycle!vars
  BY <1>2 DEF Lifecycle!vars
<1>3. CASE Lifecycle!Next
  BY <1>1, <1>3 DEF Lifecycle!Next, Lifecycle!Open, Lifecycle!Approve, Lifecycle!Reject,
      Lifecycle!Expire, Lifecycle!Decide, IInv, TypeOK, Lifecycle!TypeOK
<1> QED
  BY <1>2, <1>3, StepImplements

\* The steps of others do not hide the cause.
LEMMA StillNotices ==
    ASSUME IInv, [Next]_vars, NEW h, WillNotice(h)
    PROVE  WillNotice(h)'
<1>1. CASE h.pc \in BeforeRead \cup AfterRead
  <2>1. /\ h.req \in Request /\ presentation[h.req] \in Credential
        /\ presentation[h.req] # NoCredential
    BY <1>1 DEF WillNotice, IInv, TypeOK, Lifecycle!TypeOK
  <2>2. presentation'[h.req] = presentation[h.req]
    BY <2>1, PresentationsStay
  <2>3. /\ credStatus[presentation[h.req]] = "REVOKED" => credStatus'[presentation[h.req]] = "REVOKED"
        /\ issuerTrust[presentation[h.req]] = "SUSPENDED" =>
               issuerTrust'[presentation[h.req]] = "SUSPENDED"
    BY <2>1, WithdrawalsLast
  <2> QED
    BY <2>1, <2>2, <2>3 DEF WillNotice, Withdrawn
<1>2. CASE h.pc \notin BeforeRead \cup AfterRead
  BY <1>2 DEF WillNotice
<1> QED
  BY <1>1, <1>2

\* A call elsewhere has nothing to notice.
LEMMA Elsewhere ==
    ASSUME NEW h, h.pc \notin BeforeRead \cup AfterRead \cup {"commitVerified"}
    PROVE  WillNotice(h)
BY DEF WillNotice

LEMMA VerifyNotices ==
    ASSUME IInv, AllWillNotice, NEW s \in Server, Verify(s), NEW h, h = handler'[s]
    PROVE  WillNotice(h)
<1>1. WillNotice(handler[s]) /\ handler[s] \in HandlerState
  BY DEF AllWillNotice, IInv, HandlersOK
<1>2. handler \in [Server -> HandlerState]
  BY DEF IInv, HandlersOK
<1>3. Idle.pc = "idle"
  BY DEF Idle
<1>4. ASSUME Return(s) PROVE WillNotice(h)
  <2>1. h = Idle
    BY <1>2, <1>4 DEF Return
  <2> QED
    BY <1>3, <2>1, Elsewhere DEF BeforeRead, AfterRead
<1>5. ASSUME NEW pc, Goto(s, pc)
      PROVE  /\ h.pc = pc /\ h.req = handler[s].req /\ h.seen = handler[s].seen
             /\ h.sound = handler[s].sound
  BY <1>1, <1>2, <1>5 DEF Goto, HandlerState
<1>6. ASSUME NEW r \in Request, ReadContext(s, r) PROVE WillNotice(h)
  <2>1. /\ presentation[r] # NoCredential
        /\ h = [Idle EXCEPT !.op = "verify", !.req = r, !.pc = ContextStep(r, "contextSession"),
                    !.sound = /\ credStatus[presentation[r]] # "REVOKED"
                              /\ issuerTrust[presentation[r]] # "SUSPENDED"
                              /\ ~IsExpired(r)]
    BY <1>2, <1>6 DEF ReadContext
  <2>2. /\ h.req = r /\ h.pc = ContextStep(r, "contextSession")
        /\ h.sound <=> ~Withdrawn(r) /\ ~IsExpired(r)
    BY <2>1 DEF Idle, Withdrawn
  <2> QED
    BY <2>1, <2>2 DEF ContextStep, WillNotice, BeforeRead, AfterRead
<1>7. CASE ContextSession(s)
  <2>1. CASE Goto(s, "existingResult")
    BY <1>1, <1>5, <1>7, <2>1 DEF ContextSession, At, WillNotice, BeforeRead, AfterRead
  <2> QED
    BY <1>4, <1>7, <2>1 DEF ContextSession
<1>8. CASE ExistingResult(s)
  <2>1. CASE Goto(s, "recheck")
    BY <1>1, <1>5, <1>8, <2>1 DEF ExistingResult, At, WillNotice, BeforeRead, AfterRead
  <2> QED
    BY <1>4, <1>8, <2>1 DEF ExistingResult
<1>9. CASE Recheck(s)
  <2>1. CASE handler' = [handler EXCEPT ![s].pc = ContextStep(Req(s), "recheckSession"),
                                        ![s].seen = credStatus[presentation[Req(s)]]]
    <3>1. /\ h.req = Req(s) /\ h.pc = ContextStep(Req(s), "recheckSession")
          /\ h.seen = credStatus[presentation[Req(s)]] /\ h.sound = handler[s].sound
      BY <1>1, <1>2, <2>1 DEF HandlerState, Req
    <3> QED
      BY <1>1, <1>9, <3>1 DEF Recheck, At, Req, ContextStep, WillNotice, Withdrawn, BeforeRead,
          AfterRead
  <2> QED
    BY <1>4, <1>9, <2>1 DEF Recheck
<1>10. CASE RecheckSession(s)
  <2>1. CASE Goto(s, "check")
    BY <1>1, <1>5, <1>10, <2>1 DEF RecheckSession, At, WillNotice, BeforeRead, AfterRead
  <2>2. CASE handler' = [handler EXCEPT ![s].pc = "latestStatus", ![s].cause = "session"]
    <3>1. h.pc = "latestStatus"
      BY <1>1, <1>2, <2>2 DEF HandlerState
    <3> QED
      BY <3>1, Elsewhere DEF BeforeRead, AfterRead
  <2> QED
    BY <1>10, <2>1, <2>2 DEF RecheckSession
<1>11. CASE ChecksPass(s)
  <2>1. handler[s].sound
    BY <1>1, <1>11 DEF ChecksPass, MayPass, At, Req, WillNotice, AfterRead
  <2>2. h.pc = "commitVerified" /\ h.sound = handler[s].sound
    BY <1>5, <1>11 DEF ChecksPass
  <2> QED
    BY <2>1, <2>2 DEF WillNotice, BeforeRead, AfterRead
<1>12. CASE ChecksFail(s)
  <2>1. h.pc = "latestStatus"
    BY <1>1, <1>2, <1>12 DEF ChecksFail, HandlerState
  <2> QED
    BY <2>1, Elsewhere DEF BeforeRead, AfterRead
<1>13. CASE LatestStatus(s) \/ CommitVerified(s) \/ CommitFailed(s) \/ ExpireApproved(s)
  <2>1. Return(s) \/ Goto(s, "commitFailed") \/ Goto(s, "dropSession")
    BY <1>13 DEF LatestStatus, CommitVerified, CommitFailed, CommitDecision, ExpireApproved
  <2>2. ASSUME NEW pc \in {"commitFailed", "dropSession"}, Goto(s, pc) PROVE WillNotice(h)
    BY <1>5, <2>2, Elsewhere DEF BeforeRead, AfterRead
  <2> QED
    BY <1>4, <2>1, <2>2
<1> QED
  BY <1>6, <1>7, <1>8, <1>9, <1>10, <1>11, <1>12, <1>13 DEF Verify

LEMMA OthersNotice ==
    ASSUME IInv, NEW s \in Server, Create(s) \/ HolderAnswers(s) \/ DropSession(s) \/ Crash(s),
           NEW h, h = handler'[s]
    PROVE  WillNotice(h)
<1>1. handler \in [Server -> HandlerState] /\ handler[s] \in HandlerState /\ Idle.pc = "idle"
  BY DEF IInv, HandlersOK, Idle
<1> DEFINE Beyond == {"idle", "writeSession", "insert", "readSession", "sign", "payload", "proof",
                      "commitApproval", "commitRejection", "expire", "dropSession"}
<1> SUFFICES h.pc \in Beyond
  BY Elsewhere DEF BeforeRead, AfterRead
<1>2. ASSUME NEW pc \in Beyond, Goto(s, pc) PROVE h.pc \in Beyond
  BY <1>1, <1>2 DEF Goto, HandlerState
<1>3. ASSUME Return(s) PROVE h.pc \in Beyond
  BY <1>1, <1>3 DEF Return
<1>4. CASE Create(s)
  <2>1. ASSUME NEW r \in Request, NEW a \in Application, StartCreate(s, r, a)
        PROVE  h.pc \in Beyond
    BY <1>1, <2>1 DEF StartCreate, Idle
  <2> QED
    BY <1>2, <1>3, <1>4, <2>1 DEF Create, WriteSession, CreateCommits, CreateRollsBack,
        CreateUnacknowledged
<1>5. CASE HolderAnswers(s)
  <2>1. ASSUME NEW op, NEW r \in Request, ReadPending(s, op, r)
        PROVE  h.pc \in Beyond
    BY <1>1, <2>1 DEF ReadPending, Idle
  <2>2. ASSUME NEW c \in Credential, Sign(s, c) \/ PreparePayload(s, c)
        PROVE  h.pc \in Beyond
    BY <1>1, <1>3, <2>2 DEF Sign, PreparePayload, HandlerState
  <2>3. CASE \/ ReadSession(s) \/ CheckClientProof(s) \/ AnswerRefused(s) \/ CommitApproval(s)
             \/ CommitRejection(s) \/ ExpirePending(s)
    <3> HIDE DEF Beyond
    <3>1. \/ Return(s) \/ Goto(s, "expire") \/ Goto(s, "sign") \/ Goto(s, "commitRejection")
          \/ Goto(s, "payload") \/ Goto(s, "commitApproval") \/ Goto(s, "dropSession")
      BY <2>3 DEF ReadSession, CheckClientProof, AnswerRefused, CommitApproval, CommitRejection,
          ExpirePending
    <3> QED
      BY <1>2, <1>3, <3>1 DEF Beyond
  <2> QED
    BY <1>5, <2>1, <2>2, <2>3 DEF HolderAnswers
<1>6. CASE DropSession(s) \/ Crash(s)
  BY <1>3, <1>6 DEF DropSession, Crash
<1> QED
  BY <1>4, <1>5, <1>6

\* A step of one call is no step of another.
LEMMA OneAtATime ==
    ASSUME IInv, NEW s \in Server, Handle(s) \/ Crash(s), NEW t \in Server, t # s
    PROVE  handler'[t] = handler[t]
<1>1. handler \in [Server -> HandlerState]
  BY DEF IInv, HandlersOK
<1>2. CASE Create(s)
  BY <1>1, <1>2 DEF Create, StartCreate, WriteSession, CreateCommits, CreateRollsBack,
      CreateUnacknowledged, Goto, Return
<1>3. CASE HolderAnswers(s)
  BY <1>1, <1>3 DEF HolderAnswers, ReadPending, ReadSession, Sign, PreparePayload,
      CheckClientProof, AnswerRefused, CommitApproval, CommitRejection, ExpirePending, Goto, Return
<1>4. CASE Verify(s)
  BY <1>1, <1>4 DEF Verify, ReadContext, ContextSession, ExistingResult, Recheck, RecheckSession,
      ChecksPass, ChecksFail, LatestStatus, CommitVerified, CommitFailed, CommitDecision,
      ExpireApproved, Goto, Return
<1>5. CASE DropSession(s) \/ Crash(s)
  BY <1>1, <1>5 DEF DropSession, Crash, Return
<1> QED
  BY <1>2, <1>3, <1>4, <1>5 DEF Handle

LEMMA NoticeStep == IInv /\ AllWillNotice /\ [Next]_vars => AllWillNotice'
<1> SUFFICES ASSUME IInv, AllWillNotice, [Next]_vars, NEW t \in Server
             PROVE  WillNotice(handler[t])'
  BY DEF AllWillNotice
<1>1. PICK h : h = handler'[t]
  OBVIOUS
<1>2. ASSUME handler'[t] = handler[t] PROVE WillNotice(h)
  BY <1>1, <1>2 DEF AllWillNotice
<1>3. ASSUME handler'[t] # handler[t] PROVE WillNotice(h)
  <2>1. PICK s \in Server : Handle(s) \/ Crash(s)
    BY <1>3 DEF Next, vars, WalletSweep, CredentialChanges, ChangeCredential, TrustChanges,
        ChangeTrust, LoseSession, Tick
  <2>2. s = t
    BY <1>3, <2>1, OneAtATime
  <2> QED
    BY <1>1, <2>1, <2>2, VerifyNotices, OthersNotice DEF Handle
<1>4. WillNotice(h)
  BY <1>2, <1>3
<1>5. WillNotice(h)'
  BY <1>4, StillNotices
<1> QED
  BY <1>1, <1>5 DEF WillNotice, Withdrawn

LEMMA NoticeInvariance == Spec => []AllWillNotice
<1>1. Init => AllWillNotice
  BY DEF Init, AllWillNotice, WillNotice, Idle, BeforeRead, AfterRead
<1> QED
  BY <1>1, NoticeStep, Invariance, PTL DEF Spec

\* No verification that began after the deadline, or with a credential that had been revoked
\* or whose issuer had been suspended, ends in VERIFIED, whatever happens during its checks
\* (verifyPresentation, validateRequestContext, validateCredentialChecks).
THEOREM AcceptedWasSound == Spec => VerifiedWasSoundAtStart
<1>1. AllWillNotice /\ [Next]_vars =>
          [\A s \in Server :
              At(s, "commitVerified") /\ handler'[s].pc = "dropSession" => handler[s].sound]_vars
  BY DEF AllWillNotice, WillNotice, At
<1> QED
  BY <1>1, NoticeInvariance, PTL DEF Spec, VerifiedWasSoundAtStart
=============================================================================
