------------------------- MODULE PresentationsProofs -------------------------
(***************************************************************************)
(* Type correctness of Presentations.tla and its properties, for any       *)
(* claims, any lists of them and any number of events.  The invariant      *)
(* follows the agreement along its way: the names requested were required  *)
(* (Asked), the holder signed what was approved of them (Faithful), the    *)
(* proof a call has checked is of what it has read (HashChecked), and a    *)
(* call that is about to succeed has compared every claim (Compared).      *)
(*                                                                         *)
(* For failures a second invariant, Grounds, follows what is wrong from    *)
(* the event that made it so (Marked, Genuine) over what a call reads      *)
(* (ReadGenuine) and finds (Founded) to what it records (Recorded,         *)
(* Blames); the answers are told from it.  For successes a third,          *)
(* Hopeless, says that what dooms a call is a check it has still to make.  *)
(***************************************************************************)
EXTENDS Presentations, TLAPS

Asked == {Name(text) : text \in request.claims} \subseteq request.allowed

Faithful(row) ==
    /\ row.signed = row.hash
    /\ row.hash = [c \in row.approved |-> "issued"] \/ "alteredAndSigned" \in events

HashChecked == {"wallet", "issuer", "trust", "claims", "commitVerified"}

Compared ==
    /\ DOMAIN call.seen.disclosed # {}
    /\ \A c \in DOMAIN call.seen.disclosed :
          /\ [name |-> c, padded |-> FALSE] \in request.claims
          /\ c \in CredentialClaims
          /\ call.seen.disclosed[c] = "issued"

\* Nothing is there of a request that was not made, no call outlives its approval but by an
\* expiry, and no decision is taken twice.
InOrder ==
    /\ request.status \in {"NONE", "PENDING"} => presentation = NoPresentation
    /\ request.status \notin {"VERIFIED", "FAILED"} => data.of # "this"
    /\ call.pc \notin {"idle", "drop"} => request.status \in {"APPROVED", "EXPIRED"}
    /\ call.pc = "dropExpired" => request.status = "EXPIRED"
    /\ call.pc = "drop" => request.status \in {"VERIFIED", "FAILED"}

IInv ==
    /\ TypeOK
    /\ InOrder
    /\ Asked
    /\ Faithful(presentation) /\ Faithful(call.seen)
    /\ call.pc \in HashChecked => call.seen.hash = call.seen.disclosed
    /\ call.pc = "commitVerified" => Compared
    /\ DeliveredAsAgreed

-----------------------------------------------------------------------------
(* Disclosures. *)

LEMMA DisclosureOf ==
    ASSUME NEW names \in SUBSET Claim
    PROVE  [c \in names |-> "issued"] \in Disclosure
BY DEF Disclosure, Value

LEMMA NothingIsDisclosure == Nothing \in Disclosure /\ DOMAIN Nothing = {}
BY DisclosureOf DEF Nothing

LEMMA NoRowIsTyped ==
    /\ NoPresentation \in PresentationRow
    /\ Faithful(NoPresentation)
    /\ NoData \in DataColumn /\ NoData.of = "none"
    /\ OtherData \in DataColumn /\ OtherData.of = "other"
BY NothingIsDisclosure
DEF NoPresentation, PresentationRow, NoData, OtherData, DataColumn, Faithful, Nothing

LEMMA FlagsAreTyped == \A reason \in Reason : Flags(reason) \in FlagColumns
BY DEF Flags, FlagColumns

LEMMA NoResultIsTyped == NoResult \in ResultRow
<1>1. AllValid \in FlagColumns
  BY DEF AllValid, FlagColumns
<1>2. "" \in Reason /\ 0 \in 0..Claims
  BY DEF Reason, Claims
<1> QED
  BY <1>1, <1>2 DEF NoResult, ResultRow

LEMMA IdleIsTyped ==
    ASSUME NEW code \in Code
    PROVE  /\ Idle(code) \in CallState
           /\ Idle(code).pc = "idle"
           /\ Idle(code).seen = NoPresentation
BY NoRowIsTyped DEF Idle, CallState, ProgramCounter, CredentialStatus, Claims, Reason

LEMMA InitIInv == Init => IInv
<1> SUFFICES ASSUME Init PROVE IInv
  OBVIOUS
<1>1. call = Idle("NONE") /\ "NONE" \in Code
  BY DEF Init, Code
<1>2. TypeOK
  <2>1. request \in RequestRow
    BY DEF Init, NoRequest, RequestRow
  <2>2. result \in ResultRow
    BY NoResultIsTyped DEF Init
  <2>3. /\ call \in CallState
        /\ presentation \in PresentationRow
        /\ data \in DataColumn /\ application \in ApplicationStatus
    BY <1>1, IdleIsTyped, NoRowIsTyped DEF Init, ApplicationStatus
  <2>4. /\ job \subseteq Text
        /\ subject \subseteq Claim \ {University}
        /\ schema \subseteq Claim
        /\ session \in BOOLEAN
        /\ readable \in BOOLEAN
        /\ events \subseteq Event
    BY DEF Init, Event
  <2>5. /\ credential \in [status : CredentialStatus, expired : BOOLEAN]
        /\ trust \in {"NONE", "TRUSTED", "SUSPENDED"}
        /\ keyStatus \in [{"holder", "issuer"} -> {"ACTIVE", "RETIRED", "REVOKED"}]
    BY DEF Init, CredentialStatus
  <2> QED
    BY <2>1, <2>2, <2>3, <2>4, <2>5 DEF TypeOK
<1>3. InOrder
  BY <1>1, IdleIsTyped, NoRowIsTyped DEF Init, InOrder, NoRequest
<1>4. Asked /\ Faithful(presentation) /\ Faithful(call.seen) /\ DeliveredAsAgreed
  BY <1>1, IdleIsTyped, NoRowIsTyped DEF Init, Asked, NoRequest, DeliveredAsAgreed
<1> QED
  BY <1>1, <1>2, <1>3, <1>4, IdleIsTyped DEF IInv, HashChecked

-----------------------------------------------------------------------------
(* The bank and the holder. *)

LEMMA TextsAreTyped ==
    ASSUME NEW list \in Lists
    PROVE  Texts(list) \subseteq Text
<1>1. PICK n \in 0..MaxList : list \in [1..n -> Text]
  BY DEF Lists, BoundedSeq, SeqOf
<1> QED
  BY <1>1 DEF Texts

\* The names of texts found among others are the names of those.
LEMMA NamesAmong ==
    ASSUME NEW list \in Lists, NEW stored \in SUBSET Text, Among(list, stored)
    PROVE  /\ \A text \in Texts(list) : [name |-> Name(text), padded |-> FALSE] \in stored
           /\ {Name(text) : text \in Texts(list)} \subseteq {Name(text) : text \in stored}
<1>1. \A text \in Texts(list) : [name |-> Name(text), padded |-> FALSE] \in stored
  BY DEF Among, Trimmed, Name
<1>2. \A text \in Texts(list) : \E other \in stored : Name(other) = Name(text)
  BY <1>1 DEF Name
<1> QED
  BY <1>1, <1>2

\* What the agreement consists of stays when only events are added.
LEMMA Kept ==
    ASSUME IInv, TypeOK', InOrder',
           UNCHANGED <<subject, schema, data, call>>,
           request'.claims = request.claims, request'.allowed = request.allowed,
           events \subseteq events',
           Faithful(presentation)'
    PROVE  IInv'
<1>1. Asked' /\ DeliveredAsAgreed'
  BY DEF IInv, Asked, DeliveredAsAgreed, CredentialClaims
<1>2. Faithful(call.seen)'
  BY DEF IInv, Faithful
<1>3. (call.pc = "commitVerified" => Compared)'
  BY DEF IInv, Compared, CredentialClaims
<1>4. (call.pc \in HashChecked => call.seen.hash = call.seen.disclosed)'
  BY DEF IInv, HashChecked
<1> QED
  BY <1>1, <1>2, <1>3, <1>4 DEF IInv

LEMMA SaveJobStep ==
    ASSUME IInv, NEW list \in Lists, SaveJob(list)
    PROVE  IInv'
<1>1. UNCHANGED <<subject, schema, request, presentation, outcome, call>>
  BY DEF SaveJob
<1>2. UNCHANGED <<session, credential, trust, keyStatus, readable>>
  BY DEF SaveJob
<1>4. job' \subseteq Text
  BY TextsAreTyped DEF SaveJob
<1>5. events' \subseteq Event /\ events \subseteq events'
  BY DEF SaveJob, Happens, IInv, TypeOK, Event
<1>6. TypeOK'
  BY <1>1, <1>2, <1>4, <1>5 DEF IInv, TypeOK, outcome
<1>7. InOrder'
  BY <1>1 DEF IInv, InOrder, outcome
<1> QED
  BY <1>1, <1>5, <1>6, <1>7, Kept DEF IInv, Faithful, outcome

LEMMA RequestClaimsStep ==
    ASSUME IInv, NEW list \in Lists, RequestClaims(list)
    PROVE  IInv'
<1>1. UNCHANGED <<job, subject, schema, presentation, result, data, call>>
  BY DEF RequestClaims
<1>2. /\ UNCHANGED <<credential, trust, keyStatus, readable, events>>
      /\ session' = TRUE /\ application' = "PENDING"
  BY DEF RequestClaims
<1>3. job \in SUBSET Text
  BY DEF IInv, TypeOK
<1>4. /\ request.status = "NONE"
      /\ request'.status = "PENDING"
      /\ request'.claims = Texts(list)
      /\ request'.allowed = {Name(text) : text \in job}
  BY DEF RequestClaims
<1>5. request' \in RequestRow
  <2>1. Texts(list) \subseteq Text
    BY TextsAreTyped
  <2>2. {Name(text) : text \in job} \subseteq Claim \cup {Blank}
    BY <1>3 DEF Name, Text
  <2> QED
    BY <2>1, <2>2 DEF RequestClaims, RequestRow
<1>6. TypeOK'
  BY <1>1, <1>2, <1>5 DEF IInv, TypeOK, ApplicationStatus
<1>7. InOrder'
  BY <1>1, <1>4 DEF IInv, InOrder
<1>8. Asked'
  BY <1>3, <1>4, NamesAmong DEF RequestClaims, Asked
<1>9. data'.of # "this" /\ call.pc = "idle"
  BY <1>1, <1>4 DEF IInv, InOrder
<1> QED
  BY <1>1, <1>2, <1>6, <1>7, <1>8, <1>9 DEF IInv, Faithful, HashChecked, DeliveredAsAgreed

LEMMA ApproveStep ==
    ASSUME IInv, NEW list \in Lists, Approve(list)
    PROVE  IInv'
<1> DEFINE names == {Name(text) : text \in Texts(list)}
           disclosed == [c \in names |-> "issued"]
<1>1. UNCHANGED <<job, subject, schema, outcome, surroundings, call>>
  BY DEF Approve
<1>2. /\ request.status = "PENDING"
      /\ request' = [request EXCEPT !.status = "APPROVED"]
      /\ presentation' = [approved |-> names, disclosed |-> disclosed,
                          hash |-> disclosed, signed |-> disclosed]
      /\ Contained(names)
  BY DEF Approve
<1>3. request \in RequestRow /\ subject \subseteq Claim
  BY DEF IInv, TypeOK
<1>4. /\ request' \in RequestRow
      /\ request'.status = "APPROVED"
      /\ request'.claims = request.claims
      /\ request'.allowed = request.allowed
  BY <1>2, <1>3 DEF RequestRow
<1>5. names \subseteq Claim
  BY <1>2, <1>3, ClaimsAreNamed DEF Contained, CredentialClaims
<1>6. presentation' \in PresentationRow /\ Faithful(presentation)'
  BY <1>2, <1>5, DisclosureOf DEF PresentationRow, Faithful
<1>7. TypeOK'
  BY <1>1, <1>4, <1>6 DEF IInv, TypeOK, outcome, surroundings
<1>8. InOrder'
  <2>1. data.of # "this" /\ call.pc = "idle"
    BY <1>2 DEF IInv, InOrder
  <2> QED
    BY <1>1, <1>4, <2>1 DEF InOrder, outcome
<1> QED
  BY <1>1, <1>4, <1>6, <1>7, <1>8, Kept DEF outcome, surroundings

-----------------------------------------------------------------------------
(* verifyPresentation: what every step that decides nothing has in common. *)

LEMMA CallStep ==
    ASSUME IInv,
           UNCHANGED <<claims, outcome>>,
           UNCHANGED <<credential, trust, keyStatus, readable, events>>,
           session' \in BOOLEAN,
           call' \in CallState,
           Faithful(call'.seen),
           call'.pc \notin {"idle", "drop"} => request.status \in {"APPROVED", "EXPIRED"},
           call'.pc \notin {"drop", "dropExpired"},
           call'.pc \in HashChecked => call'.seen.hash = call'.seen.disclosed,
           call'.pc = "commitVerified" => Compared'
    PROVE  IInv'
<1>1. TypeOK'
  BY DEF IInv, TypeOK, claims, outcome
<1>2. InOrder'
  BY DEF IInv, InOrder, claims, outcome
<1>3. Asked' /\ Faithful(presentation)' /\ Faithful(call.seen)' /\ DeliveredAsAgreed'
  BY DEF IInv, Asked, Faithful, DeliveredAsAgreed, CredentialClaims, claims, outcome
<1> QED
  BY <1>1, <1>2, <1>3 DEF IInv, HashChecked

LEMMA AnswerStep ==
    ASSUME IInv, UNCHANGED <<claims, outcome>>,
           UNCHANGED <<credential, trust, keyStatus, readable, events>>,
           session' \in BOOLEAN,
           NEW code \in Code, Answer(code)
    PROVE  IInv'
BY CallStep, IdleIsTyped, NoRowIsTyped DEF Answer, HashChecked

LEMMA GotoStep ==
    ASSUME IInv, UNCHANGED <<claims, outcome, surroundings>>,
           call.pc \notin {"idle", "drop"},
           NEW pc \in ProgramCounter \ {"idle", "drop", "dropExpired"}, Goto(pc),
           pc \in HashChecked => call.seen.hash = call.seen.disclosed,
           pc = "commitVerified" => Compared
    PROVE  IInv'
<1>1. call \in CallState /\ session \in BOOLEAN
  BY DEF IInv, TypeOK
<1>2. call' \in CallState /\ call'.pc = pc /\ call'.seen = call.seen
  BY <1>1 DEF Goto, CallState
<1>3. pc = "commitVerified" => Compared'
  BY <1>2 DEF Compared, CredentialClaims, claims
<1> QED
  BY <1>1, <1>2, <1>3, CallStep DEF IInv, InOrder, surroundings

LEMMA FailStep ==
    ASSUME IInv, UNCHANGED <<claims, outcome, surroundings>>,
           call.pc \notin {"idle", "drop"},
           NEW stage \in 0..Claims, NEW reason \in Reason, Fail(stage, reason)
    PROVE  IInv'
<1>1. call \in CallState /\ session \in BOOLEAN
  BY DEF IInv, TypeOK
<1>2. call' \in CallState /\ call'.pc = "latest" /\ call'.seen = call.seen
  BY <1>1 DEF Fail, CallState, ProgramCounter
<1> QED
  BY <1>1, <1>2, CallStep DEF IInv, InOrder, HashChecked, surroundings

Blaming(check) == check.stage \in 0..Claims /\ check.reason \in Reason

LEMMA CheckBlames ==
    ASSUME NEW stage \in 0..Claims, NEW reason \in Reason, NEW holds
    PROVE  Blaming(Check(stage, holds, reason))
BY DEF Blaming, Check

\* One lemma for all steps that make a list of checks.
LEMMA MakeStep ==
    ASSUME IInv, UNCHANGED <<claims, outcome, surroundings>>,
           call.pc \notin {"idle", "drop"},
           NEW checks,
           \A i \in DOMAIN checks : Blaming(checks[i]),
           (\A i \in DOMAIN checks : checks[i].holds) => call.seen.hash = call.seen.disclosed,
           NEW pc \in {"wallet", "trust", "claims"},
           Make(checks, pc)
    PROVE  IInv'
<1>1. CASE (\A i \in DOMAIN checks : checks[i].holds) /\ Goto(pc)
  BY <1>1, GotoStep DEF ProgramCounter
<1>2. CASE \E i \in DOMAIN checks : Fail(checks[i].stage, checks[i].reason)
  BY <1>2, FailStep DEF Blaming
<1> QED
  BY <1>1, <1>2 DEF Make

LEMMA StagesInRange ==
    {0, HolderProof, IssuerProof, IssuerTrust, StatusAndExpiry, Claims} \subseteq 0..Claims
BY DEF HolderProof, IssuerProof, IssuerTrust, StatusAndExpiry, Claims

LEMMA CodesAreTyped ==
    /\ {"NONE", "OK", Consumed, NotApproved, NoLongerApproved, AlreadyVerified, StateChanged,
        Overdue, NoSession, Failed, Broken} \subseteq Code
    /\ \A reason \in Reason : Refused[reason] \in Code
BY DEF Code

LEMMA BeginsIsTyped ==
    /\ Begins \in CallState /\ Begins.pc = "session" /\ Begins.seen = NoPresentation
    /\ Begins.doomed = Doomed /\ Begins.reason = ""
    /\ Expiring \in CallState /\ Expiring.pc = "expire" /\ Expiring.seen = NoPresentation
    /\ Expiring.reason = "" /\ Expiring.doomed = FALSE
<1>1. Idle("NONE") \in CallState /\ Idle("NONE").seen = NoPresentation
  BY IdleIsTyped, CodesAreTyped
<1>2. Doomed \in BOOLEAN
  BY DEF Doomed
<1>3. Idle("NONE").reason = "" /\ Idle("NONE").doomed = FALSE
  BY DEF Idle
<1> QED
  BY <1>1, <1>2, <1>3 DEF Begins, Expiring, CallState, ProgramCounter

\* Either pass over the request: what it may answer or go on with.
LEMMA ContextStep ==
    ASSUME IInv, NEW open \in CallState, Context(open),
           open.pc \in {"session", "sessionAgain"}, Faithful(open.seen)
    PROVE  IInv'
<1>1. UNCHANGED <<claims, outcome, surroundings>> /\ session \in BOOLEAN
  BY DEF Context, IInv, TypeOK
<1>2. CASE Answer(Consumed) \/ Answer(NotApproved)
  BY <1>1, <1>2, CodesAreTyped, AnswerStep DEF surroundings
<1>3. CASE request.status = "APPROVED" /\ call' = Expiring
  BY <1>1, <1>3, BeginsIsTyped, NoRowIsTyped, CallStep DEF surroundings, HashChecked
<1>4. CASE request.status = "APPROVED" /\ call' = open
  BY <1>1, <1>4, CallStep DEF surroundings, HashChecked
<1> QED
  BY <1>2, <1>3, <1>4 DEF Context

LEMMA PassesStep ==
    ASSUME IInv, Begin \/ FirstSession \/ FindExisting \/ ReadContext \/ SecondSession
    PROVE  IInv'
<1> USE DEF At
<1>0. session \in BOOLEAN /\ call \in CallState /\ credential.status \in CredentialStatus
      /\ presentation \in PresentationRow
  BY DEF IInv, TypeOK
<1>1. CASE Begin
  BY <1>1, BeginsIsTyped, NoRowIsTyped, ContextStep DEF Begin
<1>2. CASE FirstSession
  <2>1. CASE session
    BY <1>2, <2>1, GotoStep DEF FirstSession, ProgramCounter, HashChecked
  <2>2. CASE ~session
    BY <1>0, <1>2, <2>2, CodesAreTyped, AnswerStep DEF FirstSession, surroundings
  <2> QED
    BY <2>1, <2>2
<1>3. CASE FindExisting
  <2>1. CASE result = NoResult
    BY <1>3, <2>1, GotoStep DEF FindExisting, ProgramCounter, HashChecked
  <2>2. CASE result # NoResult
    BY <1>0, <1>3, <2>2, CodesAreTyped, AnswerStep DEF FindExisting, surroundings
  <2> QED
    BY <2>1, <2>2
<1>4. CASE ReadContext
  <2> DEFINE read == [call EXCEPT !.pc = "sessionAgain", !.seen = presentation,
                                  !.status = credential.status]
  <2>1. read \in CallState /\ read.pc = "sessionAgain" /\ read.seen = presentation
    BY <1>0 DEF CallState, ProgramCounter
  <2>2. Context(read) /\ Faithful(presentation)
    BY <1>4 DEF ReadContext, IInv
  <2> HIDE DEF read
  <2>3. Faithful(read.seen)
    BY <2>1, <2>2
  <2> QED
    BY <2>1, <2>2, <2>3, ContextStep
<1>5. CASE SecondSession
  <2>1. CASE session
    BY <1>5, <2>1, GotoStep DEF SecondSession, ProgramCounter, HashChecked
  <2>2. CASE ~session
    <3>1. Fail(0, "Verification session not found or expired")
      BY <1>5, <2>2 DEF SecondSession
    <3>2. 0 \in 0..Claims /\ "Verification session not found or expired" \in Reason
      BY StagesInRange DEF Reason
    <3> QED
      BY <1>5, <3>1, <3>2, FailStep DEF SecondSession
  <2> QED
    BY <2>1, <2>2
<1> QED
  BY <1>1, <1>2, <1>3, <1>4, <1>5

LEMMA ChecksStep ==
    ASSUME IInv, CheckHolder \/ ReadWallet \/ CheckIssuer \/ CheckTrust
    PROVE  IInv'
<1> USE DEF At
<1>0. session \in BOOLEAN
  BY DEF IInv, TypeOK
<1>1. CASE CheckHolder
  <2> DEFINE c1 == Check(HolderProof, Verifies("holder"),
                         "Holder verification method does not match holder DID")
             c2 == Check(HolderProof, call.seen.hash = call.seen.disclosed,
                         "Presentation hash is invalid")
             c3 == Check(HolderProof, call.seen.signed = call.seen.disclosed,
                         "Holder proof is invalid")
  <2>1. Blaming(c1) /\ Blaming(c2) /\ Blaming(c3)
    BY StagesInRange, CheckBlames DEF Reason
  <2>2. Make(<<c1, c2, c3>>, "wallet") /\ UNCHANGED <<claims, outcome, surroundings>>
        /\ call.pc = "holder"
    BY <1>1 DEF CheckHolder
  <2>3. c2.holds => call.seen.hash = call.seen.disclosed
    BY DEF Check
  <2> HIDE DEF c1, c2, c3
  <2> DEFINE checks == <<c1, c2, c3>>
  <2>4. DOMAIN checks = 1..3 /\ checks[1] = c1 /\ checks[2] = c2 /\ checks[3] = c3
    OBVIOUS
  <2> HIDE DEF checks
  <2>5. \A i \in DOMAIN checks : Blaming(checks[i])
    BY <2>1, <2>4
  <2>6. (\A i \in DOMAIN checks : checks[i].holds) => call.seen.hash = call.seen.disclosed
    BY <2>3, <2>4
  <2> QED
    BY <2>2, <2>5, <2>6, MakeStep DEF checks
<1>2. CASE ReadWallet
  <2>1. CASE readable
    <3>1. call.seen.hash = call.seen.disclosed
      BY <1>2 DEF ReadWallet, IInv, HashChecked
    <3> QED
      BY <1>2, <2>1, <3>1, GotoStep DEF ReadWallet, ProgramCounter
  <2>2. CASE ~readable
    BY <1>0, <1>2, <2>2, CodesAreTyped, AnswerStep DEF ReadWallet, surroundings
  <2> QED
    BY <2>1, <2>2
<1>3. CASE CheckIssuer
  <2> DEFINE c1 == Check(IssuerProof, Verifies("issuer"),
                         "Issuer verification method does not match issuer DID")
  <2>1. Blaming(c1)
    BY StagesInRange, CheckBlames DEF Reason
  <2>2. Make(<<c1>>, "trust") /\ UNCHANGED <<claims, outcome, surroundings>>
        /\ call.pc = "issuer"
    BY <1>3 DEF CheckIssuer
  <2>3. call.seen.hash = call.seen.disclosed
    BY <2>2 DEF IInv, HashChecked
  <2> HIDE DEF c1
  <2>4. \A i \in DOMAIN <<c1>> : Blaming(<<c1>>[i])
    BY <2>1
  <2> QED
    BY <2>2, <2>3, <2>4, MakeStep
<1>4. CASE CheckTrust
  <2> DEFINE c1 == Check(IssuerTrust, trust = "TRUSTED", "Credential issuer is not trusted")
             c2 == Check(StatusAndExpiry, call.status # "REVOKED", "Credential has been revoked")
             c3 == Check(StatusAndExpiry, call.status # "SUSPENDED",
                         "Credential has been suspended")
             c4 == Check(StatusAndExpiry, ~credential.expired, "Credential has expired")
  <2>1. Blaming(c1) /\ Blaming(c2) /\ Blaming(c3) /\ Blaming(c4)
    BY StagesInRange, CheckBlames DEF Reason
  <2>2. Make(<<c1, c2, c3, c4>>, "claims") /\ UNCHANGED <<claims, outcome, surroundings>>
        /\ call.pc = "trust"
    BY <1>4 DEF CheckTrust
  <2>3. call.seen.hash = call.seen.disclosed
    BY <2>2 DEF IInv, HashChecked
  <2> HIDE DEF c1, c2, c3, c4
  <2>4. \A i \in DOMAIN <<c1, c2, c3, c4>> : Blaming(<<c1, c2, c3, c4>>[i])
    BY <2>1
  <2> QED
    BY <2>2, <2>3, <2>4, MakeStep
<1> QED
  BY <1>1, <1>2, <1>3, <1>4

LEMMA CheckClaimsStep ==
    ASSUME IInv, CheckClaims
    PROVE  IInv'
<1> DEFINE disclosed == DOMAIN call.seen.disclosed
           refusals == UNION {Refusals(c) : c \in disclosed}
<1>1. /\ UNCHANGED <<claims, outcome, surroundings>> /\ call.pc = "claims"
      /\ Claims \in 0..Claims
      /\ {"Missing required credential claims: ", "No claims were disclosed"} \subseteq Reason
  BY StagesInRange DEF CheckClaims, Reason, At
<1>2. CASE Fail(Claims, "Missing required credential claims: ")
  BY <1>1, <1>2, FailStep
<1>3. CASE Fail(Claims, "No claims were disclosed")
  BY <1>1, <1>3, FailStep
<1>4. CASE \E reason \in refusals : Fail(Claims, reason)
  <2>1. refusals \subseteq Reason
    BY DEF Refusals, Reason
  <2> QED
    BY <1>1, <1>4, <2>1, FailStep
<1>5. CASE disclosed # {} /\ refusals = {} /\ Goto("commitVerified")
  <2>1. \A c \in disclosed : Refusals(c) = {}
    BY <1>5
  <2>2. Compared
    BY <1>5, <2>1 DEF Compared, Refusals
  <2>3. call.seen.hash = call.seen.disclosed
    BY <1>1 DEF IInv, HashChecked
  <2> QED
    BY <1>1, <1>5, <2>2, <2>3, GotoStep DEF ProgramCounter
<1> QED
  BY <1>2, <1>3, <1>4, <1>5 DEF CheckClaims

\* An expiry, by this call or by another.
LEMMA ExpiredStep ==
    ASSUME IInv, request.status = "APPROVED",
           request' = [request EXCEPT !.status = "EXPIRED"],
           UNCHANGED <<job, subject, schema, presentation, outcome, surroundings>>,
           \/ call' = call
           \/ call.pc = "expire" /\ call' = [call EXCEPT !.pc = "dropExpired"]
           \/ call' = Idle(Broken)
    PROVE  IInv'
<1>0. call \in CallState /\ request \in RequestRow
  BY DEF IInv, TypeOK
<1>1. /\ request' \in RequestRow /\ request'.status = "EXPIRED"
      /\ request'.claims = request.claims /\ request'.allowed = request.allowed
  BY <1>0 DEF RequestRow
<1>2. call' \in CallState
  BY <1>0, IdleIsTyped, CodesAreTyped DEF CallState, ProgramCounter
<1>3. TypeOK'
  BY <1>1, <1>2 DEF IInv, TypeOK, outcome, surroundings
<1>4. /\ call'.pc \in {"idle", "dropExpired"} \/ call' = call
      /\ call'.seen \in {call.seen, NoPresentation}
      /\ call.pc # "drop"
  BY <1>0, IdleIsTyped, CodesAreTyped DEF CallState, IInv, InOrder
<1>5. InOrder'
  BY <1>1, <1>4 DEF IInv, InOrder, outcome
<1>6. Asked' /\ DeliveredAsAgreed' /\ Faithful(presentation)' /\ Faithful(call.seen)'
  BY <1>1, <1>4, NoRowIsTyped
  DEF IInv, Asked, DeliveredAsAgreed, Faithful, CredentialClaims, outcome, surroundings
<1>7. (call.pc = "commitVerified" => Compared)'
  BY <1>1, <1>4 DEF IInv, Compared, CredentialClaims
<1>8. (call.pc \in HashChecked => call.seen.hash = call.seen.disclosed)'
  BY <1>4 DEF IInv, HashChecked
<1> QED
  BY <1>3, <1>5, <1>6, <1>7, <1>8 DEF IInv

LEMMA EndStep ==
    ASSUME IInv, ExpireRequest \/ DropExpired \/ ReadLatest \/ Drop \/ StoreFails \/ Crash
    PROVE  IInv'
<1> USE DEF At
<1>0. session \in BOOLEAN /\ call \in CallState
  BY DEF IInv, TypeOK
<1>1. CASE ExpireRequest
  <2>1. CASE request.status = "APPROVED"
    BY <1>1, <2>1, ExpiredStep DEF ExpireRequest, Acknowledged, Answer
  <2>2. CASE request.status # "APPROVED"
    <3>1. Answer(NoLongerApproved) /\ UNCHANGED <<claims, outcome, surroundings>>
      BY <1>1, <2>2 DEF ExpireRequest, claims
    <3> QED
      BY <1>0, <3>1, CodesAreTyped, AnswerStep DEF surroundings
  <2> QED
    BY <2>1, <2>2
<1>2. CASE DropExpired
  BY <1>2, CodesAreTyped, AnswerStep DEF DropExpired, Acknowledged, Answer
<1>3. CASE ReadLatest
  <2>1. CASE request.status = "EXPIRED"
    <3>1. call.reason \in Reason
      BY <1>0 DEF CallState
    <3> QED
      BY <1>0, <1>3, <2>1, <3>1, CodesAreTyped, AnswerStep DEF ReadLatest, surroundings
  <2>2. CASE request.status # "EXPIRED"
    BY <1>3, <2>2, GotoStep DEF ReadLatest, ProgramCounter, HashChecked
  <2> QED
    BY <2>1, <2>2
<1>4. CASE Drop
  BY <1>4, CodesAreTyped, AnswerStep DEF Drop, Acknowledged, Answer
<1>5. CASE StoreFails \/ Crash
  BY <1>0, <1>5, CodesAreTyped, AnswerStep DEF StoreFails, Crash, surroundings
<1> QED
  BY <1>1, <1>2, <1>3, <1>4, <1>5

\* Both transactions, whatever they write.
LEMMA DecideStep ==
    ASSUME IInv, NEW verdict \in {"VERIFIED", "FAILED"}, NEW row \in ResultRow,
           NEW column \in DataColumn, Decide(verdict, row, column),
           call.pc \notin {"idle", "drop"},
           column.of = "this" =>
               /\ column.approved = call.seen.approved
               /\ column.disclosed = call.seen.disclosed
               /\ call.pc = "commitVerified"
    PROVE  IInv'
<1>0. call \in CallState /\ request \in RequestRow /\ session \in BOOLEAN
  BY DEF IInv, TypeOK
<1>1. UNCHANGED <<job, subject, schema, presentation, surroundings>>
  BY DEF Decide
<1>2. CASE (Answer(NoLongerApproved) \/ Answer(StateChanged)) /\ UNCHANGED <<request, outcome>>
  BY <1>0, <1>1, <1>2, CodesAreTyped, AnswerStep DEF claims, surroundings
<1>3. CASE /\ request.status = "APPROVED" /\ application = "PENDING"
           /\ request' = [request EXCEPT !.status = verdict]
           /\ application' = verdict
           /\ result' = row
           /\ data' = column
           /\ Acknowledged([call EXCEPT !.pc = "drop"])
  <2>1. /\ request' \in RequestRow
        /\ request'.status = verdict
        /\ request'.claims = request.claims
        /\ request'.allowed = request.allowed
    BY <1>0, <1>3 DEF RequestRow
  <2>2. /\ call' \in CallState
        /\ call'.pc \in {"idle", "drop"}
        /\ call'.seen \in {call.seen, NoPresentation}
    BY <1>0, <1>3, IdleIsTyped, CodesAreTyped DEF Acknowledged, Answer, CallState, ProgramCounter
  <2>3. TypeOK'
    BY <1>1, <1>3, <2>1, <2>2 DEF IInv, TypeOK, surroundings, ApplicationStatus
  <2>4. InOrder'
    BY <1>1, <2>1, <2>2 DEF IInv, InOrder
  <2>5. Asked' /\ Faithful(presentation)' /\ Faithful(call.seen)'
    BY <1>1, <2>1, <2>2, NoRowIsTyped DEF IInv, Asked, Faithful, surroundings
  <2>6. ASSUME data'.of = "this"
        PROVE  DeliveredAsAgreed'
    <3>1. /\ data'.approved = call.seen.approved /\ data'.disclosed = call.seen.disclosed
          /\ Compared /\ Faithful(call.seen) /\ Asked
          /\ call.seen.hash = call.seen.disclosed
      BY <1>3, <2>6 DEF IInv, HashChecked
    <3>2. DOMAIN data'.disclosed = data'.approved \/ "alteredAndSigned" \in events'
      BY <1>1, <3>1 DEF Faithful, surroundings
    <3>3. \A c \in DOMAIN call.seen.disclosed : \E text \in request.claims : Name(text) = c
      BY <3>1 DEF Compared, Name
    <3>4. CredentialClaims' = CredentialClaims
      BY <1>1 DEF CredentialClaims
    <3> QED
      BY <2>1, <3>1, <3>2, <3>3, <3>4 DEF DeliveredAsAgreed, Compared, Asked
  <2> QED
    BY <2>2, <2>3, <2>4, <2>5, <2>6 DEF IInv, DeliveredAsAgreed, HashChecked
<1> QED
  BY <1>1, <1>2, <1>3 DEF Decide

LEMMA CommitStep ==
    ASSUME IInv, CommitVerified \/ CommitFailed
    PROVE  IInv'
<1> USE DEF At
<1>0. call \in CallState
  BY DEF IInv, TypeOK
<1>1. CASE CommitVerified
  <2> DEFINE row == [NoResult EXCEPT !.final = "VERIFIED"]
  <2>1. row \in ResultRow
    BY NoResultIsTyped DEF ResultRow
  <2>2. /\ Delivers \in DataColumn /\ Delivers.approved = call.seen.approved
        /\ Delivers.disclosed = call.seen.disclosed
    BY <1>0 DEF Delivers, DataColumn, CallState, PresentationRow
  <2>3. Decide("VERIFIED", row, Delivers) /\ call.pc = "commitVerified"
    BY <1>1 DEF CommitVerified
  <2> HIDE DEF row
  <2> QED
    BY <2>1, <2>2, <2>3, DecideStep
<1>2. CASE CommitFailed
  <2> DEFINE row == [final |-> "FAILED", reason |-> call.reason,
                     flags |-> Flags(call.reason), stage |-> call.stage]
  <2>1. row \in ResultRow
    <3>1. call.reason \in Reason /\ call.stage \in 0..Claims
      BY <1>0 DEF CallState
    <3> QED
      BY <3>1, FlagsAreTyped DEF ResultRow
  <2>2. Decide("FAILED", row, NoData) /\ call.pc = "commitFailed"
    BY <1>0, <1>2 DEF CommitFailed, FlagsOf, CallState
  <2> HIDE DEF row
  <2> QED
    BY <2>1, <2>2, NoRowIsTyped, DecideStep
<1> QED
  BY <1>1, <1>2

LEMMA VerifyStep ==
    ASSUME IInv, Verify
    PROVE  IInv'
BY PassesStep, ChecksStep, CheckClaimsStep, EndStep, CommitStep DEF Verify

-----------------------------------------------------------------------------
(* What happens meanwhile. *)

LEMMA AroundStep ==
    ASSUME IInv, UNCHANGED <<claims, outcome, call>>,
           session' \in BOOLEAN,
           credential' \in [status : CredentialStatus, expired : BOOLEAN],
           trust' \in {"NONE", "TRUSTED", "SUSPENDED"},
           keyStatus' \in [{"holder", "issuer"} -> {"ACTIVE", "RETIRED", "REVOKED"}],
           readable' \in BOOLEAN,
           events' \subseteq Event, events \subseteq events'
    PROVE  IInv'
<1>1. TypeOK'
  BY DEF IInv, TypeOK, claims, outcome
<1>2. InOrder' /\ Faithful(presentation)'
  BY DEF IInv, InOrder, Faithful, claims, outcome
<1> QED
  BY <1>1, <1>2, Kept DEF claims, outcome

LEMMA AlterStep ==
    ASSUME IInv, NEW c \in Claim, NEW disclosed \in Disclosure, NEW signed \in BOOLEAN,
           Alter(c, disclosed, signed)
    PROVE  IInv'
<1>1. /\ request.status = "APPROVED"
      /\ presentation' = IF signed
                         THEN [presentation EXCEPT !.disclosed = disclosed, !.hash = disclosed,
                                                   !.signed = disclosed]
                         ELSE [presentation EXCEPT !.disclosed = disclosed]
      /\ UNCHANGED <<job, subject, schema, request, outcome, call>>
      /\ UNCHANGED <<session, credential, trust, keyStatus, readable>>
  BY DEF Alter
<1>2. presentation \in PresentationRow /\ Faithful(presentation)
  BY DEF IInv, TypeOK
<1>3. presentation' \in PresentationRow /\ presentation'.approved = presentation.approved
  BY <1>1, <1>2 DEF PresentationRow
<1>4. events' \subseteq Event /\ events \subseteq events'
  BY DEF Alter, Happens, IInv, TypeOK, Event
<1>5. Faithful(presentation)'
  <2>1. CASE signed
    BY <1>1, <1>2, <2>1 DEF Alter, Happens, Faithful, PresentationRow
  <2>2. CASE ~signed
    BY <1>1, <1>2, <1>3, <1>4, <2>2 DEF Faithful, PresentationRow
  <2> QED
    BY <2>1, <2>2
<1>6. TypeOK'
  BY <1>1, <1>3, <1>4 DEF IInv, TypeOK, outcome
<1>7. InOrder'
  BY <1>1 DEF IInv, InOrder, outcome
<1> QED
  BY <1>1, <1>4, <1>5, <1>6, <1>7, Kept DEF outcome

LEMMA DeadlineStep ==
    ASSUME IInv, PassDeadline
    PROVE  IInv'
<1>1. /\ request.status = "APPROVED" /\ request' = [request EXCEPT !.overdue = TRUE]
      /\ UNCHANGED <<job, subject, schema, presentation, outcome, call>>
      /\ UNCHANGED <<session, credential, trust, keyStatus, readable>>
      /\ events' \subseteq Event /\ events \subseteq events'
  BY DEF PassDeadline, Happens, IInv, TypeOK, Event
<1>2. /\ request' \in RequestRow /\ request'.status = request.status
      /\ request'.claims = request.claims /\ request'.allowed = request.allowed
  BY <1>1 DEF IInv, TypeOK, RequestRow
<1>3. TypeOK'
  BY <1>1, <1>2 DEF IInv, TypeOK, outcome
<1>4. InOrder' /\ Faithful(presentation)'
  BY <1>1, <1>2 DEF IInv, InOrder, Faithful, outcome
<1> QED
  BY <1>1, <1>2, <1>3, <1>4, Kept DEF outcome

LEMMA OtherStep ==
    ASSUME IInv, (\E verdict \in {"VERIFIED", "FAILED"} : DecideOther(verdict)) \/ OpenOther
    PROVE  IInv'
<1>1. /\ UNCHANGED <<claims, result, call, session, credential, trust, keyStatus, readable>>
      /\ events' \subseteq Event /\ events \subseteq events'
      /\ application' \in ApplicationStatus
      /\ request.status = "APPROVED"
  BY DEF DecideOther, OpenOther, Happens, IInv, TypeOK, Event, ApplicationStatus, surroundings
<1>2. data' \in DataColumn /\ data'.of # "this"
  BY NoRowIsTyped DEF DecideOther, OpenOther, IInv, TypeOK, InOrder
<1>3. TypeOK'
  BY <1>1, <1>2 DEF IInv, TypeOK, claims
<1>4. InOrder'
  BY <1>1, <1>2 DEF IInv, InOrder, claims
<1>5. Asked' /\ Faithful(presentation)' /\ Faithful(call.seen)'
  BY <1>1 DEF IInv, Asked, Faithful, claims
<1>6. (call.pc = "commitVerified" => Compared)'
  BY <1>1 DEF IInv, Compared, CredentialClaims, claims
<1> QED
  BY <1>1, <1>2, <1>3, <1>4, <1>5, <1>6 DEF IInv, DeliveredAsAgreed, HashChecked

LEMMA SurroundingsStep ==
    ASSUME IInv, Surroundings
    PROVE  IInv'
<1>0. /\ session \in BOOLEAN
      /\ credential \in [status : CredentialStatus, expired : BOOLEAN]
      /\ trust \in {"NONE", "TRUSTED", "SUSPENDED"}
      /\ keyStatus \in [{"holder", "issuer"} -> {"ACTIVE", "RETIRED", "REVOKED"}]
      /\ readable \in BOOLEAN
      /\ events \subseteq Event
  BY DEF IInv, TypeOK
<1>1. CASE Suspend \/ Reactivate \/ Revoke
  BY <1>0, <1>1, AroundStep
  DEF Suspend, Reactivate, Revoke, ChangeStatus, Happens, Event, CredentialStatus
<1>2. CASE Expire
  BY <1>0, <1>2, AroundStep DEF Expire, Happens, Event
<1>3. CASE ChangeTrust
  BY <1>0, <1>3, AroundStep DEF ChangeTrust, Happens, Event
<1>4. CASE \E key \in {"holder", "issuer"} : Rotate(key) \/ RevokeKey(key)
  <2>1. PICK key \in {"holder", "issuer"} : Rotate(key) \/ RevokeKey(key)
    BY <1>4
  <2>2. events' \subseteq Event /\ events \subseteq events'
    BY <1>0, <2>1 DEF Rotate, RevokeKey, Happens, Event
  <2>3. /\ UNCHANGED <<claims, outcome, call, session, credential, trust, readable>>
        /\ keyStatus' \in [{"holder", "issuer"} -> {"ACTIVE", "RETIRED", "REVOKED"}]
    BY <1>0, <2>1 DEF Rotate, RevokeKey, ChangeKey
  <2> QED
    BY <1>0, <2>2, <2>3, AroundStep
<1>5. CASE LoseSession
  BY <1>0, <1>5, AroundStep DEF LoseSession, Happens, Event
<1>6. CASE Redeploy
  BY <1>0, <1>6, AroundStep DEF Redeploy, Happens, Event
<1>7. CASE \E c \in Claim, disclosed \in Disclosure, signed \in BOOLEAN :
               Alter(c, disclosed, signed)
  BY <1>7, AlterStep
<1>8. CASE ExpireElsewhere
  BY <1>8, ExpiredStep DEF ExpireElsewhere
<1> QED
  BY <1>1, <1>2, <1>3, <1>4, <1>5, <1>6, <1>7, <1>8, DeadlineStep, OtherStep DEF Surroundings

-----------------------------------------------------------------------------
\* The invariant is inductive.
THEOREM Invariance == Spec => []IInv
<1>1. IInv /\ [Next]_vars => IInv'
  <2> SUFFICES ASSUME IInv, [Next]_vars PROVE IInv'
    OBVIOUS
  <2>1. CASE \E list \in Lists : SaveJob(list) \/ RequestClaims(list) \/ Approve(list)
    BY <2>1, SaveJobStep, RequestClaimsStep, ApproveStep
  <2>2. CASE Verify
    BY <2>2, VerifyStep
  <2>3. CASE Surroundings
    BY <2>3, SurroundingsStep
  <2>4. CASE UNCHANGED vars
    <3>1. UNCHANGED <<claims, outcome, call>> /\ UNCHANGED surroundings
      BY <2>4 DEF vars
    <3>2. UNCHANGED <<session, credential, trust, keyStatus, readable, events>>
      BY <3>1 DEF surroundings
    <3> QED
      BY <3>1, <3>2, AroundStep DEF IInv, TypeOK
  <2> QED
    BY <2>1, <2>2, <2>3, <2>4 DEF Next
<1> QED
  BY InitIInv, <1>1, PTL DEF Spec

\* Rows and locals keep their types for any claims, lists and events.
THEOREM TypeCorrect == Spec => []TypeOK
BY Invariance, PTL DEF IInv

\* The bank receives the issuer's values of claims that were required and requested, and
\* exactly those approved unless the holder's key signed others, whatever is rewritten while a
\* verification runs.
THEOREM DeliveriesAreAgreed == Spec => []DeliveredAsAgreed
BY Invariance, PTL DEF IInv

-----------------------------------------------------------------------------
(* The grounds of a failure: what a check finds wrong is the trace of an event, what a call *)
(* has read stays explained, and what is recorded is what was found.                        *)

Explained(reason) == \E event \in events : <<reason, event>> \in Cause

\* What is wrong with the credential, its issuer, the keys, the deadline or the session has
\* happened.
Marked ==
    /\ credential.status = "REVOKED" => "revoked" \in events
    /\ credential.status = "SUSPENDED" => "suspended" \in events
    /\ credential.expired => "expired" \in events
    /\ trust # "TRUSTED" => "untrusted" \in events
    /\ keyStatus["holder"] = "REVOKED" => "holderKeyRevoked" \in events
    /\ keyStatus["issuer"] = "REVOKED" => "issuerKeyRevoked" \in events
    /\ request.overdue \/ request.status = "EXPIRED" => "overdue" \in events
    /\ request.status \in {"PENDING", "APPROVED"} /\ ~session =>
           "sessionLost" \in events \/ "overdue" \in events

\* So has what is wrong with a presentation; what was approved was requested and exists.
Genuine(row) ==
    /\ row.hash # row.disclosed => "altered" \in events
    /\ \A c \in row.approved :
          [name |-> c, padded |-> FALSE] \in request.claims /\ c \in CredentialClaims

Reading == {"sessionAgain", "holder", "wallet", "issuer", "trust", "claims", "commitVerified"}

\* What the call has read, and what its checks have found of it.
ReadGenuine ==
    /\ Genuine(call.seen)
    /\ call.seen.approved # {}
    /\ call.status = "REVOKED" => "revoked" \in events
    /\ call.status = "SUSPENDED" => "suspended" \in events

Founded(stage, reason) ==
    /\ reason # ""
    /\ Explained(reason)
    /\ stage # 0 => Blamed(reason) = stage

Finding == {"latest", "commitFailed"}

\* The result says what became of the request.
Recorded ==
    /\ request.status \notin {"VERIFIED", "FAILED"} => result = NoResult
    /\ request.status = "VERIFIED" => result.final = "VERIFIED"
    /\ request.status = "FAILED" => result.final = "FAILED"

\* The flags are those of the reason, which is the one found.
Blames ==
    result.final = "FAILED" =>
        /\ result.flags = Flags(result.reason)
        /\ result.stage # 0 => Blamed(result.reason) = result.stage

Grounds ==
    /\ schema \subseteq CredentialClaims
    /\ Marked
    /\ Genuine(presentation)
    /\ presentation # NoPresentation => presentation.approved # {}
    /\ call.pc \in Reading => ReadGenuine
    /\ call.pc = "expire" => "overdue" \in events
    /\ call.pc \notin Finding \cup {"drop"} => call.reason = ""
    /\ call.pc \in Finding => Founded(call.stage, call.reason)
    /\ call.pc = "drop" => (call.reason = "" <=> request.status = "VERIFIED")
    /\ request.status \in {"NONE", "PENDING"} \/ presentation # NoPresentation
    /\ Recorded
    /\ Blames
    /\ FailureHasCause

LEMMA NothingIsGenuine == Genuine(NoPresentation)
BY NothingIsDisclosure DEF NoPresentation, Genuine

LEMMA IdleHasNoReason ==
    ASSUME NEW code
    PROVE  Idle(code).pc = "idle" /\ Idle(code).reason = ""
BY DEF Idle

LEMMA InitGrounds == ASSUME Init PROVE Grounds
<1>1. schema \subseteq CredentialClaims
  <2>1. schema \ CredentialClaims = {}
    BY DEF Init, Issuable, Missing, CredentialClaims
  <2> QED
    BY <2>1
<1>2. Marked
  BY DEF Init, Marked, NoRequest
<1>3. /\ call.pc = "idle" /\ call.reason = ""
      /\ request.status = "NONE" /\ result = NoResult /\ result.final = "NONE"
  BY IdleHasNoReason DEF Init, NoRequest, NoResult
<1>4. presentation = NoPresentation /\ Genuine(presentation)
  BY NothingIsGenuine DEF Init
<1> QED
  BY <1>1, <1>2, <1>3, <1>4
  DEF Grounds, Reading, Finding, Recorded, Blames, FailureHasCause

\* Events are not forgotten: the grounds stay when neither the claims requested nor the call
\* move, and the request is not decided.
LEMMA LaterGrounds ==
    ASSUME IInv, Grounds, UNCHANGED <<subject, schema, result, call>>,
           request'.claims = request.claims,
           \/ request'.status = request.status
           \/ request.status = "APPROVED" /\ request'.status = "EXPIRED",
           events \subseteq events',
           Marked', Genuine(presentation)',
           presentation'.approved = presentation.approved,
           presentation' = presentation \/ presentation # NoPresentation
    PROVE  Grounds'
<1>1. call.pc \in Reading => ReadGenuine'
  <2>1. Genuine(call.seen) => Genuine(call.seen)'
    BY DEF Genuine, CredentialClaims
  <2> QED
    BY <2>1 DEF Grounds, ReadGenuine
<1>2. call.pc \in Finding => Founded(call.stage, call.reason)'
  BY DEF Grounds, Founded, Explained
<1>3. Recorded' /\ Blames' /\ FailureHasCause'
  BY DEF Grounds, Recorded, Blames, FailureHasCause
<1>4. presentation # NoPresentation => presentation' # NoPresentation
  <2>1. NoPresentation.approved = {}
    BY DEF NoPresentation
  <2> QED
    BY <2>1 DEF Grounds
<1>5. call.pc = "drop" => request'.status = request.status
  BY DEF IInv, InOrder
<1> QED
  BY <1>1, <1>2, <1>3, <1>4, <1>5 DEF Grounds, CredentialClaims

-----------------------------------------------------------------------------
(* The bank and the holder. *)

LEMMA SaveJobGrounds ==
    ASSUME IInv, Grounds, NEW list \in Lists, SaveJob(list)
    PROVE  Grounds'
<1>1. /\ UNCHANGED <<subject, schema, request, presentation, result, data, call>>
      /\ UNCHANGED <<session, credential, trust, keyStatus, readable>>
  BY DEF SaveJob, outcome
<1>2. events \subseteq events'
  BY DEF SaveJob, Happens
<1>3. Marked' /\ Genuine(presentation)'
  BY <1>1, <1>2 DEF Grounds, Marked, Genuine, CredentialClaims
<1> QED
  BY <1>1, <1>2, <1>3, LaterGrounds

LEMMA RequestClaimsGrounds ==
    ASSUME IInv, Grounds, NEW list \in Lists, RequestClaims(list)
    PROVE  Grounds'
<1>1. /\ UNCHANGED <<subject, schema, presentation, result, data, call>>
      /\ UNCHANGED <<credential, trust, keyStatus, readable, events>>
      /\ request.status = "NONE" /\ request'.status = "PENDING" /\ ~request'.overdue
      /\ session' = TRUE
  BY DEF RequestClaims
<1>2. presentation = NoPresentation /\ call.pc = "idle"
  BY <1>1 DEF IInv, InOrder
<1>3. Genuine(presentation)'
  BY <1>1, <1>2, NothingIsDisclosure DEF NoPresentation, Genuine
<1>4. Marked'
  BY <1>1 DEF Grounds, Marked
<1> QED
  BY <1>1, <1>2, <1>3, <1>4
  DEF Grounds, Reading, Finding, Recorded, Blames, FailureHasCause, CredentialClaims

LEMMA ApproveGrounds ==
    ASSUME IInv, Grounds, NEW list \in Lists, Approve(list)
    PROVE  Grounds'
<1> DEFINE names == {Name(text) : text \in Texts(list)}
           disclosed == [c \in names |-> "issued"]
<1>1. /\ UNCHANGED <<job, subject, schema, application, result, data, call>>
      /\ UNCHANGED <<session, credential, trust, keyStatus, readable, events>>
      /\ request.status = "PENDING"
      /\ request' = [request EXCEPT !.status = "APPROVED"]
      /\ presentation' = [approved |-> names, disclosed |-> disclosed,
                          hash |-> disclosed, signed |-> disclosed]
      /\ session
      /\ Contained(names) /\ Among(list, request.claims) /\ WellFormed(list)
  BY DEF Approve, outcome, surroundings
<1>2. /\ request'.status = "APPROVED" /\ request'.claims = request.claims
      /\ request'.overdue = request.overdue
  BY <1>1 DEF IInv, TypeOK, RequestRow
<1>3. request.claims \in SUBSET Text
  BY DEF IInv, TypeOK, RequestRow
<1>4. \A c \in names : [name |-> c, padded |-> FALSE] \in request.claims
  BY <1>1, <1>3, NamesAmong
<1>5. Genuine(presentation)'
  BY <1>1, <1>2, <1>4 DEF Genuine, Contained, CredentialClaims
<1>6. names # {}
  <2>1. PICK n \in 0..MaxList : list \in [1..n -> Text]
    BY DEF Lists, BoundedSeq, SeqOf
  <2>2. n # 0
    <3>1. ASSUME n = 0 PROVE list = <<>>
      BY <2>1, <3>1
    <3> QED
      BY <1>1, <3>1 DEF WellFormed
  <2>3. 1 \in DOMAIN list
    BY <2>1, <2>2, BoundsAreNaturals
  <2> QED
    BY <2>3 DEF Texts
<1>7. call.pc = "idle"
  BY <1>1 DEF IInv, InOrder
<1>8. presentation'.approved = names /\ presentation' # NoPresentation
  BY <1>1, <1>6 DEF NoPresentation
<1>9. Marked'
  BY <1>1, <1>2 DEF Grounds, Marked
<1> QED
  BY <1>1, <1>2, <1>5, <1>6, <1>7, <1>8, <1>9
  DEF Grounds, Reading, Finding, Recorded, Blames, FailureHasCause, CredentialClaims

-----------------------------------------------------------------------------
(* verifyPresentation. *)

\* What the steps that decide nothing, and the answer, have in common.
LEMMA CallGrounds ==
    ASSUME IInv, Grounds,
           UNCHANGED <<claims, outcome>>,
           UNCHANGED <<credential, trust, keyStatus, readable, events>>,
           session' = session \/ request.status \in {"VERIFIED", "FAILED", "EXPIRED"},
           call'.pc # "drop",
           call'.pc \in Reading => ReadGenuine',
           call'.pc = "expire" => request.overdue,
           call'.pc \notin Finding => call'.reason = "",
           call'.pc \in Finding => Founded(call'.stage, call'.reason)
    PROVE  Grounds'
<1>1. Marked'
  BY DEF Grounds, Marked, claims
<1>2. Genuine(presentation)'
  BY DEF Grounds, Genuine, CredentialClaims, claims
<1>3. call'.pc \in Finding => Founded(call.stage, call.reason)'
  BY DEF Founded, Explained
<1>4. call'.pc = "expire" => "overdue" \in events
  BY DEF Grounds, Marked
<1> QED
  BY <1>1, <1>2, <1>3, <1>4
  DEF Grounds, Recorded, Blames, FailureHasCause, CredentialClaims, claims, outcome

LEMMA AnswerGrounds ==
    ASSUME IInv, Grounds, NEW code,
           UNCHANGED <<claims, outcome>>,
           UNCHANGED <<credential, trust, keyStatus, readable, events>>,
           session' = session \/ request.status \in {"VERIFIED", "FAILED", "EXPIRED"},
           Answer(code)
    PROVE  Grounds'
BY CallGrounds, IdleHasNoReason DEF Answer, Reading, Finding

LEMMA GotoGrounds ==
    ASSUME IInv, Grounds, UNCHANGED <<claims, outcome, surroundings>>,
           call.pc # "drop",
           NEW pc \in ProgramCounter \ {"latest", "expire", "drop"}, Goto(pc),
           pc \in Reading => call.pc \in Reading,
           pc \in Finding <=> call.pc \in Finding
    PROVE  Grounds'
<1>1. call \in CallState
  BY DEF IInv, TypeOK
<1>2. /\ call'.pc = pc /\ call'.seen = call.seen /\ call'.status = call.status
      /\ call'.reason = call.reason /\ call'.stage = call.stage
  BY <1>1 DEF Goto, CallState
<1>3. pc \in Reading => ReadGenuine'
  BY <1>2 DEF Grounds, ReadGenuine, Genuine, CredentialClaims, claims, surroundings
<1> QED
  BY <1>2, <1>3, CallGrounds DEF Grounds, surroundings

LEMMA FailGrounds ==
    ASSUME IInv, Grounds, UNCHANGED <<claims, outcome, surroundings>>,
           NEW stage, NEW reason, Founded(stage, reason), Fail(stage, reason)
    PROVE  Grounds'
<1>1. call \in CallState
  BY DEF IInv, TypeOK
<1>2. call'.pc = "latest" /\ call'.stage = stage /\ call'.reason = reason
  BY <1>1 DEF Fail, CallState
<1> QED
  BY <1>2, CallGrounds DEF Reading, Finding, surroundings

\* A check fails on good grounds, if those before it hold.
LEMMA MakeGrounds ==
    ASSUME IInv, Grounds, UNCHANGED <<claims, outcome, surroundings>>,
           NEW checks,
           \A i \in DOMAIN checks :
               ~checks[i].holds /\ (\A j \in 1..(i - 1) : checks[j].holds)
               => Founded(checks[i].stage, checks[i].reason),
           call.pc \in Reading,
           NEW pc \in {"wallet", "trust", "claims"},
           Make(checks, pc)
    PROVE  Grounds'
<1>1. CASE (\A i \in DOMAIN checks : checks[i].holds) /\ Goto(pc)
  BY <1>1, GotoGrounds DEF Reading, Finding, ProgramCounter
<1>2. CASE \E i \in DOMAIN checks :
              /\ ~checks[i].holds /\ \A j \in 1..(i - 1) : checks[j].holds
              /\ Fail(checks[i].stage, checks[i].reason)
  BY <1>2, FailGrounds
<1> QED
  BY <1>1, <1>2 DEF Make

\* The grounds of each failure.
LEMMA Founding ==
    /\ "sessionLost" \in events \/ "overdue" \in events =>
           Founded(0, "Verification session not found or expired")
    /\ "holderKeyRevoked" \in events =>
           Founded(HolderProof, "Holder verification method does not match holder DID")
    /\ "altered" \in events => Founded(HolderProof, "Presentation hash is invalid")
    /\ "issuerKeyRevoked" \in events =>
           Founded(IssuerProof, "Issuer verification method does not match issuer DID")
    /\ "untrusted" \in events => Founded(IssuerTrust, "Credential issuer is not trusted")
    /\ "revoked" \in events => Founded(StatusAndExpiry, "Credential has been revoked")
    /\ "suspended" \in events => Founded(StatusAndExpiry, "Credential has been suspended")
    /\ "expired" \in events => Founded(StatusAndExpiry, "Credential has expired")
BY BlameOfWords DEF Founded, Explained, Cause

LEMMA FoundingOfClaims ==
    ASSUME "alteredAndSigned" \in events,
           NEW reason \in {"No claims were disclosed", "Disclosed claim was not requested: ",
                           "Credential does not contain disclosed claim: ",
                           "Disclosed claim does not match credential: "}
    PROVE  Founded(Claims, reason)
BY BlameOfWords DEF Founded, Explained, Cause

\* Either pass over the request.
LEMMA ContextGrounds ==
    ASSUME IInv, Grounds, NEW open, Context(open),
           open.pc \in {"session", "sessionAgain"}, open.reason = "",
           call' = open /\ open.pc = "sessionAgain" => ReadGenuine'
    PROVE  Grounds'
<1>1. UNCHANGED <<claims, outcome, surroundings>>
  BY DEF Context
<1>2. CASE Answer(Consumed) \/ Answer(NotApproved)
  BY <1>1, <1>2, AnswerGrounds DEF surroundings
<1>3. CASE request.overdue /\ call' = Expiring
  BY <1>1, <1>3, BeginsIsTyped, CallGrounds DEF surroundings, Reading, Finding
<1>4. CASE call' = open
  BY <1>1, <1>4, CallGrounds DEF surroundings, Reading, Finding
<1> QED
  BY <1>2, <1>3, <1>4 DEF Context

LEMMA PassesGrounds ==
    ASSUME IInv, Grounds, Begin \/ FirstSession \/ FindExisting \/ ReadContext \/ SecondSession
    PROVE  Grounds'
<1> USE DEF At
<1>0. call \in CallState
  BY DEF IInv, TypeOK
<1>1. CASE Begin
  BY <1>1, BeginsIsTyped, ContextGrounds DEF Begin
<1>2. CASE FirstSession
  <2>1. CASE session
    BY <1>2, <2>1, GotoGrounds DEF FirstSession, ProgramCounter, Reading, Finding
  <2>2. CASE ~session
    BY <1>2, <2>2, AnswerGrounds DEF FirstSession, surroundings
  <2> QED
    BY <2>1, <2>2
<1>3. CASE FindExisting
  <2>1. CASE result = NoResult
    BY <1>3, <2>1, GotoGrounds DEF FindExisting, ProgramCounter, Reading, Finding
  <2>2. CASE result # NoResult
    BY <1>3, <2>2, AnswerGrounds DEF FindExisting, surroundings
  <2> QED
    BY <2>1, <2>2
<1>4. CASE ReadContext
  <2> DEFINE read == [call EXCEPT !.pc = "sessionAgain", !.seen = presentation,
                                  !.status = credential.status]
  <2>1. /\ read.pc = "sessionAgain" /\ read.seen = presentation
        /\ read.status = credential.status /\ read.reason = call.reason
    BY <1>0 DEF CallState
  <2>2. Context(read) /\ call.pc = "context"
    BY <1>4 DEF ReadContext
  <2> HIDE DEF read
  <2>3. presentation # NoPresentation /\ UNCHANGED <<claims, outcome, surroundings>>
    BY <2>2 DEF Context
  <2>4. call' = read => ReadGenuine'
    BY <2>1, <2>3
    DEF Grounds, ReadGenuine, Genuine, Marked, CredentialClaims, claims, surroundings
  <2>5. read.reason = ""
    BY <2>1, <2>2 DEF Grounds, Finding
  <2> QED
    BY <2>1, <2>2, <2>4, <2>5, ContextGrounds
<1>5. CASE SecondSession
  <2>1. CASE session
    BY <1>5, <2>1, GotoGrounds DEF SecondSession, ProgramCounter, Reading, Finding
  <2>2. CASE ~session
    <3>1. request.status \in {"APPROVED", "EXPIRED"}
      BY <1>5 DEF SecondSession, IInv, InOrder
    <3>2. "sessionLost" \in events \/ "overdue" \in events
      BY <2>2, <3>1 DEF Grounds, Marked
    <3> QED
      BY <1>5, <2>2, <3>2, Founding, FailGrounds DEF SecondSession
  <2> QED
    BY <2>1, <2>2
<1> QED
  BY <1>1, <1>2, <1>3, <1>4, <1>5

LEMMA CheckStepsGrounds ==
    ASSUME IInv, Grounds, CheckHolder \/ ReadWallet \/ CheckIssuer \/ CheckTrust
    PROVE  Grounds'
<1> USE DEF At
<1>1. CASE CheckHolder
  <2> DEFINE c1 == Check(HolderProof, Verifies("holder"),
                         "Holder verification method does not match holder DID")
             c2 == Check(HolderProof, call.seen.hash = call.seen.disclosed,
                         "Presentation hash is invalid")
             c3 == Check(HolderProof, call.seen.signed = call.seen.disclosed,
                         "Holder proof is invalid")
  <2>1. Make(<<c1, c2, c3>>, "wallet") /\ UNCHANGED <<claims, outcome, surroundings>>
        /\ call.pc = "holder"
    BY <1>1 DEF CheckHolder
  <2>2. ReadGenuine /\ call.seen.signed = call.seen.hash
    BY <2>1 DEF Grounds, Reading, IInv, Faithful
  <2>3. ~c1.holds => Founded(c1.stage, c1.reason)
    BY Founding DEF Check, Verifies, Grounds, Marked
  <2>4. ~c2.holds => Founded(c2.stage, c2.reason)
    BY <2>2, Founding DEF Check, ReadGenuine, Genuine
  <2>5. c2.holds => c3.holds
    BY <2>2 DEF Check
  <2> HIDE DEF c1, c2, c3
  <2> DEFINE checks == <<c1, c2, c3>>
  <2>6. DOMAIN checks = 1..3 /\ checks[1] = c1 /\ checks[2] = c2 /\ checks[3] = c3
    OBVIOUS
  <2> HIDE DEF checks
  <2>7. \A i \in DOMAIN checks :
            ~checks[i].holds /\ (\A j \in 1..(i - 1) : checks[j].holds)
            => Founded(checks[i].stage, checks[i].reason)
    <3>1. (\A j \in 1..(3 - 1) : checks[j].holds) => c2.holds
      BY <2>6
    <3> QED
      BY <2>3, <2>4, <2>5, <2>6, <3>1
  <2> QED
    BY <2>1, <2>7, MakeGrounds DEF checks, Reading
<1>2. CASE ReadWallet
  <2>1. CASE readable
    BY <1>2, <2>1, GotoGrounds DEF ReadWallet, ProgramCounter, Reading, Finding
  <2>2. CASE ~readable
    BY <1>2, <2>2, AnswerGrounds DEF ReadWallet, surroundings
  <2> QED
    BY <2>1, <2>2
<1>3. CASE CheckIssuer
  <2> DEFINE c1 == Check(IssuerProof, Verifies("issuer"),
                         "Issuer verification method does not match issuer DID")
  <2>1. Make(<<c1>>, "trust") /\ UNCHANGED <<claims, outcome, surroundings>>
        /\ call.pc = "issuer"
    BY <1>3 DEF CheckIssuer
  <2>2. ~c1.holds => Founded(c1.stage, c1.reason)
    BY Founding DEF Check, Verifies, Grounds, Marked
  <2> HIDE DEF c1
  <2>3. \A i \in DOMAIN <<c1>> : ~<<c1>>[i].holds => Founded(<<c1>>[i].stage, <<c1>>[i].reason)
    BY <2>2
  <2> QED
    BY <2>1, <2>3, MakeGrounds DEF Reading
<1>4. CASE CheckTrust
  <2> DEFINE c1 == Check(IssuerTrust, trust = "TRUSTED", "Credential issuer is not trusted")
             c2 == Check(StatusAndExpiry, call.status # "REVOKED", "Credential has been revoked")
             c3 == Check(StatusAndExpiry, call.status # "SUSPENDED",
                         "Credential has been suspended")
             c4 == Check(StatusAndExpiry, ~credential.expired, "Credential has expired")
  <2>1. Make(<<c1, c2, c3, c4>>, "claims") /\ UNCHANGED <<claims, outcome, surroundings>>
        /\ call.pc = "trust"
    BY <1>4 DEF CheckTrust
  <2>2. ReadGenuine
    BY <2>1 DEF Grounds, Reading
  <2>3. ~c1.holds => Founded(c1.stage, c1.reason)
    BY Founding DEF Check, Grounds, Marked
  <2>4. ~c2.holds => Founded(c2.stage, c2.reason)
    BY <2>2, Founding DEF Check, ReadGenuine
  <2>5. ~c3.holds => Founded(c3.stage, c3.reason)
    BY <2>2, Founding DEF Check, ReadGenuine
  <2>6. ~c4.holds => Founded(c4.stage, c4.reason)
    BY Founding DEF Check, Grounds, Marked
  <2> HIDE DEF c1, c2, c3, c4
  <2>7. \A i \in DOMAIN <<c1, c2, c3, c4>> :
            ~<<c1, c2, c3, c4>>[i].holds
            => Founded(<<c1, c2, c3, c4>>[i].stage, <<c1, c2, c3, c4>>[i].reason)
    BY <2>3, <2>4, <2>5, <2>6
  <2> QED
    BY <2>1, <2>7, MakeGrounds DEF Reading
<1> QED
  BY <1>1, <1>2, <1>3, <1>4

\* As long as nobody signs anew, what was checked is what was approved, value by value.
LEMMA CheckClaimsGrounds ==
    ASSUME IInv, Grounds, CheckClaims
    PROVE  Grounds'
<1> DEFINE disclosed == DOMAIN call.seen.disclosed
           refusals == UNION {Refusals(c) : c \in disclosed}
<1>1. UNCHANGED <<claims, outcome, surroundings>> /\ call.pc = "claims"
  BY DEF CheckClaims, At
<1>2. ReadGenuine
  BY <1>1 DEF Grounds, Reading
<1>3. Missing(schema, CredentialClaims) = {}
  BY DEF Grounds, Missing
<1>4. \/ call.seen.disclosed = [c \in call.seen.approved |-> "issued"]
      \/ "alteredAndSigned" \in events
  BY <1>1 DEF IInv, Faithful, HashChecked
<1>5. disclosed = {} => "alteredAndSigned" \in events
  BY <1>2, <1>4 DEF ReadGenuine
<1>6. \A c \in disclosed : Refusals(c) # {} => "alteredAndSigned" \in events
  BY <1>2, <1>4 DEF ReadGenuine, Genuine, Refusals
<1>7. CASE disclosed = {} /\ Fail(Claims, "No claims were disclosed")
  BY <1>1, <1>5, <1>7, FoundingOfClaims, FailGrounds
<1>8. CASE \E reason \in refusals : Fail(Claims, reason)
  <2>1. PICK c \in disclosed : \E reason \in Refusals(c) : Fail(Claims, reason)
    BY <1>8
  <2>2. PICK reason \in Refusals(c) : Fail(Claims, reason)
    BY <2>1
  <2>3. reason \in {"Disclosed claim was not requested: ",
                    "Credential does not contain disclosed claim: ",
                    "Disclosed claim does not match credential: "}
    BY DEF Refusals
  <2> QED
    BY <1>1, <1>6, <2>2, <2>3, FoundingOfClaims, FailGrounds
<1>9. CASE Goto("commitVerified")
  BY <1>1, <1>9, GotoGrounds DEF ProgramCounter, Reading, Finding
<1> QED
  BY <1>3, <1>7, <1>8, <1>9 DEF CheckClaims

\* An expiry, by this call or by another.
LEMMA ExpiredGrounds ==
    ASSUME IInv, Grounds, request.status = "APPROVED", "overdue" \in events,
           request' = [request EXCEPT !.status = "EXPIRED"],
           UNCHANGED <<job, subject, schema, presentation, outcome, surroundings>>,
           \/ call' = call
           \/ call.pc = "expire" /\ call' = [call EXCEPT !.pc = "dropExpired"]
           \/ call' = Idle(Broken)
    PROVE  Grounds'
<1>0. call \in CallState /\ request \in RequestRow
  BY DEF IInv, TypeOK
<1>1. request'.status = "EXPIRED" /\ request'.claims = request.claims
  BY <1>0 DEF RequestRow
<1>2. Marked' /\ Genuine(presentation)'
  BY <1>1 DEF Grounds, Marked, Genuine, CredentialClaims, surroundings
<1>3. CASE call' = call
  BY <1>1, <1>2, <1>3, LaterGrounds DEF outcome, surroundings
<1>4. CASE call'.pc \in {"idle", "dropExpired"} /\ call'.reason = ""
  BY <1>1, <1>2, <1>4
  DEF Grounds, Reading, Finding, Recorded, Blames, FailureHasCause, CredentialClaims,
      outcome, surroundings
<1>5. CASE call' = Idle(Broken)
  BY <1>4, <1>5, IdleHasNoReason
<1>6. CASE call.pc = "expire" /\ call' = [call EXCEPT !.pc = "dropExpired"]
  <2>1. call.reason = ""
    BY <1>6 DEF Grounds, Finding
  <2> QED
    BY <1>0, <1>4, <1>6, <2>1 DEF CallState
<1> QED
  BY <1>3, <1>5, <1>6

LEMMA EndGrounds ==
    ASSUME IInv, Grounds, ExpireRequest \/ DropExpired \/ ReadLatest \/ Drop \/ StoreFails \/ Crash
    PROVE  Grounds'
<1> USE DEF At
<1>1. CASE ExpireRequest
  <2>1. CASE request.status = "APPROVED"
    <3>1. "overdue" \in events /\ call.pc = "expire"
      BY <1>1 DEF ExpireRequest, Grounds
    <3> QED
      BY <1>1, <2>1, <3>1, ExpiredGrounds DEF ExpireRequest, Acknowledged, Answer
  <2>2. CASE request.status # "APPROVED"
    <3>1. Answer(NoLongerApproved) /\ UNCHANGED <<claims, outcome, surroundings>>
      BY <1>1, <2>2 DEF ExpireRequest, claims
    <3> QED
      BY <3>1, AnswerGrounds DEF surroundings
  <2> QED
    BY <2>1, <2>2
<1>2. CASE DropExpired
  <2>1. request.status = "EXPIRED"
    BY <1>2 DEF DropExpired, IInv, InOrder
  <2> QED
    BY <1>2, <2>1, AnswerGrounds DEF DropExpired, Acknowledged, Answer
<1>3. CASE ReadLatest
  <2>1. CASE request.status = "EXPIRED"
    BY <1>3, <2>1, AnswerGrounds DEF ReadLatest, surroundings
  <2>2. CASE request.status # "EXPIRED"
    BY <1>3, <2>2, GotoGrounds DEF ReadLatest, ProgramCounter, Reading, Finding
  <2> QED
    BY <2>1, <2>2
<1>4. CASE Drop
  <2>1. request.status \in {"VERIFIED", "FAILED"}
    BY <1>4 DEF Drop, IInv, InOrder
  <2> QED
    BY <1>4, <2>1, AnswerGrounds DEF Drop, Acknowledged, Answer
<1>5. CASE StoreFails \/ Crash
  BY <1>5, AnswerGrounds DEF StoreFails, Crash, surroundings
<1> QED
  BY <1>1, <1>2, <1>3, <1>4, <1>5

\* The two transactions.
LEMMA DecideGrounds ==
    ASSUME IInv, Grounds, NEW verdict \in {"VERIFIED", "FAILED"}, NEW row, NEW column,
           Decide(verdict, row, column),
           row.final = verdict,
           call.reason = "" <=> verdict = "VERIFIED",
           verdict = "FAILED" =>
               /\ row.reason = call.reason /\ row.stage = call.stage
               /\ row.flags = Flags(call.reason)
               /\ Founded(call.stage, call.reason)
    PROVE  Grounds'
<1>0. call \in CallState /\ request \in RequestRow
  BY DEF IInv, TypeOK
<1>1. UNCHANGED <<job, subject, schema, presentation, surroundings>>
  BY DEF Decide
<1>2. CASE (Answer(NoLongerApproved) \/ Answer(StateChanged)) /\ UNCHANGED <<request, outcome>>
  BY <1>1, <1>2, AnswerGrounds DEF claims, surroundings
<1>3. CASE /\ request.status = "APPROVED"
           /\ request' = [request EXCEPT !.status = verdict]
           /\ result' = row
           /\ Acknowledged([call EXCEPT !.pc = "drop"])
  <2>1. /\ request'.claims = request.claims /\ request'.status = verdict
        /\ request'.overdue = request.overdue
    BY <1>0, <1>3 DEF RequestRow
  <2>2. \/ call'.pc = "drop" /\ call'.reason = call.reason
        \/ call'.pc = "idle" /\ call'.reason = ""
    BY <1>0, <1>3, IdleHasNoReason DEF Acknowledged, Answer, CallState
  <2>3. Genuine(presentation)' /\ Marked'
    BY <1>1, <2>1 DEF Grounds, Genuine, Marked, CredentialClaims, surroundings
  <2>4. Recorded'
    BY <1>3, <2>1 DEF Recorded
  <2>5. Blames' /\ FailureHasCause'
    BY <1>1, <1>3 DEF Blames, FailureHasCause, Founded, Explained, surroundings
  <2>6. presentation # NoPresentation
    BY <1>3 DEF Grounds
  <2> QED
    BY <1>1, <2>1, <2>2, <2>3, <2>4, <2>5, <2>6
    DEF Grounds, Reading, Finding, CredentialClaims
<1> QED
  BY <1>1, <1>2, <1>3 DEF Decide

LEMMA CommitGrounds ==
    ASSUME IInv, Grounds, CommitVerified \/ CommitFailed
    PROVE  Grounds'
<1> USE DEF At
<1>1. CASE CommitVerified
  <2> DEFINE row == [NoResult EXCEPT !.final = "VERIFIED"]
  <2>1. row.final = "VERIFIED"
    BY DEF NoResult
  <2>2. Decide("VERIFIED", row, Delivers) /\ call.reason = ""
    BY <1>1 DEF CommitVerified, Grounds, Finding
  <2> HIDE DEF row
  <2> QED
    BY <2>1, <2>2, DecideGrounds
<1>2. CASE CommitFailed
  <2> DEFINE row == [final |-> "FAILED", reason |-> call.reason,
                     flags |-> Flags(call.reason), stage |-> call.stage]
  <2>1. /\ row.final = "FAILED" /\ row.reason = call.reason /\ row.stage = call.stage
        /\ row.flags = Flags(call.reason)
    OBVIOUS
  <2>2. Decide("FAILED", row, NoData) /\ Founded(call.stage, call.reason)
    <3>1. call.reason \in Reason
      BY DEF IInv, TypeOK, CallState
    <3> QED
      BY <1>2, <3>1 DEF CommitFailed, FlagsOf, Grounds, Finding
  <2> HIDE DEF row
  <2>3. call.reason # ""
    BY <2>2 DEF Founded
  <2> QED
    BY <2>1, <2>2, <2>3, DecideGrounds
<1> QED
  BY <1>1, <1>2

LEMMA VerifyGrounds ==
    ASSUME IInv, Grounds, Verify
    PROVE  Grounds'
BY PassesGrounds, CheckStepsGrounds, CheckClaimsGrounds, EndGrounds, CommitGrounds DEF Verify

-----------------------------------------------------------------------------
(* What happens meanwhile: whatever goes wrong leaves its event. *)

LEMMA AroundGrounds ==
    ASSUME IInv, Grounds, UNCHANGED <<claims, outcome, call>>,
           events \subseteq events',
           Marked'
    PROVE  Grounds'
<1>1. Genuine(presentation)'
  BY DEF Grounds, Genuine, CredentialClaims, claims
<1> QED
  BY <1>1, LaterGrounds DEF claims, outcome

LEMMA AlterGrounds ==
    ASSUME IInv, Grounds, NEW c \in Claim, NEW disclosed \in Disclosure, NEW signed \in BOOLEAN,
           Alter(c, disclosed, signed)
    PROVE  Grounds'
<1>0. presentation \in PresentationRow
  BY DEF IInv, TypeOK
<1>1. /\ UNCHANGED <<job, subject, schema, request, outcome, call>>
      /\ UNCHANGED <<session, credential, trust, keyStatus, readable>>
      /\ request.status = "APPROVED"
      /\ events \subseteq events'
      /\ ~signed => "altered" \in events'
  BY DEF Alter, Happens
<1>2. presentation # NoPresentation /\ Marked'
  BY <1>1 DEF Grounds, Marked
<1>3. /\ presentation'.approved = presentation.approved
      /\ signed => presentation'.hash = presentation'.disclosed
  BY <1>0 DEF Alter, PresentationRow
<1>4. Genuine(presentation)'
  BY <1>1, <1>3 DEF Grounds, Genuine, CredentialClaims
<1> QED
  BY <1>1, <1>2, <1>3, <1>4, LaterGrounds DEF outcome

LEMMA DeadlineGrounds ==
    ASSUME IInv, Grounds, PassDeadline
    PROVE  Grounds'
<1>1. /\ request' = [request EXCEPT !.overdue = TRUE]
      /\ UNCHANGED <<job, subject, schema, presentation, outcome, call>>
      /\ UNCHANGED <<session, credential, trust, keyStatus, readable>>
      /\ events \subseteq events' /\ "overdue" \in events'
  BY DEF PassDeadline, Happens
<1>2. request'.status = request.status /\ request'.claims = request.claims
  BY <1>1 DEF IInv, TypeOK, RequestRow
<1>3. Marked' /\ Genuine(presentation)'
  BY <1>1, <1>2 DEF Grounds, Marked, Genuine, CredentialClaims
<1> QED
  BY <1>1, <1>2, <1>3, LaterGrounds DEF outcome

LEMMA OtherGrounds ==
    ASSUME IInv, Grounds,
           (\E verdict \in {"VERIFIED", "FAILED"} : DecideOther(verdict)) \/ OpenOther
    PROVE  Grounds'
<1>1. /\ UNCHANGED <<claims, result, call, session, credential, trust, keyStatus, readable>>
      /\ events \subseteq events'
  BY DEF DecideOther, OpenOther, Happens, surroundings
<1>2. Marked' /\ Genuine(presentation)'
  BY <1>1 DEF Grounds, Marked, Genuine, CredentialClaims, claims
<1> QED
  BY <1>1, <1>2, LaterGrounds DEF claims

LEMMA SurroundingsGrounds ==
    ASSUME IInv, Grounds, Surroundings
    PROVE  Grounds'
<1>0. /\ credential \in [status : CredentialStatus, expired : BOOLEAN]
      /\ keyStatus \in [{"holder", "issuer"} -> {"ACTIVE", "RETIRED", "REVOKED"}]
      /\ Marked
  BY DEF IInv, TypeOK, Grounds
<1>1. CASE Suspend \/ Reactivate \/ Revoke
  <2>1. /\ UNCHANGED <<claims, outcome, call>> /\ UNCHANGED <<session, trust, keyStatus, readable>>
        /\ events \subseteq events'
    BY <1>1 DEF Suspend, Reactivate, Revoke, ChangeStatus, Happens
  <2>2. /\ credential'.expired = credential.expired
        /\ credential'.status = "REVOKED" => "revoked" \in events'
        /\ credential'.status = "SUSPENDED" => "suspended" \in events'
    BY <1>0, <1>1 DEF Suspend, Reactivate, Revoke, ChangeStatus, Happens
  <2> QED
    BY <1>0, <2>1, <2>2, AroundGrounds DEF Marked, claims
<1>2. CASE Expire
  <2>1. /\ UNCHANGED <<claims, outcome, call>> /\ UNCHANGED <<session, trust, keyStatus, readable>>
        /\ events \subseteq events' /\ "expired" \in events'
        /\ credential'.status = credential.status
    BY <1>0, <1>2 DEF Expire, Happens
  <2> QED
    BY <1>0, <2>1, AroundGrounds DEF Marked, claims
<1>3. CASE ChangeTrust
  <2>1. /\ UNCHANGED <<claims, outcome, call>>
        /\ UNCHANGED <<session, credential, keyStatus, readable>>
        /\ events \subseteq events'
        /\ trust' # "TRUSTED" => "untrusted" \in events'
    BY <1>3 DEF ChangeTrust, Happens
  <2> QED
    BY <1>0, <2>1, AroundGrounds DEF Marked, claims
<1>4. ASSUME NEW key \in {"holder", "issuer"}, Rotate(key) \/ RevokeKey(key)
      PROVE  Grounds'
  <2>1. /\ UNCHANGED <<claims, outcome, call>>
        /\ UNCHANGED <<session, credential, trust, readable>>
        /\ events \subseteq events'
    BY <1>4 DEF Rotate, RevokeKey, ChangeKey, Happens
  <2>2. CASE Rotate(key)
    <3>1. keyStatus' = [keyStatus EXCEPT ![key] = "RETIRED"]
      BY <2>2 DEF Rotate, ChangeKey
    <3> QED
      BY <1>0, <2>1, <3>1, AroundGrounds DEF Marked, claims
  <2>3. CASE RevokeKey(key)
    <3>1. /\ keyStatus' = [keyStatus EXCEPT ![key] = "REVOKED"]
          /\ key = "holder" => "holderKeyRevoked" \in events'
          /\ key = "issuer" => "issuerKeyRevoked" \in events'
      BY <2>3 DEF RevokeKey, ChangeKey, Happens
    <3> QED
      BY <1>0, <2>1, <3>1, AroundGrounds DEF Marked, claims
  <2> QED
    BY <1>4, <2>2, <2>3
<1>5. CASE LoseSession
  <2>1. /\ UNCHANGED <<claims, outcome, call>>
        /\ UNCHANGED <<credential, trust, keyStatus, readable>>
        /\ events \subseteq events'
    BY <1>5 DEF LoseSession, Happens
  <2>2. "sessionLost" \in events' \/ "overdue" \in events'
    BY <1>0, <1>5 DEF LoseSession, Happens, Marked
  <2> QED
    BY <1>0, <2>1, <2>2, AroundGrounds DEF Marked, claims
<1>6. CASE Redeploy
  <2>1. /\ UNCHANGED <<claims, outcome, call>>
        /\ UNCHANGED <<session, credential, trust, keyStatus>>
        /\ events \subseteq events'
    BY <1>6 DEF Redeploy, Happens
  <2> QED
    BY <1>0, <2>1, AroundGrounds DEF Marked, claims
<1>7. CASE \E c \in Claim, disclosed \in Disclosure, signed \in BOOLEAN :
               Alter(c, disclosed, signed)
  BY <1>7, AlterGrounds
<1>8. CASE ExpireElsewhere
  BY <1>0, <1>8, ExpiredGrounds DEF ExpireElsewhere, Marked
<1> QED
  BY <1>1, <1>2, <1>3, <1>4, <1>5, <1>6, <1>7, <1>8, DeadlineGrounds, OtherGrounds
  DEF Surroundings

LEMMA GroundsStep ==
    ASSUME IInv, Grounds, [Next]_vars
    PROVE  Grounds'
<1>1. CASE \E list \in Lists : SaveJob(list) \/ RequestClaims(list) \/ Approve(list)
  BY <1>1, SaveJobGrounds, RequestClaimsGrounds, ApproveGrounds
<1>2. CASE Verify
  BY <1>2, VerifyGrounds
<1>3. CASE Surroundings
  BY <1>3, SurroundingsGrounds
<1>4. CASE UNCHANGED vars
  <2>1. UNCHANGED <<claims, outcome, call>> /\ UNCHANGED surroundings
    BY <1>4 DEF vars
  <2>2. Marked'
    BY <2>1 DEF Grounds, Marked, claims, surroundings
  <2> QED
    BY <2>1, <2>2, AroundGrounds DEF surroundings
<1> QED
  BY <1>1, <1>2, <1>3, <1>4 DEF Next

\* Every failure is on record with grounds, found by a check, left by an event.
THEOREM GroundsHold == Spec => []Grounds
BY InitGrounds, GroundsStep, Invariance, PTL DEF Spec

\* A presentation made in good faith fails for no rotation, no edit of a job, no blanks and
\* no missing optional claim, whatever its claims: there is an event that its reason names.
THEOREM FailuresHaveCauses == Spec => []FailureHasCause
BY GroundsHold, PTL DEF Grounds

\* The flags stored with a failure are those of the check that failed.
THEOREM FlagsBlameTheCheck == Spec => []BlameIsRight
<1>1. IInv /\ Grounds => BlameIsRight
  <2> SUFFICES ASSUME IInv, Grounds, result.final = "FAILED", result.stage # 0,
                      NEW flag \in DOMAIN StageOf
               PROVE  result.flags[flag] = (StageOf[flag] < result.stage)
    BY DEF BlameIsRight
  <2>1. result.flags = Flags(result.reason) /\ Blamed(result.reason) = result.stage
    BY DEF Grounds, Blames
  <2>2. result.stage \in 1..7
    BY DEF IInv, TypeOK, ResultRow, Claims
  <2> DEFINE blamed == Blamed(result.reason)
             flags == Flags(result.reason)
  <2>3. /\ flags.holderProofValid = (blamed > HolderProof)
        /\ flags.hashValid = (blamed > CredentialHash)
        /\ flags.issuerSignatureValid = (blamed > IssuerProof)
        /\ flags.issuerTrusted = (blamed > IssuerTrust)
        /\ flags.credentialStatusValid = (blamed > StatusAndExpiry)
        /\ flags.schemaValid = (blamed > SchemaAndIssuer)
        /\ flags.claimsValid = FALSE
    BY DEF Flags
  <2>4. flag \in {"holderProofValid", "hashValid", "issuerSignatureValid", "issuerTrusted",
                  "credentialStatusValid", "schemaValid", "claimsValid"}
    BY DEF StageOf
  <2>5. blamed = result.stage
    BY <2>1
  <2> HIDE DEF blamed
  <2>6. /\ (blamed > HolderProof) = (HolderProof < result.stage)
        /\ (blamed > CredentialHash) = (CredentialHash < result.stage)
        /\ (blamed > IssuerProof) = (IssuerProof < result.stage)
        /\ (blamed > IssuerTrust) = (IssuerTrust < result.stage)
        /\ (blamed > StatusAndExpiry) = (StatusAndExpiry < result.stage)
        /\ (blamed > SchemaAndIssuer) = (SchemaAndIssuer < result.stage)
        /\ FALSE = (Claims < result.stage)
    BY <2>2, <2>5 DEF HolderProof, CredentialHash, IssuerProof, IssuerTrust, StatusAndExpiry,
                      SchemaAndIssuer, Claims
  <2>7. /\ StageOf.holderProofValid = HolderProof
        /\ StageOf.hashValid = CredentialHash
        /\ StageOf.issuerSignatureValid = IssuerProof
        /\ StageOf.issuerTrusted = IssuerTrust
        /\ StageOf.credentialStatusValid = StatusAndExpiry
        /\ StageOf.schemaValid = SchemaAndIssuer
        /\ StageOf.claimsValid = Claims
    BY DEF StageOf
  <2> QED
    BY <2>1, <2>3, <2>4, <2>6, <2>7, Zenon DEF flags
<1> QED
  BY <1>1, Invariance, GroundsHold, PTL

-----------------------------------------------------------------------------
(* Successes.  What dooms a call when it begins stays true, so that it is enough that the *)
(* check that finds it is still to come: before it there is no success, after it none.    *)

BeforeHolder == {"session", "existing", "context", "sessionAgain", "holder"}
BeforeIssuer == BeforeHolder \cup {"wallet", "issuer"}
BeforeTrust == BeforeIssuer \cup {"trust"}
BeforeSuccess == BeforeTrust \cup {"claims", "commitVerified"}
HasRead == {"sessionAgain", "holder", "wallet", "issuer", "trust"}

\* A check the call has yet to make, which it will not pass.
Ahead ==
    \/ call.pc \in BeforeHolder /\ keyStatus["holder"] = "REVOKED"
    \/ call.pc \in BeforeIssuer /\ keyStatus["issuer"] = "REVOKED"
    \/ call.pc \in BeforeTrust /\ (trust = "SUSPENDED" \/ credential.expired)
    \/ /\ call.pc \in BeforeTrust /\ credential.status = "REVOKED"
       /\ call.pc \in HasRead => call.status = "REVOKED"

Hopeless == call.doomed /\ call.pc \in BeforeSuccess => Ahead

\* Nobody takes it back.
Lasting ==
    /\ \A key \in {"holder", "issuer"} :
          keyStatus[key] = "REVOKED" => keyStatus'[key] = "REVOKED"
    /\ credential.status = "REVOKED" => credential'.status = "REVOKED"
    /\ credential.expired => credential'.expired
    /\ trust = "SUSPENDED" => trust' = "SUSPENDED"

LEMMA NothingIsTakenBack ==
    ASSUME IInv, [Next]_vars
    PROVE  Lasting
<1>0. /\ credential \in [status : CredentialStatus, expired : BOOLEAN]
      /\ keyStatus \in [{"holder", "issuer"} -> {"ACTIVE", "RETIRED", "REVOKED"}]
  BY DEF IInv, TypeOK
<1>1. CASE UNCHANGED <<credential, trust, keyStatus>>
  BY <1>1 DEF Lasting
<1>2. CASE \E list \in Lists : SaveJob(list) \/ RequestClaims(list) \/ Approve(list)
  BY <1>1, <1>2 DEF SaveJob, RequestClaims, Approve, surroundings
<1>3. CASE Verify
  <2>1. CASE Begin \/ ReadContext
    BY <1>1, <2>1 DEF Begin, ReadContext, Context, surroundings
  <2>2. CASE CommitVerified \/ CommitFailed
    BY <1>1, <2>2 DEF CommitVerified, CommitFailed, Decide, surroundings
  <2>3. CASE DropExpired \/ Drop
    BY <1>1, <2>3 DEF DropExpired, Drop
  <2>4. CASE \/ ExpireRequest \/ FirstSession \/ FindExisting \/ SecondSession \/ CheckHolder
             \/ ReadWallet \/ CheckIssuer \/ CheckTrust \/ CheckClaims \/ ReadLatest
             \/ StoreFails \/ Crash
    BY <1>1, <2>4
    DEF ExpireRequest, FirstSession, FindExisting, SecondSession, CheckHolder, ReadWallet,
        CheckIssuer, CheckTrust, CheckClaims, ReadLatest, StoreFails, Crash, surroundings
  <2> QED
    BY <1>3, <2>1, <2>2, <2>3, <2>4 DEF Verify
<1>4. CASE Suspend \/ Reactivate \/ Revoke \/ Expire
  BY <1>0, <1>4 DEF Suspend, Reactivate, Revoke, ChangeStatus, Expire, Lasting
<1>5. CASE ChangeTrust
  BY <1>5 DEF ChangeTrust, Lasting
<1>6. CASE \E key \in {"holder", "issuer"} : Rotate(key) \/ RevokeKey(key)
  BY <1>0, <1>6 DEF Rotate, RevokeKey, ChangeKey, Lasting
<1>7. CASE \/ LoseSession \/ Redeploy \/ PassDeadline \/ ExpireElsewhere \/ OpenOther
           \/ \E verdict \in {"VERIFIED", "FAILED"} : DecideOther(verdict)
           \/ \E c \in Claim, disclosed \in Disclosure, signed \in BOOLEAN :
                 Alter(c, disclosed, signed)
  BY <1>1, <1>7
  DEF LoseSession, Redeploy, PassDeadline, ExpireElsewhere, OpenOther, DecideOther, Alter,
      surroundings
<1>8. CASE UNCHANGED vars
  BY <1>1, <1>8 DEF vars, surroundings
<1> QED
  BY <1>2, <1>3, <1>4, <1>5, <1>6, <1>7, <1>8 DEF Next, Surroundings

LEMMA InitHopeless == Init => Hopeless
<1>1. Idle("NONE").pc = "idle"
  BY IdleHasNoReason
<1> QED
  BY <1>1 DEF Init, Hopeless, BeforeSuccess, BeforeTrust, BeforeIssuer, BeforeHolder

\* A call that moves on, past none of the checks or past one it has made.
LEMMA GotoHopeless ==
    ASSUME IInv, Hopeless, Lasting, NEW pc, Goto(pc),
           pc \in BeforeSuccess => call.pc \in BeforeSuccess,
           \A before \in {BeforeHolder, BeforeIssuer, BeforeTrust} :
               call.pc \in before => pc \in before,
           pc \in HasRead => call.pc \in HasRead
    PROVE  Hopeless'
<1>0. call \in CallState
  BY DEF IInv, TypeOK
<1>1. call'.pc = pc /\ call'.status = call.status /\ call'.doomed = call.doomed
  BY <1>0 DEF Goto, CallState
<1>2. Ahead => Ahead'
  <2>1. CASE pc \in BeforeHolder
    BY <1>1, <2>1 DEF Ahead, Lasting, BeforeHolder, BeforeIssuer, BeforeTrust
  <2> QED
    BY <1>1 DEF Ahead, Lasting
<1> QED
  BY <1>1, <1>2 DEF Hopeless

LEMMA EndsHopeless ==
    ASSUME call'.pc \notin BeforeSuccess
    PROVE  Hopeless'
BY DEF Hopeless

LEMMA AnswersAndFailuresEnd ==
    ASSUME IInv
    PROVE  /\ \A code : Answer(code) => call'.pc \notin BeforeSuccess
           /\ \A stage, reason : Fail(stage, reason) => call'.pc \notin BeforeSuccess
<1>1. call \in CallState
  BY DEF IInv, TypeOK
<1> QED
  BY <1>1, IdleHasNoReason
  DEF Answer, Fail, CallState, BeforeSuccess, BeforeTrust, BeforeIssuer, BeforeHolder

\* Past a check.
LEMMA MakeHopeless ==
    ASSUME IInv, Hopeless, NEW checks, NEW pc, Make(checks, pc),
           (\A i \in DOMAIN checks : checks[i].holds) /\ Goto(pc) => Hopeless'
    PROVE  Hopeless'
BY EndsHopeless, AnswersAndFailuresEnd DEF Make

LEMMA ContextHopeless ==
    ASSUME IInv, NEW open, Context(open),
           call' = open => Hopeless'
    PROVE  Hopeless'
<1>1. CASE call' = Expiring
  BY <1>1, BeginsIsTyped, EndsHopeless DEF BeforeSuccess, BeforeTrust, BeforeIssuer, BeforeHolder
<1> QED
  BY <1>1, EndsHopeless, AnswersAndFailuresEnd DEF Context

LEMMA VerifyHopeless ==
    ASSUME IInv, Hopeless, Lasting, Verify
    PROVE  Hopeless'
<1> USE DEF At, BeforeSuccess, BeforeTrust, BeforeIssuer, BeforeHolder, HasRead
<1>0. /\ call \in CallState
      /\ keyStatus \in [{"holder", "issuer"} -> {"ACTIVE", "RETIRED", "REVOKED"}]
  BY DEF IInv, TypeOK
<1>1. CASE Begin
  <2>1. UNCHANGED <<credential, trust, keyStatus>> /\ Context(Begins)
    BY <1>1 DEF Begin, Context, surroundings
  <2>2. Begins.doomed = Doomed /\ Begins.pc = "session"
    BY BeginsIsTyped
  <2>3. Doomed => \/ keyStatus["holder"] = "REVOKED" \/ keyStatus["issuer"] = "REVOKED"
                  \/ credential.status = "REVOKED" \/ credential.expired \/ trust = "SUSPENDED"
    BY <1>0 DEF Doomed
  <2>4. call' = Begins => Hopeless'
    BY <2>1, <2>2, <2>3 DEF Hopeless, Ahead
  <2> QED
    BY <2>1, <2>4, ContextHopeless
<1>2. CASE ReadContext
  <2> DEFINE read == [call EXCEPT !.pc = "sessionAgain", !.seen = presentation,
                                  !.status = credential.status]
  <2>1. /\ UNCHANGED <<credential, trust, keyStatus>> /\ Context(read)
        /\ call.pc = "context"
    BY <1>2 DEF ReadContext, Context, surroundings
  <2>2. /\ read.pc = "sessionAgain" /\ read.doomed = call.doomed
        /\ read.status = credential.status
    BY <1>0 DEF CallState
  <2> HIDE DEF read
  <2>3. call' = read => Hopeless'
    BY <2>1, <2>2 DEF Hopeless, Ahead
  <2> QED
    BY <2>1, <2>3, ContextHopeless
<1>3. CASE FirstSession \/ FindExisting \/ SecondSession
  BY <1>3, GotoHopeless, EndsHopeless, AnswersAndFailuresEnd
  DEF FirstSession, FindExisting, SecondSession
<1>4. CASE CheckHolder
  <2> DEFINE c1 == Check(HolderProof, Verifies("holder"),
                         "Holder verification method does not match holder DID")
             c2 == Check(HolderProof, call.seen.hash = call.seen.disclosed,
                         "Presentation hash is invalid")
             c3 == Check(HolderProof, call.seen.signed = call.seen.disclosed,
                         "Holder proof is invalid")
             checks == <<c1, c2, c3>>
  <2>1. Make(checks, "wallet") /\ call.pc = "holder" /\ UNCHANGED <<credential, trust, keyStatus>>
    BY <1>4 DEF CheckHolder, surroundings
  <2>2. checks[1].holds => keyStatus["holder"] # "REVOKED"
    BY DEF Check, Verifies
  <2>3. 1 \in DOMAIN checks
    OBVIOUS
  <2> HIDE DEF checks
  <2>4. (\A i \in DOMAIN checks : checks[i].holds) /\ Goto("wallet") => Hopeless'
    BY <1>0, <2>1, <2>2, <2>3 DEF Goto, CallState, Hopeless, Ahead
  <2> QED
    BY <2>1, <2>4, MakeHopeless
<1>5. CASE ReadWallet
  BY <1>5, GotoHopeless, EndsHopeless, AnswersAndFailuresEnd DEF ReadWallet
<1>6. CASE CheckIssuer
  <2> DEFINE checks == <<Check(IssuerProof, Verifies("issuer"),
                               "Issuer verification method does not match issuer DID")>>
  <2>1. Make(checks, "trust") /\ call.pc = "issuer" /\ UNCHANGED <<credential, trust, keyStatus>>
    BY <1>6 DEF CheckIssuer, surroundings
  <2>2. checks[1].holds => keyStatus["issuer"] # "REVOKED"
    BY DEF Check, Verifies
  <2>3. 1 \in DOMAIN checks
    OBVIOUS
  <2> HIDE DEF checks
  <2>4. (\A i \in DOMAIN checks : checks[i].holds) /\ Goto("trust") => Hopeless'
    BY <1>0, <2>1, <2>2, <2>3 DEF Goto, CallState, Hopeless, Ahead
  <2> QED
    BY <2>1, <2>4, MakeHopeless
<1>7. CASE CheckTrust
  <2> DEFINE c1 == Check(IssuerTrust, trust = "TRUSTED", "Credential issuer is not trusted")
             c2 == Check(StatusAndExpiry, call.status # "REVOKED", "Credential has been revoked")
             c3 == Check(StatusAndExpiry, call.status # "SUSPENDED",
                         "Credential has been suspended")
             c4 == Check(StatusAndExpiry, ~credential.expired, "Credential has expired")
             checks == <<c1, c2, c3, c4>>
  <2>1. Make(checks, "claims") /\ call.pc = "trust"
    BY <1>7 DEF CheckTrust
  <2>2. /\ checks[1].holds => trust # "SUSPENDED"
        /\ checks[2].holds => call.status # "REVOKED"
        /\ checks[4].holds => ~credential.expired
    BY DEF Check
  <2>3. {1, 2, 4} \subseteq DOMAIN checks
    OBVIOUS
  <2> HIDE DEF checks
  <2>4. (\A i \in DOMAIN checks : checks[i].holds) => ~Ahead
    BY <2>1, <2>2, <2>3 DEF Ahead
  <2>5. (\A i \in DOMAIN checks : checks[i].holds) /\ Goto("claims") => Hopeless'
    BY <1>0, <2>1, <2>4 DEF Goto, CallState, Hopeless
  <2> QED
    BY <2>1, <2>5, MakeHopeless
<1>8. CASE CheckClaims
  BY <1>8, GotoHopeless, EndsHopeless, AnswersAndFailuresEnd DEF CheckClaims
<1>9. CASE ReadLatest
  BY <1>9, GotoHopeless, EndsHopeless, AnswersAndFailuresEnd DEF ReadLatest
<1>10. CASE CommitVerified \/ CommitFailed
  <2>1. ASSUME NEW verdict, NEW row, NEW column, Decide(verdict, row, column)
        PROVE  Hopeless'
    <3>1. [call EXCEPT !.pc = "drop"].pc \notin BeforeSuccess
      BY <1>0 DEF CallState
    <3> QED
      BY <2>1, <3>1, EndsHopeless, AnswersAndFailuresEnd DEF Decide, Acknowledged
  <2> QED
    BY <1>10, <2>1 DEF CommitVerified, CommitFailed
<1>11. CASE ExpireRequest
  <2>1. [call EXCEPT !.pc = "dropExpired"].pc \notin BeforeSuccess
    BY <1>0 DEF CallState
  <2> QED
    BY <1>11, <2>1, EndsHopeless, AnswersAndFailuresEnd DEF ExpireRequest, Acknowledged
<1>12. CASE DropExpired \/ Drop
  BY <1>12, EndsHopeless, AnswersAndFailuresEnd DEF DropExpired, Drop, Acknowledged, Answer
<1>13. CASE StoreFails \/ Crash
  BY <1>13, EndsHopeless, AnswersAndFailuresEnd DEF StoreFails, Crash
<1> QED
  BY <1>1, <1>2, <1>3, <1>4, <1>5, <1>6, <1>7, <1>8, <1>9, <1>10, <1>11, <1>12, <1>13
  DEF Verify

LEMMA OthersLeaveTheCall ==
    ASSUME [Next]_vars, ~Verify
    PROVE  UNCHANGED call
BY DEF Next, Surroundings, vars, SaveJob, RequestClaims, Approve, Suspend, Reactivate, Revoke,
       ChangeStatus, Expire, ChangeTrust, Rotate, RevokeKey, ChangeKey, LoseSession, Redeploy,
       Alter, PassDeadline, ExpireElsewhere, DecideOther, OpenOther

LEMMA HopelessStep ==
    ASSUME IInv, Hopeless, [Next]_vars
    PROVE  Hopeless'
<1>1. Lasting
  BY NothingIsTakenBack
<1>2. CASE UNCHANGED call
  BY <1>1, <1>2 DEF Hopeless, Ahead, Lasting
<1> QED
  BY <1>1, <1>2, VerifyHopeless, OthersLeaveTheCall

\* Whatever dooms a call is met by a check before it could succeed.
THEOREM HopelessHolds == Spec => []Hopeless
BY InitHopeless, HopelessStep, Invariance, PTL DEF Spec

LEMMA OnlyCommitsWrite ==
    ASSUME IInv, [Next]_vars, result' # result
    PROVE  CommitVerified \/ CommitFailed
<1>1. CASE \E list \in Lists : SaveJob(list) \/ RequestClaims(list) \/ Approve(list)
  BY <1>1 DEF SaveJob, RequestClaims, Approve, outcome
<1>2. CASE Verify
  BY <1>2 DEF Verify, Begin, ReadContext, Context, ExpireRequest, DropExpired, FirstSession,
      FindExisting, SecondSession, CheckHolder, ReadWallet, CheckIssuer, CheckTrust, CheckClaims,
      ReadLatest, Drop, StoreFails, Crash, outcome
<1>3. CASE Surroundings
  BY <1>3 DEF Surroundings, Suspend, Reactivate, Revoke, ChangeStatus, Expire, ChangeTrust,
      Rotate, RevokeKey, ChangeKey, LoseSession, Redeploy, Alter, PassDeadline, ExpireElsewhere,
      DecideOther, OpenOther, outcome
<1>4. CASE UNCHANGED vars
  BY <1>4 DEF vars, outcome
<1> QED
  BY <1>1, <1>2, <1>3, <1>4 DEF Next

\* Nothing that was revoked, expired or suspended when a call began is verified by it,
\* whatever else happens between its awaits.
THEOREM SuccessesAreDue == Spec => SuccessWasDue
<1> DEFINE Due == result'.final = "VERIFIED" => result.final = "VERIFIED" \/ ~call.doomed
<1>1. IInv /\ Hopeless /\ [Next]_vars => [Due]_result
  <2> SUFFICES ASSUME IInv, Hopeless, [Next]_vars, result' # result PROVE Due
    OBVIOUS
  <2>1. CASE CommitVerified
    <3>1. ~Ahead /\ call.pc \in BeforeSuccess
      BY <2>1 DEF CommitVerified, At, Ahead, BeforeSuccess, BeforeTrust, BeforeIssuer, BeforeHolder
    <3> QED
      BY <3>1 DEF Hopeless
  <2>2. CASE CommitFailed
    <3>1. result'.final = "FAILED"
      BY <2>2 DEF CommitFailed, Decide, outcome
    <3> QED
      BY <3>1
  <2> QED
    BY <2>1, <2>2, OnlyCommitsWrite
<1> QED
  BY <1>1, Invariance, HopelessHolds, PTL DEF Spec, SuccessWasDue

-----------------------------------------------------------------------------
(* Answers. *)

Told ==
    /\ call'.code = "OK" => result'.final = "VERIFIED"
    /\ call'.code = "BUSINESS_RULE_VIOLATION" => result'.final = "FAILED"
    /\ call'.code = "CONFLICT" =>
          result'.final # "NONE" \/ request'.status = "EXPIRED" \/ application' # "PENDING"
    /\ call'.code \in CodeOfCheck \cup {"VERIFICATION_REQUEST_EXPIRED"} =>
          request'.status = "EXPIRED" /\ result'.final = "NONE"
    /\ call'.code = "VALIDATION_ERROR" => result'.final = "NONE"

\* One lemma for each kind of answer; 500 and silence need nothing.
LEMMA AnswersSay ==
    /\ Answer(Broken) \/ Answer("NONE") => Told
    /\ \A code \in {Consumed, NotApproved, NoLongerApproved, AlreadyVerified, StateChanged} :
          /\ Answer(code)
          /\ result'.final # "NONE" \/ request'.status = "EXPIRED" \/ application' # "PENDING"
          => Told
    /\ Answer(NoSession) /\ result'.final = "NONE" => Told
    /\ \A reason \in Reason :
          Answer(Refused[reason]) /\ request'.status = "EXPIRED" /\ result'.final = "NONE" => Told
    /\ Answer(Overdue) /\ request'.status = "EXPIRED" /\ result'.final = "NONE" => Told
    /\ Answer(Failed) /\ result'.final = "FAILED" => Told
    /\ Answer("OK") /\ result'.final = "VERIFIED" => Told
<1>1. \A code : Answer(code) => call'.code = code
  <2>1. \A code : Idle(code).code = code
    BY DEF Idle
  <2> QED
    BY <2>1 DEF Answer
<1>2. /\ {"NONE", "INTERNAL_SERVER_ERROR"} \cap
             ({"OK", "BUSINESS_RULE_VIOLATION", "CONFLICT", "VALIDATION_ERROR",
               "VERIFICATION_REQUEST_EXPIRED"} \cup CodeOfCheck) = {}
      /\ {"OK", "BUSINESS_RULE_VIOLATION", "CONFLICT", "VALIDATION_ERROR"} \cap
             ({"VERIFICATION_REQUEST_EXPIRED"} \cup CodeOfCheck) = {}
  BY DEF CodeOfCheck
<1> USE CodeOfWords
<1>3. Answer(Broken) \/ Answer("NONE") => Told
  BY <1>1, <1>2 DEF Told
<1>4. ASSUME NEW code \in {Consumed, NotApproved, NoLongerApproved, AlreadyVerified,
                           StateChanged},
             Answer(code),
             result'.final # "NONE" \/ request'.status = "EXPIRED" \/ application' # "PENDING"
      PROVE  Told
  <2>1. call'.code = "CONFLICT"
    BY <1>1, <1>4
  <2> QED
    BY <1>2, <1>4, <2>1 DEF Told
<1>5. Answer(NoSession) /\ result'.final = "NONE" => Told
  BY <1>1, <1>2 DEF Told
<1>6. ASSUME NEW reason \in Reason, Answer(Refused[reason]),
             request'.status = "EXPIRED", result'.final = "NONE"
      PROVE  Told
  <2>1. call'.code \in CodeOfCheck \cup {"VALIDATION_ERROR"}
    BY <1>1, <1>6
  <2> QED
    BY <1>2, <1>6, <2>1 DEF Told
<1>7. Answer(Overdue) /\ request'.status = "EXPIRED" /\ result'.final = "NONE" => Told
  BY <1>1, <1>2 DEF Told
<1>8. Answer(Failed) /\ result'.final = "FAILED" => Told
  BY <1>1, <1>2 DEF Told
<1>9. Answer("OK") /\ result'.final = "VERIFIED" => Told
  BY <1>1, <1>2 DEF Told
<1> QED
  BY <1>3, <1>4, <1>5, <1>6, <1>7, <1>8, <1>9

LEMMA AnswerTells ==
    ASSUME IInv, Grounds, [Next]_vars, call' # call, call'.pc = "idle"
    PROVE  Told
<1> USE DEF At
<1>0. /\ call \in CallState /\ request \in RequestRow
      /\ call.pc \notin {"idle", "drop"} => request.status \in {"APPROVED", "EXPIRED"}
      /\ request.status \notin {"VERIFIED", "FAILED"} => result = NoResult
      /\ request.status \in {"VERIFIED", "FAILED"} => result.final = request.status
      /\ NoResult.final = "NONE"
  BY DEF IInv, TypeOK, InOrder, Grounds, Recorded, NoResult
<1>1. ASSUME NEW pc, pc # "idle", Goto(pc)
      PROVE  FALSE
  BY <1>0, <1>1 DEF Goto, CallState
<1>2. ASSUME NEW stage, NEW reason, Fail(stage, reason)
      PROVE  FALSE
  BY <1>0, <1>2 DEF Fail, CallState
<1>3. ASSUME NEW checks, NEW pc, pc # "idle", Make(checks, pc)
      PROVE  FALSE
  BY <1>1, <1>2, <1>3 DEF Make
<1>4. ASSUME NEW open, open.pc # "idle", Context(open)
      PROVE  Told
  <2>1. UNCHANGED <<claims, outcome>>
    BY <1>4 DEF Context
  <2>2. UNCHANGED <<request, application, result>>
    BY <2>1 DEF claims, outcome
  <2>3. CASE request.status \in {"VERIFIED", "FAILED"} /\ Answer(Consumed)
    <3>1. result'.final # "NONE"
      BY <1>0, <2>2, <2>3
    <3> QED
      BY <2>3, <3>1, AnswersSay
  <2>4. CASE request.status = "EXPIRED" /\ Answer(NotApproved)
    BY <2>2, <2>4, AnswersSay
  <2>5. CASE call' \in {open, Expiring}
    BY <1>4, <2>5, BeginsIsTyped
  <2> QED
    BY <1>4, <2>3, <2>4, <2>5 DEF Context
<1>5. CASE Begin
  BY <1>4, <1>5, BeginsIsTyped DEF Begin
<1>6. CASE ReadContext
  <2>1. [call EXCEPT !.pc = "sessionAgain", !.seen = presentation,
                     !.status = credential.status].pc = "sessionAgain"
    BY <1>0 DEF CallState
  <2> QED
    BY <1>4, <1>6, <2>1 DEF ReadContext
<1>7. CASE ExpireRequest
  <2>1. call.pc = "expire" /\ UNCHANGED outcome
    BY <1>7 DEF ExpireRequest
  <2>2. [call EXCEPT !.pc = "dropExpired"].pc # "idle"
    BY <1>0 DEF CallState
  <2>3. Answer(Broken) \/ (Answer(NoLongerApproved) /\ request.status = "EXPIRED"
                           /\ UNCHANGED request)
    BY <1>0, <1>7, <2>1, <2>2 DEF ExpireRequest, Acknowledged
  <2> QED
    BY <2>3, AnswersSay
<1>8. CASE DropExpired
  <2>1. request'.status = "EXPIRED" /\ result'.final = "NONE"
    BY <1>0, <1>8 DEF DropExpired, IInv, InOrder, claims, outcome
  <2> QED
    BY <1>8, <2>1, AnswersSay DEF DropExpired, Acknowledged, Answer
<1>9. CASE FirstSession
  <2>1. Answer(NoSession) /\ result'.final = "NONE"
    BY <1>0, <1>1, <1>9 DEF FirstSession, outcome
  <2> QED
    BY <2>1, AnswersSay
<1>10. CASE FindExisting
  BY <1>0, <1>1, <1>10 DEF FindExisting
<1>11. CASE ReadWallet
  BY <1>1, <1>11, AnswersSay DEF ReadWallet
<1>12. CASE SecondSession \/ CheckHolder \/ CheckIssuer \/ CheckTrust \/ CheckClaims
  BY <1>1, <1>2, <1>3, <1>12
  DEF SecondSession, CheckHolder, CheckIssuer, CheckTrust, CheckClaims
<1>13. CASE ReadLatest
  <2>1. request.status = "EXPIRED" /\ Answer(Refused[call.reason]) /\ call.reason \in Reason
    BY <1>0, <1>1, <1>13 DEF ReadLatest, CallState
  <2>2. request'.status = "EXPIRED" /\ result'.final = "NONE"
    BY <1>0, <1>13, <2>1 DEF ReadLatest, claims, outcome
  <2> QED
    BY <2>1, <2>2, AnswersSay
<1>14. CASE CommitVerified \/ CommitFailed
  <2>1. ASSUME NEW verdict, NEW row, NEW column, Decide(verdict, row, column),
               call.pc \notin {"idle", "drop"}
        PROVE  Told
    <3>1. CASE request.status # "APPROVED" /\ Answer(NoLongerApproved) /\ UNCHANGED request
      BY <1>0, <2>1, <3>1, AnswersSay
    <3>2. CASE application # "PENDING" /\ Answer(StateChanged) /\ UNCHANGED outcome
      BY <3>2, AnswersSay DEF outcome
    <3>3. CASE Acknowledged([call EXCEPT !.pc = "drop"])
      <4>1. [call EXCEPT !.pc = "drop"].pc # "idle"
        BY <1>0 DEF CallState
      <4> QED
        BY <3>3, <4>1, AnswersSay DEF Acknowledged
    <3> QED
      BY <2>1, <3>1, <3>2, <3>3 DEF Decide
  <2> QED
    BY <1>14, <2>1 DEF CommitVerified, CommitFailed
<1>15. CASE Drop
  <2>1. request.status \in {"VERIFIED", "FAILED"}
    BY <1>15 DEF Drop, IInv, InOrder
  <2>2. result'.final = IF call.reason = "" THEN "VERIFIED" ELSE "FAILED"
    BY <1>0, <1>15, <2>1 DEF Drop, outcome, Grounds
  <2>3. Answer(IF call.reason = "" THEN "OK" ELSE Failed) \/ Answer(Broken)
    BY <1>15 DEF Drop, Acknowledged, Answer
  <2> QED
    BY <2>2, <2>3, AnswersSay
<1>16. CASE StoreFails \/ Crash
  BY <1>16, AnswersSay DEF StoreFails, Crash
<1> QED
  BY <1>5, <1>6, <1>7, <1>8, <1>9, <1>10, <1>11, <1>12, <1>13, <1>14, <1>15, <1>16,
     OthersLeaveTheCall DEF Verify

\* The bank can tell from the code of the answer what became of the request, unless the code is
\* INTERNAL_SERVER_ERROR.
THEOREM CodesTellVerdicts == Spec => CodeTellsVerdict
<1>1. IInv /\ Grounds /\ [Next]_vars => [call'.pc = "idle" => Told]_call
  BY AnswerTells
<1> QED
  BY <1>1, Invariance, GroundsHold, PTL DEF Spec, CodeTellsVerdict, Told
=============================================================================
