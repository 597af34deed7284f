-------------------------- MODULE RequestLifecycle --------------------------
(***************************************************************************)
(* What the verification workflow promises to holders and banks, with no   *)
(* word about handlers, Redis sessions or clocks.  A verification request  *)
(* asks for the claims of one job application; its holder approves it (and *)
(* so discloses a presentation of one credential) or rejects it; the bank's*)
(* verification of the presentation decides the request and, with it, the  *)
(* application.  Every step below is one atomic change of the database.    *)
(*                                                                         *)
(* VerificationRequests.tla is the detailed specification of this one.     *)
(***************************************************************************)
EXTENDS Naturals

CONSTANTS
    Request,        \* identifiers of verification requests (and of their presentations)
    Application,    \* job applications
    Credential,     \* credentials in the holder's wallet
    NoRequest,      \* "verifiedAcademicData is null"
    NoApplication,  \* the application of a request that was never stored
    NoCredential    \* "the request has no presentation"

ASSUME NullsAreNotValues ==
    /\ NoRequest \notin Request
    /\ NoApplication \notin Application
    /\ NoCredential \notin Credential

VARIABLES
    reqStatus,      \* the status column of VerificationRequest, or "ABSENT"
    reqApp,         \* its applicationId
    presentation,   \* the credential of the request's only Presentation
    result,         \* the finalResult of the request's only VerificationResult
    appStatus,      \* Application.educationVerificationStatus
    appData         \* Application.verifiedAcademicData: whose disclosed claims it holds

vars == <<reqStatus, reqApp, presentation, result, appStatus, appData>>

RequestStatus == {"PENDING", "APPROVED", "REJECTED", "EXPIRED", "VERIFIED", "FAILED"}
FinalResult == {"VERIFIED", "FAILED"}
EducationStatus == {"NOT_VERIFIED", "PENDING", "VERIFIED", "FAILED"}

\* No request leaves one of these.
Terminal == {"REJECTED", "EXPIRED", "VERIFIED", "FAILED"}

TypeOK ==
    /\ reqStatus \in [Request -> RequestStatus \cup {"ABSENT"}]
    /\ reqApp \in [Request -> Application \cup {NoApplication}]
    /\ presentation \in [Request -> Credential \cup {NoCredential}]
    /\ result \in [Request -> FinalResult \cup {"NONE"}]
    /\ appStatus \in [Application -> EducationStatus]
    /\ appData \in [Application -> Request \cup {NoRequest}]

Init ==
    /\ reqStatus = [r \in Request |-> "ABSENT"]
    /\ reqApp = [r \in Request |-> NoApplication]
    /\ presentation = [r \in Request |-> NoCredential]
    /\ result = [r \in Request |-> "NONE"]
    /\ appStatus = [a \in Application |-> "NOT_VERIFIED"]
    /\ appData = [a \in Application |-> NoRequest]

\* A bank asks for claims of application a.  An application already decided is open again.
Open(r, a) ==
    /\ reqStatus[r] = "ABSENT"
    /\ reqStatus' = [reqStatus EXCEPT ![r] = "PENDING"]
    /\ reqApp' = [reqApp EXCEPT ![r] = a]
    /\ appStatus' = [appStatus EXCEPT ![a] = "PENDING"]
    /\ UNCHANGED <<presentation, result, appData>>

\* The holder discloses claims of credential c.
Approve(r, c) ==
    /\ reqStatus[r] = "PENDING"
    /\ reqStatus' = [reqStatus EXCEPT ![r] = "APPROVED"]
    /\ presentation' = [presentation EXCEPT ![r] = c]
    /\ UNCHANGED <<reqApp, result, appStatus, appData>>

Reject(r) ==
    /\ reqStatus[r] = "PENDING"
    /\ reqStatus' = [reqStatus EXCEPT ![r] = "REJECTED"]
    /\ UNCHANGED <<reqApp, presentation, result, appStatus, appData>>

\* Any number of open requests run out of time together.
Expire(expiring) ==
    /\ \A r \in expiring : reqStatus[r] \in {"PENDING", "APPROVED"}
    /\ reqStatus' = [r \in Request |-> IF r \in expiring THEN "EXPIRED" ELSE reqStatus[r]]
    /\ UNCHANGED <<reqApp, presentation, result, appStatus, appData>>

\* Mutant: a failure leaves the data of an earlier verification.
DecideKeepsData(r, verdict) ==
    /\ reqStatus[r] = "APPROVED"
    /\ appStatus[reqApp[r]] = "PENDING"
    /\ reqStatus' = [reqStatus EXCEPT ![r] = verdict]
    /\ result' = [result EXCEPT ![r] = verdict]
    /\ appStatus' = [appStatus EXCEPT ![reqApp[r]] = verdict]
    /\ appData' = [appData EXCEPT ![reqApp[r]] = IF verdict = "VERIFIED" THEN r ELSE @]
    /\ UNCHANGED <<reqApp, presentation>>

\* The bank's verification of r's presentation decides r and its application.
Decide(r, verdict) ==
    /\ reqStatus[r] = "APPROVED"
    /\ appStatus[reqApp[r]] = "PENDING"
    /\ reqStatus' = [reqStatus EXCEPT ![r] = verdict]
    /\ result' = [result EXCEPT ![r] = verdict]
    /\ appStatus' = [appStatus EXCEPT ![reqApp[r]] = verdict]
    /\ appData' = [appData EXCEPT ![reqApp[r]] = IF verdict = "VERIFIED" THEN r ELSE NoRequest]
    /\ UNCHANGED <<reqApp, presentation>>

Next ==
    \/ \E r \in Request :
        \/ \E a \in Application : Open(r, a)
        \/ \E c \in Credential : Approve(r, c)
        \/ Reject(r)
        \/ \E verdict \in FinalResult : Decide(r, verdict)
    \/ \E expiring \in SUBSET Request : Expire(expiring)

Spec == Init /\ [][Next]_vars

-----------------------------------------------------------------------------
(* What follows from the promise. *)

\* A request carries a verification result exactly when it was decided, and the one it
\* was decided with: no result for a rejected or expired request, none missing.
ResultMatchesStatus ==
    \A r \in Request :
        IF reqStatus[r] \in FinalResult THEN result[r] = reqStatus[r] ELSE result[r] = "NONE"

\* Claims are disclosed only with the holder's approval, and an approval always
\* discloses: no presentation before it, none for a rejected request.
DisclosureNeedsApproval ==
    \A r \in Request :
        /\ reqStatus[r] \in {"ABSENT", "PENDING", "REJECTED"} => presentation[r] = NoCredential
        /\ reqStatus[r] \in {"APPROVED", "VERIFIED", "FAILED"} => presentation[r] # NoCredential

\* The academic data kept with an application was disclosed for this very application by
\* a request that was verified; a verified application has some, a failed one has none.
DataWasVerified ==
    \A a \in Application :
        /\ appData[a] # NoRequest =>
              /\ reqStatus[appData[a]] = "VERIFIED"
              /\ reqApp[appData[a]] = a
        /\ appStatus[a] = "VERIFIED" => appData[a] # NoRequest
        /\ appStatus[a] \in {"NOT_VERIFIED", "FAILED"} => appData[a] = NoRequest

\* A rejected, expired, verified or failed request stays so: no late answer revives it.
DecisionsAreFinal ==
    [][\A r \in Request : reqStatus[r] \in Terminal => reqStatus'[r] = reqStatus[r]]_vars
=============================================================================
