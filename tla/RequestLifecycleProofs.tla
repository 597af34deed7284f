----------------------- MODULE RequestLifecycleProofs -----------------------
(***************************************************************************)
(* The consequences of RequestLifecycle.tla, for every set of requests,    *)
(* applications and credentials.  Each part of the invariant is preserved  *)
(* by every step together with TypeOK, so IInv is their conjunction.       *)
(***************************************************************************)
EXTENDS RequestLifecycle, TLAPS

IInv ==
    /\ TypeOK
    /\ ResultMatchesStatus
    /\ DisclosureNeedsApproval
    /\ DataWasVerified

LEMMA InitIInv == Init => IInv
BY NullsAreNotValues
DEF Init, IInv, TypeOK, ResultMatchesStatus, DisclosureNeedsApproval, DataWasVerified,
    RequestStatus, FinalResult, EducationStatus

\* A step keeps every column within its type.
LEMMA TypeStep == TypeOK /\ [Next]_vars => TypeOK'
<1> SUFFICES ASSUME TypeOK, [Next]_vars
             PROVE  TypeOK'
  OBVIOUS
<1> USE DEF TypeOK, RequestStatus, FinalResult, EducationStatus
<1>1. CASE \E r \in Request, a \in Application : Open(r, a)
  BY <1>1 DEF Open
<1>2. CASE \E r \in Request, c \in Credential : Approve(r, c)
  BY <1>2 DEF Approve
<1>3. CASE \E r \in Request : Reject(r)
  BY <1>3 DEF Reject
<1>4. CASE \E r \in Request, verdict \in FinalResult : Decide(r, verdict)
  <2>1. PICK r \in Request, verdict \in FinalResult : Decide(r, verdict)
    BY <1>4
  <2>2. reqStatus' \in [Request -> RequestStatus \cup {"ABSENT"}]
    BY <2>1 DEF Decide
  <2>3. result' \in [Request -> FinalResult \cup {"NONE"}]
    BY <2>1 DEF Decide
  <2>4. appStatus' \in [Application -> EducationStatus]
    BY <2>1 DEF Decide
  <2>5. appData' \in [Application -> Request \cup {NoRequest}]
    BY <2>1 DEF Decide
  <2> QED
    BY <2>1, <2>2, <2>3, <2>4, <2>5 DEF Decide
<1>5. CASE \E expiring \in SUBSET Request : Expire(expiring)
  BY <1>5 DEF Expire
<1>6. CASE UNCHANGED vars
  BY <1>6 DEF vars
<1> QED
  BY <1>1, <1>2, <1>3, <1>4, <1>5, <1>6 DEF Next

LEMMA ResultStep == TypeOK /\ ResultMatchesStatus /\ [Next]_vars => ResultMatchesStatus'
<1> SUFFICES ASSUME TypeOK, ResultMatchesStatus, [Next]_vars
             PROVE  ResultMatchesStatus'
  OBVIOUS
<1> USE DEF TypeOK, ResultMatchesStatus, FinalResult
<1>1. CASE \E r \in Request, a \in Application : Open(r, a)
  BY <1>1 DEF Open
<1>2. CASE \E r \in Request, c \in Credential : Approve(r, c)
  BY <1>2 DEF Approve
<1>3. CASE \E r \in Request : Reject(r)
  BY <1>3 DEF Reject
<1>4. CASE \E r \in Request, verdict \in FinalResult : Decide(r, verdict)
  BY <1>4 DEF Decide
<1>5. CASE \E expiring \in SUBSET Request : Expire(expiring)
  BY <1>5 DEF Expire
<1>6. CASE UNCHANGED vars
  BY <1>6 DEF vars
<1> QED
  BY <1>1, <1>2, <1>3, <1>4, <1>5, <1>6 DEF Next

LEMMA DisclosureStep ==
    TypeOK /\ DisclosureNeedsApproval /\ [Next]_vars => DisclosureNeedsApproval'
<1> SUFFICES ASSUME TypeOK, DisclosureNeedsApproval, [Next]_vars
             PROVE  DisclosureNeedsApproval'
  OBVIOUS
<1> USE NullsAreNotValues DEF TypeOK, DisclosureNeedsApproval, FinalResult
<1>1. CASE \E r \in Request, a \in Application : Open(r, a)
  BY <1>1 DEF Open
<1>2. CASE \E r \in Request, c \in Credential : Approve(r, c)
  BY <1>2 DEF Approve
<1>3. CASE \E r \in Request : Reject(r)
  BY <1>3 DEF Reject
<1>4. CASE \E r \in Request, verdict \in FinalResult : Decide(r, verdict)
  BY <1>4 DEF Decide
<1>5. CASE \E expiring \in SUBSET Request : Expire(expiring)
  BY <1>5 DEF Expire
<1>6. CASE UNCHANGED vars
  BY <1>6 DEF vars
<1> QED
  BY <1>1, <1>2, <1>3, <1>4, <1>5, <1>6 DEF Next

\* The request whose data an application holds is VERIFIED, hence no step changes it.
LEMMA DataStep == TypeOK /\ DataWasVerified /\ [Next]_vars => DataWasVerified'
<1> SUFFICES ASSUME TypeOK, DataWasVerified, [Next]_vars
             PROVE  DataWasVerified'
  OBVIOUS
<1> USE NullsAreNotValues DEF TypeOK, DataWasVerified
<1>1. CASE \E r \in Request, a \in Application : Open(r, a)
  BY <1>1 DEF Open
<1>2. CASE \E r \in Request, c \in Credential : Approve(r, c)
  BY <1>2 DEF Approve
<1>3. CASE \E r \in Request : Reject(r)
  BY <1>3 DEF Reject
<1>4. CASE \E r \in Request, verdict \in FinalResult : Decide(r, verdict)
  BY <1>4 DEF Decide, FinalResult
<1>5. CASE \E expiring \in SUBSET Request : Expire(expiring)
  BY <1>5 DEF Expire
<1>6. CASE UNCHANGED vars
  BY <1>6 DEF vars
<1> QED
  BY <1>1, <1>2, <1>3, <1>4, <1>5, <1>6 DEF Next

LEMMA Invariance == Spec => []IInv
<1>1. Init => IInv
  BY InitIInv
<1>2. IInv /\ [Next]_vars => IInv'
  BY TypeStep, ResultStep, DisclosureStep, DataStep DEF IInv
<1> QED
  BY <1>1, <1>2, PTL DEF Spec

\* The columns keep the types of the schema (schema.prisma).
THEOREM TypeCorrect == Spec => []TypeOK
BY Invariance, PTL DEF IInv

\* A request has a verification result exactly when it was decided, and the same one
\* (the two final transactions of verifyPresentation).
THEOREM ResultsMatch == Spec => []ResultMatchesStatus
BY Invariance, PTL DEF IInv

\* A presentation exists exactly from the holder's approval on (approve and approveClient).
THEOREM DisclosureIsApproved == Spec => []DisclosureNeedsApproval
BY Invariance, PTL DEF IInv

\* The data an application holds was disclosed for it by a request that was verified
\* (verifyPresentation writes verifiedAcademicData and educationVerificationStatus).
THEOREM DataIsVerified == Spec => []DataWasVerified
BY Invariance, PTL DEF IInv

\* An ended request never changes again (the conditional updates of all handlers).
THEOREM DecisionsStay == Spec => DecisionsAreFinal
<1>1. TypeOK /\ [Next]_vars =>
        [\A r \in Request : reqStatus[r] \in Terminal => reqStatus'[r] = reqStatus[r]]_vars
  BY DEF TypeOK, Next, Open, Approve, Reject, Expire, Decide, Terminal, FinalResult
<1> QED
  BY <1>1, TypeCorrect, PTL DEF Spec, DecisionsAreFinal
=============================================================================
