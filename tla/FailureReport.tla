---------------------------- MODULE FailureReport ----------------------------
(***************************************************************************)
(* What the outside learns of a refusal, and both parts are derived from   *)
(* the wording of the message: the check flags that verifyPresentation     *)
(* stores with a failed verification, and the error code that              *)
(* GlobalExceptionFilter puts into the answer.                             *)
(***************************************************************************)
EXTENDS Naturals, SequencesExt

\* String.includes
Includes(text, phrase) ==
    \E i \in 0..(Len(text) - Len(phrase)) : SubSeq(text, i + 1, i + Len(phrase)) = phrase

Mentions(text, phrases) == \E phrase \in phrases : Includes(text, phrase)

-----------------------------------------------------------------------------
(* buildFailedVerificationChecks *)

\* The checks in the order in which a verification makes them, by the phrases that
\* blame a failure on them.  Whatever blames none of these is a matter of the claims.
Group == <<
    {"Holder proof", "Holder verification method", "Presentation hash"},
    {"Credential hash", "Stored credential", "Credential not found in holder wallet"},
    {"Issuer proof", "Issuer verification method", "Issuer signature"},
    {"issuer is not trusted"},
    {"revoked", "suspended", "not active", "expired"},
    {"schema", "Credential subject is invalid", "Credential issuer is invalid",
     "issuer DID does not match", "metadata"} >>

HolderProof == 1
CredentialHash == 2
IssuerProof == 3
IssuerTrust == 4
StatusAndExpiry == 5
SchemaAndIssuer == 6
Claims == 7

Blamed(reason) ==
    LET first == SelectInSeq(Group, LAMBDA phrases : Mentions(reason, phrases)) IN
    IF first = 0 THEN Claims ELSE first

\* Mutant: a check that failed is counted among those that had passed.
FlagsCountOwn(reason) ==
    [requestValid |-> TRUE,
     nonceValid |-> TRUE,
     holderProofValid |-> Blamed(reason) >= HolderProof,
     hashValid |-> Blamed(reason) >= CredentialHash,
     issuerSignatureValid |-> Blamed(reason) >= IssuerProof,
     issuerTrusted |-> Blamed(reason) >= IssuerTrust,
     credentialStatusValid |-> Blamed(reason) >= StatusAndExpiry,
     schemaValid |-> Blamed(reason) >= SchemaAndIssuer,
     holderMatches |-> TRUE,
     claimsValid |-> FALSE]

\* The columns of VerificationResult for a failure with this reason.
Flags(reason) ==
    [requestValid |-> TRUE,
     nonceValid |-> TRUE,
     holderProofValid |-> Blamed(reason) > HolderProof,
     hashValid |-> Blamed(reason) > CredentialHash,
     issuerSignatureValid |-> Blamed(reason) > IssuerProof,
     issuerTrusted |-> Blamed(reason) > IssuerTrust,
     credentialStatusValid |-> Blamed(reason) > StatusAndExpiry,
     schemaValid |-> Blamed(reason) > SchemaAndIssuer,
     holderMatches |-> ~(Blamed(reason) = Claims /\ Includes(reason, "holder DID does not match")),
     claimsValid |-> FALSE]

FlagColumns ==
    [requestValid : BOOLEAN, nonceValid : BOOLEAN, holderProofValid : BOOLEAN,
     hashValid : BOOLEAN, issuerSignatureValid : BOOLEAN, issuerTrusted : BOOLEAN,
     credentialStatusValid : BOOLEAN, schemaValid : BOOLEAN, holderMatches : BOOLEAN,
     claimsValid : BOOLEAN]

\* The columns of a success.
AllValid ==
    [requestValid |-> TRUE, nonceValid |-> TRUE, holderProofValid |-> TRUE, hashValid |-> TRUE,
     issuerSignatureValid |-> TRUE, issuerTrusted |-> TRUE, credentialStatusValid |-> TRUE,
     schemaValid |-> TRUE, holderMatches |-> TRUE, claimsValid |-> TRUE]

-----------------------------------------------------------------------------
(* GlobalExceptionFilter *)

Capital == "ABCDEFGHIJKLMNOPQRSTUVWXYZ"
Small == "abcdefghijklmnopqrstuvwxyz"

\* String.toLowerCase
LowerCase(text) ==
    LET Letter(c) == LET at == {i \in 1..26 : SubSeq(Capital, i, i) = c}
                     IN IF at = {} THEN c ELSE LET i == CHOOSE i \in at : TRUE IN SubSeq(Small, i, i)
        prefix[n \in 0..Len(text)] ==
            IF n = 0 THEN "" ELSE prefix[n - 1] \o Letter(SubSeq(text, n, n))
    IN prefix[Len(text)]

\* One rule per code, in order: it applies to a message with all phrases of one of the sets.
ErrorRule == <<
    [code |-> "AUTH_INVALID_CREDENTIALS", any |-> {{"invalid email or password"}}],
    [code |-> "AUTH_TOKEN_REQUIRED", any |-> {{"access token is required"}}],
    [code |-> "AUTH_TOKEN_EXPIRED", any |-> {{"invalid or expired access token"},
                        {"invalid refresh token"}, {"refresh token has expired"}}],
    [code |-> "ACADEMIC_RECORD_NOT_FOUND", any |-> {{"academic record not found"}}],
    [code |-> "DID_NOT_FOUND", any |-> {{"did not found"}}],
    [code |-> "CREDENTIAL_NOT_FOUND", any |-> {{"credential not found"},
                        {"wallet credential not found"}}],
    [code |-> "JOB_NOT_FOUND", any |-> {{"job not found"}}],
    [code |-> "APPLICATION_NOT_FOUND", any |-> {{"application not found"}}],
    [code |-> "VERIFICATION_REQUEST_NOT_FOUND", any |-> {{"verification request not found"}}],
    [code |-> "CREDENTIAL_REVOKED", any |-> {{"credential", "revoked"}}],
    [code |-> "CREDENTIAL_SUSPENDED", any |-> {{"credential", "suspended"}}],
    [code |-> "CREDENTIAL_EXPIRED", any |-> {{"credential", "expired"}}],
    [code |-> "INVALID_CREDENTIAL_SIGNATURE", any |-> {{"signature", "invalid"}}],
    [code |-> "ISSUER_NOT_TRUSTED", any |-> {{"issuer not trusted"}, {"issuer is not trusted"}}],
    [code |-> "VERIFICATION_REQUEST_EXPIRED", any |-> {{"verification request", "expired"}}],
    [code |-> "VERIFICATION_REQUEST_USED", any |-> {{"no longer pending"},
                        {"already been used"}, {"already consumed"}}],
    [code |-> "INVALID_NONCE", any |-> {{"nonce"}}],
    [code |-> "CLAIM_NOT_REQUESTED", any |-> {{"subset of requested claims"}}],
    [code |-> "CLAIM_MISMATCH", any |-> {{"claim", "mismatch"}}],
    [code |-> "HOLDER_MISMATCH", any |-> {{"holder", "mismatch"}}] >>

StatusCode(status) ==
    CASE status = 400 -> "VALIDATION_ERROR"
      [] status = 403 -> "ACCESS_DENIED"
      [] status = 404 -> "RESOURCE_NOT_FOUND"
      [] status = 409 -> "CONFLICT"
      [] status = 422 -> "BUSINESS_RULE_VIOLATION"
      [] status = 429 -> "RATE_LIMITED"
      [] OTHER -> "INTERNAL_SERVER_ERROR"

\* resolveErrorCode
ErrorCode(status, message) ==
    LET text == LowerCase(message)
        Applies(rule) == \E phrases \in rule.any : \A phrase \in phrases : Includes(text, phrase)
        first == SelectInSeq(ErrorRule, Applies)
    IN IF first = 0 THEN StatusCode(status) ELSE ErrorRule[first].code

\* extractError for an exception that is no HttpException, and for one whose payload has no
\* message, as the one that reports a failed verification.
ServerError == [status |-> 500, message |-> "Unexpected server error"]
Unprocessable == [status |-> 422, message |-> "Unprocessable Entity Exception"]
=============================================================================
