# TLA+ models of the SSI academic credential backend

This directory holds TLA+ models of the backend's stateful core, the
configurations that check them with TLC on small instances, and proofs that
TLAPS checks for every instance. Paths such as `src/verification/...` are
relative to the backend's root; all code is in TypeScript (NestJS) over
PostgreSQL (Prisma) and Redis.

Contents: [the system](#1-the-system), [modules](#2-modules-and-how-they-correspond-to-the-code),
[runs](#3-runs), [fairness](#4-fairness), [proofs](#5-proofs),
[findings](#6-where-the-code-and-its-texts-disagree),
[what is left out](#7-what-is-not-modelled), [plan](#8-plan).

## 1. The system

A university issues a credential for an academic record, a holder keeps it in
a wallet, a bank asks the holder to disclose some of its claims for a job
application, the holder approves or rejects, and the bank has the server verify
what was disclosed. Any number of server instances run at once; they share one
PostgreSQL and one Redis. There are no background jobs: whatever must happen
later happens in some later call.

### Inventory

| component | state it keeps | operations that change it |
|---|---|---|
| verification workflow (`src/verification-requests`, `src/verification`, sweep in `src/wallet`) | `VerificationRequest`, `Presentation`, `VerificationResult`, three columns of `Application`; a session per request in Redis with a TTL | create, approve, prepareClientApproval, approveClient, reject, verifyPresentation, the wallet's expiry sweep |
| DID keys and signing (`src/did/did.service.ts`, `src/credentials/credentials.service.ts`) | `Did.currentKeyVersion`, `DidKey` rows | create, rotate, recover, revoke a historical key; signing loops read twice |
| holder enrolment (`src/did/holder-*.ts`) | key-ownership challenges in Redis, the holder's `Did` | begin, complete, and createForUser racing with them |
| refresh tokens (`src/auth`) | `RefreshTokenFamily`, `RefreshToken` | login, refresh (rotation), logout, revocation of a family on reuse |
| credentials (`src/credentials`, `src/academic-records`) | `Credential`, `CredentialStatusHistory`, `AcademicRecord.status` | issue, suspend, revoke, reactivate, update of a record |
| trust registry (`src/trust-registry`) | `TrustedIssuer`, audit entries | create, suspend |
| claims and failure reports (`src/jobs`, `src/verification-requests`, `src/verification`, `src/common/filters`) | `Job.requiredClaims`, `requestedClaims`, the `Presentation`, flags and reason of a `VerificationResult` | create and update of a job, the lists of claims in create and approve, the checks of verifyPresentation, the exception filter |
| encryption keys (`src/config/environment.validation.ts`, `src/crypto/encryption.service.ts`) | the environment of a process, its key cache, encrypted columns | start under an environment, encrypt, decrypt, restart |
| applications, schemas, organizations, users | one row per insert | single inserts |
| wallet reads, signatures, audit queries, controllers, health | none, or append-only | - |

### Interaction

- The workflow reads credentials, DID keys, schemas and the trust registry; it
  never writes them. Approving asks `DidService` to sign with the holder's key,
  in the loop that `DidKeys` models.
- PostgreSQL is where handlers meet: nearly every operation reads first, awaits
  several more calls, and then writes in a transaction whose first statement is
  an `updateMany` that repeats the condition (compare and set) and whose
  `count` decides whether the transaction goes on or throws 409.
- Redis holds two kinds of sessions, both written beside the rows they belong
  to and not in any transaction with them. `GETDEL` makes the redemption of a
  challenge atomic; verification sessions are read and deleted separately.

### What is hard here

- *Interleaving*: every `await` is a place where another handler, of this or
  another instance, runs. The conditions of the final updates are all that
  keeps stale reads harmless.
- *Two stores*: a session is written before its request exists and deleted
  after it has ended; a crash, a rolled-back or unacknowledged commit, and a
  Redis that forgets leave the two apart.
- *Time*: requests, sessions, challenges, tokens and credentials expire between
  one step of a call and the next, and the TTL of a session starts later than
  the deadline written in the row.
- *Wording*: the flags stored with a failed verification and the error code of
  an answer are guessed from the text of the exception; names of claims are
  trimmed for some tests and compared untrimmed in others.
- *Rotation*: encryption keys are read and cached long after the start that
  validated them, and a deployment is never in force everywhere at once.
- *Ending*: nobody expires a request in the background. Only the holder's
  wallet and the bank's next call do.

### What makes each part correct

- Workflow: a request is answered once and decided once; nothing is disclosed
  without approval; an application is decided by one of its own approved
  requests and keeps only data that was verified for it; a request within its
  deadline can be used; every request ends.
- Keys: exactly one key is active, versions have no gap, key material never
  changes, nothing comes back from revocation; a proof names the key that
  signed it; a client's own key is never displaced by one the server holds.
- Enrolment: a challenge is redeemed once, and only its holder can use it up;
  the key in a DID belongs to its holder; a DID is bound once.
- Claims: the bank receives what the job allowed, it asked for and the holder
  approved, with the issuer's values; a failure has a cause, a success had
  nothing against it when it began, and what is stored and answered tells which.
- Encryption: what was validated at start suffices later; a row can be opened as
  long as its key is configured, and only for its own purpose.
- Tokens: one usable token per login; a token is exchanged once; reuse and
  logout leave nothing usable.
- Credentials and trust: history and audit log agree with the row; revocation
  is final; expired credentials stay out of use.

## 2. Modules and how they correspond to the code

| module | models | state | actions |
|---|---|---|---|
| `RequestLifecycle` | what the workflow promises, with no handlers, sessions or time | the workflow's columns | `Open`, `Approve`, `Reject`, `Expire`, `Decide` |
| `VerificationRequests` | the workflow as it runs | the same columns, `reqExpires`, `session` (Redis), credential and trust status, clock, `handler` (one call per `Server`) | one per stretch of code between two awaits |
| `KeyHistory` | what the DID service promises to those who resolve a DID and check a proof, with no calls | `history` (the keys of each DID as a sequence), `proofs` | `Begin`, `Replace`, `Withdraw`, `Sign` |
| `DidKeys` | `DidService` and both signing loops | `current`, `keys`, `proofs`, `process` | as above |
| `HolderEnrollment` | challenges and the creation of a holder's DID | `did`, `challenge`, `stored`, clock, `process` | as above |
| `LoginSessions` | what refresh tokens promise of a login, with no rows, locks or calls | `session`, `carrier`, `used` | `Open`, `Deliver`, `Exchange`, `Close` |
| `RefreshTokens` | login, refresh, logout | `family`, `token`, `familyOf`, `expired`, `process` with row locks | one per SQL statement |
| `Credentials` | issuance, status changes, trust registry | record, credential and issuer columns, `history`, `trustLog`, clock, `process` | read step and transaction of each call |
| `FailureReport` | the texts of failures: `buildFailedVerificationChecks` and the filter's rules for error codes | - | operators |
| `Presentations` | the data of one verification, from the job's claims to the application's: the rules for lists of claims and each check of `verifyPresentation` | job, schema, request and its deadline, session, presentation, credential, trust, keys, application, result, data, `call` | `SaveJob`, `RequestClaims`, `Approve`, one per await of `verifyPresentation`, and what happens meanwhile |
| `KeyRing` | `validateEnvironment` for encryption keys, `EncryptionService` | `process` (environment, configuration, cache), `rows` | `Start`, `Stop`, `Encrypt`, `Decrypt` |
| `MC*` | - | values and symmetry for TLC | - |
| `*Proofs` | - | - | theorems, see 5 |

Three modules are abstract specifications, and three implement them.
`VerificationRequests` instantiates `RequestLifecycle` over the columns of the same
names (`ImplementsLifecycle`). `DidKeys` implements `KeyHistory`: the
history of a DID is its rows up to `currentKeyVersion` (`ImplementsKeyHistory`), and
a signing loop, which reads the DID twice and the key once, is a single step on it.
`RefreshTokens` implements `LoginSessions` (`ImplementsSessions`): a session is
open while its family's row is not revoked, and it is carried by the family's
token that is not revoked; what a transaction in progress has written does not
count before its commit.

`VerificationRequests` and `Presentations` look at `verifyPresentation` from
two sides. The first has any number of calls, deadlines and requests, and takes the
checks as one answer; the second takes one call at a time and makes each
check on data that changes between the awaits. What both keep, the order of session,
context, second session, final transaction and deletion of the session, is the
same in both. What other calls do to the one request of `Presentations` are actions of
their own: `ExpireElsewhere` finds it overdue, `DecideOther` and `OpenOther` decide
and reopen its application by way of another request. Another verification of the
same presentation is left to `VerificationRequests`.

`Presentations` keeps the code of every answer, so in it a store that throws
is more than the end of a call. `StoreFails` lets PostgreSQL or Redis throw in any step without
effect, and `Acknowledged` lets a commit, a transition to EXPIRED or a deletion of the
session take effect and throw all the same: what throws is no HttpException, and the filter
answers 500 INTERNAL_SERVER_ERROR. `redis.delete` after the commit
(`verification.service.ts:735`, `:852`) is one of these. `Crash` ends a call without any
answer.

Conventions shared by all modules:

- **Steps.** A process or server is a call in progress: a program counter and
  its locals. A step is what the code does between two awaits, together with
  the database or Redis operation that ends it. Locals that have been read stay
  as they were read, however stale.
- **Transactions.** One that starts with its conditional update holds that
  row's lock to its end, and the other statements depend on nothing that others
  may change meanwhile, so it is one step. `RefreshTokens` is the exception:
  there the order of statements and locks is the point, and each statement is
  a step, with the semantics of READ COMMITTED.
- **Data.** Requests, applications, credentials, owners, keys and tokens are
  model values. Payloads and signatures are reduced to the outcome that the code
  branches on: in `Presentations` a hash is the content it was made of and a
  proof the content that was signed. In `VerificationRequests` the checks of
  `verifyPresentation` are one nondeterministic answer that can be positive only
  if the trust registry and the status read allow it, and the disclosed data is
  represented by the request it was disclosed for. A text is a name with or
  without blanks, or, for keys, some bytes in lower case, in upper case or padded.
- **Wording.** `FailureReport` and `Presentations` keep the messages that the
  code tests, as strings; `FailureReport` evaluates the tests on them (which
  message contains which word) in the order of the code.
- **Refusals.** A call that is refused at its first read changes nothing and is
  a disabled action. Refusals later on are steps that end the call.
- **Faults.** `Crash` ends a call anywhere. Where no answer is kept, this also stands
  for a store client that throws; `Presentations` has both. `CreateRollsBack` and `CreateUnacknowledged` are the two
  ways in which a failed commit can look to `create`. `LoseSession` and
  `LoseChallenge` are a Redis that restarts or evicts.
- **History variables** (`lost`, `issued`, `redeemed`, `parent`, `events`, and
  the locals and fields marked as history) are for properties only or stand for the
  uniqueness of random ids; no code reads them.
- **Mutants.** Definitions whose comment starts with "Mutant" are variants of
  the definition they stand before, with a plausible bug. They are used by no
  specification; `PROJECT.json` names the property that each would violate.

`PROJECT.json` maps each definition to the lines it models.

## 3. Runs

Run `tlc -workers 2 -config X.cfg M`. Times are for two workers.

| run | question | instance | result |
|---|---|---|---|
| `lifecycle` | does the abstract lifecycle keep the data of requests apart? | 3 requests, 2 applications | 489 states |
| `vr_one_request` | safety of one request and its session under every fault | 2 handlers, 1 request, TTL 2, clock 0..3 | 430 k states, 25 s |
| `vr_two_requests` | does the service implement the lifecycle; can a late verification overwrite a verdict; does an application only hold data verified for it? | 2 handlers, 2 requests over 2 applications, clock 0..1, no faults | 890 k states, 50 s |
| `vr_liveness` | does every request end? | FairSpec, 1 handler, 2 requests, store faults, clock 0..2 | 2 min |
| `vr_unrecorded` | is every failed verification persisted? | 1 handler, 2 requests for 1 application | **no**, see 6 |
| `did_keys` | uniqueness, permanence, naming and custody of keys; is every interleaving one history of keys? | one owner, organization or holder, 2 calls, 4 versions, 3 attempts | 780 k states, 75 s |
| `presentations` | is what is delivered what was agreed; has each failure its cause and its flags, and each success nothing against it; what does the code of an answer tell? | university and one optional claim, lists of up to 2 texts, 2 kinds of events | 720 k states, 90 s |
| `keyring` | do keys validated at start suffice, stay apart and open all rows, over rotations and rolling deployments? | 2 processes, 2 names of keys, 48 environments, 3 rows | 150 k states, 21 s |
| `tokens` | is every interleaving of statements one of abstract sessions; does a replay end its family? | 3 calls, 1 login, 3 tokens | 66 k states, 12 s |
| `credentials` | history, audit, finality, expiry | 2 calls, 1 credential, 1 issuer, 5 history rows, clock 0..2 | 41 k states, 4 s |
| `cred_withdrawn` | is a credential issued only for a valid record? | 1 record | **no**, see 6 |
| `enrollment` | ownership, single use and binding, and whose challenge a call can use up | 2 holders, 2 keys, 2 challenges, 2 calls, TTL 1, clock 0..3 | 880 k states, 32 s |

What a run leaves to a proof is not checked twice. `ResultMatchesStatus`,
`OneActiveToken` and `ExchangedOnce`, and the types of `RequestLifecycle`, `DidKeys`,
`Presentations`, `KeyRing` and `Credentials`, are only proved: they are parts of the
inductive invariants of section 5, and TLC agreed with them before.

### Why the bounds are enough

- *Two handlers*: each conflict in this code is between a read and a write of
  one call with one other call in between; a third call behaves as one of the
  two after it has returned, since handlers are reused. Tokens use three,
  because a reuse, the holder of the successor and a logout are three parties.
- *Two requests, two applications*: the properties relate one request to
  another of the same application, or one application to a request of another.
- *TTL and clock*: only the order of a deadline and a step matters. With TTL 2
  and three ticks a session can be written later than its row's deadline was
  computed, outlive the row, and a verification can begin before the deadline and
  finish after it (`VerifiedWasSoundAtStart` needs that case). `vr_two_requests`,
  about the tables and not the sessions, does with TTL 1 and one tick.
- *Four key versions and three attempts*: `maximumSigningAttempts` is 3, so the
  loop can be defeated (three changes) and can recover (fewer).
- *Three tokens, five history rows*: long enough for a chain of two exchanges with
  a replay of the first token, and for suspend, reactivate, suspend, revoke.
- *Two claims and two kinds of events*: the university is the claim that is not in
  the credentialSubject, the other is one a credential may be without; lists of
  two have a partial approval and a padded text beside another. Each
  failure has one cause, so a second kind of event is what could be blamed in its
  place. Events of the same kind may repeat, but each of the two ways to rewrite the
  presentation happens once: a claim of it is added, taken away or given
  another value, and the next rewriting starts from that; and the job is updated once
  after the request, to a single text, which may take a requested claim away. The deadline, and the other request
  of the application, matter from the approval on: before it no verification reads them.
- *Two processes, two names, three rows*: one process before and one after a
  deployment; a key that is active in one and retired in the other; a row of
  either and one of an earlier release.
- *Symmetry* is used for interchangeable processes and ids, and not in
  `vr_liveness`.

### Deadlock

`CHECK_DEADLOCK FALSE` is set where the bounded clock, ids and versions run
out. Elsewhere TLC checks that some call can always go on.

## 4. Fairness

Only `vr_liveness` assumes any, in `FairSpec`:

- weak fairness of the steps of a call in progress: Node runs the continuation
  of every await that completes; crashes are left out of this run;
- weak fairness of `Tick`: time passes;
- weak fairness of `WalletSweep`: the holder looks at the wallet some time
  after a request became overdue. The code has no other sweep, so without it a
  request that is never answered stays PENDING for ever;
- strong fairness of `ReadContext` for each request: a bank that keeps asking
  for the verification of an approved request is served again and again, though
  all handlers may be busy at times. Without it an approved request also stays open:
  nothing else expires it.

The last two are assumptions about the users, and the run shows they suffice:
no loss of a session and no decision of the application by another request
keeps a request open. `OpenRequestsEnd` is the conclusion.

## 5. Proofs

`tlapm` on each of the eight `*Proofs` modules checks all their theorems, for any
number of requests, applications, credentials, handlers, owners, calls, versions,
attempts, claims, events, environments, logins, tokens, holders and challenges,
any TTL, clock and set of faults. The only assumptions are the
named ASSUMEs of the modules: null values are not values, TTL and bounds are
numbers, owners of the two types are distinct, environments are environments. Two
more, `BlameOfWords` and `CodeOfWords` in `Presentations`, assume nothing of a constant:
they are closed formulas on what `Blamed` and `ErrorCode` make of the messages in the
source. The provers treat a string as opaque and cannot look for a word in it; TLC
computes both on every run of `presentations`.

**RequestLifecycleProofs** (`TypeCorrect`, `ResultsMatch`,
`DisclosureIsApproved`, `DataIsVerified`, `DecisionsStay`). Each of the
invariants is preserved by every step together with `TypeOK`, so the inductive
invariant is their conjunction. `DataWasVerified` survives because the request
whose data an application holds is VERIFIED, and no step changes such a request
or moves it to another application.

**VerificationRequestsProofs** (`ServiceImplementsLifecycle`, and with it
`ResultsMatch`, `DisclosureIsApproved`, `DataIsVerified`, `DecisionsStay`,
`VerdictsStay` for the service). What a handler remembers may be stale, so the
argument cannot rest on it. The invariant only adds to `TypeOK` that a handler
remembers a request, an application or a credential where it goes on to write
one (`LocalsRead`), and that an approved request has a presentation, which the
second read of a verification needs. Every write is then a lifecycle step by
the conditions of its own update: `StepImplements` goes through the handlers one
by one. The consequences are those of `RequestLifecycleProofs`, instantiated and
carried over along the implementation.

The second half of the module is about sessions (`LiveRequestsHaveSessions`, `ExpiryIsDue`,
`SessionFailuresAreFaults`). None of these is inductive: PostgreSQL and Redis share
no transaction, so between a step in one and the step in the other the
promise rests on the call in between. `SessionsSound` follows it there. A call that
creates a request is the only one that knows its id; the session it wrote lives
at least as long as the row it is about to insert; and a call that is about to expire
a request, to delete its session or to fail it for want of one has cause to,
which is `Gone`: the request has ended, its deadline has passed, or a fault took
the session. That `Gone` can never become false again is what makes a stale
reason good enough. This also covers `expireRequest`, which deletes the session even when its
update matched nothing: by then the deadline has passed or the session was lost.

The last part is `AcceptedWasSound`. Revocation, the suspension of an issuer and the
deadline are for good, so a call that began unsound still finds the cause: before
it reads the status in the stores, and after that in what it has read or in the trust
registry (`WillNotice`). The deadline needs no more than the first pass, which ends such a
call.

**DidKeysProofs** (`TypeCorrect`, `KeyIsUnique`, `KeysStay`,
`ProofsNameTheirKey`, `RetriesAreCaused`, `ClientKeysStay`,
`ServiceImplementsKeyHistory`). The inductive invariant is

    IInv == TypeOK /\ OneActiveKey /\ InProgress /\ ProofNamesItsKey

`OneActiveKey` alone is not inductive: a rotation writes the version after the
one it read, so one must know that what a call read is at most the current
version, that the row it read exists, and how far its loop has come.
`InProgress` says that for each program counter. `KeysStay` and
`RetriesAreCaused` then follow from the invariant and one look at each action;
that versions only grow and rows only go forward (`MonotoneStep`) carries every
other call's locals over a step (`OthersStaySound`).

`ClientKeysStay` adds what the check of custody, made outside of the transaction,
leaves behind (`CustodyInv`): a call that goes on to replace a key works on a DID that did
not begin with a client's key, and the key a DID began with never changes.

`ServiceImplementsKeyHistory` puts these together. Of the rows, a transaction
is a creation, a replacement or a revocation (`TableStep`), and each is a step on the
sequence of keys; that a replacement is by the server, and of a server's key only, is
`ClientKeysStay`. The key that signs was read last and found ACTIVE, so by `OneActiveKey` it
is the one in force, and it is the one that the proof names.

**PresentationsProofs** (`TypeCorrect`, `DeliveriesAreAgreed`, `FailuresHaveCauses`,
`FlagsBlameTheCheck`, `SuccessesAreDue`, `CodesTellVerdicts`). `IInv` follows the
agreement along its way: the requested names were required (`Asked`), what the
holder's proof is of was approved unless it was made anew (`Faithful`), a call past the
proof has found it to be of what it has read (`HashChecked`), and one that is about
to commit a success has compared every claim with the request and the credential
(`Compared`). It is about the presentation the call has read, so a row rewritten
meanwhile does not matter.

A failure is explained by the second invariant, `Grounds`. None of `FailureHasCause`,
`BlameIsRight` and `CodeTellsVerdict` is inductive: the reason is found in one step,
recorded in another and answered in a third, from rows read before. `Grounds` says of
the rows that whatever is wrong with them is the trace of an event (`Marked`,
`Genuine`), that a call holds rows of this kind (`ReadGenuine`), that a reason it is about to
record was caused and blames the check that found it (`Founded`), and that the result is
that reason and its flags (`Recorded`, `Blames`). Events are never forgotten,
so a stale reading still has its cause. `CodesTellVerdicts` goes through the answers
one by one with it: each is given where a status, a result or an application has just been
found that the code stands for, and the 500s are free.

`SuccessesAreDue` has an invariant of its own. What dooms a call (`Doomed`) is for good
(`NothingIsTakenBack`), so a doomed call has a check ahead of it that it will not pass,
from its first step up to that check, and none is left at the commit (`Hopeless`). For
the status of the credential, which is read in the second pass and tested awaits later,
what is ahead is in the row before that read and in the call's local after it.

**KeyRingProofs** (`TypeCorrect`, `ValidationSuffices`, `KeysHaveOnePurpose`,
`NoRowIsLost`, `DomainsStaySeparate`). A cache holds nothing but what the
configuration says (`CacheAgrees`), the configuration is what validation made of
the environment (`Configured`), and a row keeps how it was sealed (`Sealed`).

**RefreshTokensProofs** (`TypeCorrect`, `RevocationIsComplete`,
`OneTokenPerLogin`, `OneSuccessorPerToken`, `TokensImplementSessions`,
`ReplaysEndFamilies`, `NoCircularWait`). The
argument is the row lock of the family: whoever writes a family or one of its
tokens holds it (`InFlight`), no two hold the same one (`Exclusive`), and so what
the holder has read is still true when it commits. The first token of a login
needs no lock: nobody else can know its family yet (`Private`). Under the refinement
mapping a commit is then a step of `LoginSessions` and any other statement a
stutter.

`ReplaysEndFamilies` needs that a token once revoked stays so (`RevokedForGood`): a call that
began with such a token finds nothing to consume and goes on to revoke the family, or
returns because it is revoked already (`Replays`). `NoCircularWait` is what the order of
the locks gives: every transaction takes the family's row before any token's, so
whoever has it finds no token of that family locked. It is no property of a run:
deadlock is not checked there, because the tokens run out.

**HolderEnrollmentProofs** (`TypeCorrect`, `EnrolmentsAreOwned`,
`ChallengesAreUsedOnce`, `BoundOnce`, `StaysRedeemable`). A challenge lives once: drawn, stored by the call that drew
it, and taken (`OneLife`); what it says never changes, so what a call has
compared still holds when the DID is created (`InFlight`). `BoundOnce` rests on the unique
index on the owner alone, whatever a call read before. `StaysRedeemable` adds `Kept`: the
deadline written into a challenge is computed before the SET that starts its TTL, so Redis
never drops one before its holder was told it would.

**CredentialsProofs** (`TypeCorrect`, `HistoriesAreComplete`,
`TrustLogsAreComplete`, `RevocationIsFinal`, `ReactivationsAreInTime`). A
status read outside of the transaction may be stale, but the transition a call
stands for remains one that the code allows (`HasRead`), and the update is
conditional on it; the history is extended by a row that starts where it ended
(`NextRow`).

Every invariant and action property that a passing run checks is stated by a theorem.
Only model-checked is `OpenRequestsEnd`: liveness under fairness is beyond this prover, as are
ENABLED and induction over data. What `Blamed` and `ErrorCode` make of each message is
computed by TLC (`BlameOfWords`, `CodeOfWords`) and not proved. The two runs that
expect a violation have nothing to prove.

## 6. Where the code and its texts disagree

1. **A failed verification can go unrecorded** (`vr_unrecorded`).
   `README.md:1298` says that a failed verification "is persisted as a failure
   and can be audited". The transaction that records it
   (`verification.service.ts:643-735`) also requires the application to be PENDING.
   Two approved requests of one application: the first is decided, the second
   fails, and its record is rolled back with 409: no result, no audit entry,
   and the request stays APPROVED until it expires.
2. **A credential for a withdrawn record** (`cred_withdrawn`). `issue` refuses
   records that are withdrawn or invalid when it reads them, signs, and inserts
   without looking again. A record withdrawn in between gets an ACTIVE
   credential.

Observations that contradict no text, or are visible in the code at one place, and
that no run is spent on:

- `revoke` refuses status EXPIRED (`credential-status.service.ts:53`), but nothing writes
  that status although `README.md:1219` draws the transition; a credential past its
  `expiresAt` can be revoked, while `reactivate` looks at `expiresAt`.
- A session that vanishes between the two passes of `validateRequestContext` is
  recorded as a failure whose reason contains "expired", so the flags say
  that the credential expired and that proofs and trust, which nobody looked at,
  were valid (`verification.service.ts:992`). `BlameIsRight` leaves out this reason.
- A requested claim with blanks around it is stored as typed if the job has the
  trimmed name; approvals compare trimmed names with the stored ones, so it can never
  be approved and the request expires.
- An encryption key typed with blanks is trimmed while it is the active one and
  refused once it is retired: its rows then cannot be read until the blanks are removed.
- No check of `verifyPresentation` compares the names disclosed with
  `approvedClaims` (`verification.service.ts:548-575` looks at the request and the
  credential). The holder's proof is what vouches for them: a row rewritten and signed
  anew with the holder's key may deliver any claims that were requested, and
  `DeliveredAsAgreed` says so.
- INTERNAL_SERVER_ERROR tells the bank nothing. It is answered when a store throws
  before the transaction that decides, when the commit succeeds but is not acknowledged, and
  when the deletion of the session fails after it. To ask again helps: a request that was
  decided is answered with CONFLICT.
- CONFLICT does not mean that a result exists: it is also the answer for a
  request that has expired, and for an application that another request has decided
  while this one stays APPROVED (see 1). When a check fails and the request has expired
  meanwhile, nothing is recorded and the code is the check's, CREDENTIAL_REVOKED for instance.
- The codes of errors follow the wording (`global-exception.filter.ts:158-193`): "Only an
  active credential can be suspended" is answered with CREDENTIAL_SUSPENDED, and
  "already been consumed" with CONFLICT.
- A verification that began within the deadline may succeed after it; a client that
  repeats a refresh whose answer was lost loses its family; a verified application that
  is asked about again keeps its old data until the next decision.

## 7. What is not modelled

- Cryptography, canonicalization, JSON and multibase encodings: library calls or byte
  formats, represented by what they are bound to. DID documents are
  read-only views of the rows that `DidKeys` has.
- Malformed JSON in stored columns: no code writes it.
- The validation of variables other than encryption keys, and of credential
  dates: each is one test at one place.
- Creation of applications, organizations and users, registration, and the name, version
  and status of schemas: single inserts with unique constraints; two at once are told
  apart by the index and not by the code.
- Controllers, guards, pipes, health, seed and maintenance scripts: stateless, or pure
  input and output. Of the filter, only the error codes are modelled.
- Wallet queries and audit queries: read-only. Audit entries are written in the
  transactions of the operations and are modelled only for the trust registry.
- `DidStatus` and `EXPIRED` of credentials: never written by the code.

## 8. Plan

Done: all components that keep state across calls, their runs, the three
refinements and the proofs of section 5. What is left:

1. **Proofs**: abstract specifications of the holder's enrolment and of the status of a
   credential, where they say more than the invariants do.
2. **Breadth**: registration and organizations, creation of applications, where a run
   can say more than the index does.
