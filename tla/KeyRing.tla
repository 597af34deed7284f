-------------------------------- MODULE KeyRing --------------------------------
(***************************************************************************)
(* The keys that encrypt private DID keys and wallet credentials: what     *)
(* validateEnvironment makes of the environment of a process, and what     *)
(* EncryptionService does with it.  Processes are started, stopped and     *)
(* replaced one by one, each under an environment of its own, while the    *)
(* rows they wrote stay in the database: a rotation of keys is a           *)
(* deployment that is never in force everywhere at once.                   *)
(*                                                                         *)
(* The names of keys (DID_ENCRYPTION_ACTIVE_KEY_ID) are trimmed and put    *)
(* into lower case wherever they are read; here they are so already.       *)
(* AES-GCM opens a row only with the bytes and the AAD it was sealed with. *)
(***************************************************************************)
EXTENDS Naturals, FiniteSets

CONSTANTS
    Instance,       \* processes of the backend
    KeyId,          \* names of keys: v1, v2
    Bytes,          \* values of keys
    NotHex,         \* what is not the hexadecimal form of 32 bytes
    NoKey,          \* no value: an unset variable, an empty place of the cache
    Environment,    \* the environments a process may be started under
    MaxRows         \* bound: rows written

Domain == {"did", "wallet"}

\* The value of a variable: the hexadecimal digits of some bytes in lower or upper case,
\* or in lower case with blanks around them.
Text == [bytes : Bytes \cup {NotHex, NoKey}, form : {"lower", "upper", "padded"}]

Configuration == [master : Text, active : [Domain -> KeyId], keys : [Domain -> [KeyId -> Text]]]

\* The name of the key of a row written before keys had names.
NoName == "null"

ASSUME NamesAreDistinct ==
    NotHex \notin Bytes /\ NoKey \notin Bytes \cup {NotHex} /\ NoName \notin KeyId
ASSUME EnvironmentsAreTyped ==
    Environment \subseteq Configuration
ASSUME MaxRowsIsNatural == MaxRows \in Nat

VARIABLES
    process,        \* of each instance: whether it runs, its environment, its
                    \* configuration and the keyCache of its EncryptionService
    rows            \* encrypted rows; "variable" is history: the variable with the key,
                    \* as the environment had it where the row was written

vars == <<process, rows>>

Row == [domain : Domain, keyId : KeyId \cup {NoName}, key : Bytes,
        aad : Domain \cup {"none"}, variable : Text]

-----------------------------------------------------------------------------
(* validateEnvironment *)

\* requireString
Trimmed(text) == IF text.form = "padded" THEN [text EXCEPT !.form = "lower"] ELSE text

\* HEX_32_BYTE_PATTERN
IsHexKey(text) == text.bytes \in Bytes /\ text.form # "padded"

LowerCase(text) == [text EXCEPT !.form = "lower"]

\* validateActiveEncryptionKey
ActiveKey(env, domain) == Trimmed(env.keys[domain][env.active[domain]])

MasterKey(env) == Trimmed(env.master)

\* Mutant: the digits are compared as they were typed.
DistinctTexts(texts) ==
    \A i, j \in DOMAIN texts : texts[i] = texts[j] => i = j

Distinct(texts) ==
    \A i, j \in DOMAIN texts : LowerCase(texts[i]) = LowerCase(texts[j]) => i = j

Valid(env) ==
    LET used == <<MasterKey(env), ActiveKey(env, "did"), ActiveKey(env, "wallet")>> IN
    /\ \A i \in DOMAIN used : IsHexKey(used[i])
    /\ Distinct(used)

\* Mutant: the trimmed key is checked, and the one that was typed is kept.
ValidatedKeepsKeys(env) == [env EXCEPT !.master = MasterKey(env)]

\* The variables that were looked at are replaced by what they were trimmed to; the keys
\* of other names stay as they are.
Validated(env) ==
    [env EXCEPT !.master = MasterKey(env),
                !.keys = [domain \in Domain |->
                    [env.keys[domain] EXCEPT ![env.active[domain]] = ActiveKey(env, domain)]]]

-----------------------------------------------------------------------------
(* EncryptionService *)

Running(i) == process[i].runs

\* Mutant: the cache is looked up by the name of the key alone.
PlaceByName(domain, id) == <<"did", id>>

\* cacheKey
Place(domain, id) == <<domain, id>>

\* getDomainKey: NoKey where it throws.
DomainKey(i, domain, id) ==
    LET cached == process[i].cache[Place(domain, id)]
        text == process[i].config.keys[domain][id] IN
    IF cached # NoKey THEN cached ELSE IF IsHexKey(text) THEN text.bytes ELSE NoKey

\* Mutant: rows are not bound to their domain.
AadIsMissing(domain, id) == "none"

\* setAAD is called for rows with the name of a key.
Aad(domain, id) == IF id = NoName THEN "none" ELSE domain

\* The key that decryptForDomain takes: legacyKey, read once, for rows without a name.
KeyFor(i, domain, id) ==
    IF id = NoName THEN process[i].config.master.bytes ELSE DomainKey(i, domain, id)

\* Whether decryptForDomain returns the plaintext of a row.
Opens(i, domain, row) ==
    /\ KeyFor(i, domain, row.keyId) = row.key
    /\ Aad(domain, row.keyId) = row.aad

\* The key, once read, is found in the cache.
Remember(i, domain, id) ==
    process' = [process EXCEPT ![i].cache[Place(domain, id)] = DomainKey(i, domain, id)]

-----------------------------------------------------------------------------
EmptyCache == [place \in Domain \X KeyId |-> NoKey]

Down == [runs |-> FALSE]

\* Rows of an earlier release, sealed with MASTER_ENCRYPTION_KEY.
Legacy ==
    {[domain |-> domain, keyId |-> NoName, key |-> env.master.bytes, aad |-> "none",
      variable |-> env.master] : domain \in Domain, env \in {e \in Environment : Valid(e)}}

Init ==
    /\ process = [i \in Instance |-> Down]
    /\ rows \in {{}} \cup {{row} : row \in Legacy}

\* The process starts; under an environment that is not valid it ends at once.
Start(i, env) ==
    /\ ~Running(i)
    /\ Valid(env)
    /\ process' = [process EXCEPT ![i] =
           [runs |-> TRUE, env |-> env, config |-> Validated(env), cache |-> EmptyCache]]
    /\ UNCHANGED rows

\* The end of a process, ordered or not, loses its cache.
Stop(i) ==
    /\ Running(i)
    /\ process' = [process EXCEPT ![i] = Down]
    /\ UNCHANGED rows

\* encryptForDid and encryptForWallet, for a row that is then stored.
Encrypt(i, domain) ==
    LET id == process[i].config.active[domain]
        key == DomainKey(i, domain, id) IN
    /\ Running(i)
    /\ key # NoKey
    /\ Remember(i, domain, id)
    /\ rows' = rows \cup {[domain |-> domain, keyId |-> id, key |-> key,
                           aad |-> Aad(domain, id),
                           variable |-> process[i].env.keys[domain][id]]}
    /\ Cardinality(rows') <= MaxRows

\* decryptForDid and decryptForWallet: the key is cached whether or not it opens the row.
Decrypt(i, row) ==
    /\ Running(i)
    /\ IF row.keyId = NoName THEN UNCHANGED process ELSE Remember(i, row.domain, row.keyId)
    /\ UNCHANGED rows

Next ==
    \E i \in Instance :
        \/ \E env \in Environment : Start(i, env)
        \/ Stop(i)
        \/ \E domain \in Domain : Encrypt(i, domain)
        \/ \E row \in rows : Decrypt(i, row)

Spec == Init /\ [][Next]_vars

-----------------------------------------------------------------------------
(* Properties *)

Process == [runs : {TRUE}, env : Environment, config : Configuration,
            cache : [Domain \X KeyId -> Bytes \cup {NoKey}]]

TypeOK ==
    /\ process \in [Instance -> Process \cup {Down}]
    /\ rows \subseteq Row

\* A process that has started can encrypt: getDomainKey reads keys when they are first
\* used, long after the process took its first request, and validateEnvironment has made
\* sure before that this will not fail.
StartedCanEncrypt ==
    \A i \in Instance, domain \in Domain :
        Running(i) => DomainKey(i, domain, process[i].config.active[domain]) # NoKey

\* A process never uses the same bytes for two purposes, in whatever case they were typed.
PurposesHaveOwnKeys ==
    \A i \in Instance : Running(i) =>
        LET key(domain) == DomainKey(i, domain, process[i].config.active[domain]) IN
        /\ key("did") # key("wallet")
        /\ process[i].config.master.bytes \notin {key("did"), key("wallet")}

\* The variable that a process has for a row.
VariableFor(i, row) ==
    IF row.keyId = NoName THEN process[i].env.master
    ELSE process[i].env.keys[row.domain][row.keyId]

\* A rotation of keys, a restart or a rolling deployment loses no row: each process whose
\* environment still has the variable that a row was written with opens that row, whatever
\* it encrypted or decrypted before.  One exception, and a test would hardly find it: a key
\* typed with blanks around it is trimmed while it is the active one, and is refused once
\* it is retired.
RowsOutliveRotations ==
    \A i \in Instance, row \in rows :
        /\ Running(i)
        /\ VariableFor(i, row) = row.variable
        /\ row.variable.form = "padded" =>
               row.keyId \in {NoName, process[i].config.active[row.domain]}
        => Opens(i, row.domain, row)

\* What was encrypted for one purpose does not decrypt for the other, even where both have
\* the same bytes, as they may once one of the keys is retired.
DomainsAreSeparate ==
    \A i \in Instance, row \in rows :
        Running(i) /\ row.keyId # NoName =>
            \A domain \in Domain \ {row.domain} : ~Opens(i, domain, row)
=============================================================================
