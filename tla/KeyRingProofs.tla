----------------------------- MODULE KeyRingProofs -----------------------------
(***************************************************************************)
(* The invariants of KeyRing.tla for any processes, keys, environments and *)
(* any number of rows.  What makes them inductive is that a cache holds    *)
(* nothing but what the configuration says (CacheAgrees), that a           *)
(* configuration is what validation made of the environment (Configured),  *)
(* and that a row keeps how it was sealed (Sealed).                        *)
(***************************************************************************)
EXTENDS KeyRing, TLAPS

Configured ==
    \A i \in Instance : Running(i) =>
        Valid(process[i].env) /\ process[i].config = Validated(process[i].env)

CacheAgrees ==
    \A i \in Instance, domain \in Domain, id \in KeyId :
        Running(i) /\ process[i].cache[<<domain, id>>] # NoKey =>
            /\ IsHexKey(process[i].config.keys[domain][id])
            /\ process[i].cache[<<domain, id>>] = process[i].config.keys[domain][id].bytes

Sealed ==
    \A row \in rows :
        /\ row.key = row.variable.bytes
        /\ row.aad = Aad(row.domain, row.keyId)

IInv == TypeOK /\ Configured /\ CacheAgrees /\ Sealed

-----------------------------------------------------------------------------
(* Validation. *)

LEMMA TrimmedText ==
    ASSUME NEW text \in Text
    PROVE  /\ Trimmed(text) \in Text
           /\ Trimmed(text).bytes = text.bytes
           /\ Trimmed(text).form # "padded"
           /\ text.form # "padded" => Trimmed(text) = text
BY DEF Trimmed, Text

LEMMA EnvironmentTypes ==
    ASSUME NEW env \in Environment
    PROVE  /\ env.master \in Text
           /\ \A domain \in Domain : env.active[domain] \in KeyId
           /\ \A domain \in Domain, id \in KeyId : env.keys[domain][id] \in Text
           /\ env \in Configuration
BY EnvironmentsAreTyped DEF Configuration

LEMMA ValidatedTypes ==
    ASSUME NEW env \in Environment
    PROVE  /\ Validated(env) \in Configuration
           /\ Validated(env).active = env.active
           /\ Validated(env).master = MasterKey(env)
           /\ \A domain \in Domain, id \in KeyId :
                 Validated(env).keys[domain][id] = IF id = env.active[domain]
                                                   THEN Trimmed(env.keys[domain][id])
                                                   ELSE env.keys[domain][id]
<1>1. /\ env.master \in Text
      /\ env.active \in [Domain -> KeyId]
      /\ env.keys \in [Domain -> [KeyId -> Text]]
      /\ env \in Configuration
  BY EnvironmentsAreTyped DEF Configuration
<1>2. MasterKey(env) \in Text
  BY <1>1, TrimmedText DEF MasterKey
<1>3. \A domain \in Domain : ActiveKey(env, domain) \in Text
  BY <1>1, TrimmedText DEF ActiveKey
<1> DEFINE ring == [domain \in Domain |->
                       [env.keys[domain] EXCEPT ![env.active[domain]] = ActiveKey(env, domain)]]
<1>4. ring \in [Domain -> [KeyId -> Text]]
  BY <1>1, <1>3
<1>5. \A domain \in Domain, id \in KeyId :
         ring[domain][id] = IF id = env.active[domain] THEN Trimmed(env.keys[domain][id])
                            ELSE env.keys[domain][id]
  BY <1>1 DEF ActiveKey
<1>6. Validated(env) = [env EXCEPT !.master = MasterKey(env), !.keys = ring]
  BY DEF Validated
<1> HIDE DEF ring
<1>7. /\ Validated(env).master = MasterKey(env)
      /\ Validated(env).active = env.active
      /\ Validated(env).keys = ring
      /\ Validated(env) \in Configuration
  BY <1>1, <1>2, <1>4, <1>6 DEF Configuration
<1> QED
  BY <1>5, <1>7

\* What is used of a valid environment is hexadecimal, and different for every purpose.
LEMMA ValidKeys ==
    ASSUME NEW env \in Environment, Valid(env)
    PROVE  /\ IsHexKey(MasterKey(env))
           /\ \A domain \in Domain : IsHexKey(ActiveKey(env, domain))
           /\ MasterKey(env).bytes # ActiveKey(env, "did").bytes
           /\ MasterKey(env).bytes # ActiveKey(env, "wallet").bytes
           /\ ActiveKey(env, "did").bytes # ActiveKey(env, "wallet").bytes
<1> DEFINE m == MasterKey(env)
           d == ActiveKey(env, "did")
           w == ActiveKey(env, "wallet")
<1>1. m \in Text /\ d \in Text /\ w \in Text
  BY EnvironmentTypes, TrimmedText DEF MasterKey, ActiveKey, Domain
<1>2. /\ \A i \in DOMAIN <<m, d, w>> : IsHexKey(<<m, d, w>>[i])
      /\ Distinct(<<m, d, w>>)
  BY DEF Valid
<1> HIDE DEF m, d, w
<1>3. IsHexKey(m) /\ IsHexKey(d) /\ IsHexKey(w)
  BY <1>2
<1>4. /\ LowerCase(m) # LowerCase(d) /\ LowerCase(m) # LowerCase(w)
      /\ LowerCase(d) # LowerCase(w)
  BY <1>2 DEF Distinct
<1>5. m.bytes # d.bytes /\ m.bytes # w.bytes /\ d.bytes # w.bytes
  BY <1>1, <1>4 DEF LowerCase, Text
<1> QED
  BY <1>3, <1>5 DEF m, d, w, Domain

-----------------------------------------------------------------------------
(* Keys in use. *)

LEMMA RunningProcess ==
    ASSUME IInv, NEW i \in Instance, Running(i)
    PROVE  /\ process[i] \in Process
           /\ process[i].env \in Environment
           /\ Valid(process[i].env)
           /\ process[i].config = Validated(process[i].env)
<1>1. process[i] \in Process
  BY DEF IInv, TypeOK, Running, Down
<1> QED
  BY <1>1 DEF Process, IInv, Configured

\* The cache never matters: a key is what the configuration says, if it is hexadecimal.
LEMMA KeyIsConfigured ==
    ASSUME IInv, NEW i \in Instance, Running(i), NEW domain \in Domain, NEW id \in KeyId
    PROVE  /\ DomainKey(i, domain, id) \in Bytes \cup {NoKey}
           /\ DomainKey(i, domain, id) = IF IsHexKey(process[i].config.keys[domain][id])
                                         THEN process[i].config.keys[domain][id].bytes
                                         ELSE NoKey
<1>1. process[i] \in Process
  BY DEF IInv, TypeOK, Running, Down
<1>2. process[i].config.keys[domain][id] \in Text
  BY <1>1 DEF Process, Configuration
<1> QED
  BY <1>1, <1>2 DEF DomainKey, Place, IInv, CacheAgrees, IsHexKey, Process

LEMMA ActiveKeyIsConfigured ==
    ASSUME IInv, NEW i \in Instance, Running(i), NEW domain \in Domain
    PROVE  /\ process[i].config.active[domain] \in KeyId
           /\ process[i].config.active = process[i].env.active
           /\ DomainKey(i, domain, process[i].config.active[domain])
                  = ActiveKey(process[i].env, domain).bytes
           /\ ActiveKey(process[i].env, domain).bytes \in Bytes
<1>1. process[i] \in Process
  BY DEF IInv, TypeOK, Running, Down
<1> DEFINE env == process[i].env
           id == env.active[domain]
<1>2. env \in Environment /\ Valid(env) /\ process[i].config = Validated(env)
  BY <1>1 DEF Process, IInv, Configured
<1>3. id \in KeyId /\ process[i].config.active = env.active
  BY <1>2, EnvironmentTypes, ValidatedTypes
<1>4. process[i].config.keys[domain][id] = ActiveKey(env, domain)
  BY <1>2, <1>3, ValidatedTypes DEF ActiveKey
<1>5. IsHexKey(ActiveKey(env, domain))
  BY <1>2, ValidKeys
<1>6. DomainKey(i, domain, id) = ActiveKey(env, domain).bytes
  BY <1>3, <1>4, <1>5, KeyIsConfigured
<1>7. ActiveKey(env, domain).bytes \in Bytes
  BY <1>5 DEF IsHexKey
<1> QED
  BY <1>3, <1>6, <1>7

LEMMA RememberStep ==
    ASSUME IInv, NEW i \in Instance, Running(i), NEW domain \in Domain, NEW id \in KeyId,
           Remember(i, domain, id), rows' \subseteq Row, Sealed'
    PROVE  IInv'
<1> DEFINE key == DomainKey(i, domain, id)
<1>1. process[i] \in Process /\ process \in [Instance -> Process \cup {Down}]
  BY DEF IInv, TypeOK, Running, Down
<1>2. /\ key \in Bytes \cup {NoKey}
      /\ key # NoKey => /\ IsHexKey(process[i].config.keys[domain][id])
                        /\ key = process[i].config.keys[domain][id].bytes
  BY KeyIsConfigured
<1>3. process' = [process EXCEPT ![i].cache[<<domain, id>>] = key]
  BY DEF Remember, Place
<1> HIDE DEF key
<1>4. /\ process'[i] \in Process
      /\ process'[i].env = process[i].env
      /\ process'[i].config = process[i].config
      /\ process'[i].cache = [process[i].cache EXCEPT ![<<domain, id>>] = key]
  BY <1>1, <1>2, <1>3 DEF Process
<1>5. \A j \in Instance \ {i} : process'[j] = process[j]
  BY <1>1, <1>3
<1>6. process' \in [Instance -> Process \cup {Down}]
  BY <1>1, <1>3, <1>4, <1>5
<1>7. TypeOK'
  BY <1>6 DEF TypeOK
<1>8. Configured'
  BY <1>4, <1>5 DEF IInv, Configured, Running
<1>9. CacheAgrees'
  <2> SUFFICES ASSUME NEW j \in Instance, NEW d \in Domain, NEW k \in KeyId, Running(j)',
                      process'[j].cache[<<d, k>>] # NoKey
               PROVE  /\ IsHexKey(process'[j].config.keys[d][k])
                      /\ process'[j].cache[<<d, k>>] = process'[j].config.keys[d][k].bytes
    BY DEF CacheAgrees, IsHexKey
  <2>1. CASE j # i
    BY <1>5, <2>1 DEF IInv, CacheAgrees, Running
  <2>2. CASE j = i /\ <<d, k>> = <<domain, id>>
    BY <1>1, <1>2, <1>4, <2>2 DEF Process
  <2>3. CASE j = i /\ <<d, k>> # <<domain, id>>
    <3>1. process[i].cache \in [Domain \X KeyId -> Bytes \cup {NoKey}]
      BY <1>1 DEF Process
    <3>2. <<d, k>> \in Domain \X KeyId /\ <<d, k>> # <<domain, id>>
      BY <2>3
    <3>3. process'[i].cache[<<d, k>>] = process[i].cache[<<d, k>>]
      BY <1>4, <3>1, <3>2
    <3>4. process[i].cache[<<d, k>>] # NoKey
      BY <2>3, <3>3
    <3>5. /\ IsHexKey(process[i].config.keys[d][k])
          /\ process[i].cache[<<d, k>>] = process[i].config.keys[d][k].bytes
      BY <3>4 DEF IInv, CacheAgrees
    <3> QED
      BY <1>4, <2>3, <3>3, <3>5
  <2> QED
    BY <2>1, <2>2, <2>3
<1> QED
  BY <1>7, <1>8, <1>9 DEF IInv

LEMMA EncryptStep ==
    ASSUME IInv, NEW i \in Instance, NEW domain \in Domain, Encrypt(i, domain)
    PROVE  IInv'
<1> DEFINE id == process[i].config.active[domain]
           key == DomainKey(i, domain, id)
           variable == process[i].env.keys[domain][id]
           row == [domain |-> domain, keyId |-> id, key |-> key, aad |-> Aad(domain, id),
                   variable |-> variable]
<1>1. Running(i) /\ Remember(i, domain, id) /\ rows' = rows \cup {row}
  BY DEF Encrypt
<1>2. process[i].env \in Environment
  BY <1>1, RunningProcess
<1>3. id \in KeyId /\ id = process[i].env.active[domain] /\ key \in Bytes
  BY <1>1, ActiveKeyIsConfigured
<1>4. variable \in Text /\ key = variable.bytes
  <2>1. variable \in Text
    BY <1>2, <1>3, EnvironmentTypes
  <2>2. key = Trimmed(variable).bytes
    BY <1>1, <1>3, ActiveKeyIsConfigured DEF ActiveKey
  <2> QED
    BY <2>1, <2>2, TrimmedText
<1>5. Aad(domain, id) = domain /\ domain \in Domain
  BY <1>3, NamesAreDistinct DEF Aad
<1> HIDE DEF id, key, variable
<1>6. row \in Row
  BY <1>3, <1>4, <1>5 DEF Row
<1>7. rows' \subseteq Row
  BY <1>1, <1>6 DEF IInv, TypeOK
<1>8. Sealed'
  BY <1>1, <1>4 DEF IInv, Sealed, Aad
<1> QED
  BY <1>1, <1>3, <1>7, <1>8, RememberStep

LEMMA DecryptStep ==
    ASSUME IInv, NEW i \in Instance, NEW row \in rows, Decrypt(i, row)
    PROVE  IInv'
<1>1. row \in Row /\ rows' = rows /\ Running(i)
  BY DEF IInv, TypeOK, Decrypt
<1>2. CASE row.keyId = NoName
  BY <1>1, <1>2 DEF Decrypt, IInv, TypeOK, Configured, CacheAgrees, Sealed, Running, Aad
<1>3. CASE row.keyId # NoName
  <2>1. row.domain \in Domain /\ row.keyId \in KeyId
    BY <1>1, <1>3 DEF Row
  <2>2. rows' \subseteq Row /\ Sealed'
    BY <1>1 DEF IInv, TypeOK, Sealed, Aad
  <2> QED
    BY <1>1, <1>3, <2>1, <2>2, RememberStep DEF Decrypt
<1> QED
  BY <1>2, <1>3

LEMMA StartStep ==
    ASSUME IInv, NEW i \in Instance, NEW env \in Environment, Start(i, env)
    PROVE  IInv'
<1> DEFINE new == [runs |-> TRUE, env |-> env, config |-> Validated(env), cache |-> EmptyCache]
<1>1. process \in [Instance -> Process \cup {Down}] /\ rows' = rows /\ rows \subseteq Row
  BY DEF IInv, TypeOK, Start
<1>2. new \in Process
  BY ValidatedTypes DEF Process, EmptyCache
<1>3. process' = [process EXCEPT ![i] = new] /\ Valid(env)
  BY DEF Start
<1>4. /\ new.env = env /\ new.config = Validated(env)
      /\ \A place \in Domain \X KeyId : new.cache[place] = NoKey
  BY DEF EmptyCache
<1> HIDE DEF new
<1>5. TypeOK'
  BY <1>1, <1>2, <1>3 DEF TypeOK
<1>6. Configured'
  BY <1>1, <1>3, <1>4 DEF IInv, Configured, Running
<1>7. CacheAgrees'
  BY <1>1, <1>3, <1>4 DEF IInv, CacheAgrees, Running
<1> QED
  BY <1>1, <1>5, <1>6, <1>7 DEF IInv, Sealed, Aad

LEMMA StopStep ==
    ASSUME IInv, NEW i \in Instance, Stop(i)
    PROVE  IInv'
<1>1. /\ process \in [Instance -> Process \cup {Down}] /\ rows' = rows
      /\ process' = [process EXCEPT ![i] = Down]
  BY DEF IInv, TypeOK, Stop
<1>2. TypeOK'
  BY <1>1 DEF IInv, TypeOK
<1>3. Configured' /\ CacheAgrees'
  BY <1>1 DEF IInv, Configured, CacheAgrees, Running, Down
<1> QED
  BY <1>1, <1>2, <1>3 DEF IInv, Sealed, Aad

LEMMA InitIInv == ASSUME Init PROVE IInv
<1>1. process \in [Instance -> Process \cup {Down}]
  BY DEF Init
<1>2. Configured /\ CacheAgrees
  BY DEF Init, Configured, CacheAgrees, Running, Down
<1>3. ASSUME NEW row \in rows
      PROVE  row \in Row /\ row.key = row.variable.bytes /\ row.aad = Aad(row.domain, row.keyId)
  <2>1. PICK domain \in Domain, env \in Environment :
           /\ Valid(env)
           /\ row = [domain |-> domain, keyId |-> NoName, key |-> env.master.bytes,
                     aad |-> "none", variable |-> env.master]
    BY DEF Init, Legacy
  <2>2. env.master \in Text /\ env.master.bytes \in Bytes
    BY <2>1, ValidKeys, EnvironmentTypes, TrimmedText DEF MasterKey, IsHexKey
  <2> QED
    BY <2>1, <2>2 DEF Row, Aad
<1> QED
  BY <1>1, <1>2, <1>3 DEF IInv, TypeOK, Sealed

-----------------------------------------------------------------------------
\* The invariant is inductive.
THEOREM Invariance == Spec => []IInv
<1>1. IInv /\ [Next]_vars => IInv'
  <2> SUFFICES ASSUME IInv, [Next]_vars PROVE IInv'
    OBVIOUS
  <2>1. ASSUME NEW i \in Instance, NEW env \in Environment, Start(i, env) PROVE IInv'
    BY <2>1, StartStep
  <2>2. ASSUME NEW i \in Instance, Stop(i) PROVE IInv'
    BY <2>2, StopStep
  <2>3. ASSUME NEW i \in Instance, NEW domain \in Domain, Encrypt(i, domain) PROVE IInv'
    BY <2>3, EncryptStep
  <2>4. ASSUME NEW i \in Instance, NEW row \in rows, Decrypt(i, row) PROVE IInv'
    BY <2>4, DecryptStep
  <2>5. CASE UNCHANGED vars
    BY <2>5 DEF vars, IInv, TypeOK, Configured, CacheAgrees, Sealed, Running, Aad
  <2> QED
    BY <2>1, <2>2, <2>3, <2>4, <2>5 DEF Next
<1> QED
  BY InitIInv, <1>1, PTL DEF Spec

\* Processes and rows keep their types for any environments.
THEOREM TypeCorrect == Spec => []TypeOK
BY Invariance, PTL DEF IInv

\* Whatever environment validation lets through, encryption finds its keys in it.
THEOREM ValidationSuffices == Spec => []StartedCanEncrypt
<1>1. IInv => StartedCanEncrypt
  <2> SUFFICES ASSUME IInv, NEW i \in Instance, NEW domain \in Domain, Running(i)
               PROVE  DomainKey(i, domain, process[i].config.active[domain]) # NoKey
    BY DEF StartedCanEncrypt
  <2> QED
    BY ActiveKeyIsConfigured, NamesAreDistinct
<1> QED
  BY <1>1, Invariance, PTL

\* No process encrypts for two purposes with the same bytes.
THEOREM KeysHaveOnePurpose == Spec => []PurposesHaveOwnKeys
<1>1. IInv => PurposesHaveOwnKeys
  <2> SUFFICES ASSUME IInv, NEW i \in Instance, Running(i)
               PROVE  LET key(domain) ==
                              DomainKey(i, domain, process[i].config.active[domain]) IN
                      /\ key("did") # key("wallet")
                      /\ process[i].config.master.bytes \notin {key("did"), key("wallet")}
    BY DEF PurposesHaveOwnKeys
  <2> DEFINE env == process[i].env
  <2>1. env \in Environment /\ Valid(env) /\ process[i].config.master = MasterKey(env)
    BY RunningProcess, ValidatedTypes
  <2>2. \A domain \in Domain : DomainKey(i, domain, process[i].config.active[domain])
                                   = ActiveKey(env, domain).bytes
    BY ActiveKeyIsConfigured
  <2> QED
    BY <2>1, <2>2, ValidKeys DEF Domain
<1> QED
  BY <1>1, Invariance, PTL

\* A row opens wherever its variable is still what it was, the padded and retired ones apart.
THEOREM NoRowIsLost == Spec => []RowsOutliveRotations
<1>1. IInv => RowsOutliveRotations
  <2> SUFFICES ASSUME IInv, NEW i \in Instance, NEW row \in rows, Running(i),
                      VariableFor(i, row) = row.variable,
                      row.variable.form = "padded" =>
                          row.keyId \in {NoName, process[i].config.active[row.domain]}
               PROVE  Opens(i, row.domain, row)
    BY DEF RowsOutliveRotations
  <2> DEFINE env == process[i].env
             domain == row.domain
             id == row.keyId
  <2>1. /\ env \in Environment /\ Valid(env) /\ process[i].config = Validated(env)
        /\ row \in Row /\ row.key = row.variable.bytes /\ row.aad = Aad(domain, id)
    BY RunningProcess DEF IInv, TypeOK, Sealed
  <2>2. CASE id = NoName
    <3>1. process[i].config.master.bytes = env.master.bytes
      BY <2>1, ValidatedTypes, EnvironmentTypes, TrimmedText DEF MasterKey
    <3> QED
      BY <2>1, <2>2, <3>1 DEF Opens, KeyFor, VariableFor
  <2>3. CASE id # NoName
    <3>1. domain \in Domain /\ id \in KeyId /\ row.key \in Bytes
      BY <2>1, <2>3 DEF Row
    <3>2. env.keys[domain][id] = row.variable /\ row.variable \in Text
      BY <2>1, <2>3 DEF VariableFor, Row
    <3> DEFINE text == process[i].config.keys[domain][id]
    <3>3. text = IF id = env.active[domain] THEN Trimmed(row.variable) ELSE row.variable
      BY <2>1, <3>1, <3>2, ValidatedTypes
    <3>4. text.bytes = row.key /\ text.form # "padded"
      <4>1. process[i].config.active = env.active
        BY <2>1, ValidatedTypes
      <4> QED
        BY <2>1, <2>3, <3>2, <3>3, <4>1, TrimmedText
    <3>5. DomainKey(i, domain, id) = row.key
      BY <3>1, <3>4, KeyIsConfigured DEF IsHexKey
    <3> QED
      BY <2>1, <2>3, <3>5 DEF Opens, KeyFor
  <2> QED
    BY <2>2, <2>3
<1> QED
  BY <1>1, Invariance, PTL

\* The two domains never open each other's rows.
THEOREM DomainsStaySeparate == Spec => []DomainsAreSeparate
<1>1. IInv => DomainsAreSeparate
  BY DEF IInv, Sealed, DomainsAreSeparate, Opens, Aad
<1> QED
  BY <1>1, Invariance, PTL
=============================================================================
