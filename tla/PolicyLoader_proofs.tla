------------------------- MODULE PolicyLoader_proofs -------------------------
(***************************************************************************)
(* What reloads keep: the types with any number of threads, and, as long   *)
(* as one thread reloads and reads, as in the service's event loop, that   *)
(* the policy and the keys in force are those of the last successful load. *)
(***************************************************************************)
EXTENDS PolicyLoader, SequenceTheorems, TLAPS

\* A cache of resolved keys.
KeyCache(k) == DOMAIN k \subseteq System /\ k \in [DOMAIN k -> EncKey]

\* The keys of a cache are those the last successful load resolved.
Agrees(p, k) ==
    /\ p = loaded.policy
    /\ \A s \in SystemsOf(p) : s \in DOMAIN k /\ k[s] = loaded.keys[s]

\* Every system of the policy has a key, what a thread has saved can be put
\* back, and it has read one system only before it asks for the key.
SavedTypes ==
    /\ SystemsOf(policy) \subseteq DOMAIN keys
    /\ DOMAIN saved = Thread /\ DOMAIN seen = Thread
    /\ \A t \in Thread :
          /\ pc[t] \in {"saved", "failed"} => KeyCache(saved[t].keys)
          /\ pc[t] = "configured" => \E c \in SystemConfig : seen[t] = <<c>>

\* The service's event loop.
OneThread == \A t, u \in Thread : t = u

\* With one thread: the policy in force, or the saved one, is the last load's,
\* and a tokenizer that has read a configuration read it from that load.
LoadedInForce ==
    /\ (\A t \in Thread : pc[t] # "failed") => Agrees(policy, keys)
    /\ \A t \in Thread :
          /\ pc[t] \in {"saved", "failed"} => Agrees(saved[t].policy, saved[t].keys)
          /\ pc[t] = "configured" =>
                \E i \in DOMAIN loaded.policy : seen[t] = <<loaded.policy[i]>>

-----------------------------------------------------------------------------
(* Loads. *)

\* What a policy is.
LEMMA PolicyIs ==
    ASSUME NEW p \in Policies
    PROVE  /\ Len(p) \in Nat /\ DOMAIN p = 1..Len(p)
           /\ \A i \in DOMAIN p : p[i] \in SystemConfig /\ p[i].system \in System /\ p[i].ref \in KeyRef
           /\ SystemsOf(p) \subseteq System
<1>1. p \in Seq(SystemConfig)
  BY PoliciesAssumption
<1>2. Len(p) \in Nat /\ DOMAIN p = 1..Len(p) /\ \A i \in 1..Len(p) : p[i] \in SystemConfig
  BY <1>1
<1>3. \A c \in SystemConfig : c.system \in System /\ c.ref \in KeyRef
  BY DEF SystemConfig
<1>4. QED
  BY <1>2, <1>3 DEF SystemsOf

\* The systems of the first n entries.
LEMMA FirstSystems ==
    ASSUME NEW p \in Policies, NEW n \in 0..Len(p)
    PROVE  /\ SystemsOf(SubSeq(p, 1, n)) = {p[i].system : i \in 1..n}
           /\ SystemsOf(SubSeq(p, 1, n)) \subseteq SystemsOf(p)
<1>1. Len(p) \in Nat /\ DOMAIN p = 1..Len(p) /\ p \in Seq(SystemConfig)
  BY PolicyIs, PoliciesAssumption
<1> DEFINE q == SubSeq(p, 1, n)
<1>2. DOMAIN q = 1..n /\ \A i \in 1..n : q[i] = p[i] /\ i \in DOMAIN p
  BY <1>1
<1> HIDE DEF q
<1>3. SystemsOf(q) = {p[i].system : i \in 1..n}
  BY <1>2 DEF SystemsOf
<1>4. QED
  BY <1>2, <1>3 DEF SystemsOf, q

\* The keys of the first n systems, if their references resolve.
LEMMA ResolvedKeys ==
    ASSUME TypeOK, NEW p \in Policies, NEW n \in 0..Len(p),
           \A i \in 1..n : Resolved(p, i)
    PROVE  \A s \in SystemsOf(SubSeq(p, 1, n)) : s \in SystemsOf(p) /\ KeysOf(p)[s] \in EncKey
<1> SUFFICES ASSUME NEW s \in SystemsOf(SubSeq(p, 1, n))
             PROVE  s \in SystemsOf(p) /\ KeysOf(p)[s] \in EncKey
  OBVIOUS
<1>1. s \in SystemsOf(p)
  BY FirstSystems
<1> DEFINE i == CHOOSE i \in DOMAIN p : p[i].system = s
<1>2. i \in DOMAIN p /\ p[i].system = s
  BY <1>1 DEF SystemsOf
<1>3. PICK j \in 1..n : p[j].system = s
  BY FirstSystems
<1>4. j \in DOMAIN p
  BY PolicyIs
<1>5. i = j
  BY <1>2, <1>3, <1>4, PoliciesAssumption
<1>6. KeysOf(p)[s] = secret[p[i].ref]
  BY <1>1 DEF KeysOf
<1> HIDE DEF i
<1>7. secret[p[j].ref] # Unset /\ p[j].ref \in KeyRef
  BY <1>3, <1>4, PolicyIs DEF Resolved
<1>8. QED
  BY <1>1, <1>5, <1>6, <1>7 DEF TypeOK

\* The cache after a load, whether or not it got to the end.
LEMMA CachedKeys ==
    ASSUME TypeOK, NEW p \in Policies, NEW n \in 0..Len(p),
           \A i \in 1..n : Resolved(p, i)
    PROVE  KeyCache(Cached(p, n))
<1> DEFINE S == SystemsOf(SubSeq(p, 1, n))
           k == Cached(p, n)
<1>1. DOMAIN keys \subseteq System /\ keys \in [DOMAIN keys -> EncKey]
  BY DEF TypeOK
<1>2. S \subseteq System
  BY FirstSystems, PolicyIs
<1>3. \A s \in S : KeysOf(p)[s] \in EncKey
  BY ResolvedKeys
<1>4. k = [s \in DOMAIN keys \cup S |-> IF s \in S THEN KeysOf(p)[s] ELSE keys[s]]
  BY DEF Cached
<1> HIDE DEF S, k
<1>5. k \in [DOMAIN keys \cup S -> EncKey]
  BY <1>1, <1>3, <1>4
<1>6. QED
  BY <1>1, <1>2, <1>5 DEF KeyCache, k

\* A load that succeeds.
LEMMA LoadedKeys ==
    ASSUME TypeOK, LoadSucceeds
    PROVE  /\ policy' \in Policies /\ KeyCache(keys') /\ Agrees(policy, keys)'
           /\ loaded'.policy \in Policies /\ DOMAIN loaded'.keys = SystemsOf(loaded'.policy)
<1>1. /\ file \in Policies /\ policy' = file /\ keys' = Cached(file, Len(file))
      /\ loaded' = [policy |-> file, keys |-> KeysOf(file)]
      /\ \A i \in DOMAIN file : Resolved(file, i)
  BY DEF LoadSucceeds, TypeOK
<1>2. Len(file) \in 0..Len(file) /\ DOMAIN file = 1..Len(file)
  BY <1>1, PolicyIs
<1>3. KeyCache(keys')
  BY <1>1, <1>2, CachedKeys
<1>4. SystemsOf(SubSeq(file, 1, Len(file))) = SystemsOf(file)
  BY <1>1, <1>2, FirstSystems DEF SystemsOf
<1>5. \A s \in SystemsOf(file) : s \in DOMAIN Cached(file, Len(file)) /\ Cached(file, Len(file))[s] = KeysOf(file)[s]
  BY <1>4 DEF Cached
<1>6. Agrees(policy, keys)'
  BY <1>1, <1>5 DEF Agrees
<1>7. DOMAIN loaded'.keys = SystemsOf(loaded'.policy)
  BY <1>1 DEF KeysOf
<1>8. QED
  BY <1>1, <1>3, <1>6, <1>7

\* A load that fails leaves a cache of keys, too.
LEMMA FailedKeys ==
    ASSUME TypeOK, LoadFails
    PROVE  /\ KeyCache(keys') /\ DOMAIN keys \subseteq DOMAIN keys'
           /\ UNCHANGED <<policy, loaded>>
<1>1. CASE file = Invalid /\ UNCHANGED keys
  BY <1>1 DEF TypeOK, KeyCache, LoadFails
<1>2. CASE file # Invalid
  <2>1. file \in Policies
    BY <1>2 DEF TypeOK
  <2>2. PICK i \in DOMAIN file : /\ \A j \in 1..(i - 1) : Resolved(file, j)
                                 /\ keys' = Cached(file, i - 1)
    BY <1>2 DEF LoadFails
  <2>3. i - 1 \in 0..Len(file)
    BY <2>1, PolicyIs
  <2>4. DOMAIN keys \subseteq DOMAIN Cached(file, i - 1)
    BY DEF Cached
  <2>5. QED
    BY <2>1, <2>2, <2>3, <2>4, CachedKeys DEF LoadFails
<1>3. QED
  BY <1>1, <1>2 DEF LoadFails

-----------------------------------------------------------------------------
(* Types, for any number of threads. *)

LoaderTypes == TypeOK /\ SavedTypes

\* Every region and every edit keeps the types.
LEMMA TypesKept == LoaderTypes /\ [Next]_vars => LoaderTypes'
<1> SUFFICES ASSUME TypeOK, SavedTypes, [Next]_vars
             PROVE  LoaderTypes'
  BY DEF LoaderTypes
<1> USE DEF LoaderTypes
<1>1. CASE Edit
  BY <1>1, MarkersAssumption DEF Edit, TypeOK, SavedTypes
<1>2. ASSUME NEW t \in Thread, Save(t)
      PROVE  LoaderTypes'
  <2>1. /\ pc' \in [Thread -> {"idle", "saved", "failed", "configured"}]
        /\ DOMAIN saved' = Thread
        /\ saved'[t] = [policy |-> policy, keys |-> keys]
        /\ \A u \in Thread \ {t} : saved'[u] = saved[u] /\ pc'[u] = pc[u]
        /\ pc'[t] = "saved"
        /\ UNCHANGED <<file, secret, policy, keys, seen, loaded>>
    BY <1>2 DEF Save, TypeOK, SavedTypes
  <2>2. TypeOK'
    <3>1. ASSUME NEW u \in Thread
          PROVE  /\ saved'[u].policy \in Policies \cup {NoPolicy}
                 /\ pc'[u] \in {"saved", "failed"} =>
                       /\ saved'[u].policy \in Policies
                       /\ SystemsOf(saved'[u].policy) \subseteq DOMAIN saved'[u].keys
      BY <2>1 DEF TypeOK, SavedTypes
    <3>2. QED
      BY <2>1, <3>1 DEF TypeOK
  <2>3. SavedTypes'
    BY <2>1 DEF SavedTypes, TypeOK, KeyCache
  <2>4. QED
    BY <2>2, <2>3
<1>3. ASSUME NEW t \in Thread, Load(t)
      PROVE  LoaderTypes'
  <2>1. UNCHANGED <<file, secret, saved, seen>> /\ pc' \in [Thread -> {"idle", "saved", "failed", "configured"}]
    BY <1>3 DEF Load, TypeOK
  <2>2. /\ policy' \in Policies /\ KeyCache(keys') /\ SystemsOf(policy') \subseteq DOMAIN keys'
        /\ loaded'.policy \in Policies /\ DOMAIN loaded'.keys = SystemsOf(loaded'.policy)
    <3>1. CASE LoadSucceeds
      BY <3>1, LoadedKeys DEF Agrees
    <3>2. CASE LoadFails
      BY <3>2, FailedKeys DEF TypeOK, SavedTypes
    <3>3. QED
      BY <1>3, <3>1, <3>2 DEF Load
  <2>3. QED
    BY <1>3, <2>1, <2>2 DEF Load, TypeOK, SavedTypes, KeyCache
<1>4. ASSUME NEW t \in Thread, Restore(t)
      PROVE  LoaderTypes'
  BY <1>4 DEF Restore, Restored, TypeOK, SavedTypes, KeyCache
<1>5. ASSUME NEW t \in Thread, NEW s \in System, GetSystemConfig(t, s)
      PROVE  LoaderTypes'
  BY <1>5, PolicyIs DEF GetSystemConfig, TypeOK, SavedTypes
<1>6. ASSUME NEW t \in Thread, GetEncryptionKey(t)
      PROVE  LoaderTypes'
  <2>1. PICK c \in SystemConfig : seen[t] = <<c>>
    BY <1>6 DEF GetEncryptionKey, SavedTypes
  <2>2. PICK k : seen' = [seen EXCEPT ![t] = <<c, k>>]
    <3>1. ASSUME NEW k
          PROVE  Append(<<c>>, k) = <<c, k>>
      <4>1. <<c>> \in Seq({c, k}) /\ <<c, k>> \in Seq({c, k}) /\ k \in {c, k}
        OBVIOUS
      <4>2. Append(<<c>>, k) \in Seq({c, k}) /\ Len(Append(<<c>>, k)) = 2
        BY <4>1
      <4>3. \A i \in 1..2 : Append(<<c>>, k)[i] = <<c, k>>[i]
        BY <4>1
      <4>4. QED
        BY <4>1, <4>2, <4>3, SeqEqual
    <3>2. CASE c.system \in DOMAIN keys
      BY <1>6, <2>1, <3>1, <3>2 DEF GetEncryptionKey
    <3>3. CASE c.system \notin DOMAIN keys
      BY <1>6, <2>1, <3>1, <3>3 DEF GetEncryptionKey
    <3>4. QED
      BY <3>2, <3>3
  <2>3. Len(<<c, k>>) \in 0..2
    OBVIOUS
  <2>4. /\ pc' = [pc EXCEPT ![t] = "idle"]
        /\ UNCHANGED <<file, secret, policy, keys, saved, loaded>>
    BY <1>6 DEF GetEncryptionKey
  <2>5. \A u \in Thread : Len(seen'[u]) \in 0..2 /\ (u # t => seen'[u] = seen[u])
    BY <2>2, <2>3 DEF TypeOK, SavedTypes
  <2>6. TypeOK'
    BY <2>4, <2>5 DEF TypeOK
  <2>7. SavedTypes'
    BY <2>2, <2>4, <2>5 DEF SavedTypes, TypeOK
  <2>8. QED
    BY <2>6, <2>7
<1>7. CASE UNCHANGED vars
  BY <1>7 DEF vars, TypeOK, SavedTypes
<1>8. QED
  BY <1>1, <1>2, <1>3, <1>4, <1>5, <1>6, <1>7 DEF Next

-----------------------------------------------------------------------------
(* One thread. *)

\* With one thread, every region keeps the last load in force.
LEMMA ForceKept == OneThread /\ LoaderTypes /\ LoadedInForce /\ [Next]_vars => LoadedInForce'
<1> SUFFICES ASSUME OneThread, TypeOK, SavedTypes, LoadedInForce, [Next]_vars
             PROVE  LoadedInForce'
  BY DEF LoaderTypes
<1> USE DEF SavedTypes, LoadedInForce
<1>0. /\ pc \in [Thread -> {"idle", "saved", "failed", "configured"}]
      /\ \A t, u \in Thread : t = u
  BY DEF TypeOK, OneThread
<1>1. CASE Edit \/ UNCHANGED vars
  BY <1>1 DEF Edit, vars, Agrees
<1>2. ASSUME NEW t \in Thread, Save(t)
      PROVE  LoadedInForce'
  <2>1. /\ pc'[t] = "saved" /\ saved'[t] = [policy |-> policy, keys |-> keys]
        /\ pc[t] = "idle" /\ UNCHANGED <<policy, keys, loaded>>
    BY <1>0, <1>2 DEF Save
  <2>2. Agrees(policy, keys) /\ \A u \in Thread : u = t
    BY <1>0, <2>1
  <2>3. Agrees(saved[t].policy, saved[t].keys)'
    BY <2>1, <2>2 DEF Agrees
  <2>4. QED
    BY <2>1, <2>2, <2>3 DEF Agrees
<1>3. ASSUME NEW t \in Thread, Load(t)
      PROVE  LoadedInForce'
  <2>1. pc[t] = "saved" /\ UNCHANGED <<saved, seen>> /\ \A u \in Thread : u = t
    BY <1>0, <1>3 DEF Load
  <2>2. CASE LoadSucceeds /\ pc' = [pc EXCEPT ![t] = "idle"]
    <3>1. pc'[t] = "idle" /\ Agrees(policy, keys)'
      BY <1>0, <2>2, LoadedKeys
    <3>2. QED
      BY <2>1, <3>1
  <2>3. CASE LoadFails /\ pc' = [pc EXCEPT ![t] = "failed"]
    <3>1. pc'[t] = "failed" /\ UNCHANGED loaded
      BY <1>0, <2>3, FailedKeys
    <3>2. Agrees(saved[t].policy, saved[t].keys)'
      BY <2>1, <3>1 DEF Agrees
    <3>3. QED
      BY <2>1, <3>1, <3>2
  <2>4. QED
    BY <1>3, <2>2, <2>3 DEF Load
<1>4. ASSUME NEW t \in Thread, Restore(t)
      PROVE  LoadedInForce'
  <2>1. /\ pc[t] = "failed" /\ pc'[t] = "idle" /\ \A u \in Thread : u = t
        /\ policy' = saved[t].policy /\ keys' = saved[t].keys /\ UNCHANGED loaded
    BY <1>0, <1>4 DEF Restore, Restored
  <2>2. Agrees(policy, keys)'
    BY <2>1 DEF Agrees
  <2>3. QED
    BY <2>1, <2>2
<1>5. ASSUME NEW t \in Thread, NEW s \in System, GetSystemConfig(t, s)
      PROVE  LoadedInForce'
  <2>1. PICK i \in DOMAIN policy : seen' = [seen EXCEPT ![t] = <<policy[i]>>]
    BY <1>5 DEF GetSystemConfig
  <2>2. /\ pc[t] = "idle" /\ pc'[t] = "configured" /\ \A u \in Thread : u = t
        /\ seen'[t] = <<policy[i]>> /\ UNCHANGED <<policy, keys, loaded>>
    BY <1>0, <1>5, <2>1 DEF GetSystemConfig
  <2>3. Agrees(policy, keys) /\ Agrees(policy, keys)'
    BY <2>2 DEF Agrees
  <2>4. \E j \in DOMAIN loaded'.policy : seen'[t] = <<loaded'.policy[j]>>
    BY <2>2, <2>3 DEF Agrees
  <2>5. QED
    BY <2>2, <2>3, <2>4
<1>6. ASSUME NEW t \in Thread, GetEncryptionKey(t)
      PROVE  LoadedInForce'
  <2>1. /\ pc[t] = "configured" /\ pc'[t] = "idle" /\ \A u \in Thread : u = t
        /\ UNCHANGED <<policy, keys, loaded>>
    BY <1>0, <1>6 DEF GetEncryptionKey
  <2>2. Agrees(policy, keys) /\ Agrees(policy, keys)'
    BY <2>1 DEF Agrees
  <2>3. QED
    BY <2>1, <2>2
<1>7. QED
  BY <1>1, <1>2, <1>3, <1>4, <1>5, <1>6 DEF Next

\* With one thread, configuration and key are read from one load.
LEMMA ReadFromOneLoad ==
    ASSUME OneThread, LoaderTypes, LoadedInForce, [Next]_vars,
           NEW t \in Thread, Len(seen'[t]) = 2, seen'[t] # seen[t]
    PROVE  /\ seen'[t][1] \in {loaded.policy[i] : i \in DOMAIN loaded.policy}
           /\ seen'[t][2] = loaded.keys[seen'[t][1].system]
<1> USE DEF LoaderTypes
<1>1. ASSUME NEW u \in Thread, NEW s \in System, GetSystemConfig(u, s)
      PROVE  FALSE
  BY <1>1 DEF GetSystemConfig, OneThread, TypeOK
<1>2. ASSUME NEW u \in Thread, GetEncryptionKey(u)
      PROVE  /\ seen'[t][1] \in {loaded.policy[i] : i \in DOMAIN loaded.policy}
             /\ seen'[t][2] = loaded.keys[seen'[t][1].system]
  <2>1. u = t /\ pc[t] = "configured" /\ \A v \in Thread : pc[v] # "failed"
    BY <1>2 DEF GetEncryptionKey, OneThread
  <2>2. PICK i \in DOMAIN loaded.policy : seen[t] = <<loaded.policy[i]>>
    BY <2>1 DEF LoadedInForce
  <2>3. Agrees(policy, keys)
    BY <2>1 DEF LoadedInForce
  <2>4. loaded.policy[i].system \in DOMAIN keys
        /\ keys[loaded.policy[i].system] = loaded.keys[loaded.policy[i].system]
    BY <2>2, <2>3 DEF Agrees, SystemsOf
  <2>5. seen'[t] = Append(seen[t], keys[loaded.policy[i].system])
    BY <1>2, <2>1, <2>2, <2>4 DEF GetEncryptionKey
  <2>6. QED
    BY <2>2, <2>4, <2>5
<1>3. QED
  BY <1>1, <1>2 DEF Next, Edit, Save, Load, Restore, vars

-----------------------------------------------------------------------------
(* The theorems. *)

\* What the first load gives.
LEMMA InitInv == Init => LoaderTypes /\ LoadedInForce
<1> SUFFICES ASSUME Init
             PROVE  LoaderTypes /\ LoadedInForce
  OBVIOUS
<1>1. /\ file \in Policies /\ policy = file /\ keys = KeysOf(file)
      /\ secret \in [KeyRef -> EncKey]
      /\ pc = [t \in Thread |-> "idle"]
      /\ saved = [t \in Thread |-> [policy |-> NoPolicy, keys |-> NoKeys]]
      /\ seen = [t \in Thread |-> <<>>]
      /\ loaded = [policy |-> file, keys |-> KeysOf(file)]
  BY DEF Init
<1>2. DOMAIN keys = SystemsOf(file) /\ DOMAIN keys \subseteq System
  BY <1>1, PolicyIs DEF KeysOf
<1>3. ASSUME NEW s \in SystemsOf(file)
      PROVE  keys[s] \in EncKey
  <2> DEFINE i == CHOOSE i \in DOMAIN file : file[i].system = s
  <2>1. i \in DOMAIN file
    BY DEF SystemsOf
  <2>2. keys[s] = secret[file[i].ref]
    BY <1>1 DEF KeysOf
  <2> HIDE DEF i
  <2>3. QED
    BY <1>1, <2>1, <2>2, PolicyIs
<1>4. keys \in [DOMAIN keys -> EncKey]
  <2>1. keys = [s \in DOMAIN keys |-> keys[s]]
    BY <1>1 DEF KeysOf
  <2>2. QED
    BY <1>2, <1>3, <2>1
<1>5. TypeOK
  BY <1>1, <1>2, <1>4 DEF TypeOK
<1>6. SavedTypes /\ LoadedInForce
  BY <1>1, <1>2 DEF SavedTypes, LoadedInForce, Agrees
<1>7. QED
  BY <1>5, <1>6 DEF LoaderTypes

\* Policy, cache and saved copies have their types under any number of threads.
THEOREM LoaderTypeCorrect == Spec => []TypeOK
<1>1. LoaderTypes => TypeOK
  BY DEF LoaderTypes
<1>2. QED
  BY <1>1, InitInv, TypesKept, PTL DEF Spec

\* In the service's event loop the policy and the keys in force are those of
\* the last load that succeeded, however reloads fail (reload_policy).
THEOREM LastLoadStaysInForce == OneThread /\ Spec => []LastLoadInForce
<1>1. LoadedInForce => LastLoadInForce
  BY DEF LoadedInForce, LastLoadInForce, Agrees
<1>2. OneThread => OneThread'
  OBVIOUS
<1>3. QED
  BY <1>1, <1>2, InitInv, TypesKept, ForceKept, PTL DEF Spec

\* In the service's event loop a tokenizer gets configuration and key from one
\* successful load (get_system_config, get_encryption_key).
THEOREM OneLoadIsRead == OneThread /\ Spec => ConfigAndKeyFromOneLoad
<1> DEFINE A == \A t \in Thread :
                   Len(seen'[t]) = 2 /\ seen'[t] # seen[t] =>
                       /\ seen'[t][1] \in {loaded.policy[i] : i \in DOMAIN loaded.policy}
                       /\ seen'[t][2] = loaded.keys[seen'[t][1].system]
<1>1. OneThread /\ LoaderTypes /\ LoadedInForce /\ [Next]_vars => [A]_vars
  BY ReadFromOneLoad
<1>2. OneThread => OneThread'
  OBVIOUS
<1> HIDE DEF A
<1>3. OneThread /\ Spec => [][A]_vars
  BY <1>1, <1>2, InitInv, TypesKept, ForceKept, PTL DEF Spec
<1>4. QED
  BY <1>3 DEF ConfigAndKeyFromOneLoad, A
=============================================================================
