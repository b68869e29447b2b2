---------------------------- MODULE PolicyLoader ----------------------------
(***************************************************************************)
(* core/policy_loader.py: the loaded policy, the cache of resolved keys,   *)
(* and the lock both are guarded by.  An action of a thread is one region  *)
(* in which it holds the lock.  On the service's one event loop nothing    *)
(* runs between the regions of a reload (Thread is a singleton); the class *)
(* itself offers its operations to any number of threads.                  *)
(***************************************************************************)
EXTENDS Naturals, Sequences

CONSTANTS Thread,     \* the threads that use the loader
          System,     \* system identifiers
          KeyRef,     \* encryption_key_ref: env: and file: references
          EncKey,     \* 32-byte keys
          Unset,      \* a reference that does not resolve to a key
          Policies,   \* valid contents of the policy file
          Invalid,    \* a file that is missing, not YAML, or not a Policy
          NoPolicy

\* A policy is its list of systems, in which a system occurs once.
SystemConfig == [system: System, ref: KeyRef]

ASSUME PoliciesAssumption ==
    \A p \in Policies : /\ p \in Seq(SystemConfig)
                        /\ \A i, j \in DOMAIN p : p[i].system = p[j].system => i = j
ASSUME MarkersAssumption == Invalid \notin Policies /\ NoPolicy \notin Policies /\ Unset \notin EncKey

VARIABLES file,     \* what the policy file holds
          secret,   \* what each key reference resolves to
          policy,   \* self.policy
          keys,     \* self._encryption_keys: system -> key
          pc,       \* control state of each thread
          saved,    \* old_policy and old_keys of a thread's reload
          seen,     \* what a tokenizer on the thread got: [system, config, key]
          loaded    \* history: policy and keys of the last successful load

vars == <<file, secret, policy, keys, pc, saved, seen, loaded>>

NoKeys == [s \in {} |-> Unset]

-----------------------------------------------------------------------------
SystemsOf(p) == {p[i].system : i \in DOMAIN p}

\* resolve_encryption_key of every system of p.
KeysOf(p) ==
    [s \in SystemsOf(p) |-> secret[p[CHOOSE i \in DOMAIN p : p[i].system = s].ref]]

\* Fault: keys already in the cache are kept.
CachedKeepingOld(p, n) ==
    [s \in DOMAIN keys \cup SystemsOf(SubSeq(p, 1, n)) |->
        IF s \in DOMAIN keys THEN keys[s] ELSE KeysOf(p)[s]]

\* The cache after load_policy resolved the first n systems of p.
Cached(p, n) ==
    [s \in DOMAIN keys \cup SystemsOf(SubSeq(p, 1, n)) |->
        IF s \in SystemsOf(SubSeq(p, 1, n)) THEN KeysOf(p)[s] ELSE keys[s]]

\* Fault: a reference that does not resolve goes unnoticed.
ResolvedUnchecked(p, i) == TRUE

Resolved(p, i) == secret[p[i].ref] # Unset

\* load_policy's region when the file is valid and all its keys resolve.
LoadSucceeds ==
    /\ file # Invalid
    /\ \A i \in DOMAIN file : Resolved(file, i)
    /\ policy' = file
    /\ keys' = Cached(file, Len(file))
    /\ loaded' = [policy |-> file, keys |-> KeysOf(file)]

\* load_policy raises; keys resolved before the one that failed are cached.
LoadFails ==
    /\ \/ file = Invalid /\ UNCHANGED keys
       \/ /\ file # Invalid
          /\ \E i \in DOMAIN file :
                /\ ~Resolved(file, i)
                /\ \A j \in 1..(i - 1) : Resolved(file, j)
                /\ keys' = Cached(file, i - 1)
    /\ UNCHANGED <<policy, loaded>>

-----------------------------------------------------------------------------
\* initialize_components: the first load; if it fails the service stops.
Init ==
    /\ file \in Policies
    /\ secret \in [KeyRef -> EncKey]
    /\ policy = file
    /\ keys = KeysOf(file)
    /\ pc = [t \in Thread |-> "idle"]
    /\ saved = [t \in Thread |-> [policy |-> NoPolicy, keys |-> NoKeys]]
    /\ seen = [t \in Thread |-> <<>>]
    /\ loaded = [policy |-> file, keys |-> KeysOf(file)]

\* An operator edits the policy file or a key file, or removes a key.
Edit ==
    /\ \/ file' \in Policies \cup {Invalid} /\ UNCHANGED secret
       \/ secret' \in {[secret EXCEPT ![r] = k] : r \in KeyRef, k \in EncKey \cup {Unset}}
          /\ UNCHANGED file
    /\ UNCHANGED <<policy, keys, pc, saved, seen, loaded>>

\* reload_policy, first region: save the policy and a copy of the keys.
Save(t) ==
    /\ pc[t] = "idle"
    /\ pc' = [pc EXCEPT ![t] = "saved"]
    /\ saved' = [saved EXCEPT ![t] = [policy |-> policy, keys |-> keys]]
    /\ UNCHANGED <<file, secret, policy, keys, seen, loaded>>

\* reload_policy, second region: load_policy.
Load(t) ==
    /\ pc[t] = "saved"
    /\ \/ LoadSucceeds /\ pc' = [pc EXCEPT ![t] = "idle"]
       \/ LoadFails /\ pc' = [pc EXCEPT ![t] = "failed"]
    /\ UNCHANGED <<file, secret, saved, seen>>

\* Fault: the saved dictionary is the one load_policy wrote into.
RestoredAliased(t) == keys

\* old_keys is a copy.
Restored(t) == saved[t].keys

\* reload_policy, third region: a failed load is undone, and reload raises.
Restore(t) ==
    /\ pc[t] = "failed"
    /\ pc' = [pc EXCEPT ![t] = "idle"]
    /\ policy' = saved[t].policy
    /\ keys' = Restored(t)
    /\ UNCHANGED <<file, secret, saved, seen, loaded>>

\* get_system_config: raises if the system is not configured.
GetSystemConfig(t, s) ==
    /\ pc[t] = "idle"
    /\ \E i \in DOMAIN policy :
          /\ policy[i].system = s
          /\ seen' = [seen EXCEPT ![t] = <<policy[i]>>]
    /\ pc' = [pc EXCEPT ![t] = "configured"]
    /\ UNCHANGED <<file, secret, policy, keys, saved, loaded>>

\* get_encryption_key for the same system.
GetEncryptionKey(t) ==
    /\ pc[t] = "configured"
    /\ pc' = [pc EXCEPT ![t] = "idle"]
    /\ LET s == seen[t][1].system
       IN  seen' = [seen EXCEPT ![t] =
                       IF s \in DOMAIN keys THEN Append(@, keys[s]) ELSE Append(@, Unset)]
    /\ UNCHANGED <<file, secret, policy, keys, saved, loaded>>

Next ==
    \/ Edit
    \/ \E t \in Thread : Save(t)
    \/ \E t \in Thread : Load(t)
    \/ \E t \in Thread : Restore(t)
    \/ \E t \in Thread, s \in System : GetSystemConfig(t, s)
    \/ \E t \in Thread : GetEncryptionKey(t)

Spec == Init /\ [][Next]_vars
-----------------------------------------------------------------------------
TypeOK ==
    /\ file \in Policies \cup {Invalid}
    /\ secret \in [KeyRef -> EncKey \cup {Unset}]
    /\ policy \in Policies
    /\ DOMAIN keys \subseteq System /\ keys \in [DOMAIN keys -> EncKey]
    /\ pc \in [Thread -> {"idle", "saved", "failed", "configured"}]
    /\ \A t \in Thread :
          /\ saved[t].policy \in Policies \cup {NoPolicy}
          /\ pc[t] \in {"saved", "failed"} =>
                /\ saved[t].policy \in Policies
                /\ SystemsOf(saved[t].policy) \subseteq DOMAIN saved[t].keys
          /\ Len(seen[t]) \in 0..2
    /\ loaded.policy \in Policies /\ DOMAIN loaded.keys = SystemsOf(loaded.policy)

\* "Performs an atomic policy swap": unless a reload is about to undo its
\* failed load, the policy in force is the one of the last load that
\* succeeded, with the keys which that load resolved (reload_policy).
LastLoadInForce ==
    (\A t \in Thread : pc[t] # "failed") =>
        /\ policy = loaded.policy
        /\ \A s \in SystemsOf(policy) : s \in DOMAIN keys /\ keys[s] = loaded.keys[s]

\* A tokenizer that reads the configuration and then the key of a system gets
\* both from one successful load, however often reloads fail in between and
\* the key files change (get_system_config, get_encryption_key).
ConfigAndKeyFromOneLoad ==
    [][\A t \in Thread :
          Len(seen'[t]) = 2 /\ seen'[t] # seen[t] =>
              /\ seen'[t][1] \in {loaded.policy[i] : i \in DOMAIN loaded.policy}
              /\ seen'[t][2] = loaded.keys[seen'[t][1].system]]_vars
=============================================================================
