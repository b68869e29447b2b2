----------------------- MODULE TokenStoreSystem_proofs -----------------------
(***************************************************************************)
(* The safety of the token store under any clients: for every set of       *)
(* systems, tokens, blobs, batches and queries, every number of concurrent *)
(* calls and every number of attempts.                                     *)
(***************************************************************************)
EXTENDS TokenStoreSystem, TokenStore_proofs

\* Every step of the store and its clients preserves the invariant.
LEMMA SystemStepInv == StoreInv /\ [Next]_storeVars => StoreInv'
<1>. SUFFICES ASSUME StoreInv, [Next]_storeVars PROVE StoreInv'
  OBVIOUS
<1>1. CASE \E c \in Call, b \in Batches : StoreBatch(c, b)
  BY <1>1, BatchesAssumption, StoreBatchInv
<1>2. CASE \E c \in Call, q \in Queries : RetrieveBatch(c, q)
  BY <1>2, QueriesAssumption, RetrieveBatchInv
<1>3. CASE StoreStep
  BY <1>3, StoreStepInv
<1>4. CASE UNCHANGED storeVars
  BY <1>4, StoreStutterInv
<1>. QED BY <1>1, <1>2, <1>3, <1>4 DEF Next

\* The store's calls, replies and entries stay consistent (token_store.py:125).
THEOREM StoreInvariant == Spec => []StoreInv
<1>. QED BY StoreInitInv, SystemStepInv, PTL DEF Spec

\* Every variable of the store keeps its type.
THEOREM StoreTypeCorrect == Spec => []StoreTypeOK
<1>1. StoreInv => StoreTypeOK
  BY DEF StoreInv
<1>. QED BY <1>1, StoreInvariant, PTL

\* A store_batch that returned wrote every mapping it was given, whatever was
\* resent, duplicated, reordered or late (token_store.py:125-187).
THEOREM AcknowledgedWritesArePersistent == Spec => []AcknowledgedWritesPersist
<1>. QED BY StoreInvariant, StoreInvImpliesPersistence, PTL

\* No entry of the server mixes one mapping's key with another's blob or TTL
\* (token_store.py:142-179).
THEOREM EntriesOriginate == Spec => []EntriesComeFromBatches
<1>1. StoreInv => EntriesComeFromBatches
  BY DEF StoreInv
<1>. QED BY <1>1, StoreInvariant, PTL

\* retrieve_batch never overtakes a store_batch that has returned
\* (token_store.py:227-268).
THEOREM AcknowledgedWritesAreSeen == Spec => ReadsSeeAcknowledgedWrites
<1>1. StoreInv /\ [Next]_storeVars => [ReadSeesWrites]_storeVars
  <2>. SUFFICES ASSUME StoreInv, Next PROVE ReadSeesWrites
    OBVIOUS
  <2>1. CASE StoreStep
    BY <2>1, StoreStepReads
  <2>2. CASE got' = got
    BY <2>2 DEF ReadSeesWrites
  <2>3. StoreStep \/ got' = got
    BY DEF Next, StoreBatch, RetrieveBatch
  <2>. QED BY <2>1, <2>2, <2>3
<1>. QED BY <1>1, StoreInvariant, PTL DEF Spec, ReadsSeeAcknowledgedWrites, ReadSeesWrites
=============================================================================
