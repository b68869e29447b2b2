-------------------------- MODULE TokenStoreSystem --------------------------
(***************************************************************************)
(* The token store under clients that make any of the given calls:         *)
(* store_batch with one or several TTLs, retrieve_batch, in any            *)
(* interleaving with each other, the server and key expiry.                *)
(***************************************************************************)
EXTENDS TokenStore

CONSTANTS Batches,   \* the lists of mappings clients store
          Queries    \* the lists of keys clients retrieve

ASSUME BatchesAssumption == \A b \in Batches : IsBatch(b)
ASSUME QueriesAssumption == \A q \in Queries : IsQuery(q)

Next ==
    \/ \E c \in Call, b \in Batches : StoreBatch(c, b)
    \/ \E c \in Call, q \in Queries : RetrieveBatch(c, q)
    \/ StoreStep

Spec == StoreInit /\ [][Next]_storeVars /\ StoreFairness

-----------------------------------------------------------------------------
\* A GET that finds nothing for a key which a finished store_batch wrote means
\* that the key has expired: a retrieve never overtakes an acknowledged write.
ReadsSeeAcknowledgedWrites ==
    [][\A c \in Call : \A p \in DOMAIN got'[c] \ DOMAIN got[c] :
          got'[c][p] = NotFound =>
              \A w \in Call : status[w] = "done" =>
                  \A o \in DOMAIN batch[w] :
                      KeyOf(batch[w][o]) = query[c][p] => query[c][p] \in expired]_storeVars

\* Every call of the store returns or raises: each attempt is bounded by
\* socket_timeout and the client makes MaxAttempts of them per command.
EveryCallReturns ==
    \A c \in Call : status[c] \in {"writing", "reading"} ~> status[c] \in {"done", "failed"}
=============================================================================
