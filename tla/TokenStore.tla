----------------------------- MODULE TokenStore -----------------------------
(***************************************************************************)
(* core/token_store.py over one Redis server.  A call of the store is a    *)
(* coroutine of its caller: it sends a command, awaits the reply, and      *)
(* other calls, the server and key expiry run in between.                  *)
(*                                                                         *)
(* The redis-py client resends a command whose reply does not arrive       *)
(* (connection error or socket_timeout); the server may still execute      *)
(* every copy it was sent, in any order and after the call has returned.   *)
(***************************************************************************)
EXTENDS Naturals, FiniteSets

CONSTANTS System,       \* system identifiers
          Token,        \* strings that are looked up as tokens
          Blob,         \* encrypted values
          Index,        \* positions in a list of records and in a list of fields
          Call,         \* the calls of the store made in one behaviour
          MaxAttempts,  \* 1 + the retries of Retry(ExponentialBackoff(), 3)
          NotFound      \* what GET returns for an absent key

ASSUME MaxAttemptsAssumption == MaxAttempts \in Nat \ {0}
ASSUME IndexAssumption == Index \subseteq Nat /\ IsFiniteSet(Index)
ASSUME NotFoundAssumption == NotFound \notin Blob

VARIABLES db,       \* the server: key -> [blob, ttl]
          expired,  \* history: keys the server has expired
          wire,     \* commands sent and not executed: <<call, ttl, attempt>>
          status,   \* control state of each call
          batch,    \* store_batch: position -> mapping
          written,  \* store_batch: TTLs of the groups already acknowledged
          attempt,  \* number of the current attempt of the current command
          acked,    \* the reply to the current attempt is on its way
          query,    \* retrieve_batch: position -> key
          got       \* retrieve_batch: position -> what the pipeline's GET found

storeVars == <<db, expired, wire, status, batch, written, attempt, acked, query, got>>

-----------------------------------------------------------------------------
\* Fault: keys that do not carry the system.
BuildKeyUnscoped(system, token) == <<CHOOSE s \in System : TRUE, token>>

\* build_key: tokens are namespaced by the system.
BuildKey(system, token) == <<system, token>>

Mapping == [system: System, token: Token, blob: Blob, ttl: Nat]

KeyOf(m) == BuildKey(m.system, m.token)

\* A list of mappings is a function on positions; a position names the record
\* and the field a mapping comes from, and the list is in lexicographic order.
Position == Index \X Index

Precedes(p, q) == p[1] < q[1] \/ (p[1] = q[1] /\ p[2] < q[2])

IsBatch(b) == DOMAIN b \subseteq Position /\ b \in [DOMAIN b -> Mapping]

Nothing == [p \in {} |-> NotFound]

Ttls(b) == {b[p].ttl : p \in DOMAIN b}

Group(b, ttl) == {p \in DOMAIN b : b[p].ttl = ttl}

\* The TTL groups are written in the order of their first members.
NextTtl(b, done) ==
    b[CHOOSE p \in DOMAIN b :
        /\ b[p].ttl \notin done
        /\ \A q \in DOMAIN b : Precedes(q, p) => b[q].ttl \in done].ttl

CurrentTtl(c) == NextTtl(batch[c], written[c])

\* Fault: every key of a group gets the blob of the group's last mapping.
LastOfAll(b, G, k) == CHOOSE p \in G : \A q \in G : ~Precedes(p, q)

\* Of the mappings of a group with one key the last one stays.
LastOf(b, G, k) ==
    CHOOSE p \in G : /\ KeyOf(b[p]) = k
                     /\ \A q \in G : KeyOf(b[q]) = k => ~Precedes(p, q)

\* The Lua script (SET ... EX ttl per key) and MSET (ttl 0): one atomic
\* command that overwrites the blob and the expiry of every key of the group.
WriteGroup(b, ttl) ==
    LET G    == Group(b, ttl)
        keys == {KeyOf(b[p]) : p \in G}
    IN  [k \in DOMAIN db \cup keys |->
            IF k \in keys THEN [blob |-> b[LastOf(b, G, k)].blob, ttl |-> ttl] ELSE db[k]]

\* Fault: an entry without expiry is taken for an expired one.
LookupExpiring(k) == IF k \in DOMAIN db /\ db[k].ttl > 0 THEN db[k].blob ELSE NotFound

\* Fault: the entry is returned instead of its blob.
LookupEntry(k) == IF k \in DOMAIN db THEN db[k] ELSE NotFound

Lookup(k) == IF k \in DOMAIN db THEN db[k].blob ELSE NotFound

\* Fault: answers are zipped with the tokens out of step.
AnswerMisaligned(c, k) ==
    got[c][CHOOSE p \in DOMAIN query[c] : \A q \in DOMAIN query[c] : q <= p]

\* retrieve_batch's dict(zip(tokens, values)): the last GET of a key counts.
Answer(c, k) ==
    got[c][CHOOSE p \in DOMAIN query[c] :
              /\ query[c][p] = k
              /\ \A q \in DOMAIN query[c] : query[c][q] = k => q <= p]

-----------------------------------------------------------------------------
StoreInit ==
    /\ db = Nothing
    /\ expired = {}
    /\ wire = {}
    /\ status = [c \in Call |-> "idle"]
    /\ batch = [c \in Call |-> Nothing]
    /\ written = [c \in Call |-> {}]
    /\ attempt = [c \in Call |-> 0]
    /\ acked = [c \in Call |-> FALSE]
    /\ query = [c \in Call |-> Nothing]
    /\ got = [c \in Call |-> Nothing]

\* store_batch(mappings): returns at once for an empty list, else sends the
\* command of the first TTL group.
StoreBatch(c, b) ==
    /\ status[c] = "idle"
    /\ batch' = [batch EXCEPT ![c] = b]
    /\ IF DOMAIN b = {}
       THEN /\ status' = [status EXCEPT ![c] = "done"]
            /\ UNCHANGED <<wire, attempt>>
       ELSE /\ status' = [status EXCEPT ![c] = "writing"]
            /\ wire' = wire \cup {<<c, NextTtl(b, {}), 1>>}
            /\ attempt' = [attempt EXCEPT ![c] = 1]
    /\ UNCHANGED <<db, expired, written, acked, query, got>>

\* retrieve_batch(system_id, tokens), the keys already built.
RetrieveBatch(c, q) ==
    /\ status[c] = "idle"
    /\ query' = [query EXCEPT ![c] = q]
    /\ IF DOMAIN q = {}
       THEN /\ status' = [status EXCEPT ![c] = "done"]
            /\ UNCHANGED attempt
       ELSE /\ status' = [status EXCEPT ![c] = "reading"]
            /\ attempt' = [attempt EXCEPT ![c] = 1]
    /\ UNCHANGED <<db, expired, wire, batch, written, acked, got>>

\* Fault: a reply counts for whatever command the caller waits for.
IsCurrentAttempt(m) == status[m[1]] = "writing" /\ m[3] = attempt[m[1]]

IsCurrent(m) == /\ status[m[1]] = "writing"
                /\ m[2] = CurrentTtl(m[1])
                /\ m[3] = attempt[m[1]]

\* The server executes a write command; its reply reaches the caller only if
\* the caller still waits for this attempt.
Execute(m) ==
    /\ m \in wire
    /\ wire' = wire \ {m}
    /\ db' = WriteGroup(batch[m[1]], m[2])
    /\ acked' = [acked EXCEPT ![m[1]] = @ \/ IsCurrent(m)]
    /\ UNCHANGED <<expired, status, batch, written, attempt, query, got>>

\* The server answers the current command with an error reply (a full or a
\* loading server): not retried, store_batch raises.
Refuse(m) ==
    /\ m \in wire
    /\ IsCurrent(m)
    /\ wire' = wire \ {m}
    /\ status' = [status EXCEPT ![m[1]] = "failed"]
    /\ UNCHANGED <<db, expired, batch, written, attempt, acked, query, got>>

\* The reply arrives: the next group is sent, or store_batch returns.
Acknowledge(c) ==
    /\ status[c] = "writing"
    /\ acked[c]
    /\ LET done == written[c] \cup {CurrentTtl(c)}
       IN  /\ written' = [written EXCEPT ![c] = done]
           /\ IF Ttls(batch[c]) \subseteq done
              THEN /\ status' = [status EXCEPT ![c] = "done"]
                   /\ UNCHANGED <<wire, attempt, acked>>
              ELSE /\ wire' = wire \cup {<<c, NextTtl(batch[c], done), 1>>}
                   /\ attempt' = [attempt EXCEPT ![c] = 1]
                   /\ acked' = [acked EXCEPT ![c] = FALSE]
                   /\ UNCHANGED status
    /\ UNCHANGED <<db, expired, batch, query, got>>

\* The pipeline is not a transaction: the server answers its GETs one by one.
ReadNext(c) ==
    /\ status[c] = "reading"
    /\ \E p \in DOMAIN query[c] \ DOMAIN got[c] :
          /\ \A q \in DOMAIN query[c] : q < p => q \in DOMAIN got[c]
          /\ got' = [got EXCEPT ![c] =
                        [q \in DOMAIN got[c] \cup {p} |->
                            IF q = p THEN Lookup(query[c][p]) ELSE got[c][q]]]
    /\ UNCHANGED <<db, expired, wire, status, batch, written, attempt, acked, query>>

\* pipe.execute() returns and the answers are zipped with the tokens.
ReturnRead(c) ==
    /\ status[c] = "reading"
    /\ DOMAIN got[c] = DOMAIN query[c]
    /\ status' = [status EXCEPT ![c] = "done"]
    /\ UNCHANGED <<db, expired, wire, batch, written, attempt, acked, query, got>>

\* Fault: the client never gives up.
TimeOutForever(c) ==
    /\ status[c] \in {"writing", "reading"}
    /\ acked' = [acked EXCEPT ![c] = FALSE]
    /\ got' = [got EXCEPT ![c] = Nothing]
    /\ UNCHANGED <<db, expired, wire, status, batch, written, attempt, query>>

\* No reply within socket_timeout, or the connection breaks: the client sends
\* the whole command or pipeline again, and after the last attempt raises.
TimeOut(c) ==
    /\ status[c] \in {"writing", "reading"}
    /\ IF attempt[c] < MaxAttempts
       THEN /\ attempt' = [attempt EXCEPT ![c] = @ + 1]
            /\ acked' = [acked EXCEPT ![c] = FALSE]
            /\ got' = [got EXCEPT ![c] = Nothing]
            /\ wire' = IF status[c] = "writing"
                       THEN wire \cup {<<c, CurrentTtl(c), attempt[c] + 1>>}
                       ELSE wire
            /\ UNCHANGED status
       ELSE /\ status' = [status EXCEPT ![c] = "failed"]
            /\ UNCHANGED <<wire, attempt, acked, got>>
    /\ UNCHANGED <<db, expired, batch, written, query>>

\* The caller is cancelled at its await (its client went away): CancelledError
\* is no Exception, so store_batch and retrieve_batch end with it; what they
\* have sent stays sent.
Abandon(c) ==
    /\ status[c] \in {"writing", "reading"}
    /\ status' = [status EXCEPT ![c] = "failed"]
    /\ UNCHANGED <<db, expired, wire, batch, written, attempt, acked, query, got>>

\* A key with a TTL reaches the end of its life.
Expire(k) ==
    /\ k \in DOMAIN db
    /\ db[k].ttl > 0
    /\ db' = [j \in DOMAIN db \ {k} |-> db[j]]
    /\ expired' = expired \cup {k}
    /\ UNCHANGED <<wire, status, batch, written, attempt, acked, query, got>>

\* The steps of the calls in progress and of the server.
StoreProgress ==
    \/ \E m \in wire : Execute(m)
    \/ \E m \in wire : Refuse(m)
    \/ \E c \in Call : Acknowledge(c)
    \/ \E c \in Call : ReadNext(c)
    \/ \E c \in Call : ReturnRead(c)
    \/ \E c \in Call : TimeOut(c)
    \/ \E k \in DOMAIN db : Expire(k)

StoreStep == StoreProgress \/ \E c \in Call : Abandon(c)

\* asyncio resumes a coroutine whose reply or timeout is due.
StoreFairness ==
    \A c \in Call : WF_storeVars(Acknowledge(c) \/ ReturnRead(c) \/ TimeOut(c))

-----------------------------------------------------------------------------
StoreKey == System \X Token

Entry == [blob: Blob, ttl: Nat]

IsQuery(q) == DOMAIN q \subseteq Index /\ q \in [DOMAIN q -> StoreKey]

\* Every variable has its type; what a pipeline has read so far is a part of
\* what it asked for.
StoreTypeOK ==
    /\ DOMAIN db \subseteq StoreKey /\ db \in [DOMAIN db -> Entry]
    /\ expired \subseteq StoreKey
    /\ wire \subseteq Call \X Nat \X (1..MaxAttempts)
    /\ status \in [Call -> {"idle", "writing", "reading", "done", "failed"}]
    /\ DOMAIN batch = Call /\ \A c \in Call : IsBatch(batch[c])
    /\ written \in [Call -> SUBSET Nat]
    /\ attempt \in [Call -> 0..MaxAttempts]
    /\ acked \in [Call -> BOOLEAN]
    /\ DOMAIN query = Call /\ \A c \in Call : IsQuery(query[c])
    /\ DOMAIN got = Call
    /\ \A c \in Call : /\ DOMAIN got[c] \subseteq DOMAIN query[c]
                       /\ got[c] \in [DOMAIN got[c] -> Blob \cup {NotFound}]

\* A store_batch that returned wrote every mapping: each of its keys is in the
\* server, unless the server has expired it since (token_store.py:125).
AcknowledgedWritesPersist ==
    \A c \in Call : status[c] = "done" =>
        \A p \in DOMAIN batch[c] : KeyOf(batch[c][p]) \in DOMAIN db \cup expired

\* The server holds under a key only what some call asked to store under it:
\* no blob ends up under another record's token or another system's.
EntriesComeFromBatches ==
    \A k \in DOMAIN db : \E c \in Call : \E p \in DOMAIN batch[c] :
        KeyOf(batch[c][p]) = k /\ db[k] = [blob |-> batch[c][p].blob, ttl |-> batch[c][p].ttl]
=============================================================================
