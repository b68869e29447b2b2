# Verification of the PII anonymization service

TLA+ modules, TLC configurations and TLAPS proofs for the Python service under
`src/src/pii_service/` (paths below are relative to it unless they begin with
`src/`). The service replaces personal data in JSON records and free texts by
tokens, keeps the encrypted originals in Redis, and restores them. What has to
be right is simple to say and hard to test: **no value is lost, no value reaches
another system, another record or another token, every request is answered** -
while coroutines interleave, Redis replies get lost and commands are resent, keys
expire, policies are reloaded, clients leave, streams break off and worker pools
are stopped.

## 1. Inventory

All components live in one process, on one asyncio event loop (`main.py` starts
FastAPI and grpc.aio on it); between two awaits that really suspend nothing else
runs. Redis is a second process behind redis-py.

| Component | State | Operations | What is hard | What makes it correct |
|---|---|---|---|---|
| `core/crypto_engine.py` | none | `encrypt`, `decrypt` | layout chosen by length; keys change by reload | decrypt inverts encrypt; another key never decrypts |
| `core/token_store.py` | Redis: key -> blob with TTL; connection pool with retries | `store_batch`, `retrieve_batch` (`store_token`, `retrieve_token`, `health_check`) | lost replies, resent and late commands, TTL groups written one by one, a pipeline that is no transaction, expiry, callers cancelled at their await | an acknowledged write is there until it expires; an entry is never mixed from two mappings; every call ends |
| `core/structured_tokenizer.py` | none of its own: each coroutine's captured config and key | `anonymize_record`, `anonymize_batch`, `anonymize_stream`, `deanonymize_record` | config captured before the await, shallow copies, one store call for many records, deterministic tokens shared by coroutines and systems | a token given to a client stands for its value for ever, answers until it expires, and answers in its own system only |
| `core/unstructured_tokenizer.py` | none of its own | `anonymize_text`, `deanonymize_text`, `resolve_findings`, `apply_transformations`, `extract_tokens` | overlapping findings, splices at offsets of a changing text, one store call without a try, restored text that contains tokens | what is replaced is what was found, nothing else changes, and restoring puts it back |
| `core/detectors/` | a model that is loaded once | `detect` of three detectors | rules of one type, thresholds, a prefilter, a model that cannot be loaded | findings are those the policy asks for |
| `core/policy_loader.py` | `policy`, `_encryption_keys`, an RLock | `load_policy`, `reload_policy`, `get_system_config`, `get_encryption_key`, SIGHUP handler | a reload is three lock regions; keys are cached one by one and undone on failure | policy and keys in force are those of the last load that succeeded |
| `core/worker_pool.py` | bounded work queue, result queue, workers, `running` | `start`, `stop`, `submit_work`, `get_result` | stop while workers are busy and submitters are blocked | an item is processed once and has one result |
| `api/grpc_servicer_v3.py` | `pending_requests` | `AnonymizeBatch`, `DeanonymizeBatch`, `_collect_results`, `stop` | futures, orphaned results, cancelled handlers | every submitted batch is answered |
| `api/grpc_servicer.py` (V1) | per stream: batch, tasks, semaphore, response queue | `Anonymize`, `Deanonymize` | consumer, tasks and handler overlap; sentinel; broken iterator; a batch that fails after some of its answers; cancellation, which reaches the tasks at one await and not at the other | each request is answered once, or what happened to it has its reason; the stream ends |
| `api/grpc_servicer_v2.py` (V2) | none | `AnonymizeBatch`, `DeanonymizeBatch`, a stream of the first | ids zipped with results after parse errors were taken out; one try around a whole batch | a result is of its own record, a second one and an error have a reason |
| `api/endpoints.py` | none | four routes (two of them NDJSON streams), policy reload, health | a stream is sent line by line while the store, other streams and reloads go on, and its client may leave at any line | one line per record, of that record |
| `api/middleware.py`, `main.py`, `grpc_server*.py`, `config.py`, `utils/` | settings, counters | authentication, start, shutdown, logging, metrics | - | - |

Interactions: the API layers call the tokenizers (V3 through the worker pool);
the tokenizers read configuration and key from the policy loader, call the
crypto engine, and await one call of the token store; the endpoint
`/admin/policy/reload` (and a SIGHUP handler that `main.py` does not install)
reloads the policy between any two of their awaits.

`PROJECT.json` lists under "hazards" the places in this code that are hard to
test, with the properties aimed at them.

## 2. Modules

```
CryptoEngine --+--> StructuredTokenizer --refines--> TokenVault
               |         ^  |
               |         |  +--extended by--> RecordHandlers --refines--> StructuredTokenizer
TokenStore ----+--> TokenStoreSystem
               |
               +--> UnstructuredTokenizer <-- Detectors
Enumeration --> UnstructuredTokenizer, RecordHandlers
WorkerPool --> GrpcServicerV3
GrpcServicer
PolicyLoader
```

* **CryptoEngine** - pure operators. AES-GCM is external: a blob is the record of
  what was sealed (text, key, type byte, length), and `Decrypt` takes the branch
  on the length that the code takes, for the current and for the legacy layout.
* **TokenStore** - `store_batch` and `retrieve_batch` as the states of a
  coroutine: a command is put on the wire, executed by the server, its reply
  comes back or does not, the client resends it up to `MaxAttempts` times, and
  every copy on the wire may still be executed later. `Execute` is the atomic
  Lua script or MSET of one TTL group, `Refuse` an error reply, `ReadNext` one
  GET of the (non-transactional) pipeline, `TimeOut` the `socket_timeout` or a
  broken connection, `Abandon` a caller that is cancelled at its await, `Expire`
  the server's expiry. `StoreProgress` is all of it except `Abandon`, which a
  composition may tie to its own cancellations.
* **TokenStoreSystem** - the store under arbitrary clients.
* **Enumeration** - the elements of a finite set in a strict order, as Python's
  `sorted()` and a comprehension with a condition list them, defined by the number
  of elements before each: the proof system knows no definition of the library's
  sorting and selecting operators, which are recursive.
* **StructuredTokenizer** - the core: `AnonymizeRecord`, `AnonymizeBatch` and
  `DeanonymizeRecord` are the coroutines up to their only await, `Reload` runs
  between any two steps, the rest is the store's steps. A coroutine is named by
  its call of the store. What it returns after the await is a function of what it
  captured and of that call (`ResultRecord`, `Restored`), because nothing it does
  then touches shared state. uuid tokens are named by the coroutine and the
  position they were drawn for (uuid4 does not repeat); keyed tokens by key and
  text (HMAC-SHA256 is injective). The shallow copy of records is kept: an error
  record holds the tokens written into nested objects before the failure.
* **TokenVault** - the abstract promise: keys get bound to values for ever, lapse
  by expiry only, and are promised to clients only when bound.
* **RecordHandlers** - the request handlers without a worker pool, V2's two
  batches and the two NDJSON routes, over the tokenizer. `Begin` takes a request
  up to its first await, `Resume` goes on to the next record's await or answers,
  `Cancel` is a client that leaves. A V2 batch to anonymize makes one call of
  `anonymize_batch` for the documents that parse; the other three make one call
  per record, one after the other. `Sent` is what the client has by now: a V2
  response when it is complete, an NDJSON stream line by line. Ids are zipped with
  results (`RecordIds`, `BatchResult`) as in the code. One `try` surrounds the
  batch: the results that were `Built` before `anonymize_batch` or `orjson.dumps`
  raised stay, and every record gets a `BatchError` (`Excepted`). What orjson cannot
  write are integers of more than 64 bits, which reach it from NDJSON only
  (`WideInt`), and values nested deeper than it writes, though it reads them
  (`DeepValue`). NDJSON lines are written by `json`, which writes both. A batch of
  a V2 stream is a handler of its own. The order of results in a V2 response and its statistics
  are left out, and so are records that hold tokens when they are sent to be
  anonymized (`ValuesAssumption`): what such a token later restores to is another
  record's value, rightly, but not "the original" of `RestoredRecordsAreOriginal`.
* **Detectors** - pure operators on what is external: what the regular
  expressions match (`MatchesOf`) and what the NER model answers. Which matches
  and answers become findings - rules, canonical labels, enabled types,
  thresholds, stages, the prefilter by length, the filter by configured types - is
  the code's.
* **UnstructuredTokenizer** - `AnonymizeText` and `DeanonymizeText` up to their
  only await that suspends, over Detectors and the store. A text is a sequence of
  symbols, a token being one symbol; `Resolve` is the sort and the overlap check,
  `Transformed` one splice per finding into the changing text, `DeanonymizedText`
  one replacement per token in the changing text. The one place where the text
  around a token decides what `extract_tokens` takes for a token is kept (`Glued`).
  No expression is modelled to match inside a token. What the expressions and the
  model may answer at all is a contract, `IsFindings`: non-empty spans within the
  text, with values that hold no token the text does not. The order of findings is
  that of `sorted()`, which keeps equal ones as they came. A model that cannot be loaded
  (`NoModel`) is one of the answers. De-anonymizing a text without tokens, which
  returns at once in the code, has one state more here, in which others may run.
* **WorkerPool** - workers, bounded queue, result queue and `stop()`; an action
  lasts from one suspending await to the next, so `Finish` includes the next
  `get()` when an item is there, and `PutSignals` puts as many stop signals as fit.
* **GrpcServicerV3** - handlers with their futures, the collector, cancellation,
  composed with the pool. A batch of `AnonymizeBatchStream` is a request.
* **GrpcServicer** - one V1 stream, either RPC: consumer, open batch, tasks
  waiting for and holding permits, response queue with its sentinel, handler.
  `Finish` is a task that answers each of its requests, `Fail` a batch whose
  exception comes before or between its answers and which then answers all of its
  requests with an error. `Close` is the handler at the sentinel: it raises what
  broke the iterator, ends, or goes on to the gather of `Deanonymize`, where it
  `End`s with the last task or is cancelled with all of them (`Abort`). A handler
  cancelled while it yields (`Cancel`) leaves consumer and tasks to themselves.
* **PolicyLoader** - one action per lock region, with the file, the key
  references and what they resolve to; `Thread` is a singleton for the event
  loop, larger for the claim of thread safety.
* **MC_*** - the instances TLC checks; **`*_proofs`** - the theorems.

Definitions marked `Fault:` are wrong variants of the definition that follows
them. No specification uses them; each is paired in `PROJECT.json` with a
property that it breaks, which shows that the property depends on that code.

## 3. What TLC checks

| Run | Instance | What it shows |
|---|---|---|
| `store` | 2 calls, 3 batches (one group; a key twice; two TTL groups), 1 query, 2 attempts | `AcknowledgedWritesPersist`, `EntriesComeFromBatches`, `ReadsSeeAcknowledgedWrites`, `EveryCallReturns` |
| `tokenizer` | 2 anonymizing calls and 1 de-anonymizing, 2 systems with one key, 2 policies (other key, other TTL, other field order), 2 texts (one empty), records that fail at the second field, a null, a value that is neither text nor number, a non-object | `AnonymizedValuesRecoverable`, `DeanonymizeInvertsAnonymize`, `RestoredValuesBelongToSystem`, `ReturnedTokensAreFound`, `ImplementsVault` |
| `handlers` | 1 anonymizing and 1 de-anonymizing handler, up to 2 records each, 2 policies (the second lists one field only, has another key and a TTL), bytes that do not parse, a null, a non-object, an integer and a nested value orjson cannot write | `ResultsBelongToTheirRecords`, `ErrorsHaveReasons`, `RestoredRecordsAreOriginal`, `EveryRequestAnswered`, `ImplementsTokenizer` |
| `text` | 2 anonymizing calls and 1 de-anonymizing, 2 systems, 2 policies (hybrid, for ever; deterministic with another key, redaction and expiry), three texts, NER answers below and above the threshold, overlapping a number or not, and no model | `ResolutionIsLongestFirst`, `ReplacedInPlace`, `TextValuesRecoverable`, `RestoreInvertsAnonymize`, `RestoredTextIsOfSystem`, `AnsweredTokensAreFound` |
| `pool` | 2 workers, queue of 1, 3 requests | `AwaitedItemInOnePlace`, `StopAbandonsOnlyQueuedWork`, `AnsweredIsNotPending`, `EveryRequestAnswered` |
| `stream` | 6 requests, the third unparsable, the fifth a record that cannot be written, batches of 2, 2 permits | `RequestAccountedFor`, `ConcurrencyBounded`, `AnonymizeAnswersAll`, `StreamEnds` |
| `policy` | event loop, 2 systems, 2 key references, 3 policies | `LastLoadInForce`, `ConfigAndKeyFromOneLoad` |

Each run checks its module's type invariant as well. Five further runs show
disagreements between the code and what its documents say (section 5).

Bounds. Two concurrent writers and one reader are what every race in the store needs (a
stale command of one overwriting the other's, seen by a third); two attempts give a
current and an abandoned one; two TTL groups give a first and a later group. The runs
over the tokenizers have `MaxAttempts = 1`: resending is examined in the `store` run,
while late execution after a failed call is still in them. Two records are enough for a
result to slide to another record, for a stream to break off between two lines, for one
record's failure to meet another's success, and for the second to raise when the first
has its result; the handlers' system has one writer because `ImplementsTokenizer`
reduces the interference of several to the `tokenizer` run. The three texts of the
`text` run are the shortest with a prefiltered text, a value glued to a word, a finding
that covers a shorter one, and two findings whose replacement moves the second; clients
may also anonymize an anonymized text again and join two of them. A queue of one and two
workers is the smallest pool in which `stop()` can find the queue full and a worker
busy. Six requests make two full batches and a short one that has to wait for a permit;
the fifth is the second of its batch, which can therefore fail after its first answer.
`Call`, `Requests`, `Request` and `MaxItems` bound the behaviours, and `IsBounded` the
findings and the tokens of one text by the positions of a list (`Index`); every other
component is finite by itself. Symmetry is used for the two anonymizing calls of the
tokenizer and text runs only, which check no liveness.

Fairness. Weak fairness stands for the event loop, which resumes every coroutine
whose await is over (`Resume` of a handler among them), and for what the code
bounds itself: each attempt by `socket_timeout` (`StoreFairness`), the tokenizer's
processing by the store's calls (`EveryCallReturns`). Nobody is obliged to send,
half-close, cancel, reload or stop, the server is not obliged to execute or
answer, and expiry is not obliged to happen. `EveryRequestAnswered` is stated in
GrpcServicerV3 for pools that are never stopped. `CHECK_DEADLOCK FALSE` is used
where a behaviour ends when all calls, requests or streams are over; the policy
loader never ends and is checked for deadlock.

## 4. What is proved

TLAPS proves the following for every value of the constants that satisfies the
modules' named assumptions. Every property that a passing run checks is among it,
except the liveness properties.

* `TokenStore_proofs`, first part: what the other proofs rest on. A strict order
  enumerates a finite set, each element once (`ListingInOrder`); a fold is a
  sequence of steps (`FoldIsRun`), so that a loop of the code is reasoned about by
  a set of step numbers that has 0 and with each number the next (`UpTo`); a
  concatenation has the members of its pieces, and one place for each
  (`FlattenMembers`, `FlattenOrigins`). Of the crypto engine: decrypt inverts
  encrypt for every text, key and type (`DecryptInvertsEncrypt`); no blob opens
  under another key (`WrongKeyIsCorrupted`); of the legacy blobs the reader accepts
  exactly those of the empty text (`LegacyReadableIffEmpty`), although it means to
  read all of them.
* `TokenStore_proofs`, `TokenStoreSystem_proofs`: type correctness,
  `AcknowledgedWritesPersist`, `EntriesComeFromBatches` and
  `ReadsSeeAcknowledgedWrites`. `AcknowledgedWritesPersist` is not inductive: a
  call's last reply says only that its last group was written. `StoreInv`
  therefore adds that every group a call counts as written is in the server or
  has expired (`WrittenGroupsPersist`), that a reply on its way stands for the
  *current* group (`RepliedGroupPersists`), and what the control state says of
  batch and groups (`CallsInOrder`). The lemmas on positions show that the
  `CHOOSE` of the first remaining TTL and of the last mapping of a key pick
  something: a set of positions is finite and has a least and a greatest member.
  The invariant survives late and duplicated commands because a command writes
  its call's own batch, which never changes once the call has begun.
  `StoreStepInv` and `StoreStepEffect` say what any client of the store needs of
  its steps; the store's own system and the tokenizer both rest on them.
* `StructuredTokenizer_proofs`: all six properties of the run `tokenizer`, its
  refinement of TokenVault among them, for any policies, records, requests and
  numbers of attempts. The assumptions are those of the modules: the inputs have
  their types, tokens and blobs are in the sets the store is given. None of the
  properties is inductive. `TokenizerInv` adds to the store's invariant and the
  types that each coroutine's call of the store is the one its captured task
  makes (`TasksInOrder`, so a reload in between cannot mix configs), and that
  what a pipeline has read, like every expired key, was stored by some request
  under that key (`ReadsOriginate`). The properties then follow from one fact
  about tokens, `OneKeyOneText`: equal tokens of two requests stand for the same
  text sealed with the same key, because a uuid is drawn once and a keyed token
  determines both. It rests on the two idealizations of section 2, uuids that
  never repeat and an injective HMAC. For the refinement every step is shown to be the vault's
  `Bind` (a write), `Lapse` (an expiry), `Promise` (everything else) or a stutter;
  `BindingKept` shows that a key's plaintext, read from the server or from the
  requests after an expiry, never changes.
* `RecordHandlers_proofs`: the handlers implement the tokenizer
  (`HandlersImplementTokenizer`), for any number of handlers and records, and
  therefore the vault, and inherit the tokenizer's invariants. Each step of a
  handler is shown to be one call of the tokenizer for records the tokenizer's
  clients may send, a step of the store, or a stutter. The hard part is
  de-anonymization: what clients send there was *sent to them* by a handler, and
  must be a record the tokenizer has *returned* (`ReturnedRecords`).
  `RequestsInOrder` therefore keeps, for the whole life of a request, that its
  records are of that kind, which is invariant because returned records only grow:
  a call that has returned keeps its task, query and answer. On top of that, and of
  what the tokenizer's theorems give, come the handlers' own four properties, for
  any number of records: their types, `ErrorsHaveReasons`,
  `ResultsBelongToTheirRecords` and `RestoredRecordsAreOriginal`. They need to know
  which call of the store serves which record, also after a cancellation:
  `HandlersInOrder` says of every call of a handler that it was made only when it
  was due and for its own record, that it is in progress only while it is awaited,
  and that the handler is past it only when it has returned; `LookupsInOrder`, that
  a lookup asks for the tokens of the record the call was given. An id then belongs
  to its result because the documents that parse are enumerated once for both
  (`ParsedInOrder`). An id has a second result only if it comes before one that
  could not be written (`ParsedHasOneOrSecond`), and a record that could not be
  written held the cause when it came, in a field outside the policy, since a token
  is a string (`UnwrittenHeldIt`). A restored field is the original one because
  without an error every token in a listed field was looked up and found. A value
  the earlier policy had left in place is looked up as well; it was no token
  (`ValuesAssumption`), so that nothing is found and the record comes with an error.
* `UnstructuredTokenizer_proofs`: all seven properties of the run `text`, for any
  texts, policies, detector answers and numbers of requests. What the folds of the
  model result in is stated once each. `ResolveKeeps`: after each finding
  considered, the kept ones are disjoint, and each one passed over meets a kept one
  that is not shorter, because the order is by length. `TransformedIsPieces`: after
  n splices from the right the text is its own beginning, unchanged up to the next
  finding, followed by the pieces from there on, so that offsets of the original
  text stay right. `RestoresPieces`: after n tokens the restored text is the
  concatenation of one piece per symbol, of which n tokens' pieces are restored;
  a piece that has been restored holds no token, which is why nothing is replaced
  twice there. The inductive `TokenizerInv` has the store's invariant, the types,
  `TasksInOrder` (each coroutine's call of the store is the one its captures make,
  and a text's tokens are of coroutines that have started, hence never its own) and
  `ReadsOriginate`. That a token names one coroutine and one finding
  (`OneTokenOneFinding`, from uuids that do not repeat) and that what was read was
  stored connects the two halves: `AnsweredTokenIsStored` for one direction,
  `RetrievedFrom` for the other. `RestoredTextIsOfSystem` is proved for texts with
  any tokens: the loop may replace again what it has put in, but only by values
  stored under the same system's keys for tokens of the text.
* `GrpcServicerV3_proofs`: type correctness, `AwaitedItemInOnePlace`,
  `StopAbandonsOnlyQueuedWork` and `AnsweredIsNotPending`, for any number of
  workers, requests and queue slots. `ServicerInv` adds that an item that has not
  been submitted is nowhere and an awaited one in exactly one of work queue,
  worker and result queue (`ItemsInPlace`), which handlers are pending
  (`PendingInv`), that there is no stop signal while the pool runs
  (`NoEarlySignal`: without it a worker could exit and leave its item), and what
  `stop()` leaves behind (`StoppedInv`). Lemmas on queues say what `Append` and
  `Tail` do to an item that occurs once.
* `GrpcServicer_proofs`: type correctness, `RequestAccountedFor`,
  `ConcurrencyBounded` and `AnonymizeAnswersAll`, for any number of requests, any
  batch size and any concurrency that gives at least one permit
  (`PermitsAssumption`; without it no batch ever runs). `StreamInv` adds that a
  request is nowhere until it is read and then in the open batch, in one task, or
  answered, once, or twice if its batch failed later, and nowhere again only where
  the code drops it (`RequestsInPlace`), that no task has a request twice (`TasksInv`, which makes a
  task's responses distinct), that permits are not overdrawn (`PermitsInv`), and
  that the None of an Anonymize stream is last in the queue, after which no task
  and no response is left (`SentinelInv`). `ConcurrencyBounded` then follows by a
  pigeonhole argument: a request that is processed has a place in a running task,
  no two have the same, and there are at most `Permits * BatchSize` such places.
* `PolicyLoader_proofs`: type correctness for any number of threads, and, with one
  thread, `LastLoadInForce` and `ConfigAndKeyFromOneLoad` for any systems, keys,
  policies and edits of the files. `LoadedInForce` adds that between the regions of
  a reload the *saved* policy and keys are those of the last load that succeeded,
  so that undoing a failed one restores them. `policy_threads` shows that
  `OneThread` cannot be dropped.

Only model-checked: the liveness properties (`EveryCallReturns`, `StreamEnds` and
both `EveryRequestAnswered`), which need fairness and `ENABLED`. The detectors'
operators are pure and appear in the theorems through their contract only, so what
`Stages` finds in a text is checked by the run `text` and not proved. That the wrong
variants break the properties is shown by TLC as well.

## 5. Where the code and its documents disagree

Each of these is a run that TLC ends with a counterexample; `PROJECT.json` quotes
the lines.

* `error_record` - an error record is not the unmodified record: nested fields
  hold tokens that were never stored (shallow copy).
* `types` - two values with the same `str()` share a deterministic token, and one
  comes back with the other's type.
* `stream_dropped` - V1 `Deanonymize` ends the stream before its tasks are done.
* `pool_stop` - `WorkerPool.stop()` may never return.
* `policy_threads` - concurrent reloads on two threads undo each other.

Other observations, visible in a single line and therefore without a run:

* V3 `DeanonymizeBatch` reads an attribute that its results do not have, so that
  every restored batch is answered with errors (`api/grpc_servicer_v3.py:321`).
* A V1 batch is processed under the system of its first request
  (`api/grpc_servicer.py:224`; kept in the model as `systems`).
* A V1 de-anonymization with errors of fields is answered with `error=""`
  (`api/grpc_servicer.py:327`).
* One document that is no object fails every record of its batch with it, in V1,
  V2 and V3, though `anonymize_batch` promises "List of AnonymizedRecord results
  (one per input record)" (`core/structured_tokenizer.py:393`; its own error path
  raises at 498).
* So does a record that orjson read and cannot write (it reads deeper documents
  than it writes): the exception is caught around the whole batch, so that the
  records before it have both a result and an error and those after it only the
  error (`api/grpc_servicer_v2.py:110` with 121-137, `api/grpc_servicer.py:253` with
  258-274, and `api/grpc_servicer_v3.py:190`, whose model has one answer per batch).
  `ErrorsHaveReasons`, `ResultsBelongToTheirRecords` and `RequestAccountedFor` name
  these cases and exclude all others.
* "Maximum concurrent requests to process" (`api/grpc_servicer.py:33`) holds of one
  stream: the semaphores are made per call (134, 365), so that two streams together
  exceed it. `ConcurrencyBounded` is about one stream.
* V1 `Deanonymize` leaves its tasks running when its iterator breaks
  (`await consumer_task` raises, 397), and loses their requests when it is cancelled
  in its last `gather` (401).
* A record is restored by the fields that the policy lists when it is restored: a
  field that a reload has taken out of it keeps its token, and no error says so.
* V2 counts a restored record that `orjson.dumps` cannot write both as a success
  and as an error (`api/grpc_servicer_v2.py:231`), and appends the results of
  documents that do not parse at the end of the response.
* A token right behind a word that ends in `_` is taken together with it for one
  prefixed token, and is not restored (`core/unstructured_tokenizer.py:227`).
* `deanonymize_text` replaces tokens in the changing text: a restored value that
  contains another token of the text is replaced again
  (`core/unstructured_tokenizer.py:455`). `RestoreInvertsAnonymize` is stated for
  texts without tokens, `RestoredTextIsOfSystem` for all.
* A semantic finding is stored as the model's word for it and replaced by its span,
  which may differ (`core/detectors/greek_ner.py:80`).
* A legacy blob is readable for the empty text only (`LegacyReadableIffEmpty`).

## 6. Not modelled

* Logging and metrics: no decision reads them; the statistics of V2 responses
  likewise.
* Authentication by API key, health checks, server start: single steps without
  state of their own.
* `store_token` and `retrieve_token` (no component calls them), `health_check`
  (a PING), `replace_entities` (a wrapper for old callers).
* Client programs and generators under `src/scripts/`, the benchmark and load
  tools: they are no part of the service.
* The regular expressions and the NER model, which are data here; the flag
  `_pii_anonymized` of a record, which repeats whether the result has an error.
* The `ValueError` of `set_field_value` where one listed path is a prefix of
  another: fields are independent here, and a path that does not lead to a value is
  `Broken` from the start.
* Exhaustion of the connection pool (redis-py raises, which is `TimeOut`'s
  failure); loss of Redis data by a crash of the server (no persistence is
  configured in the repository, so nothing could be promised).
* `main.py`'s shutdown beyond what `stop()` of the worker pool does.

What could be added next: a stream of V1 or V3 over the tokenizer itself, as
RecordHandlers does for V2 (GrpcServicer and GrpcServicerV3 take the tokenizer as a
task that returns or raises); records that are anonymized twice; and an abstract
specification of the pool and of a V1 stream, as TokenVault is one of the tokenizer.
