--------------------------- MODULE RecordHandlers ---------------------------
(***************************************************************************)
(* The request handlers over the structured tokenizer that do without a    *)
(* worker pool: AnonymizeBatch and DeanonymizeBatch of                     *)
(* api/grpc_servicer_v2.py and the NDJSON streams of api/endpoints.py.     *)
(* One call of anonymize_batch serves a V2 batch; the others call the      *)
(* tokenizer once per record, one after the other, and an NDJSON line is   *)
(* sent as soon as its record is done.  Each batch of AnonymizeBatchStream *)
(* is a handler of its own here, since nothing is kept between them.       *)
(***************************************************************************)
EXTENDS StructuredTokenizer, SequencesExt, Enumeration

CONSTANTS AnonymizeHandlers,    \* the handlers of requests to anonymize
          DeanonymizeHandlers,  \* the handlers of requests to de-anonymize
          MaxItems,    \* the longest request
          Unparsable,  \* bytes that are no JSON document
          Wide,        \* texts of integers of more than 64 bits
          Deep,        \* texts of values nested deeper than orjson writes
          NoRequest,
          AnonymizeRequests  \* the requests to anonymize that clients make

VARIABLES request,  \* what each handler was asked
          phase,    \* its control state
          place     \* the record whose call it awaits, or awaited last

handlerVars == <<vars, request, phase, place>>

-----------------------------------------------------------------------------
Handler == AnonymizeHandlers \cup DeanonymizeHandlers

\* A record stands for its record_id by its position in the request.
AnonymizeOps   == {"anonymizeBatch", "anonymizeLines"}
DeanonymizeOps == {"deanonymizeBatch", "deanonymizeLines"}

Request == [op: AnonymizeOps \cup DeanonymizeOps, system: System,
            items: Seq(Record \cup {NotADict, Unparsable})]

Positions(items) == [k \in DOMAIN items |-> k]

\* records: the positions of the documents that parse.
ParsedItems(items) == Ascending({k \in DOMAIN items : items[k] # Unparsable})

ParsedRecords(items) == [k \in DOMAIN ParsedItems(items) |-> items[ParsedItems(items)[k]]]

\* Fault: a document that does not parse is passed on as null.
RecordsOrNull(items) == [k \in DOMAIN items |-> IF items[k] = Unparsable THEN NotADict ELSE items[k]]

\* What a batch hands to anonymize_batch.
Batch(items) == ParsedRecords(items)

\* Fault: ids are collected whether or not their documents parse.
RecordIdsOfAll(items) == Positions(items)

\* record_ids: an id is collected when its document has been parsed.
RecordIds(items) == ParsedItems(items)

WideInt   == [text: Wide, type: {"int"}]
DeepValue == [text: Deep, type: {"other"}]

\* orjson reads a longer integer as a float, and deeper values than it writes.
Loads(rec) == \A n \in Field : rec[n] \notin WideInt
Dumps(rec) == \A n \in Field : rec[n] \notin WideInt \cup DeepValue

\* FastAPI refuses a body that is no list of objects; V2 parses by itself.
IsAnonymizeRequest(req) ==
    /\ req \in Request /\ req.op \in AnonymizeOps /\ Len(req.items) <= MaxItems
    /\ IF req.op = "anonymizeLines"
       THEN ToSet(req.items) \subseteq Records \ {NotADict}
       ELSE /\ ParsedItems(req.items) # <<>> => ParsedRecords(req.items) \in Lists
            /\ \A rec \in ToSet(req.items) \ {NotADict, Unparsable} : Loads(rec)

\* The call of the store that is made for record i of handler h.
CallOf(h, i) == <<h, i>>

ASSUME HandlerCallsAssumption ==
    /\ MaxItems \in Nat \ {0}
    /\ AnonymizeHandlers \X (1..MaxItems) \subseteq AnonymizeCalls
    /\ DeanonymizeHandlers \X (1..MaxItems) \subseteq DeanonymizeCalls
ASSUME TextsAssumption == Wide \cup Deep \subseteq Text
ASSUME NoRequestAssumption == NoRequest \notin Request
\* Null and Broken stand for no value, and what clients send to be anonymized
\* holds no tokens: records that are anonymized twice are left out.
ASSUME ValuesAssumption == /\ Null \notin [text: TokenString, type: ValueType]
                           /\ Broken \notin [text: TokenString, type: ValueType]
                           /\ Text \cap (UuidToken \cup HmacToken) = {}
ASSUME RequestsAssumption == \A req \in AnonymizeRequests : IsAnonymizeRequest(req)

\* The records a sequential handler awaits the tokenizer for; for a document
\* that is no object deanonymize_record fails ahead of any await.
Docs(items) == {i \in DOMAIN items : items[i] \notin {Unparsable, NotADict}}

\* The calls a request has yet to make once record i is done.
CallsAfter(req, i) ==
    IF req.op = "anonymizeBatch"
    THEN IF i = 0 /\ ParsedItems(req.items) # <<>> THEN {1} ELSE {}
    ELSE {j \in Docs(req.items) : j > i}

StartCall(h, req, i) ==
    CASE req.op = "anonymizeBatch" ->
            AnonymizeBatch(CallOf(h, 1), req.system, Batch(req.items))
      [] req.op = "anonymizeLines" -> AnonymizeRecord(CallOf(h, i), req.system, req.items[i])
      [] OTHER -> DeanonymizeRecord(CallOf(h, i), req.system, req.items[i])

\* The handler goes on after record i: it makes its next call or is done.
GoOn(h, req, i) ==
    LET rest == CallsAfter(req, i)
    IN  IF rest = {}
        THEN /\ phase' = [phase EXCEPT ![h] = "answered"]
             /\ UNCHANGED <<vars, place>>
        ELSE /\ phase' = [phase EXCEPT ![h] = "running"]
             /\ place' = [place EXCEPT ![h] = Min(rest)]
             /\ StartCall(h, req, Min(rest))

-----------------------------------------------------------------------------
HandlerInit ==
    /\ Init
    /\ request = [h \in Handler |-> NoRequest]
    /\ phase = [h \in Handler |-> "idle"]
    /\ place = [h \in Handler |-> 0]

\* A request arrives; one without a record to work on is answered at once.
Begin(h, req) ==
    /\ phase[h] = "idle"
    /\ request' = [request EXCEPT ![h] = req]
    /\ GoOn(h, req, 0)

\* Fault: only a call that succeeded resumes its handler.
CurrentReadyIfDone(h) == status[CallOf(h, place[h])] = "done"

\* The call the handler awaits has returned: the tokenizer never raises for
\* want of the store, it returns records with errors.
CurrentReady(h) == Answered(CallOf(h, place[h]))

\* The handler resumes: an NDJSON line is sent, then the next record begins.
Resume(h) ==
    /\ phase[h] = "running"
    /\ CurrentReady(h)
    /\ GoOn(h, request[h], place[h])
    /\ UNCHANGED request

\* The client goes away: CancelledError is raised at the await in progress
\* and is caught nowhere, in the tokenizer neither.
Cancel(h) ==
    /\ phase[h] = "running"
    /\ phase' = [phase EXCEPT ![h] = "cancelled"]
    /\ IF Answered(CallOf(h, place[h])) THEN UNCHANGED storeVars
                                        ELSE Abandon(CallOf(h, place[h]))
    /\ UNCHANGED <<policy, task, request, place>>

-----------------------------------------------------------------------------
\* The records a handler is through with.
Through(h) ==
    IF request[h] = NoRequest THEN {}
    ELSE {i \in DOMAIN request[h].items : phase[h] = "answered" \/ i < place[h]}

\* Fault: fields whose tokens are gone are no errors.
RestoredWhatIsThere(c) ==
    /\ status[c] = "done" /\ task[c].config # NoConfig
    /\ \A i \in LookedUp(c) : Restored(c, i).ok \/ Restored(c, i).error = "missing"

\* deanonymize_record has no errors.
RestoredAll(c) ==
    /\ status[c] = "done" /\ task[c].config # NoConfig
    /\ \A i \in DOMAIN task[c].config.fields : task[c].input[1][task[c].config.fields[i].name] # Broken
    /\ \A i \in LookedUp(c) : Restored(c, i).ok

\* DeanonymizedRecord.record.
RestoredRecord(c) ==
    LET F(n) == {i \in LookedUp(c) : task[c].config.fields[i].name = n /\ Restored(c, i).ok}
    IN  [n \in Field |-> IF F(n) = {} THEN task[c].input[1][n]
                         ELSE LET value == Restored(c, CHOOSE i \in F(n) : TRUE)
                              IN  [text |-> value.text, type |-> value.type]]

\* An error is of the record, or of the batch: the exception that ended it.
OkResult(id, rec) == [id |-> id, ok |-> TRUE, record |-> rec]
ErrorResult(id) == [id |-> id, ok |-> FALSE, of |-> "record"]
BatchError(id) == [id |-> id, ok |-> FALSE, of |-> "batch"]

\* Result k of anonymize_batch, under the id it is zipped with.
BatchResult(h, k) ==
    LET c == CallOf(h, 1)
        id == RecordIds(request[h].items)[k]
    IN  IF Succeeded(c, k) THEN OkResult(id, ResultRecord(c, k)) ELSE ErrorResult(id)

\* The records that were anonymized and for which orjson.dumps raises.
Unwritten(h) ==
    {k \in DOMAIN ParsedItems(request[h].items) :
        Succeeded(CallOf(h, 1), k) /\ ~Dumps(ResultRecord(CallOf(h, 1), k))}

\* The results that are built before anything raises.
Built(h) == {k \in DOMAIN ParsedItems(request[h].items) :
                ~Raises(CallOf(h, 1)) /\ \A u \in Unwritten(h) : k < u}

\* The results of an exception anywhere in the batch: one for every record_id.
Excepted(h) == {k \in DOMAIN ParsedItems(request[h].items) :
                   Raises(CallOf(h, 1)) \/ Unwritten(h) # {}}

BatchResults(h) ==
    {BatchResult(h, k) : k \in Built(h)}
        \cup {BatchError(RecordIds(request[h].items)[k]) : k \in Excepted(h)}
        \cup {ErrorResult(i) : i \in {j \in DOMAIN request[h].items :
                                          request[h].items[j] = Unparsable}}

\* The result or line for record i of a sequential handler; orjson.dumps of a
\* restored record may raise, which DeanonymizeBatch answers with an error.
LineResult(h, i) ==
    LET c == CallOf(h, i)
    IN  IF i \notin Docs(request[h].items) THEN ErrorResult(i)
        ELSE CASE request[h].op = "anonymizeLines" ->
                     IF Succeeded(c, 1) THEN OkResult(i, ResultRecord(c, 1)) ELSE ErrorResult(i)
               [] request[h].op = "deanonymizeLines" ->
                     IF RestoredAll(c) THEN OkResult(i, RestoredRecord(c)) ELSE ErrorResult(i)
               [] OTHER ->
                     IF RestoredAll(c) /\ Dumps(RestoredRecord(c))
                     THEN OkResult(i, RestoredRecord(c)) ELSE ErrorResult(i)

\* What the client has been sent: a V2 response as a whole (its order is left
\* out), an NDJSON stream line by line.
Sent(h) ==
    CASE request[h] = NoRequest -> {}
      [] request[h] # NoRequest /\ request[h].op = "anonymizeBatch" ->
            IF phase[h] # "answered" THEN {} ELSE BatchResults(h)
      [] request[h] # NoRequest /\ request[h].op = "deanonymizeBatch" ->
            IF phase[h] # "answered" THEN {}
            ELSE {LineResult(h, i) : i \in DOMAIN request[h].items}
      [] OTHER -> {LineResult(h, i) : i \in Through(h)}

Asked(h, ops) == request[h] # NoRequest /\ request[h].op \in ops

\* The records clients can send to be restored.
Given == UNION {{r.record : r \in {q \in Sent(h) : q.ok}} : h \in {g \in AnonymizeHandlers : Asked(g, AnonymizeOps)}}

\* The items of a request: FastAPI refuses a body that is no list of objects.
Restorable(op) ==
    IF op = "deanonymizeLines" THEN Given \cup Foreign
    ELSE {rec \in Given \cup Foreign : Loads(rec)} \cup {NotADict, Unparsable}

DeanonymizeRequests ==
    UNION {{[op |-> op, system |-> s, items |-> items] :
               s \in System, items \in UNION {[1..n -> Restorable(op)] : n \in 1..MaxItems}} :
           op \in DeanonymizeOps}

HandlerNext ==
    \/ \E h \in AnonymizeHandlers, req \in AnonymizeRequests : Begin(h, req)
    \/ \E h \in DeanonymizeHandlers, req \in DeanonymizeRequests : Begin(h, req)
    \/ \E h \in Handler : Resume(h)
    \/ \E h \in Handler : Cancel(h)
    \/ Reload /\ UNCHANGED <<request, phase, place>>
    \/ StoreProgress /\ UNCHANGED <<policy, task, request, phase, place>>

\* The loop resumes a handler whose call has returned, and every call of the
\* store ends.
HandlerFairness ==
    /\ \A h \in Handler : WF_handlerVars(Resume(h))
    /\ StoreFairness

HandlerSpec == HandlerInit /\ [][HandlerNext]_handlerVars /\ HandlerFairness

-----------------------------------------------------------------------------
\* Every variable has its type, a handler that runs awaits a call of its own,
\* and it makes one call at a time.
HandlerTypeOK ==
    /\ TypeOK
    /\ request \in [Handler -> Request \cup {NoRequest}]
    /\ phase \in [Handler -> {"idle", "running", "answered", "cancelled"}]
    /\ place \in [Handler -> 0..MaxItems]
    /\ \A h \in Handler :
          /\ request[h] = NoRequest <=> phase[h] = "idle"
          /\ phase[h] = "running" => status[CallOf(h, place[h])] # "idle"
          /\ \A i \in 1..MaxItems :
                status[CallOf(h, i)] \in {"writing", "reading"} =>
                    phase[h] = "running" /\ i = place[h]

\* Each item of a V2 request has a result under its own id, and one only,
\* except in an anonymized batch where a later record could not be written:
\* there the error of the batch is its second result (AnonymizeBatch appends
\* an error for all record_ids to the results built until then).  And what a
\* client has been sent as anonymized, in a response or on a line of a stream
\* that went on or broke off, stands for the record with that id: its tokens
\* lead to the values of that record, until they expire, and its nulls stay.
ResultsBelongToTheirRecords ==
    \A h \in Handler :
        /\ Asked(h, {"anonymizeBatch", "deanonymizeBatch"}) /\ phase[h] = "answered" =>
              \A i \in DOMAIN request[h].items :
                  \/ \E r \in Sent(h) : {q \in Sent(h) : q.id = i} = {r}
                  \/ /\ Asked(h, {"anonymizeBatch"})
                     /\ \E r \in Sent(h) : {q \in Sent(h) : q.id = i} = {r, BatchError(i)}
                     /\ \E u \in Unwritten(h) : i < RecordIds(request[h].items)[u]
        /\ Asked(h, AnonymizeOps) =>
              \A r \in {q \in Sent(h) : q.ok} :
                  LET cfg  == task[CallOf(h, IF request[h].op = "anonymizeBatch" THEN 1 ELSE r.id)].config
                      item == request[h].items[r.id]
                  IN  \A i \in DOMAIN cfg.fields :
                          LET n   == cfg.fields[i].name
                              key == BuildKey(request[h].system, r.record[n].text)
                          IN  IF item[n] = Null THEN r.record[n] = Null
                              ELSE \/ key \in expired
                                   \/ /\ key \in DOMAIN db
                                      /\ Decrypt(db[key].blob, cfg.key).ok
                                      /\ Decrypt(db[key].blob, cfg.key).text = item[n].text

\* A record of a V2 batch is answered with an error for a reason.  An error of
\* the record: its bytes do not parse, it fails by the policy, or the system or
\* the store failed every record.  An error of the batch: some document of the
\* batch is no object, or holds what orjson cannot write in a field that the
\* policy does not replace.  Such a document takes good records with it, though
\* anonymize_batch promises "one per input record"; one that fails by the
\* policy, or does not parse, does not (AnonymizeBatch, anonymize_batch).
ErrorsHaveReasons ==
    \A h \in Handler : Asked(h, {"anonymizeBatch"}) /\ phase[h] = "answered" =>
        \A r \in {q \in Sent(h) : ~q.ok} :
            LET items == request[h].items
                c     == CallOf(h, 1)
                cfg   == task[c].config
            IN  \/ /\ r.of = "record"
                   /\ \/ items[r.id] = Unparsable
                      \/ cfg = NoConfig
                      \/ status[c] = "failed"
                      \/ RecordFails(items[r.id], cfg)
                \/ /\ r.of = "batch"
                   /\ \/ NotADict \in ToSet(items)
                      \/ \E rec \in ToSet(items) \ {Unparsable}, n \in Field :
                            /\ rec[n] \in WideInt \cup DeepValue
                            /\ \A i \in DOMAIN cfg.fields : cfg.fields[i].name # n

\* A record that is sent back as restored is the record that was anonymized,
\* in every field the policy of the restoring call lists: whatever was
\* reloaded, cancelled or expired in between, a token that is left, or a value
\* of another record, comes with an error (DeanonymizeBatch,
\* stream_deanonymize_as_ndjson).
RestoredRecordsAreOriginal ==
    \A d, h \in Handler : \A r \in Sent(d), q \in Sent(h) :
        /\ Asked(d, DeanonymizeOps) /\ r.ok
        /\ Asked(h, AnonymizeOps) /\ q.ok
        /\ request[d].system = request[h].system
        /\ request[d].items[r.id] = q.record
        => \A i \in DOMAIN task[CallOf(d, r.id)].config.fields :
              LET n    == task[CallOf(d, r.id)].config.fields[i].name
                  item == request[h].items[q.id]
              IN  IF item[n] = Null THEN r.record[n] = Null
                  ELSE r.record[n].text = item[n].text

\* Every request is answered, or its client went away.
EveryRequestAnswered ==
    \A h \in Handler : phase[h] = "running" ~> phase[h] \in {"answered", "cancelled"}

\* The handlers use the tokenizer as its own model lets clients use it, so
\* that what is proved of the tokenizer holds of them: every behaviour of the
\* handlers is one of the tokenizer.
ImplementsTokenizer == Spec
=============================================================================
