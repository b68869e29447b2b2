------------------------ MODULE RecordHandlers_proofs ------------------------
(***************************************************************************)
(* The request handlers over the tokenizer, for any number of handlers and *)
(* any requests: every step of a handler is a step that the tokenizer's    *)
(* specification allows its clients, so that what is proved of the         *)
(* tokenizer holds of the service behind these handlers.                   *)
(***************************************************************************)
EXTENDS RecordHandlers, StructuredTokenizer_proofs

-----------------------------------------------------------------------------
(* Requests. *)

\* What clients may ask to have restored, whatever they have been given.
IsDeanonymizeRequest(req) ==
    /\ req.op \in DeanonymizeOps /\ req.system \in System
    /\ DOMAIN req.items \subseteq 1..MaxItems
    /\ \A i \in DOMAIN req.items :
          req.items[i] \in ReturnedRecords \cup Foreign \cup {NotADict, Unparsable}

IsRequestOf(h, req) ==
    \/ h \in AnonymizeHandlers /\ req \in AnonymizeRequests
    \/ h \in DeanonymizeHandlers /\ IsDeanonymizeRequest(req)

\* A handler that has begun has a request of its kind, and awaits a call for
\* one of its records while it runs.
RequestsInOrder ==
    /\ DOMAIN request = Handler /\ DOMAIN phase = Handler /\ DOMAIN place = Handler
    /\ \A h \in Handler : /\ request[h] = NoRequest \/ IsRequestOf(h, request[h])
                          /\ phase[h] # "idle" => IsRequestOf(h, request[h])
                          /\ phase[h] = "running" => place[h] \in 1..MaxItems

\* A request to anonymize is one by its operation, and its records are within
\* the bound.
LEMMA AnonymizeRequestHas ==
    ASSUME NEW req \in AnonymizeRequests
    PROVE  /\ req.op \in AnonymizeOps /\ req.system \in System
           /\ DOMAIN req.items \subseteq 1..MaxItems
           /\ req.op = "anonymizeLines" =>
                 \A i \in DOMAIN req.items : req.items[i] \in Records
           /\ req.op = "anonymizeBatch" /\ ParsedItems(req.items) # <<>> =>
                 Batch(req.items) \in Lists
<1>1. IsAnonymizeRequest(req)
  BY RequestsAssumption
<1>2. req \in Request /\ req.op \in AnonymizeOps /\ Len(req.items) <= MaxItems
  BY <1>1 DEF IsAnonymizeRequest
<1>3. req.system \in System /\ req.items \in Seq(Record \cup {NotADict, Unparsable})
  BY <1>2 DEF Request
<1>4. DOMAIN req.items \subseteq 1..MaxItems
  BY <1>2, <1>3, HandlerCallsAssumption
<1>5. req.op = "anonymizeLines" => \A i \in DOMAIN req.items : req.items[i] \in Records
  BY <1>1 DEF IsAnonymizeRequest, ToSet
<1>6. req.op = "anonymizeBatch" /\ ParsedItems(req.items) # <<>> => Batch(req.items) \in Lists
  BY <1>1 DEF IsAnonymizeRequest, Batch
<1>. QED BY <1>2, <1>3, <1>4, <1>5, <1>6

\* The calls that are left are for records of the request.
LEMMA CallsAreOfRecords ==
    ASSUME NEW h \in Handler, NEW req, IsRequestOf(h, req), NEW i, NEW j \in CallsAfter(req, i)
    PROVE  /\ j \in 1..MaxItems
           /\ req.op # "anonymizeBatch" => j \in Docs(req.items) /\ j \in DOMAIN req.items
<1>1. CASE req.op = "anonymizeBatch"
  BY <1>1, HandlerCallsAssumption DEF CallsAfter
<1>2. CASE req.op # "anonymizeBatch"
  <2>1. j \in Docs(req.items)
    BY <1>2 DEF CallsAfter
  <2>2. DOMAIN req.items \subseteq 1..MaxItems
    BY AnonymizeRequestHas DEF IsRequestOf, IsDeanonymizeRequest
  <2>. QED BY <2>1, <2>2 DEF Docs
<1>. QED BY <1>1, <1>2

\* The next call of a handler is one of the calls that are left.
LEMMA NextCall ==
    ASSUME NEW h \in Handler, NEW req, IsRequestOf(h, req), NEW i, CallsAfter(req, i) # {}
    PROVE  Min(CallsAfter(req, i)) \in CallsAfter(req, i)
<1>. DEFINE S == CallsAfter(req, i)
<1>1. S \in SUBSET Nat
  BY CallsAreOfRecords
<1>. HIDE DEF S
<1>2. \E n \in S : \A m \in S : n <= m
  BY <1>1, LeastNatural, S # {} DEF S
<1>. QED BY <1>2 DEF Min, S

-----------------------------------------------------------------------------
(* A step of a handler is a step of the tokenizer. *)

\* The call a handler makes is one that clients of the tokenizer may make.
LEMMA StartCallIsNext ==
    ASSUME NEW h \in Handler, NEW req, IsRequestOf(h, req), NEW i,
           NEW j \in CallsAfter(req, i), StartCall(h, req, j)
    PROVE  Next
<1>1. j \in 1..MaxItems /\ 1 \in 1..MaxItems
  BY CallsAreOfRecords, HandlerCallsAssumption
<1>2. ASSUME h \in AnonymizeHandlers, req \in AnonymizeRequests
      PROVE  Next
  <2>1. CallOf(h, j) \in AnonymizeCalls /\ CallOf(h, 1) \in AnonymizeCalls
    BY <1>1, <1>2, HandlerCallsAssumption DEF CallOf
  <2>2. CASE req.op = "anonymizeBatch"
    <3>1. AnonymizeBatch(CallOf(h, 1), req.system, Batch(req.items))
      BY <2>2 DEF StartCall
    <3>2. ParsedItems(req.items) # <<>>
      BY <2>2 DEF CallsAfter
    <3>3. Batch(req.items) \in Lists /\ req.system \in System
      BY <1>2, <2>2, <3>2, AnonymizeRequestHas
    <3>. QED BY <2>1, <3>1, <3>3 DEF Next
  <2>3. CASE req.op = "anonymizeLines"
    <3>1. AnonymizeRecord(CallOf(h, j), req.system, req.items[j])
      BY <2>3 DEF StartCall
    <3>2. j \in DOMAIN req.items
      BY <2>3, CallsAreOfRecords
    <3>3. req.items[j] \in Records /\ req.system \in System
      BY <1>2, <2>3, <3>2, AnonymizeRequestHas
    <3>. QED BY <2>1, <3>1, <3>3 DEF Next
  <2>. QED BY <1>2, <2>2, <2>3, AnonymizeRequestHas DEF AnonymizeOps
<1>3. ASSUME h \in DeanonymizeHandlers, IsDeanonymizeRequest(req)
      PROVE  Next
  <2>1. CallOf(h, j) \in DeanonymizeCalls
    BY <1>1, <1>3, HandlerCallsAssumption DEF CallOf
  <2>2. req.op # "anonymizeBatch" /\ req.op # "anonymizeLines" /\ req.system \in System
    BY <1>3 DEF IsDeanonymizeRequest, DeanonymizeOps
  <2>3. DeanonymizeRecord(CallOf(h, j), req.system, req.items[j])
    BY <2>2 DEF StartCall
  <2>4. j \in Docs(req.items) /\ j \in DOMAIN req.items
    BY <2>2, CallsAreOfRecords
  <2>5. req.items[j] \in ReturnedRecords \cup Foreign
    BY <1>3, <2>4 DEF Docs, IsDeanonymizeRequest
  <2>. QED BY <2>1, <2>2, <2>3, <2>5 DEF Next
<1>. QED BY <1>2, <1>3 DEF IsRequestOf

\* A handler that goes on makes such a call or changes nothing of the
\* tokenizer.
LEMMA GoOnIsNext ==
    ASSUME NEW h \in Handler, NEW req, IsRequestOf(h, req), NEW i, GoOn(h, req, i)
    PROVE  [Next]_vars
<1>. DEFINE rest == CallsAfter(req, i)
<1>1. CASE rest = {}
  BY <1>1 DEF GoOn
<1>2. CASE rest # {}
  <2>1. Min(rest) \in rest
    BY <1>2, NextCall
  <2>2. StartCall(h, req, Min(rest))
    BY <1>2 DEF GoOn
  <2>. QED BY <2>1, <2>2, StartCallIsNext
<1>. QED BY <1>1, <1>2

\* What a client has been sent without error is what the tokenizer returned.
LEMMA GivenIsReturned ==
    ASSUME RequestsInOrder, NEW rec \in Given
    PROVE  rec \in ReturnedRecords
<1>1. PICK h \in AnonymizeHandlers : /\ Asked(h, AnonymizeOps)
                                     /\ \E r \in Sent(h) : r.ok /\ rec = r.record
  BY DEF Given
<1>2. PICK r \in Sent(h) : r.ok /\ rec = r.record
  BY <1>1
<1>3. h \in Handler /\ request[h] # NoRequest /\ request[h].op \in AnonymizeOps
  BY <1>1 DEF Asked, Handler
<1>4. IsRequestOf(h, request[h]) /\ DOMAIN request[h].items \subseteq 1..MaxItems
  BY <1>3, AnonymizeRequestHas DEF RequestsInOrder, IsRequestOf, IsDeanonymizeRequest
<1>5. \A j \in 1..MaxItems : CallOf(h, j) \in Call
  BY <1>1, HandlerCallsAssumption, CallsAssumption DEF CallOf
<1>6. PICK c \in Call : \E k : Succeeded(c, k) /\ rec = ResultRecord(c, k)
  <2>1. CASE request[h].op = "anonymizeBatch"
    <3>1. r \in BatchResults(h)
      BY <1>2, <1>3, <2>1 DEF Sent
    <3>2. \A i : ~ErrorResult(i).ok /\ ~BatchError(i).ok
      BY DEF ErrorResult, BatchError
    <3>3. PICK k : r = BatchResult(h, k)
      BY <1>2, <3>1, <3>2 DEF BatchResults
    <3>4. Succeeded(CallOf(h, 1), k) /\ r = OkResult(RecordIds(request[h].items)[k], ResultRecord(CallOf(h, 1), k))
      BY <1>2, <3>2, <3>3 DEF BatchResult
    <3>5. r.record = ResultRecord(CallOf(h, 1), k)
      BY <3>4 DEF OkResult
    <3>6. CallOf(h, 1) \in Call
      BY <1>5, HandlerCallsAssumption
    <3>. QED BY <1>2, <3>4, <3>5, <3>6
  <2>2. CASE request[h].op = "anonymizeLines"
    <3>1. PICK i \in Through(h) : r = LineResult(h, i)
      BY <1>2, <1>3, <2>2 DEF Sent
    <3>2. i \in DOMAIN request[h].items
      BY <1>3, <3>1 DEF Through
    <3>3. \A j : ~ErrorResult(j).ok
      BY DEF ErrorResult
    <3>4. i \in Docs(request[h].items)
      BY <1>2, <3>1, <3>3 DEF LineResult
    <3>5. r = IF Succeeded(CallOf(h, i), 1) THEN OkResult(i, ResultRecord(CallOf(h, i), 1))
                                           ELSE ErrorResult(i)
      BY <2>2, <3>1, <3>4 DEF LineResult
    <3>6. Succeeded(CallOf(h, i), 1) /\ r.record = ResultRecord(CallOf(h, i), 1)
      BY <1>2, <3>3, <3>5 DEF OkResult
    <3>. QED BY <1>2, <1>4, <1>5, <3>2, <3>6
  <2>. QED BY <1>3, <2>1, <2>2 DEF AnonymizeOps
<1>7. PICK k : Succeeded(c, k) /\ rec = ResultRecord(c, k)
  BY <1>6
<1>8. Anonymizer(c) /\ k \in DOMAIN task[c].input
  BY <1>7 DEF Succeeded
<1>. QED BY <1>7, <1>8 DEF ReturnedRecords

\* A record that was returned stays one.
LEMMA ReturnedRecordsKept == StepKeeps => ReturnedRecords \subseteq ReturnedRecords'
<1>. SUFFICES ASSUME StepKeeps, NEW rec \in ReturnedRecords PROVE rec \in ReturnedRecords'
  OBVIOUS
<1>1. PICK c \in Call : /\ Anonymizer(c)
                       /\ \E r \in DOMAIN task[c].input : Succeeded(c, r) /\ rec = ResultRecord(c, r)
  BY DEF ReturnedRecords
<1>2. PICK r \in DOMAIN task[c].input : Succeeded(c, r) /\ rec = ResultRecord(c, r)
  BY <1>1
<1>3. task'[c] = task[c] /\ status[c] = "done" /\ status'[c] = "done"
  BY <1>1, <1>2 DEF StepKeeps, Anonymizer, Succeeded, Answered, HasError
<1>4. Anonymizer(c)'
  BY <1>1, <1>3 DEF Anonymizer
<1>5. Succeeded(c, r)'
  BY <1>2, <1>3 DEF Succeeded, Anonymizer, Answered, Raises, HasError
<1>6. rec = ResultRecord(c, r)'
  BY <1>2, <1>3 DEF ResultRecord, HasError
<1>. QED BY <1>3, <1>4, <1>5, <1>6 DEF ReturnedRecords

\* A request that arrives is of its handler's kind.
LEMMA ArrivingRequest ==
    ASSUME RequestsInOrder, NEW h \in DeanonymizeHandlers, NEW req \in DeanonymizeRequests
    PROVE  IsRequestOf(h, req)
<1>1. PICK n \in 1..MaxItems :
         /\ req.op \in DeanonymizeOps /\ req.system \in System
         /\ req.items \in [1..n -> Restorable(req.op)]
  BY DEF DeanonymizeRequests
<1>2. DOMAIN req.items = 1..n /\ 1..n \subseteq 1..MaxItems
  BY <1>1, HandlerCallsAssumption
<1>3. \A i \in DOMAIN req.items :
         req.items[i] \in ReturnedRecords \cup Foreign \cup {NotADict, Unparsable}
  BY <1>1, <1>2, GivenIsReturned DEF Restorable
<1>. QED BY <1>1, <1>2, <1>3 DEF IsRequestOf, IsDeanonymizeRequest

\* Going on leaves the other handlers as they are.
LEMMA GoOnKeepsOrder ==
    ASSUME RequestsInOrder, StepKeeps, NEW h \in Handler, NEW req, IsRequestOf(h, req),
           NEW i, GoOn(h, req, i), DOMAIN request' = Handler, request'[h] = req,
           \A g \in Handler : g # h => request'[g] = request[g]
    PROVE  RequestsInOrder'
<1>. DEFINE rest == CallsAfter(req, i)
<1>1. DOMAIN request' = Handler /\ DOMAIN phase' = Handler /\ DOMAIN place' = Handler
  BY DEF GoOn, RequestsInOrder
<1>2. IsRequestOf(h, request[h])'
  BY ReturnedRecordsKept DEF IsRequestOf, IsDeanonymizeRequest
<1>3. phase'[h] = "running" => place'[h] \in 1..MaxItems
  <2>1. CASE rest = {}
    BY <2>1 DEF GoOn, RequestsInOrder
  <2>2. CASE rest # {}
    <3>1. Min(rest) \in 1..MaxItems
      BY <2>2, NextCall, CallsAreOfRecords
    <3>2. place'[h] = Min(rest)
      BY <2>2 DEF GoOn, RequestsInOrder
    <3>. QED BY <3>1, <3>2
  <2>. QED BY <2>1, <2>2
<1>4. ASSUME NEW g \in Handler, g # h
      PROVE  /\ request'[g] = NoRequest \/ IsRequestOf(g, request[g])'
             /\ phase'[g] # "idle" => IsRequestOf(g, request[g])'
             /\ phase'[g] = "running" => place'[g] \in 1..MaxItems
  <2>1. request'[g] = request[g] /\ phase'[g] = phase[g] /\ place'[g] = place[g]
    BY <1>4 DEF GoOn, RequestsInOrder
  <2>2. IsRequestOf(g, request[g]) => IsRequestOf(g, request[g])'
    BY <2>1, ReturnedRecordsKept DEF IsRequestOf, IsDeanonymizeRequest
  <2>. QED BY <2>1, <2>2 DEF RequestsInOrder
<1>. QED BY <1>1, <1>2, <1>3, <1>4 DEF RequestsInOrder

\* Every step of the handlers is one of the tokenizer, or none.
LEMMA HandlerStepIsNext == RequestsInOrder /\ [HandlerNext]_handlerVars => [Next]_vars
<1>. SUFFICES ASSUME RequestsInOrder, [HandlerNext]_handlerVars PROVE [Next]_vars
  OBVIOUS
<1>1. ASSUME NEW h \in AnonymizeHandlers, NEW req \in AnonymizeRequests, Begin(h, req)
      PROVE  [Next]_vars
  BY <1>1, GoOnIsNext DEF Begin, IsRequestOf, Handler
<1>2. ASSUME NEW h \in DeanonymizeHandlers, NEW req \in DeanonymizeRequests, Begin(h, req)
      PROVE  [Next]_vars
  BY <1>2, GoOnIsNext, ArrivingRequest DEF Begin, Handler
<1>3. ASSUME NEW h \in Handler, Resume(h)
      PROVE  [Next]_vars
  BY <1>3, GoOnIsNext DEF Resume, RequestsInOrder
<1>4. ASSUME NEW h \in Handler, Cancel(h)
      PROVE  [Next]_vars
  <2>1. place[h] \in 1..MaxItems
    BY <1>4 DEF Cancel, RequestsInOrder
  <2>2. CallOf(h, place[h]) \in Call
    BY <2>1, HandlerCallsAssumption, CallsAssumption DEF CallOf, Handler
  <2>3. UNCHANGED storeVars \/ StoreStep
    BY <1>4, <2>2 DEF Cancel, StoreStep
  <2>. QED BY <1>4, <2>3 DEF Cancel, Next, vars
<1>5. CASE Reload /\ UNCHANGED <<request, phase, place>>
  BY <1>5 DEF Next
<1>6. CASE StoreProgress /\ UNCHANGED <<policy, task, request, phase, place>>
  BY <1>6 DEF Next, StoreStep
<1>7. CASE UNCHANGED handlerVars
  BY <1>7 DEF handlerVars
<1>. QED BY <1>1, <1>2, <1>3, <1>4, <1>5, <1>6, <1>7 DEF HandlerNext

\* Steps that leave the requests alone leave them in order.
LEMMA OrderKept ==
    ASSUME RequestsInOrder, StepKeeps, UNCHANGED <<request, place>>,
           DOMAIN phase' = Handler,
           \A h \in Handler : phase'[h] = phase[h] \/ (phase[h] # "idle" /\ phase'[h] # "running")
    PROVE  RequestsInOrder'
<1>1. ASSUME NEW h \in Handler
      PROVE  IsRequestOf(h, request[h]) => IsRequestOf(h, request[h])'
  BY ReturnedRecordsKept DEF IsRequestOf, IsDeanonymizeRequest
<1>. QED BY <1>1 DEF RequestsInOrder

\* Every step keeps the requests in order.
LEMMA RequestsStayInOrder ==
    TokenizerInv /\ RequestsInOrder /\ [HandlerNext]_handlerVars => RequestsInOrder'
<1>. SUFFICES ASSUME TokenizerInv, RequestsInOrder, [HandlerNext]_handlerVars
     PROVE  RequestsInOrder'
  OBVIOUS
<1>0. StepKeeps
  BY StepsKeep, HandlerStepIsNext
<1>1. ASSUME NEW h \in AnonymizeHandlers, NEW req \in AnonymizeRequests, Begin(h, req)
      PROVE  RequestsInOrder'
  <2>1. h \in Handler /\ IsRequestOf(h, req) /\ GoOn(h, req, 0)
    BY <1>1 DEF Begin, IsRequestOf, Handler
  <2>2. request' = [request EXCEPT ![h] = req] /\ DOMAIN request = Handler
    BY <1>1 DEF Begin, RequestsInOrder
  <2>. QED BY <1>0, <2>1, <2>2, GoOnKeepsOrder
<1>2. ASSUME NEW h \in DeanonymizeHandlers, NEW req \in DeanonymizeRequests, Begin(h, req)
      PROVE  RequestsInOrder'
  <2>1. h \in Handler /\ IsRequestOf(h, req) /\ GoOn(h, req, 0)
    BY <1>2, ArrivingRequest DEF Begin, Handler
  <2>2. request' = [request EXCEPT ![h] = req] /\ DOMAIN request = Handler
    BY <1>2 DEF Begin, RequestsInOrder
  <2>. QED BY <1>0, <2>1, <2>2, GoOnKeepsOrder
<1>3. ASSUME NEW h \in Handler, Resume(h)
      PROVE  RequestsInOrder'
  <2>1. IsRequestOf(h, request[h]) /\ GoOn(h, request[h], place[h])
    BY <1>3 DEF Resume, RequestsInOrder
  <2>2. request' = request /\ DOMAIN request = Handler
    BY <1>3 DEF Resume, RequestsInOrder
  <2>. QED BY <1>0, <2>1, <2>2, GoOnKeepsOrder
<1>4. ASSUME NEW h \in Handler, Cancel(h)
      PROVE  RequestsInOrder'
  BY <1>0, <1>4, OrderKept DEF Cancel, RequestsInOrder
<1>5. CASE UNCHANGED <<request, phase, place>>
  BY <1>0, <1>5, OrderKept DEF RequestsInOrder
<1>. QED BY <1>1, <1>2, <1>3, <1>4, <1>5 DEF HandlerNext, handlerVars

-----------------------------------------------------------------------------
(* Each handler makes its calls one at a time, in the order of its request. *)

\* The calls a request makes in all.
CallsOf(req) == CallsAfter(req, 0)

\* What call i of a request captures.
IsTaskFor(t, req, i) ==
    /\ t.system = req.system
    /\ req.op = "anonymizeBatch" => t.op = "batch" /\ t.input = Batch(req.items)
    /\ req.op = "anonymizeLines" => t.op = "record" /\ t.input = <<req.items[i]>>
    /\ req.op \in DeanonymizeOps => t.op = "deanonymize" /\ t.input = <<req.items[i]>>

\* Call i of handler h has been made only if it is due, for its record; it is
\* in progress only while the handler awaits it; and the handler is past it
\* only when it has returned.
CallInOrder(h, i) ==
    LET c == CallOf(h, i)
    IN  /\ status[c] # "idle" => /\ request[h] # NoRequest
                                 /\ i \in CallsOf(request[h]) /\ i <= place[h]
                                 /\ IsTaskFor(task[c], request[h], i)
        /\ status[c] \in {"writing", "reading"} => phase[h] = "running" /\ i = place[h]
        /\ request[h] # NoRequest /\ i \in CallsOf(request[h]) =>
              (phase[h] = "answered" \/ i < place[h] => Answered(c))

HandlerInOrder(h) ==
    /\ request[h] \in Request \cup {NoRequest}
    /\ phase[h] \in {"idle", "running", "answered", "cancelled"}
    /\ place[h] \in 0..MaxItems
    /\ request[h] = NoRequest <=> phase[h] = "idle"
    /\ phase[h] = "running" => status[CallOf(h, place[h])] # "idle"
    /\ \A i \in 1..MaxItems : CallInOrder(h, i)

HandlersInOrder == \A h \in Handler : HandlerInOrder(h)

\* A call that has returned does not change its answer.
LEMMA AnsweredStays ==
    StoreTypeOK /\ StoreStep => \A c \in Call : Answered(c) => status'[c] = status[c]
<1>. SUFFICES ASSUME StoreTypeOK, StoreStep, NEW c \in Call, Answered(c)
              PROVE  status'[c] = status[c]
  OBVIOUS
<1>. USE DEF Answered, StoreTypeOK
<1>1. CASE \E m \in wire : Execute(m)
  BY <1>1 DEF Execute
<1>2. CASE \E m \in wire : Refuse(m)
  BY <1>2 DEF Refuse, IsCurrent
<1>3. CASE \E a \in Call : Acknowledge(a)
  BY <1>3 DEF Acknowledge
<1>4. CASE \E a \in Call : ReadNext(a)
  BY <1>4 DEF ReadNext
<1>5. CASE \E a \in Call : ReturnRead(a)
  BY <1>5 DEF ReturnRead
<1>6. CASE \E a \in Call : TimeOut(a)
  BY <1>6 DEF TimeOut
<1>7. CASE \E k \in DOMAIN db : Expire(k)
  BY <1>7 DEF Expire
<1>8. CASE \E a \in Call : Abandon(a)
  BY <1>8 DEF Abandon
<1>. QED BY <1>1, <1>2, <1>3, <1>4, <1>5, <1>6, <1>7, <1>8 DEF StoreStep, StoreProgress

\* The calls that are left are those of the request that come later.
LEMMA CallsLeft ==
    ASSUME NEW h \in Handler, NEW req, IsRequestOf(h, req), NEW i \in 0..MaxItems,
           i = 0 \/ i \in CallsOf(req)
    PROVE  CallsAfter(req, i) = {j \in CallsOf(req) : j > i}
<1>1. DOMAIN req.items \subseteq 1..MaxItems /\ Docs(req.items) \subseteq 1..MaxItems
  BY AnonymizeRequestHas DEF IsRequestOf, IsDeanonymizeRequest, Docs
<1>2. MaxItems \in Nat \ {0}
  BY HandlerCallsAssumption
<1>3. CASE req.op = "anonymizeBatch"
  BY <1>2, <1>3 DEF CallsAfter, CallsOf
<1>4. CASE req.op # "anonymizeBatch"
  BY <1>1, <1>2, <1>4 DEF CallsAfter, CallsOf
<1>. QED BY <1>3, <1>4

\* Handlers and their records make calls of their own.
LEMMA CallsAreDistinct ==
    ASSUME NEW h \in Handler, NEW i \in 1..MaxItems
    PROVE  /\ CallOf(h, i) \in Call
           /\ \A g, j : CallOf(g, j) = CallOf(h, i) => g = h /\ j = i
BY HandlerCallsAssumption, CallsAssumption DEF CallOf, Handler

\* What making a call does.
CallMade(h, req, j) ==
    /\ status[CallOf(h, j)] = "idle"
    /\ \E v \in {"done", "writing", "reading"} : status' = [status EXCEPT ![CallOf(h, j)] = v]
    /\ \E t : IsTaskFor(t, req, j) /\ task' = [task EXCEPT ![CallOf(h, j)] = t]

\* The next call of a handler is made for its record.
LEMMA StartCallMakesCall ==
    ASSUME NEW h \in Handler, NEW req, IsRequestOf(h, req), NEW i,
           NEW j \in CallsAfter(req, i), StartCall(h, req, j)
    PROVE  CallMade(h, req, j)
<1>1. req.op \in AnonymizeOps \cup DeanonymizeOps
  BY AnonymizeRequestHas DEF IsRequestOf, IsDeanonymizeRequest
<1>2. ASSUME NEW c, \/ \E b : StoreBatch(c, b)
                    \/ \E q : RetrieveBatch(c, q)
      PROVE  /\ status[c] = "idle"
             /\ \E v \in {"done", "writing", "reading"} : status' = [status EXCEPT ![c] = v]
  BY <1>2 DEF StoreBatch, RetrieveBatch
<1>3. CASE req.op = "anonymizeBatch"
  <2>1. j = 1
    BY <1>3 DEF CallsAfter
  <2>2. AnonymizeBatch(CallOf(h, j), req.system, Batch(req.items))
    BY <1>3, <2>1 DEF StartCall
  <2>. DEFINE t == [op |-> "batch", system |-> req.system, config |-> ConfigOf(req.system),
                    input |-> Batch(req.items)]
  <2>3. task' = [task EXCEPT ![CallOf(h, j)] = t]
    BY <2>2 DEF AnonymizeBatch, Capture
  <2>4. IsTaskFor(t, req, j)
    BY <1>3 DEF IsTaskFor, DeanonymizeOps
  <2>5. \E b : StoreBatch(CallOf(h, j), b)
    BY <2>2 DEF AnonymizeBatch
  <2>. HIDE DEF t
  <2>. QED BY <1>2, <2>3, <2>4, <2>5 DEF CallMade
<1>4. CASE req.op = "anonymizeLines"
  <2>2. AnonymizeRecord(CallOf(h, j), req.system, req.items[j])
    BY <1>4 DEF StartCall
  <2>. DEFINE t == [op |-> "record", system |-> req.system, config |-> ConfigOf(req.system),
                    input |-> <<req.items[j]>>]
  <2>3. task' = [task EXCEPT ![CallOf(h, j)] = t]
    BY <2>2 DEF AnonymizeRecord, Capture
  <2>4. IsTaskFor(t, req, j)
    BY <1>4 DEF IsTaskFor, DeanonymizeOps
  <2>5. \E b : StoreBatch(CallOf(h, j), b)
    BY <2>2 DEF AnonymizeRecord
  <2>. HIDE DEF t
  <2>. QED BY <1>2, <2>3, <2>4, <2>5 DEF CallMade
<1>5. CASE req.op \in DeanonymizeOps
  <2>1. req.op # "anonymizeBatch" /\ req.op # "anonymizeLines"
    BY <1>5 DEF DeanonymizeOps
  <2>2. DeanonymizeRecord(CallOf(h, j), req.system, req.items[j])
    BY <2>1 DEF StartCall
  <2>. DEFINE t == [op |-> "deanonymize", system |-> req.system, config |-> ConfigOf(req.system),
                    input |-> <<req.items[j]>>]
  <2>3. task' = [task EXCEPT ![CallOf(h, j)] = t]
    BY <2>2, Zenon DEF DeanonymizeRecord, Capture
  <2>4. IsTaskFor(t, req, j)
    BY <2>1 DEF IsTaskFor
  <2>5. \E q : RetrieveBatch(CallOf(h, j), q)
    BY <2>2, Zenon DEF DeanonymizeRecord
  <2>. HIDE DEF t
  <2>. QED BY <1>2, <2>3, <2>4, <2>5 DEF CallMade
<1>. QED BY <1>1, <1>3, <1>4, <1>5 DEF AnonymizeOps

\* Handler h has made the calls of request req up to i, and they have returned.
CallsReturned(h, req, i) ==
    \A j \in 1..MaxItems :
        /\ status[CallOf(h, j)] # "idle" =>
              /\ j \in CallsOf(req) /\ j <= i
              /\ IsTaskFor(task[CallOf(h, j)], req, j)
        /\ status[CallOf(h, j)] \notin {"writing", "reading"}
        /\ j \in CallsOf(req) /\ j <= i => Answered(CallOf(h, j))

\* A handler that goes on is in order, and the others are as they were.
LEMMA GoOnInOrder ==
    ASSUME TokenizerInv, RequestsInOrder, HandlersInOrder,
           NEW h \in Handler, NEW req \in Request, IsRequestOf(h, req),
           NEW i \in 0..MaxItems, i = 0 \/ i \in CallsOf(req),
           CallsReturned(h, req, i), GoOn(h, req, i), request'[h] = req,
           \A g \in Handler : g # h => request'[g] = request[g]
    PROVE  HandlersInOrder'
<1>. DEFINE rest == CallsAfter(req, i)
<1>1. rest = {j \in CallsOf(req) : j > i}
  BY CallsLeft
<1>2. CallsOf(req) \subseteq 1..MaxItems /\ MaxItems \in Nat
  BY CallsAreOfRecords, HandlerCallsAssumption DEF CallsOf
<1>3. /\ DOMAIN request = Handler /\ DOMAIN phase = Handler /\ DOMAIN place = Handler
      /\ status \in [Call -> {"idle", "writing", "reading", "done", "failed"}]
      /\ DOMAIN task = Call
  BY DEF RequestsInOrder, TokenizerInv, StoreInv, StoreTypeOK, TypeOK
<1>4. req # NoRequest /\ request'[h] = req
  BY <1>3, NoRequestAssumption
<1>5. place[h] \in 0..MaxItems
  BY DEF HandlersInOrder, HandlerInOrder
<1>6. ASSUME NEW g \in Handler, g # h,
             \A j \in 1..MaxItems : /\ status'[CallOf(g, j)] = status[CallOf(g, j)]
                                    /\ task'[CallOf(g, j)] = task[CallOf(g, j)],
             phase'[g] = phase[g], place'[g] = place[g]
      PROVE  HandlerInOrder(g)'
  <2>1. request'[g] = request[g]
    BY <1>3, <1>6
  <2>2. HandlerInOrder(g) /\ (phase[g] = "running" => place[g] \in 1..MaxItems)
    BY DEF HandlersInOrder, RequestsInOrder
  <2>3. ASSUME NEW j \in 1..MaxItems
        PROVE  CallInOrder(g, j)'
    <3>1. CallInOrder(g, j)
      BY <2>2 DEF HandlerInOrder
    <3>. QED BY <1>6, <2>1, <3>1 DEF CallInOrder, Answered
  <2>. QED BY <1>6, <2>1, <2>2, <2>3 DEF HandlerInOrder
<1>7. CASE rest = {}
  <2>1. phase' = [phase EXCEPT ![h] = "answered"] /\ UNCHANGED <<status, task, place>>
    BY <1>7 DEF GoOn, vars, storeVars
  <2>2. phase'[h] = "answered" /\ place'[h] = place[h]
    BY <1>3, <2>1
  <2>3. ASSUME NEW j \in 1..MaxItems
        PROVE  CallInOrder(h, j)'
    <3>1. CallInOrder(h, j)
      BY DEF HandlersInOrder, HandlerInOrder
    <3>2. j \in CallsOf(req) => j <= i
      BY <1>1, <1>7
    <3>. QED BY <1>4, <2>1, <2>2, <3>1, <3>2 DEF CallInOrder, CallsReturned, Answered
  <2>4. HandlerInOrder(h)'
    BY <1>4, <1>5, <2>2, <2>3 DEF HandlerInOrder
  <2>5. ASSUME NEW g \in Handler, g # h PROVE HandlerInOrder(g)'
    BY <1>3, <1>6, <2>1, <2>5
  <2>. QED BY <2>4, <2>5 DEF HandlersInOrder
<1>8. CASE rest # {}
  <2>. DEFINE m == Min(rest)
  <2>1. m \in rest /\ \A j \in rest : m <= j
    <3>1. \E n \in rest : \A j \in rest : n <= j
      <4>1. rest \in SUBSET Nat
        BY <1>1, <1>2
      <4>. HIDE DEF rest
      <4>. QED BY <1>8, <4>1, LeastNatural
    <3>. HIDE DEF rest
    <3>. QED BY <3>1 DEF Min
  <2>2. m \in 1..MaxItems /\ i < m /\ m \in CallsOf(req)
    BY <1>1, <1>2, <2>1
  <2>3. /\ phase' = [phase EXCEPT ![h] = "running"]
        /\ place' = [place EXCEPT ![h] = m]
        /\ StartCall(h, req, m)
    BY <1>8 DEF GoOn
  <2>4. CallMade(h, req, m)
    BY <2>1, <2>3, StartCallMakesCall
  <2>. HIDE DEF m, rest
  <2>5. PICK v \in {"done", "writing", "reading"} : status' = [status EXCEPT ![CallOf(h, m)] = v]
    BY <2>4 DEF CallMade
  <2>6. PICK t : IsTaskFor(t, req, m) /\ task' = [task EXCEPT ![CallOf(h, m)] = t]
    BY <2>4 DEF CallMade
  <2>7. phase'[h] = "running" /\ place'[h] = m
    BY <1>3, <2>3
  <2>8. CallOf(h, m) \in Call /\ status'[CallOf(h, m)] = v /\ task'[CallOf(h, m)] = t
    BY <1>3, <2>2, <2>5, <2>6, CallsAreDistinct
  <2>9. ASSUME NEW g \in Handler, NEW j \in 1..MaxItems, g # h \/ j # m
        PROVE  /\ status'[CallOf(g, j)] = status[CallOf(g, j)]
               /\ task'[CallOf(g, j)] = task[CallOf(g, j)]
    <3>1. CallOf(g, j) # CallOf(h, m)
      BY <2>2, <2>9, CallsAreDistinct
    <3>2. CallOf(g, j) \in Call
      BY CallsAreDistinct
    <3>. QED BY <1>3, <2>5, <2>6, <3>1, <3>2
  <2>10. ASSUME NEW j \in 1..MaxItems
         PROVE  CallInOrder(h, j)'
    <3>1. CASE j = m
      BY <1>4, <2>2, <2>6, <2>7, <2>8, <3>1 DEF CallInOrder
    <3>2. CASE j # m
      <4>1. j \in CallsOf(req) /\ j < m => j <= i
        BY <1>1, <2>1, <2>2
      <4>2. j <= i => j <= m
        BY <2>2
      <4>3. status'[CallOf(h, j)] = status[CallOf(h, j)] /\ task'[CallOf(h, j)] = task[CallOf(h, j)]
        BY <2>9, <3>2
      <4>. QED BY <1>4, <2>7, <4>1, <4>2, <4>3 DEF CallInOrder, CallsReturned, Answered
    <3>. QED BY <3>1, <3>2
  <2>11. HandlerInOrder(h)'
    BY <1>4, <2>2, <2>7, <2>8, <2>10, <1>2 DEF HandlerInOrder
  <2>12. ASSUME NEW g \in Handler, g # h PROVE HandlerInOrder(g)'
    BY <1>3, <1>6, <2>3, <2>9, <2>12
  <2>. QED BY <2>11, <2>12 DEF HandlersInOrder
<1>. QED BY <1>7, <1>8

\* A request that arrives has its type.
LEMMA ArrivingRequestType ==
    ASSUME TokenizerInv, RequestsInOrder, NEW req \in DeanonymizeRequests
    PROVE  req \in Request
<1>. DEFINE Items == Record \cup {NotADict, Unparsable}
<1>1. PICK op \in DeanonymizeOps, s \in System, n \in 1..MaxItems :
         \E items \in [1..n -> Restorable(op)] :
            req = [op |-> op, system |-> s, items |-> items]
  BY DEF DeanonymizeRequests
<1>2. PICK items \in [1..n -> Restorable(op)] :
         req = [op |-> op, system |-> s, items |-> items]
  BY <1>1
<1>3. Restorable(op) \subseteq Items
  BY GivenIsReturned, ReturnedRecordType, InputsAssumption DEF Restorable
<1>4. n \in Nat
  BY <1>1, HandlerCallsAssumption
<1>. HIDE DEF Items
<1>5. items \in [1..n -> Items]
  BY <1>2, <1>3
<1>6. items \in Seq(Items)
  BY <1>4, <1>5
<1>. QED BY <1>1, <1>2, <1>6 DEF Request, Items

\* A step that begins and resumes nothing: calls that have returned keep their
\* answers, and a handler that is not cancelled keeps its state.
LEMMA QuietStepInOrder ==
    ASSUME TokenizerInv, RequestsInOrder, HandlersInOrder, UNCHANGED <<task, request, place>>,
           \A c \in Call : /\ status'[c] = "idle" <=> status[c] = "idle"
                           /\ Answered(c) => status'[c] = status[c],
           status' \in [Call -> {"idle", "writing", "reading", "done", "failed"}],
           \A h \in Handler :
              \/ phase'[h] = phase[h]
              \/ /\ phase[h] = "running" /\ phase'[h] = "cancelled"
                 /\ status'[CallOf(h, place[h])] \notin {"writing", "reading"}
    PROVE  HandlersInOrder'
<1>. SUFFICES ASSUME NEW h \in Handler PROVE HandlerInOrder(h)'
  BY DEF HandlersInOrder
<1>1. HandlerInOrder(h)
  BY DEF HandlersInOrder
<1>2. status \in [Call -> {"idle", "writing", "reading", "done", "failed"}]
  BY DEF TokenizerInv, StoreInv, StoreTypeOK
<1>3. request'[h] = request[h] /\ place'[h] = place[h]
  OBVIOUS
<1>4. ASSUME NEW i \in 1..MaxItems
      PROVE  CallInOrder(h, i)'
  <2>1. CallInOrder(h, i) /\ CallOf(h, i) \in Call
    BY <1>1, CallsAreDistinct DEF HandlerInOrder
  <2>2. task'[CallOf(h, i)] = task[CallOf(h, i)]
    OBVIOUS
  <2>3. /\ status'[CallOf(h, i)] = "idle" <=> status[CallOf(h, i)] = "idle"
        /\ Answered(CallOf(h, i)) => status'[CallOf(h, i)] = status[CallOf(h, i)]
        /\ status'[CallOf(h, i)] \in {"writing", "reading"} =>
              status[CallOf(h, i)] \in {"writing", "reading"}
    BY <1>2, <2>1 DEF Answered
  <2>. QED BY <1>1, <1>3, <2>1, <2>2, <2>3 DEF CallInOrder, HandlerInOrder, Answered
<1>5. phase'[h] = "running" => status'[CallOf(h, place[h])] # "idle"
  <2>1. CASE phase'[h] = "running"
    <3>1. phase[h] = "running" /\ status[CallOf(h, place[h])] # "idle"
      BY <1>1, <2>1 DEF HandlerInOrder
    <3>2. CallOf(h, place[h]) \in Call
      BY <3>1, CallsAreDistinct DEF RequestsInOrder
    <3>. QED BY <3>1, <3>2
  <2>. QED BY <2>1
<1>. QED BY <1>1, <1>3, <1>4, <1>5 DEF HandlerInOrder

\* Every step keeps the handlers in order.
LEMMA HandlersStayInOrder ==
    TokenizerInv /\ TokenizerInv' /\ RequestsInOrder /\ HandlersInOrder
        /\ [HandlerNext]_handlerVars => HandlersInOrder'
<1>. SUFFICES ASSUME TokenizerInv, TokenizerInv', RequestsInOrder, HandlersInOrder,
                     [HandlerNext]_handlerVars
              PROVE  HandlersInOrder'
  OBVIOUS
<1>1. ASSUME NEW h \in Handler, NEW req \in Request, IsRequestOf(h, req), Begin(h, req)
      PROVE  HandlersInOrder'
  <2>1. phase[h] = "idle" /\ request' = [request EXCEPT ![h] = req] /\ GoOn(h, req, 0)
    BY <1>1 DEF Begin
  <2>2. HandlerInOrder(h) /\ request[h] = NoRequest
    BY <2>1 DEF HandlersInOrder, HandlerInOrder
  <2>3. 0 \in 0..MaxItems /\ \A j \in CallsOf(req) : j > 0
    BY <1>1, CallsAreOfRecords, HandlerCallsAssumption DEF CallsOf
  <2>4. CallsReturned(h, req, 0)
    BY <2>2, <2>3 DEF HandlerInOrder, CallInOrder, CallsReturned
  <2>5. request'[h] = req /\ \A g \in Handler : g # h => request'[g] = request[g]
    BY <2>1 DEF RequestsInOrder
  <2>. QED BY <1>1, <2>1, <2>3, <2>4, <2>5, GoOnInOrder
<1>2. ASSUME NEW h \in Handler, Resume(h)
      PROVE  HandlersInOrder'
  <2>1. /\ phase[h] = "running" /\ Answered(CallOf(h, place[h]))
        /\ GoOn(h, request[h], place[h]) /\ request' = request
    BY <1>2 DEF Resume, CurrentReady
  <2>. DEFINE req == request[h]
              i == place[h]
  <2>2. HandlerInOrder(h)
    BY DEF HandlersInOrder
  <2>3. req \in Request /\ req # NoRequest /\ IsRequestOf(h, req) /\ i \in 1..MaxItems
        /\ DOMAIN request = Handler
    BY <2>1, <2>2 DEF HandlerInOrder, RequestsInOrder
  <2>4. \A j \in 1..MaxItems : CallInOrder(h, j)
    BY <2>2 DEF HandlerInOrder
  <2>5. i \in CallsOf(req) /\ i \in 0..MaxItems
    BY <2>1, <2>3, <2>4, HandlerCallsAssumption DEF CallInOrder, Answered
  <2>6. CallsReturned(h, req, i)
    <3>. SUFFICES ASSUME NEW j \in 1..MaxItems
                  PROVE  /\ status[CallOf(h, j)] # "idle" =>
                               /\ j \in CallsOf(req) /\ j <= i
                               /\ IsTaskFor(task[CallOf(h, j)], req, j)
                         /\ status[CallOf(h, j)] \notin {"writing", "reading"}
                         /\ j \in CallsOf(req) /\ j <= i => Answered(CallOf(h, j))
      BY DEF CallsReturned
    <3>1. CallInOrder(h, j)
      BY <2>4
    <3>2. j \in CallsOf(req) /\ j <= i => Answered(CallOf(h, j))
      <4>1. CASE j = i
        BY <2>1, <4>1
      <4>2. CASE j # i
        <5>1. j <= i => j < i
          BY <2>3, <4>2
        <5>. QED BY <2>3, <3>1, <5>1 DEF CallInOrder
      <4>. QED BY <4>1, <4>2
    <3>3. status[CallOf(h, j)] \notin {"writing", "reading"}
      BY <2>1, <3>1 DEF CallInOrder, Answered
    <3>. QED BY <3>1, <3>2, <3>3 DEF CallInOrder
  <2>7. request'[h] = req /\ \A g \in Handler : g # h => request'[g] = request[g]
    BY <2>1
  <2>. HIDE DEF i, req
  <2>8. GoOn(h, req, i)
    BY <2>1 DEF i, req
  <2>. QED BY <2>3, <2>5, <2>6, <2>7, <2>8, GoOnInOrder
<1>3. DOMAIN phase = Handler
      /\ status' \in [Call -> {"idle", "writing", "reading", "done", "failed"}]
  BY DEF RequestsInOrder, TokenizerInv, StoreInv, StoreTypeOK
<1>4. ASSUME StoreStep
      PROVE  \A c \in Call : /\ status'[c] = "idle" <=> status[c] = "idle"
                             /\ Answered(c) => status'[c] = status[c]
  BY <1>4, AnsweredStays, StoreStepHasEffect DEF TokenizerInv, StoreInv, StoreStepEffect
<1>5. ASSUME NEW h \in Handler, Cancel(h)
      PROVE  HandlersInOrder'
  <2>. DEFINE c == CallOf(h, place[h])
  <2>1. /\ phase[h] = "running" /\ phase' = [phase EXCEPT ![h] = "cancelled"]
        /\ UNCHANGED <<task, request, place>>
        /\ IF Answered(c) THEN UNCHANGED storeVars ELSE Abandon(c)
    BY <1>5 DEF Cancel
  <2>2. place[h] \in 1..MaxItems /\ c \in Call
    BY <2>1, CallsAreDistinct DEF RequestsInOrder
  <2>3. \A a \in Call : /\ status'[a] = "idle" <=> status[a] = "idle"
                        /\ Answered(a) => status'[a] = status[a]
    <3>1. CASE UNCHANGED storeVars
      BY <3>1 DEF storeVars
    <3>2. CASE Abandon(c)
      BY <1>4, <2>2, <3>2 DEF StoreStep
    <3>. QED BY <2>1, <3>1, <3>2
  <2>4. status'[c] \notin {"writing", "reading"}
    <3>1. status \in [Call -> {"idle", "writing", "reading", "done", "failed"}]
      BY DEF TokenizerInv, StoreInv, StoreTypeOK
    <3>2. CASE Answered(c)
      BY <2>1, <3>2 DEF Answered, storeVars
    <3>3. CASE Abandon(c)
      BY <2>2, <3>1, <3>3 DEF Abandon
    <3>. QED BY <2>1, <3>2, <3>3
  <2>5. phase'[h] = "cancelled" /\ \A g \in Handler : g # h => phase'[g] = phase[g]
    BY <1>3, <2>1
  <2>. QED BY <1>3, <2>1, <2>3, <2>4, <2>5, QuietStepInOrder
<1>6. CASE Reload /\ UNCHANGED <<request, phase, place>>
  BY <1>3, <1>6, QuietStepInOrder DEF Reload, storeVars
<1>7. CASE StoreProgress /\ UNCHANGED <<policy, task, request, phase, place>>
  BY <1>3, <1>4, <1>7, QuietStepInOrder DEF StoreStep
<1>8. CASE UNCHANGED handlerVars
  BY <1>3, <1>8, QuietStepInOrder DEF handlerVars, vars, storeVars
<1>9. ASSUME NEW h \in AnonymizeHandlers, NEW req \in AnonymizeRequests, Begin(h, req)
      PROVE  HandlersInOrder'
  <2>1. req \in Request
    BY RequestsAssumption DEF IsAnonymizeRequest
  <2>. QED BY <1>1, <1>9, <2>1 DEF IsRequestOf, Handler
<1>10. ASSUME NEW h \in DeanonymizeHandlers, NEW req \in DeanonymizeRequests, Begin(h, req)
       PROVE  HandlersInOrder'
  BY <1>1, <1>10, ArrivingRequest, ArrivingRequestType DEF Handler
<1>. QED BY <1>2, <1>5, <1>6, <1>7, <1>8, <1>9, <1>10 DEF HandlerNext

\* The handlers' variables are functions on the handlers.
PerHandler == \A f \in {request, phase, place} : f = [h \in Handler |-> f[h]]

\* Every step keeps them so.
LEMMA StaysPerHandler == PerHandler /\ [HandlerNext]_handlerVars => PerHandler'
<1>. SUFFICES ASSUME PerHandler, [HandlerNext]_handlerVars PROVE PerHandler'
  OBVIOUS
<1>1. /\ request = [h \in Handler |-> request[h]]
      /\ phase = [h \in Handler |-> phase[h]]
      /\ place = [h \in Handler |-> place[h]]
  BY DEF PerHandler
<1>2. ASSUME NEW f, f = [h \in Handler |-> f[h]], NEW g, NEW h, NEW x,
             g = f \/ g = [f EXCEPT ![h] = x]
      PROVE  g = [a \in Handler |-> g[a]]
  BY <1>2
<1>3. \/ request' = request
      \/ \E h, x : request' = [request EXCEPT ![h] = x]
  BY DEF HandlerNext, Begin, Resume, Cancel, handlerVars
<1>4. \/ phase' = phase
      \/ \E h, x : phase' = [phase EXCEPT ![h] = x]
  BY DEF HandlerNext, Begin, Resume, Cancel, handlerVars, GoOn
<1>5. \/ place' = place
      \/ \E h, x : place' = [place EXCEPT ![h] = x]
  BY DEF HandlerNext, Begin, Resume, Cancel, handlerVars, GoOn
<1>6. request' = [h \in Handler |-> request'[h]]
  BY <1>1, <1>2, <1>3
<1>7. phase' = [h \in Handler |-> phase'[h]]
  BY <1>1, <1>2, <1>4
<1>8. place' = [h \in Handler |-> place'[h]]
  BY <1>1, <1>2, <1>5
<1>. QED BY <1>6, <1>7, <1>8 DEF PerHandler

-----------------------------------------------------------------------------
(* What a coroutine that de-anonymizes looks up. *)

\* The keys a task looks up: one for each field of its policy with a value.
LookupsFor(t) ==
    [i \in {j \in DOMAIN t.config.fields :
               t.input[1][t.config.fields[j].name] \notin {Null, Broken}} |->
        BuildKey(t.system, t.input[1][t.config.fields[i].name].text)]

LookupsInOrder ==
    \A c \in Call : Deanonymizer(c) /\ task[c].config # NoConfig => query[c] = LookupsFor(task[c])

\* Every step keeps the lookups those of their tasks.
LEMMA LookupsStayInOrder ==
    TokenizerInv /\ LookupsInOrder /\ [Next]_vars => LookupsInOrder'
<1>. SUFFICES ASSUME TokenizerInv, LookupsInOrder, [Next]_vars PROVE LookupsInOrder'
  OBVIOUS
<1>1. DOMAIN task = Call /\ DOMAIN query = Call
      /\ \A c \in Call : task[c] = NoTask <=> status[c] = "idle"
  BY DEF TokenizerInv, TypeOK, StoreInv, StoreTypeOK
<1>2. ASSUME NEW c \in Call, NEW t, task' = [task EXCEPT ![c] = t],
             \A a \in Call : a # c => query'[a] = query[a],
             t.op = "deanonymize" /\ t.config # NoConfig => query'[c] = LookupsFor(t)
      PROVE  LookupsInOrder'
  <2>1. task'[c] = t /\ \A a \in Call : a # c => task'[a] = task[a]
    BY <1>1, <1>2
  <2>2. ASSUME NEW a \in Call, a # c, Deanonymizer(a)', task'[a].config # NoConfig
        PROVE  query'[a] = LookupsFor(task'[a])
    <3>1. task'[a] = task[a] /\ query'[a] = query[a]
      BY <1>2, <2>1, <2>2
    <3>. QED BY <2>2, <3>1 DEF LookupsInOrder, Deanonymizer
  <2>. QED BY <1>2, <2>1, <2>2 DEF LookupsInOrder, Deanonymizer
<1>3. ASSUME UNCHANGED <<task, query>>
      PROVE  LookupsInOrder'
  BY <1>3 DEF LookupsInOrder, Deanonymizer
<1>4. CASE \E c \in AnonymizeCalls, s \in System, rec \in Records : AnonymizeRecord(c, s, rec)
  <2>1. PICK c \in AnonymizeCalls, s \in System, rec \in Records : AnonymizeRecord(c, s, rec)
    BY <1>4
  <2>. DEFINE t == [op |-> "record", system |-> s, config |-> ConfigOf(s), input |-> <<rec>>]
  <2>2. task' = [task EXCEPT ![c] = t] /\ query' = query /\ t.op # "deanonymize"
    BY <2>1 DEF AnonymizeRecord, Capture, StoreBatch
  <2>. HIDE DEF t
  <2>. QED BY <1>2, <2>1, <2>2, CallsAssumption
<1>5. CASE \E c \in AnonymizeCalls, s \in System, recs \in Lists : AnonymizeBatch(c, s, recs)
  <2>1. PICK c \in AnonymizeCalls, s \in System, recs \in Lists : AnonymizeBatch(c, s, recs)
    BY <1>5
  <2>. DEFINE t == [op |-> "batch", system |-> s, config |-> ConfigOf(s), input |-> recs]
  <2>2. task' = [task EXCEPT ![c] = t] /\ query' = query /\ t.op # "deanonymize"
    BY <2>1 DEF AnonymizeBatch, Capture, StoreBatch
  <2>. HIDE DEF t
  <2>. QED BY <1>2, <2>1, <2>2, CallsAssumption
<1>6. CASE \E c \in DeanonymizeCalls, s \in System : \E rec \in ReturnedRecords \cup Foreign :
              DeanonymizeRecord(c, s, rec)
  <2>1. PICK c \in DeanonymizeCalls, s \in System : \E rec \in ReturnedRecords \cup Foreign :
              DeanonymizeRecord(c, s, rec)
    BY <1>6
  <2>2. PICK rec \in ReturnedRecords \cup Foreign : DeanonymizeRecord(c, s, rec)
    BY <2>1
  <2>. DEFINE cfg == ConfigOf(s)
              t == [op |-> "deanonymize", system |-> s, config |-> cfg, input |-> <<rec>>]
              q == [i \in {j \in DOMAIN cfg.fields :
                              rec[cfg.fields[j].name] \notin {Null, Broken}} |->
                       BuildKey(s, rec[cfg.fields[i].name].text)]
  <2>3. task' = [task EXCEPT ![c] = t]
    BY <2>2 DEF DeanonymizeRecord, Capture
  <2>4. LookupsFor(t) = q /\ t.config = cfg
    <3>1. t.config = cfg /\ t.system = s /\ t.input[1] = rec
      OBVIOUS
    <3>. HIDE DEF t, cfg
    <3>. QED BY <3>1 DEF LookupsFor
  <2>5. cfg # NoConfig => RetrieveBatch(c, q)
    BY <2>2 DEF DeanonymizeRecord
  <2>6. \E p : RetrieveBatch(c, p)
    BY <2>2 DEF DeanonymizeRecord
  <2>. HIDE DEF t, q, cfg
  <2>7. c \in Call
    BY <2>1, CallsAssumption
  <2>8. \A a \in Call : a # c => query'[a] = query[a]
    BY <1>1, <2>6 DEF RetrieveBatch
  <2>9. cfg # NoConfig => query'[c] = LookupsFor(t)
    BY <1>1, <2>4, <2>5, <2>7 DEF RetrieveBatch
  <2>. QED BY <1>2, <2>3, <2>4, <2>7, <2>8, <2>9
<1>7. CASE Reload
  BY <1>3, <1>7 DEF Reload, storeVars
<1>8. CASE StoreStep /\ UNCHANGED <<policy, task>>
  BY <1>3, <1>8, StoreStepHasEffect DEF TokenizerInv, StoreStepEffect
<1>9. CASE UNCHANGED vars
  BY <1>3, <1>9 DEF vars, storeVars
<1>. QED BY <1>4, <1>5, <1>6, <1>7, <1>8, <1>9 DEF Next

-----------------------------------------------------------------------------
(* The handlers implement the tokenizer. *)

HandlerInv ==
    TokenizerInv /\ RequestsInOrder /\ HandlersInOrder /\ LookupsInOrder /\ PerHandler

\* The tokenizer's invariant holds, requests are in order, and so are the
\* calls that handlers make for them, in every reachable state
\* (grpc_servicer_v2.py:40-302, endpoints.py:82-205).
THEOREM HandlerInvariant == HandlerSpec => []HandlerInv
<1>1. HandlerInit => HandlerInv
  <2>. SUFFICES ASSUME HandlerInit PROVE HandlerInv
    OBVIOUS
  <2>1. /\ Init /\ TokenizerInv
        /\ request = [h \in Handler |-> NoRequest]
        /\ phase = [h \in Handler |-> "idle"]
        /\ place = [h \in Handler |-> 0]
    BY TokenizerInitInv DEF HandlerInit
  <2>2. RequestsInOrder
    BY <2>1 DEF RequestsInOrder
  <2>3. \A c \in Call : status[c] = "idle" /\ task[c] = NoTask
    BY <2>1 DEF Init, StoreInit
  <2>4. HandlersInOrder
    BY <2>1, <2>3, CallsAreDistinct, HandlerCallsAssumption
       DEF HandlersInOrder, HandlerInOrder, CallInOrder
  <2>5. LookupsInOrder
    BY <2>3 DEF LookupsInOrder, Deanonymizer
  <2>6. PerHandler
    BY <2>1 DEF PerHandler
  <2>. QED BY <2>1, <2>2, <2>4, <2>5, <2>6 DEF HandlerInv
<1>2. HandlerInv /\ [HandlerNext]_handlerVars => TokenizerInv'
  BY HandlerStepIsNext, TokenizerStepInv DEF HandlerInv
<1>3. HandlerInv /\ [HandlerNext]_handlerVars => HandlerInv'
  BY <1>2, HandlerStepIsNext, RequestsStayInOrder, HandlersStayInOrder, LookupsStayInOrder,
     StaysPerHandler DEF HandlerInv
<1>. QED BY <1>1, <1>3, PTL DEF HandlerSpec

\* Every variable of the handlers has its type, and a handler awaits one call
\* at a time, its own (grpc_servicer_v2.py, endpoints.py).
THEOREM HandlerTypeCorrect == HandlerSpec => []HandlerTypeOK
<1>1. HandlerInv => HandlerTypeOK
  <2>. SUFFICES ASSUME HandlerInv PROVE HandlerTypeOK
    OBVIOUS
  <2>1. TypeOK
    BY DEF HandlerInv, TokenizerInv
  <2>2. \A h \in Handler : HandlerInOrder(h)
    BY DEF HandlerInv, HandlersInOrder
  <2>3. /\ request = [h \in Handler |-> request[h]]
        /\ phase = [h \in Handler |-> phase[h]]
        /\ place = [h \in Handler |-> place[h]]
    BY DEF HandlerInv, PerHandler
  <2>4. request \in [Handler -> Request \cup {NoRequest}]
    BY <2>2, <2>3 DEF HandlerInOrder
  <2>5. phase \in [Handler -> {"idle", "running", "answered", "cancelled"}]
    BY <2>2, <2>3 DEF HandlerInOrder
  <2>6. place \in [Handler -> 0..MaxItems]
    BY <2>2, <2>3 DEF HandlerInOrder
  <2>. QED BY <2>1, <2>2, <2>4, <2>5, <2>6 DEF HandlerTypeOK, HandlerInOrder, CallInOrder
<1>. QED BY <1>1, HandlerInvariant, PTL

\* Every behaviour of the V2 and NDJSON handlers, cancelled ones included, is
\* one that the tokenizer's specification allows its clients.
THEOREM HandlersImplementTokenizer == HandlerSpec => ImplementsTokenizer
<1>1. HandlerInit => Init
  BY DEF HandlerInit
<1>2. HandlerInv /\ [HandlerNext]_handlerVars => [Next]_vars
  BY HandlerStepIsNext DEF HandlerInv
<1>. QED BY <1>1, <1>2, HandlerInvariant, PTL DEF HandlerSpec, ImplementsTokenizer, Spec

\* Hence no value of a record that was anonymized by way of a handler is lost.
THEOREM HandledValuesAreRecoverable == HandlerSpec => []AnonymizedValuesRecoverable
<1>. QED BY HandlersImplementTokenizer, AnonymizedValuesAreRecoverable, PTL DEF ImplementsTokenizer

\* Hence a token sent to a client restores the value it was sent for.
THEOREM HandlersInvert == HandlerSpec => []DeanonymizeInvertsAnonymize
<1>. QED BY HandlersImplementTokenizer, DeanonymizeInverts, PTL DEF ImplementsTokenizer

\* Hence the service behind the handlers is a token vault.
THEOREM HandlersImplementVault == HandlerSpec => ImplementsVault
<1>. QED BY HandlersImplementTokenizer, TokenizerImplementsVault, PTL DEF ImplementsTokenizer

-----------------------------------------------------------------------------
(* What clients are sent. *)

\* The items of a request that parse, in their order.
LEMMA ParsedInOrder ==
    ASSUME HandlerInv, NEW h \in Handler, request[h] # NoRequest
    PROVE  LET items  == request[h].items
               parsed == ParsedItems(items)
           IN  /\ DOMAIN parsed = DOMAIN Batch(items)
               /\ \A k \in DOMAIN parsed : /\ parsed[k] \in DOMAIN items
                                           /\ items[parsed[k]] # Unparsable
                                           /\ Batch(items)[k] = items[parsed[k]]
               /\ \A i \in DOMAIN items : items[i] # Unparsable =>
                     \E k \in DOMAIN parsed : parsed[k] = i
               /\ \A j, k \in DOMAIN parsed : parsed[j] = parsed[k] => j = k
               /\ \A j, k \in DOMAIN parsed : j < k => parsed[j] < parsed[k]
<1>. DEFINE items == request[h].items
            S == {i \in DOMAIN items : items[i] # Unparsable}
            parsed == ParsedItems(items)
<1>1. IsRequestOf(h, request[h])
  BY DEF HandlerInv, RequestsInOrder
<1>2. DOMAIN items \subseteq 1..MaxItems /\ MaxItems \in Nat
  BY <1>1, AnonymizeRequestHas, HandlerCallsAssumption DEF IsRequestOf, IsDeanonymizeRequest
<1>3. S \in SUBSET Nat /\ IsFiniteSet(S)
  <2>1. IsFiniteSet(1..MaxItems)
    BY <1>2, FS_Interval
  <2>. QED BY <1>2, <2>1, FS_Subset
<1>4. parsed = Ascending(S)
  BY DEF ParsedItems
<1>. HIDE DEF S
<1>5. /\ parsed \in [1..Cardinality(S) -> S] /\ Cardinality(S) \in Nat
      /\ \A x \in S : \E n \in 1..Cardinality(S) : parsed[n] = x
      /\ \A m, n \in 1..Cardinality(S) : m < n => parsed[m] < parsed[n]
  <2>. HIDE DEF parsed
  <2>. QED BY <1>3, <1>4, AscendingInOrder
<1>. DEFINE N == Cardinality(S)
<1>6. DOMAIN parsed = 1..N
  BY <1>5
<1>7. \A k \in DOMAIN parsed : parsed[k] \in S /\ parsed[k] \in Nat
  <2>. HIDE DEF parsed
  <2>. QED BY <1>3, <1>5, <1>6
<1>8. /\ DOMAIN Batch(items) = DOMAIN parsed
      /\ \A k \in DOMAIN parsed : Batch(items)[k] = items[parsed[k]]
  BY DEF Batch, ParsedRecords
<1>9. \A j, k \in DOMAIN parsed : parsed[j] = parsed[k] => j = k
  <2>. HIDE DEF parsed
  <2>1. ASSUME NEW j \in 1..N, NEW k \in 1..N, parsed[j] = parsed[k]
        PROVE  j = k
    <3>1. ~(parsed[j] < parsed[k]) /\ ~(parsed[k] < parsed[j])
      BY <1>6, <1>7, <2>1
    <3>2. ~(j < k) /\ ~(k < j)
      BY <1>5, <3>1
    <3>. QED BY <1>5, <3>2
  <2>. QED BY <1>6, <2>1
<1>10. \A i \in DOMAIN items : items[i] # Unparsable => \E k \in DOMAIN parsed : parsed[k] = i
  <2>. HIDE DEF parsed
  <2>. QED BY <1>5, <1>6 DEF S
<1>11. \A k \in DOMAIN parsed : parsed[k] \in DOMAIN items /\ items[parsed[k]] # Unparsable
  <2>. HIDE DEF parsed
  <2>. QED BY <1>7 DEF S
<1>. HIDE DEF parsed, items
<1>12. /\ DOMAIN parsed = DOMAIN Batch(items)
       /\ \A k \in DOMAIN parsed : /\ parsed[k] \in DOMAIN items
                                   /\ items[parsed[k]] # Unparsable
                                   /\ Batch(items)[k] = items[parsed[k]]
       /\ \A i \in DOMAIN items : items[i] # Unparsable =>
             \E k \in DOMAIN parsed : parsed[k] = i
       /\ \A j, k \in DOMAIN parsed : parsed[j] = parsed[k] => j = k
       /\ \A j, k \in DOMAIN parsed : j < k => parsed[j] < parsed[k]
  BY <1>5, <1>6, <1>8, <1>9, <1>10, <1>11
<1>. QED BY <1>12 DEF parsed, items

\* A batch that is answered has made its call, for the records that parse.
LEMMA BatchWasCalled ==
    ASSUME HandlerInv, NEW h \in Handler, Asked(h, {"anonymizeBatch"}),
           phase[h] = "answered", ParsedItems(request[h].items) # <<>>
    PROVE  /\ Answered(CallOf(h, 1)) /\ Anonymizer(CallOf(h, 1))
           /\ task[CallOf(h, 1)].system = request[h].system
           /\ task[CallOf(h, 1)].input = Batch(request[h].items)
<1>. DEFINE c == CallOf(h, 1)
<1>1. request[h] # NoRequest /\ request[h].op = "anonymizeBatch"
  BY DEF Asked
<1>2. 1 \in 1..MaxItems /\ c \in Call
  BY HandlerCallsAssumption, CallsAreDistinct
<1>3. CallInOrder(h, 1)
  BY <1>2 DEF HandlerInv, HandlersInOrder, HandlerInOrder
<1>4. 1 \in CallsOf(request[h])
  BY <1>1 DEF CallsOf, CallsAfter
<1>5. Answered(c) /\ status[c] # "idle"
  BY <1>1, <1>3, <1>4 DEF CallInOrder, Answered
<1>6. task[c] # NoTask
  BY <1>2, <1>5 DEF HandlerInv, TokenizerInv, TypeOK
<1>7. IsTaskFor(task[c], request[h], 1)
  BY <1>3, <1>5 DEF CallInOrder
<1>. QED BY <1>1, <1>5, <1>6, <1>7 DEF IsTaskFor, Anonymizer

\* Results name their record, and tell success from failure, and an error of a
\* record from one of a batch.
LEMMA ResultNames ==
    \A id, rec : /\ OkResult(id, rec).id = id /\ OkResult(id, rec).ok
                 /\ OkResult(id, rec).record = rec
                 /\ ErrorResult(id).id = id /\ ~ErrorResult(id).ok
                 /\ ErrorResult(id).of = "record"
                 /\ BatchError(id).id = id /\ ~BatchError(id).ok
                 /\ BatchError(id).of = "batch"
BY DEF OkResult, ErrorResult, BatchError

\* What a V2 batch is answered with, one by one: results that were built, the
\* errors of an exception, and an error for each document that did not parse.
LEMMA BatchSent ==
    ASSUME NEW h, Asked(h, {"anonymizeBatch"}), NEW r \in Sent(h)
    PROVE  /\ phase[h] = "answered"
           /\ \/ \E k \in Built(h) : r = BatchResult(h, k)
              \/ \E k \in Excepted(h) : r = BatchError(ParsedItems(request[h].items)[k])
              \/ \E i \in DOMAIN request[h].items :
                    request[h].items[i] = Unparsable /\ r = ErrorResult(i)
<1>1. request[h] # NoRequest /\ request[h].op = "anonymizeBatch"
  BY DEF Asked
<1>2. r \in IF phase[h] # "answered" THEN {} ELSE BatchResults(h)
  BY <1>1 DEF Sent
<1>. QED BY <1>2 DEF BatchResults, RecordIds

\* And all of these are in the answer.
LEMMA AllAreSent ==
    ASSUME NEW h, Asked(h, {"anonymizeBatch"}), phase[h] = "answered"
    PROVE  /\ \A k \in Built(h) : BatchResult(h, k) \in Sent(h)
           /\ \A k \in Excepted(h) : BatchError(ParsedItems(request[h].items)[k]) \in Sent(h)
           /\ \A i \in DOMAIN request[h].items :
                 request[h].items[i] = Unparsable => ErrorResult(i) \in Sent(h)
<1>1. request[h] # NoRequest /\ request[h].op = "anonymizeBatch"
  BY DEF Asked
<1>2. Sent(h) = BatchResults(h)
  BY <1>1 DEF Sent
<1>. QED BY <1>2 DEF BatchResults, RecordIds

\* A result that was built is success or failure of its record.
LEMMA BuiltResult ==
    ASSUME NEW h, NEW k
    PROVE  LET c  == CallOf(h, 1)
               id == ParsedItems(request[h].items)[k]
           IN  /\ BatchResult(h, k).id = id
               /\ \/ /\ Succeeded(c, k) /\ BatchResult(h, k).ok
                     /\ BatchResult(h, k).record = ResultRecord(c, k)
                  \/ ~Succeeded(c, k) /\ BatchResult(h, k) = ErrorResult(id)
BY ResultNames DEF BatchResult, RecordIds

\* A field that got no token comes back as it was.
LEMMA UntouchedField ==
    ASSUME TokenizerInv, NEW c \in Call, NEW k, Succeeded(c, k), NEW n \in Field,
           \A i \in Tokenized(task[c].input[k], task[c].config) :
              task[c].config.fields[i].name # n
    PROVE  ResultRecord(c, k)[n] = task[c].input[k][n]
<1>1. ResultRecord(c, k) = WithTokens(c, task[c].config, task[c].input, k,
                                      Tokenized(task[c].input[k], task[c].config))
  BY SuccessMeans
<1>. QED BY <1>1 DEF WithTokens

\* A field that got a token is a string.
LEMMA TokenIsString ==
    ASSUME TokenizerInv, NEW c \in Call, NEW k, Succeeded(c, k), NEW n \in Field,
           NEW i \in Tokenized(task[c].input[k], task[c].config),
           task[c].config.fields[i].name = n
    PROVE  ResultRecord(c, k)[n] \notin WideInt \cup DeepValue
<1>1. ResultRecord(c, k) = WithTokens(c, task[c].config, task[c].input, k,
                                      Tokenized(task[c].input[k], task[c].config))
  BY SuccessMeans
<1>2. ResultRecord(c, k)[n].type = "str"
  BY <1>1 DEF WithTokens
<1>. QED BY <1>2 DEF WideInt, DeepValue

\* A record that was anonymized and cannot be written held what cannot be
\* written when it came, in a field that its policy does not list.
LEMMA UnwrittenHeldIt ==
    ASSUME TokenizerInv, NEW c \in Call, NEW k, Succeeded(c, k), ~Dumps(ResultRecord(c, k))
    PROVE  \E n \in Field :
              /\ task[c].input[k][n] \in WideInt \cup DeepValue
              /\ \A i \in DOMAIN task[c].config.fields : task[c].config.fields[i].name # n
<1>. DEFINE rec == task[c].input[k]
            cfg == task[c].config
<1>1. PICK n \in Field : ResultRecord(c, k)[n] \in WideInt \cup DeepValue
  BY DEF Dumps
<1>2. \A i \in Tokenized(rec, cfg) : cfg.fields[i].name # n
  BY <1>1, TokenIsString
<1>3. rec[n] \in WideInt \cup DeepValue
  BY <1>1, <1>2, UntouchedField
<1>4. rec[n] # Null
  <2>1. WideInt \cup DeepValue \subseteq [text: TokenString, type: ValueType]
    BY TextsAssumption DEF WideInt, DeepValue, ValueType, TypeName, TokenString
  <2>. QED BY <1>3, <2>1, ValuesAssumption
<1>5. ASSUME NEW i \in DOMAIN cfg.fields, cfg.fields[i].name = n
      PROVE  FALSE
  <2>1. i \in Tokenized(rec, cfg)
    BY <1>4, <1>5, SuccessMeans, TokenizedUnlessNull
  <2>. QED BY <1>2, <1>5, <2>1
<1>. QED BY <1>3, <1>5

\* Why a record of a V2 batch is answered with an error.
LEMMA ErrorsHaveReasonsHere == HandlerInv => ErrorsHaveReasons
<1>. SUFFICES ASSUME HandlerInv, NEW h \in Handler, Asked(h, {"anonymizeBatch"}),
                     phase[h] = "answered", NEW r \in Sent(h), ~r.ok
              PROVE  \/ /\ r.of = "record"
                        /\ \/ request[h].items[r.id] = Unparsable
                           \/ task[CallOf(h, 1)].config = NoConfig
                           \/ status[CallOf(h, 1)] = "failed"
                           \/ RecordFails(request[h].items[r.id], task[CallOf(h, 1)].config)
                     \/ /\ r.of = "batch"
                        /\ \/ NotADict \in ToSet(request[h].items)
                           \/ \E rec \in ToSet(request[h].items) \ {Unparsable}, n \in Field :
                                 /\ rec[n] \in WideInt \cup DeepValue
                                 /\ \A i \in DOMAIN task[CallOf(h, 1)].config.fields :
                                       task[CallOf(h, 1)].config.fields[i].name # n
  BY Zenon DEF ErrorsHaveReasons
<1>. DEFINE items == request[h].items
            parsed == ParsedItems(items)
            c == CallOf(h, 1)
<1>1. request[h] # NoRequest /\ c \in Call
  BY HandlerCallsAssumption, CallsAreDistinct DEF Asked
<1>2. /\ DOMAIN parsed = DOMAIN Batch(items)
      /\ \A j \in DOMAIN parsed : /\ parsed[j] \in DOMAIN items /\ items[parsed[j]] # Unparsable
                                  /\ Batch(items)[j] = items[parsed[j]]
  BY <1>1, ParsedInOrder
<1>3. parsed # <<>> => Answered(c) /\ Anonymizer(c) /\ task[c].input = Batch(items)
  BY BatchWasCalled
<1>4. ASSUME NEW i \in DOMAIN items, items[i] = Unparsable, r = ErrorResult(i)
      PROVE  r.of = "record" /\ items[r.id] = Unparsable
  BY <1>4, ResultNames
<1>5. ASSUME NEW k \in Built(h), r = BatchResult(h, k)
      PROVE  /\ r.of = "record"
             /\ task[c].config = NoConfig \/ status[c] = "failed" \/ RecordFails(items[r.id], task[c].config)
  <2>1. k \in DOMAIN parsed /\ ~Raises(c)
    BY <1>5 DEF Built
  <2>2. ~Succeeded(c, k) /\ r = ErrorResult(parsed[k])
    BY <1>5, BuiltResult
  <2>3. r.of = "record" /\ r.id = parsed[k]
    BY <2>2, ResultNames
  <2>. HIDE DEF parsed, items, c
  <2>4. Answered(c) /\ Anonymizer(c) /\ task[c].input = Batch(items)
    BY <1>3, <2>1
  <2>5. k \in DOMAIN task[c].input /\ task[c].input[k] = items[r.id]
    BY <1>2, <2>1, <2>3, <2>4
  <2>6. HasError(c, k)
    BY <2>1, <2>2, <2>4, <2>5 DEF Succeeded
  <2>. QED BY <2>3, <2>5, <2>6 DEF HasError
<1>6. ASSUME NEW k \in Excepted(h), r = BatchError(parsed[k])
      PROVE  /\ r.of = "batch"
             /\ \/ NotADict \in ToSet(items)
                \/ \E rec \in ToSet(items) \ {Unparsable}, n \in Field :
                      /\ rec[n] \in WideInt \cup DeepValue
                      /\ \A i \in DOMAIN task[c].config.fields : task[c].config.fields[i].name # n
  <2>1. r.of = "batch"
    BY <1>6, ResultNames
  <2>2. k \in DOMAIN parsed /\ (Raises(c) \/ Unwritten(h) # {})
    BY <1>6 DEF Excepted
  <2>3. \A u \in Unwritten(h) : u \in DOMAIN parsed /\ Succeeded(c, u) /\ ~Dumps(ResultRecord(c, u))
    BY DEF Unwritten
  <2>. HIDE DEF parsed, items, c
  <2>4. task[c].input = Batch(items)
    BY <1>3, <2>2
  <2>5. CASE Raises(c)
    <3>1. PICK j \in DOMAIN parsed : items[parsed[j]] = NotADict
      BY <1>2, <2>4, <2>5 DEF Raises
    <3>2. NotADict \in ToSet(items)
      BY <1>2, <3>1 DEF ToSet
    <3>. QED BY <2>1, <3>2
  <2>6. CASE Unwritten(h) # {}
    <3>1. PICK u : u \in Unwritten(h)
      BY <2>6
    <3>2. PICK n \in Field :
             /\ task[c].input[u][n] \in WideInt \cup DeepValue
             /\ \A i \in DOMAIN task[c].config.fields : task[c].config.fields[i].name # n
      BY <1>1, <2>3, <3>1, UnwrittenHeldIt DEF HandlerInv
    <3>3. task[c].input[u] \in ToSet(items) \ {Unparsable}
      BY <1>2, <2>3, <2>4, <3>1 DEF ToSet
    <3>. QED BY <2>1, <3>2, <3>3
  <2>. QED BY <2>2, <2>5, <2>6
<1>7. \/ \E k \in Built(h) : r = BatchResult(h, k)
      \/ \E k \in Excepted(h) : r = BatchError(parsed[k])
      \/ \E i \in DOMAIN items : items[i] = Unparsable /\ r = ErrorResult(i)
  BY BatchSent
<1>. QED BY <1>4, <1>5, <1>6, <1>7

\* Call c returned a record without error for item r.id of the request of
\* handler h, and r holds it.
SentFor(h, r, c, k) ==
    /\ c = CallOf(h, IF request[h].op = "anonymizeBatch" THEN 1 ELSE r.id)
    /\ c \in Call /\ Succeeded(c, k) /\ r.record = ResultRecord(c, k)
    /\ task[c].system = request[h].system
    /\ task[c].input[k] = request[h].items[r.id]
    /\ r.id \in DOMAIN request[h].items

\* What a client was sent for a record it had anonymized is what the tokenizer
\* returned for that very record.
LEMMA SentIsReturned ==
    ASSUME HandlerInv, NEW h \in Handler, Asked(h, AnonymizeOps), NEW r \in Sent(h), r.ok
    PROVE  \E c, k : SentFor(h, r, c, k)
<1>. DEFINE items == request[h].items
            parsed == ParsedItems(items)
<1>1. request[h] # NoRequest /\ request[h].op \in AnonymizeOps
  BY DEF Asked
<1>2. CASE request[h].op = "anonymizeBatch"
  <2>. DEFINE c == CallOf(h, 1)
  <2>1. PICK k \in Built(h) : r = BatchResult(h, k)
    BY <1>1, <1>2, BatchSent, ResultNames DEF Asked
  <2>2. k \in DOMAIN parsed
    BY DEF Built
  <2>3. Succeeded(c, k) /\ r.id = parsed[k] /\ r.record = ResultRecord(c, k)
    BY <2>1, BuiltResult, ResultNames
  <2>4. /\ DOMAIN parsed = DOMAIN Batch(items)
        /\ \A j \in DOMAIN parsed : parsed[j] \in DOMAIN items /\ Batch(items)[j] = items[parsed[j]]
    BY <1>1, ParsedInOrder
  <2>5. parsed # <<>> /\ phase[h] = "answered"
    BY <1>1, <1>2, <2>2, BatchSent DEF Asked
  <2>6. task[c].system = request[h].system /\ task[c].input = Batch(items)
    BY <1>1, <1>2, <2>5, BatchWasCalled DEF Asked
  <2>7. c \in Call
    BY HandlerCallsAssumption, CallsAreDistinct
  <2>. HIDE DEF parsed, items, c
  <2>8. task[c].input[k] = items[r.id] /\ r.id \in DOMAIN items
    BY <2>2, <2>3, <2>4, <2>6
  <2>9. c = CallOf(h, IF request[h].op = "anonymizeBatch" THEN 1 ELSE r.id)
    BY <1>2 DEF c
  <2>. QED BY <2>3, <2>6, <2>7, <2>8, <2>9 DEF SentFor, items
<1>3. CASE request[h].op = "anonymizeLines"
  <2>1. PICK i \in Through(h) : r = LineResult(h, i)
    BY <1>1, <1>3 DEF Sent
  <2>2. i \in DOMAIN items
    BY <1>1, <2>1 DEF Through
  <2>3. i \in 1..MaxItems
    BY <1>1, <2>2, AnonymizeRequestHas
       DEF HandlerInv, RequestsInOrder, IsRequestOf, IsDeanonymizeRequest
  <2>. DEFINE c == CallOf(h, i)
  <2>4. i \in Docs(items)
    BY <2>1, ResultNames DEF LineResult
  <2>5. r = IF Succeeded(c, 1) THEN OkResult(i, ResultRecord(c, 1)) ELSE ErrorResult(i)
    BY <1>3, <2>1, <2>4 DEF LineResult
  <2>6. Succeeded(c, 1) /\ r.id = i /\ r.record = ResultRecord(c, 1)
    BY <2>5, ResultNames
  <2>7. c \in Call /\ CallInOrder(h, i)
    BY <2>3, CallsAreDistinct DEF HandlerInv, HandlersInOrder, HandlerInOrder
  <2>8. IsTaskFor(task[c], request[h], i)
    BY <2>6, <2>7 DEF CallInOrder, Succeeded, Answered
  <2>9. task[c].system = request[h].system /\ task[c].input = <<items[i]>>
    BY <1>3, <2>8 DEF IsTaskFor
  <2>. HIDE DEF items, c
  <2>10. task[c].input[1] = items[r.id] /\ r.id \in DOMAIN items
    BY <2>2, <2>6, <2>9
  <2>11. c = CallOf(h, IF request[h].op = "anonymizeBatch" THEN 1 ELSE r.id)
    BY <1>3, <2>6 DEF c
  <2>. QED BY <2>6, <2>7, <2>9, <2>10, <2>11 DEF SentFor, items
<1>. QED BY <1>1, <1>2, <1>3 DEF AnonymizeOps

\* The items of a batch that have a second result: an exception added its error
\* to the one that had been built.
HasSecond(h, i) ==
    /\ Asked(h, {"anonymizeBatch"})
    /\ \E r \in Sent(h) : {q \in Sent(h) : q.id = i} = {r, BatchError(i)}
    /\ \E u \in Unwritten(h) : i < RecordIds(request[h].items)[u]

HasOne(h, i) == \E r \in Sent(h) : {q \in Sent(h) : q.id = i} = {r}

\* The results for a document of a batch that did not parse.
LEMMA UnparsableHasOne ==
    ASSUME HandlerInv, NEW h \in Handler, Asked(h, {"anonymizeBatch"}), phase[h] = "answered",
           NEW i \in DOMAIN request[h].items, request[h].items[i] = Unparsable
    PROVE  HasOne(h, i)
<1>. DEFINE items == request[h].items
            parsed == ParsedItems(items)
<1>1. request[h] # NoRequest
  BY DEF Asked
<1>2. \A k \in DOMAIN parsed : items[parsed[k]] # Unparsable
  BY <1>1, ParsedInOrder
<1>3. ErrorResult(i) \in Sent(h)
  BY AllAreSent
<1>4. ASSUME NEW q \in Sent(h), q.id = i
      PROVE  q = ErrorResult(i)
  <2>1. ASSUME NEW k \in Built(h), q = BatchResult(h, k)
        PROVE  FALSE
    BY <1>2, <1>4, <2>1, BuiltResult DEF Built
  <2>2. ASSUME NEW k \in Excepted(h), q = BatchError(parsed[k])
        PROVE  FALSE
    BY <1>2, <1>4, <2>2, ResultNames DEF Excepted
  <2>3. \A j : q = ErrorResult(j) => j = i
    BY <1>4, ResultNames
  <2>. QED BY <2>1, <2>2, <2>3, BatchSent
<1>5. {q \in Sent(h) : q.id = i} = {ErrorResult(i)}
  BY <1>3, <1>4, ResultNames
<1>. QED BY <1>3, <1>5 DEF HasOne

\* Those for a document of a batch that parsed.
LEMMA ParsedHasOneOrSecond ==
    ASSUME HandlerInv, NEW h \in Handler, Asked(h, {"anonymizeBatch"}), phase[h] = "answered",
           NEW i \in DOMAIN request[h].items, request[h].items[i] # Unparsable
    PROVE  HasOne(h, i) \/ HasSecond(h, i)
<1>. DEFINE items == request[h].items
            parsed == ParsedItems(items)
            R == {q \in Sent(h) : q.id = i}
<1>1. request[h] # NoRequest
  BY DEF Asked
<1>2. PICK k \in DOMAIN parsed : parsed[k] = i
  BY <1>1, ParsedInOrder
<1>3. \A j \in DOMAIN parsed : items[parsed[j]] # Unparsable /\ (parsed[j] = i => j = k)
  BY <1>1, <1>2, ParsedInOrder
<1>. HIDE DEF parsed, items
<1>4. \A q \in R : \/ k \in Built(h) /\ q = BatchResult(h, k)
                   \/ k \in Excepted(h) /\ q = BatchError(i)
  <2>. SUFFICES ASSUME NEW q \in Sent(h), q.id = i
                PROVE  \/ k \in Built(h) /\ q = BatchResult(h, k)
                       \/ k \in Excepted(h) /\ q = BatchError(i)
    OBVIOUS
  <2>1. ASSUME NEW j \in Built(h), q = BatchResult(h, j)
        PROVE  j = k
    <3>1. j \in DOMAIN parsed
      BY DEF Built, parsed, items
    <3>2. q.id = parsed[j]
      BY <2>1, BuiltResult DEF parsed, items
    <3>. QED BY <1>3, <3>1, <3>2
  <2>2. ASSUME NEW j \in Excepted(h), q = BatchError(parsed[j])
        PROVE  j = k /\ q = BatchError(i)
    <3>1. j \in DOMAIN parsed
      BY DEF Excepted, parsed, items
    <3>2. q.id = parsed[j]
      BY <2>2, ResultNames
    <3>. QED BY <1>3, <2>2, <3>1, <3>2
  <2>3. ASSUME NEW j \in DOMAIN items, items[j] = Unparsable, q = ErrorResult(j)
        PROVE  FALSE
    <3>1. j = i
      BY <2>3, ResultNames
    <3>. QED BY <2>3, <3>1 DEF items
  <2>4. \/ \E j \in Built(h) : q = BatchResult(h, j)
        \/ \E j \in Excepted(h) : q = BatchError(parsed[j])
        \/ \E j \in DOMAIN items : items[j] = Unparsable /\ q = ErrorResult(j)
    BY BatchSent DEF parsed, items
  <2>. QED BY <2>1, <2>2, <2>3, <2>4
<1>5. k \in Built(h) => BatchResult(h, k) \in R
  BY <1>2, AllAreSent, BuiltResult DEF parsed, items
<1>6. k \in Excepted(h) => BatchError(i) \in R
  BY <1>2, AllAreSent, ResultNames DEF parsed, items
<1>. HIDE DEF R
<1>7. CASE k \in Built(h) /\ k \notin Excepted(h)
  <2>1. R = {BatchResult(h, k)}
    BY <1>4, <1>5, <1>7
  <2>. QED BY <2>1 DEF R, HasOne
<1>8. CASE k \notin Built(h) /\ k \in Excepted(h)
  <2>1. R = {BatchError(i)}
    BY <1>4, <1>6, <1>8
  <2>. QED BY <2>1 DEF R, HasOne
<1>9. CASE k \in Built(h) /\ k \in Excepted(h)
  <2>1. R = {BatchResult(h, k), BatchError(i)}
    BY <1>4, <1>5, <1>6, <1>9
  <2>2. BatchResult(h, k) \in Sent(h)
    BY <2>1 DEF R
  <2>3. PICK u : u \in Unwritten(h) /\ k < u
    BY <1>9 DEF Built, Excepted
  <2>4. u \in DOMAIN parsed
    BY <2>3 DEF Unwritten, parsed, items
  <2>5. i < RecordIds(items)[u]
    <3>1. parsed[k] < parsed[u]
      BY <1>1, <1>2, <2>3, <2>4, ParsedInOrder DEF parsed, items
    <3>. QED BY <1>2, <3>1 DEF RecordIds, parsed
  <2>. QED BY <2>1, <2>2, <2>3, <2>5 DEF R, HasSecond, items
<1>10. k \in Built(h) \/ k \in Excepted(h)
  BY <1>2 DEF Built, Excepted, parsed, items
<1>. QED BY <1>7, <1>8, <1>9, <1>10

\* A V2 response has one result for each record of its request, or two.
LEMMA ResultsEach ==
    ASSUME HandlerInv, NEW h \in Handler,
           Asked(h, {"anonymizeBatch", "deanonymizeBatch"}), phase[h] = "answered",
           NEW i \in DOMAIN request[h].items
    PROVE  HasOne(h, i) \/ HasSecond(h, i)
<1>1. request[h] # NoRequest /\ request[h].op \in {"anonymizeBatch", "deanonymizeBatch"}
  BY DEF Asked
<1>2. CASE request[h].op = "anonymizeBatch"
  BY <1>1, <1>2, UnparsableHasOne, ParsedHasOneOrSecond DEF Asked
<1>3. CASE request[h].op = "deanonymizeBatch"
  <2>1. Sent(h) = {LineResult(h, j) : j \in DOMAIN request[h].items}
    BY <1>1, <1>3 DEF Sent
  <2>2. \A j : LineResult(h, j).id = j
    BY ResultNames DEF LineResult
  <2>3. {q \in Sent(h) : q.id = i} = {LineResult(h, i)}
    BY <2>1, <2>2
  <2>. QED BY <2>1, <2>3 DEF HasOne
<1>. QED BY <1>1, <1>2, <1>3

\* A null comes back as a null.
LEMMA NullComesBack ==
    ASSUME TokenizerInv, NEW c \in Call, NEW k, Succeeded(c, k), NEW n \in Field,
           task[c].input[k][n] = Null
    PROVE  ResultRecord(c, k)[n] = Null
<1>1. \A i \in Tokenized(task[c].input[k], task[c].config) :
         task[c].config.fields[i].name # n
  BY DEF Tokenized
<1>. QED BY <1>1, UntouchedField

\* What record r, sent to a client, holds for field i of the policy of call c.
FieldStands(h, r, c, i) ==
    LET cfg  == task[c].config
        item == request[h].items[r.id]
        n    == cfg.fields[i].name
        key  == BuildKey(request[h].system, r.record[n].text)
    IN  IF item[n] = Null THEN r.record[n] = Null
        ELSE \/ key \in expired
             \/ /\ key \in DOMAIN db
                /\ Decrypt(db[key].blob, cfg.key).ok
                /\ Decrypt(db[key].blob, cfg.key).text = item[n].text

\* It stands for the record that was anonymized.
LEMMA SentFieldStands ==
    ASSUME HandlerInv, AnonymizedValuesRecoverable,
           NEW h \in Handler, Asked(h, AnonymizeOps), NEW r \in Sent(h), r.ok,
           NEW c, c = CallOf(h, IF request[h].op = "anonymizeBatch" THEN 1 ELSE r.id),
           NEW i \in DOMAIN task[c].config.fields
    PROVE  FieldStands(h, r, c, i)
<1>. DEFINE cfg  == task[c].config
            item == request[h].items[r.id]
            n    == cfg.fields[i].name
            key  == BuildKey(request[h].system, r.record[n].text)
<1>1. PICK k : SentFor(h, r, c, k)
  BY SentIsReturned DEF SentFor
<1>2. /\ c \in Call /\ Succeeded(c, k) /\ r.record = ResultRecord(c, k)
      /\ task[c].system = request[h].system /\ task[c].input[k] = item
  BY <1>1 DEF SentFor
<1>3. n \in Field /\ k \in DOMAIN task[c].input
  <2>1. IsConfig(cfg) /\ k \in DOMAIN task[c].input
    BY <1>2, SuccessMeans DEF HandlerInv
  <2>2. cfg.fields[i] \in FieldConfig
    BY <2>1 DEF IsConfig, Config
  <2>. QED BY <2>1, <2>2 DEF FieldConfig
<1>4. CASE item[n] = Null
  <2>1. r.record[n] = Null
    <3>. HIDE DEF n, item
    <3>. QED BY <1>2, <1>3, <1>4, NullComesBack DEF HandlerInv
  <2>. QED BY <1>4, <2>1, Zenon DEF FieldStands
<1>5. CASE item[n] # Null
  <2>1. Anonymizer(c)
    BY <1>2 DEF Succeeded
  <2>2. Original(c, k, i) = item[n]
    BY <1>2 DEF Original
  <2>3. key = BuildKey(task[c].system, ResultRecord(c, k)[cfg.fields[i].name].text)
    BY <1>2
  <2>. DEFINE Stands(a, j) ==
                LET q == BuildKey(task[c].system, ResultRecord(c, a)[task[c].config.fields[j].name].text)
                IN  \/ q \in expired
                    \/ /\ q \in DOMAIN db
                       /\ Decrypt(db[q].blob, task[c].config.key).ok
                       /\ Decrypt(db[q].blob, task[c].config.key).text = Original(c, a, j).text
  <2>4. Stands(k, i)
    <3>1. Original(c, k, i) # Null
      BY <1>5, <2>2, Zenon
    <3>2. \A a \in IF Anonymizer(c) THEN DOMAIN task[c].input ELSE {} :
             Succeeded(c, a) =>
                \A j \in {m \in DOMAIN task[c].config.fields : Original(c, a, m) # Null} : Stands(a, j)
      BY <1>2, Zenon DEF AnonymizedValuesRecoverable
    <3>. HIDE DEF Stands
    <3>. QED BY <1>2, <1>3, <2>1, <3>1, <3>2
  <2>. HIDE DEF key
  <2>5. \/ key \in expired
        \/ /\ key \in DOMAIN db
           /\ Decrypt(db[key].blob, cfg.key).ok
           /\ Decrypt(db[key].blob, cfg.key).text = Original(c, k, i).text
    BY <2>3, <2>4, Zenon
  <2>6. \/ key \in expired
        \/ /\ key \in DOMAIN db
           /\ Decrypt(db[key].blob, cfg.key).ok
           /\ Decrypt(db[key].blob, cfg.key).text = item[n].text
    BY <2>2, <2>5, Zenon
  <2>. QED BY <1>5, <2>6, Zenon DEF FieldStands, key
<1>. QED BY <1>4, <1>5, Zenon

\* What clients of anonymization have been sent belongs to their records.
LEMMA ResultsBelong ==
    HandlerInv /\ AnonymizedValuesRecoverable => ResultsBelongToTheirRecords
<1>. SUFFICES ASSUME HandlerInv, AnonymizedValuesRecoverable PROVE ResultsBelongToTheirRecords
  OBVIOUS
<1>1. ASSUME NEW h \in Handler, Asked(h, {"anonymizeBatch", "deanonymizeBatch"}), phase[h] = "answered"
      PROVE  \A i \in DOMAIN request[h].items : HasOne(h, i) \/ HasSecond(h, i)
  BY <1>1, ResultsEach
<1>2. ASSUME NEW h \in Handler, Asked(h, AnonymizeOps), NEW r \in {q \in Sent(h) : q.ok}
      PROVE  \A i \in DOMAIN task[CallOf(h, IF request[h].op = "anonymizeBatch"
                                            THEN 1 ELSE r.id)].config.fields :
                FieldStands(h, r, CallOf(h, IF request[h].op = "anonymizeBatch" THEN 1 ELSE r.id), i)
  <2>. DEFINE c == CallOf(h, IF request[h].op = "anonymizeBatch" THEN 1 ELSE r.id)
  <2>1. c = CallOf(h, IF request[h].op = "anonymizeBatch" THEN 1 ELSE r.id) /\ r \in Sent(h) /\ r.ok
    BY <1>2
  <2>. HIDE DEF c
  <2>2. \A i \in DOMAIN task[c].config.fields : FieldStands(h, r, c, i)
    BY <1>2, <2>1, SentFieldStands
  <2>. QED BY <2>2 DEF c
<1>. QED BY <1>1, <1>2, Zenon DEF ResultsBelongToTheirRecords, FieldStands, HasOne, HasSecond

-----------------------------------------------------------------------------
(* What is restored. *)

\* A token is no text that clients send.
LEMMA TokenIsNoText ==
    ASSUME TokenizerInv, NEW c \in Call, NEW p \in DOMAIN batch[c], Anonymizer(c)
    PROVE  TokenAt(c, task[c].config, task[c].input, p[1], p[2]) \notin Text
<1>. DEFINE cfg  == task[c].config
            recs == task[c].input
            f    == cfg.fields[p[2]]
            value == recs[p[1]][f.name]
<1>1. /\ IsTask(task[c]) /\ IsList(recs) /\ batch[c] = BatchFor(c, task[c])
  BY DEF TokenizerInv, TasksInOrder, AnonymizerInOrder, Anonymizer
<1>2. /\ IsConfig(cfg) /\ \A r \in DOMAIN recs : recs[r] # NotADict
      /\ batch[c] = Mappings(c, task[c].system, cfg, recs)
  BY <1>1 DEF BatchFor, Nothing, IsTask
<1>3. /\ p \in (DOMAIN recs) \X (DOMAIN cfg.fields)
      /\ p[2] \in Tokenized(recs[p[1]], cfg)
  BY <1>2, Zenon DEF Mappings
<1>4. /\ p = <<p[1], p[2]>> /\ p[1] \in DOMAIN recs /\ p[2] \in DOMAIN cfg.fields
      /\ recs[p[1]] \in InputRecord /\ DOMAIN recs \subseteq Index
  BY <1>1, <1>2, <1>3 DEF IsList
<1>5. f \in FieldConfig /\ value \in Value
  BY <1>2, <1>3, <1>4, TokenizedValue DEF IsConfig
<1>6. cfg.key \in EncKey /\ value.text \in Text /\ <<p[1], p[2]>> \in Position
  BY <1>2, <1>4, <1>5, Zenon DEF IsConfig, Config, Value, Position
<1>. HIDE DEF f, value, cfg
<1>7. GenerateToken(f, cfg.key, value.text, c, <<p[1], p[2]>>) \in UuidToken \cup HmacToken
  BY <1>5, <1>6, TokenAssumption DEF GenerateToken, FieldConfig, UuidToken, HmacToken
<1>8. TokenAt(c, cfg, recs, p[1], p[2]) = GenerateToken(f, cfg.key, value.text, c, <<p[1], p[2]>>)
  BY DEF TokenAt, f, value
<1>9. TokenAt(c, cfg, recs, p[1], p[2]) \notin Text
  BY <1>7, <1>8, ValuesAssumption
<1>. QED BY <1>9 DEF cfg

\* Call d returned the record without error that it was given for item r.id of
\* the request of handler h, and r holds it.
RestoredFor(h, r, d) ==
    /\ d = CallOf(h, r.id) /\ d \in Call /\ Deanonymizer(d) /\ RestoredAll(d)
    /\ r.record = RestoredRecord(d)
    /\ task[d].system = request[h].system
    /\ task[d].input[1] = request[h].items[r.id]
    /\ query[d] = LookupsFor(task[d])

\* What a client was sent as restored is what the tokenizer restored.
LEMMA SentIsRestored ==
    ASSUME HandlerInv, NEW h \in Handler, Asked(h, DeanonymizeOps), NEW r \in Sent(h), r.ok
    PROVE  \E d : RestoredFor(h, r, d)
<1>. DEFINE items == request[h].items
<1>1. /\ request[h] # NoRequest /\ request[h].op \in DeanonymizeOps
      /\ request[h].op # "anonymizeBatch" /\ request[h].op # "anonymizeLines"
  BY DEF Asked, DeanonymizeOps
<1>2. PICK i \in DOMAIN items : r = LineResult(h, i)
  <2>1. CASE request[h].op = "deanonymizeBatch"
    BY <1>1, <2>1 DEF Sent
  <2>2. CASE request[h].op # "deanonymizeBatch"
    <3>1. PICK i \in Through(h) : r = LineResult(h, i)
      BY <1>1, <2>2 DEF Sent
    <3>. QED BY <1>1, <3>1 DEF Through
  <2>. QED BY <2>1, <2>2
<1>. DEFINE d == CallOf(h, i)
<1>3. i \in 1..MaxItems
  BY <1>1, <1>2, AnonymizeRequestHas
     DEF HandlerInv, RequestsInOrder, IsRequestOf, IsDeanonymizeRequest
<1>4. i \in Docs(items) /\ RestoredAll(d) /\ r = OkResult(i, RestoredRecord(d))
  <2>1. i \in Docs(items)
    BY <1>2, ResultNames DEF LineResult
  <2>2. r = ErrorResult(i) \/ (RestoredAll(d) /\ r = OkResult(i, RestoredRecord(d)))
    BY <1>1, <1>2, <2>1 DEF LineResult
  <2>. QED BY <2>1, <2>2, ResultNames
<1>5. d \in Call /\ CallInOrder(h, i)
  BY <1>3, CallsAreDistinct DEF HandlerInv, HandlersInOrder, HandlerInOrder
<1>6. status[d] = "done" /\ task[d].config # NoConfig
  BY <1>4 DEF RestoredAll
<1>7. IsTaskFor(task[d], request[h], i) /\ task[d] # NoTask
  BY <1>5, <1>6 DEF CallInOrder, HandlerInv, TokenizerInv, TypeOK
<1>8. task[d].op = "deanonymize" /\ task[d].input = <<items[i]>> /\ task[d].system = request[h].system
  BY <1>1, <1>7 DEF IsTaskFor
<1>9. Deanonymizer(d) /\ task[d].input[1] = items[i]
  BY <1>7, <1>8 DEF Deanonymizer
<1>10. query[d] = LookupsFor(task[d])
  BY <1>5, <1>6, <1>9 DEF HandlerInv, LookupsInOrder
<1>. HIDE DEF d
<1>11. r.id = i /\ r.record = RestoredRecord(d)
  BY <1>4, ResultNames
<1>12. d = CallOf(h, r.id)
  BY <1>11 DEF d
<1>13. RestoredFor(h, r, d)
  BY <1>4, <1>5, <1>8, <1>9, <1>10, <1>11, <1>12 DEF RestoredFor
<1>. QED BY <1>13

\* Call d restores, without error, what call c returned as its result k.
Restores(d, c, k) ==
    /\ Succeeded(c, k) /\ Deanonymizer(d) /\ RestoredAll(d)
    /\ task[d].system = task[c].system
    /\ task[d].input[1] = ResultRecord(c, k)
    /\ query[d] = LookupsFor(task[d])

\* Call d has found every token it has looked up: one for each value that call
\* c returned in a field of the policy of d.
HasFound(d, c, k) ==
    /\ LookedUp(d) = {j \in DOMAIN task[d].config.fields :
                         ResultRecord(c, k)[task[d].config.fields[j].name] \notin {Null, Broken}}
    /\ \A j \in LookedUp(d) :
          /\ Restored(d, j).ok
          /\ query[d][j] = BuildKey(task[c].system,
                                    ResultRecord(c, k)[task[d].config.fields[j].name].text)

LEMMA LookupsOfRestored ==
    ASSUME HandlerInv, NEW c \in Call, NEW k, NEW d \in Call, Restores(d, c, k)
    PROVE  IsConfig(task[d].config) /\ HasFound(d, c, k)
<1>. DEFINE t == task[d]
            rec == ResultRecord(c, k)
            D == {j \in DOMAIN t.config.fields : rec[t.config.fields[j].name] \notin {Null, Broken}}
<1>1. /\ Deanonymizer(d) /\ status[d] = "done" /\ t.config # NoConfig
      /\ t.system = task[c].system /\ t.input[1] = rec
      /\ \A j \in LookedUp(d) : Restored(d, j).ok
  BY DEF Restores, RestoredAll
<1>2. IsConfig(t.config)
  BY <1>1 DEF HandlerInv, TokenizerInv, TasksInOrder, Deanonymizer, IsTask
<1>3. LookedUp(d) = DOMAIN query[d]
  BY <1>1 DEF LookedUp
<1>. HIDE DEF t, rec
<1>4. LookupsFor(t) = [j \in D |-> BuildKey(t.system, rec[t.config.fields[j].name].text)]
  BY <1>1 DEF LookupsFor
<1>5. query[d] = LookupsFor(t)
  BY DEF Restores, t
<1>6. DOMAIN query[d] = D /\ \A j \in D : query[d][j] = BuildKey(task[c].system, rec[t.config.fields[j].name].text)
  BY <1>1, <1>4, <1>5, Zenon
<1>. HIDE DEF D
<1>7. LookedUp(d) = D
  BY <1>3, <1>6
<1>. QED BY <1>1, <1>2, <1>6, <1>7 DEF D, t, rec, HasFound

\* Every value it finds for a field is that of the field, whether the field was
\* anonymized or not.
LEMMA FoundIsOriginal ==
    ASSUME HandlerInv, DeanonymizeInvertsAnonymize,
           NEW c \in Call, NEW k, NEW d \in Call, Restores(d, c, k), NEW j \in LookedUp(d),
           NEW n, n = task[d].config.fields[j].name, task[c].input[k][n] # Null
    PROVE  Restored(d, j).text = task[c].input[k][n].text
<1>. DEFINE item == task[c].input[k]
            rec == ResultRecord(c, k)
<1>1. /\ IsConfig(task[d].config) /\ j \in DOMAIN task[d].config.fields
      /\ rec[n] \notin {Null, Broken} /\ Restored(d, j).ok
      /\ query[d][j] = BuildKey(task[c].system, rec[n].text)
  <2>1. IsConfig(task[d].config) /\ HasFound(d, c, k)
    BY LookupsOfRestored
  <2>. QED BY <2>1, Zenon DEF HasFound
<1>2. n \in Field
  <2>1. task[d].config.fields[j] \in FieldConfig
    BY ONLY <1>1 DEF IsConfig, Config
  <2>. QED BY <2>1 DEF FieldConfig
<1>3. Succeeded(c, k) /\ TokenizerInv
  BY DEF Restores, HandlerInv
<1>4. Anonymizer(c) /\ k \in DOMAIN task[c].input /\ item \in InputRecord
  BY <1>3, SuccessMeans DEF Succeeded
<1>5. CASE \E m \in DOMAIN task[c].config.fields : task[c].config.fields[m].name = n
  <2>1. PICK m \in DOMAIN task[c].config.fields : task[c].config.fields[m].name = n
    BY <1>5
  <2>2. Original(c, k, m) = item[n] /\ Original(c, k, m) # Null
    BY <2>1 DEF Original
  <2>3. PICK i \in Tokenized(task[c].input[k], task[c].config) :
           /\ Original(c, k, i) = Original(c, k, m)
           /\ BuildKey(task[c].system, ResultRecord(c, k)[task[c].config.fields[m].name].text)
                 = IssuedKey(c, k, i)
    BY <1>3, <2>1, <2>2, ResultHoldsToken, Zenon
  <2>4. IssuedKey(c, k, i) = query[d][j]
    BY <1>1, <2>1, <2>3
  <2>5. Restored(d, j).text = Original(c, k, i).text
    BY <1>1, <1>3, <1>4, <2>3, <2>4 DEF DeanonymizeInvertsAnonymize
  <2>. QED BY <2>2, <2>3, <2>5, Zenon
<1>6. CASE \A m \in DOMAIN task[c].config.fields : task[c].config.fields[m].name # n
  <2>1. rec[n] = item[n]
    <3>1. \A m \in Tokenized(task[c].input[k], task[c].config) : task[c].config.fields[m].name # n
      BY <1>6, Zenon DEF Tokenized
    <3>. QED BY <1>2, <1>3, <3>1, UntouchedField, ZenonT(40)
  <2>2. item[n].text \in Text
    BY <1>1, <1>2, <1>4, <2>1, Zenon DEF InputRecord
  <2>3. \E a \in Call : \E p \in DOMAIN batch[a] :
           Anonymizer(a) /\ query[d][j] = IssuedKey(a, p[1], p[2])
    <3>1. d \in Call /\ j \in LookedUp(d)
      OBVIOUS
    <3>2. Restored(d, j) # [ok |-> FALSE, error |-> "missing"]
      BY ONLY <1>1
    <3>. QED BY ONLY <1>3, <3>1, <3>2, RestoredFrom
  <2>4. PICK a \in Call : \E p \in DOMAIN batch[a] :
           Anonymizer(a) /\ query[d][j] = IssuedKey(a, p[1], p[2])
    BY <2>3
  <2>5. PICK p \in DOMAIN batch[a] : Anonymizer(a) /\ query[d][j] = IssuedKey(a, p[1], p[2])
    BY <2>4
  <2>6. TokenAt(a, task[a].config, task[a].input, p[1], p[2]) \notin Text
    BY <1>3, <2>5, TokenIsNoText
  <2>7. item[n].text = TokenAt(a, task[a].config, task[a].input, p[1], p[2])
    <3>1. query[d][j] = <<task[c].system, item[n].text>>
      BY <1>1, <2>1, Zenon DEF BuildKey
    <3>2. query[d][j] = <<task[a].system, TokenAt(a, task[a].config, task[a].input, p[1], p[2])>>
      BY <2>5 DEF IssuedKey, BuildKey
    <3>. HIDE DEF item, rec
    <3>. QED BY ONLY <3>1, <3>2
  <2>. QED BY <2>2, <2>6, <2>7
<1>. QED BY <1>5, <1>6, Zenon

\* A field that is not null is returned with a value.
LEMMA ReturnedIsNotNull ==
    ASSUME TokenizerInv, NEW c \in Call, NEW k, Succeeded(c, k), NEW n \in Field,
           task[c].input[k][n] # Null
    PROVE  ResultRecord(c, k)[n] # Null
<1>. DEFINE cfg == task[c].config
            recs == task[c].input
            F == {i \in Tokenized(recs[k], cfg) : cfg.fields[i].name = n}
<1>1. CASE F = {}
  <2>1. ResultRecord(c, k)[n] = recs[k][n]
    BY <1>1, UntouchedField
  <2>. QED BY <2>1
<1>2. CASE F # {}
  <2>1. /\ IsConfig(cfg) /\ DOMAIN recs \subseteq Index /\ k \in DOMAIN recs /\ recs[k] \in InputRecord
        /\ ResultRecord(c, k) = WithTokens(c, cfg, recs, k, Tokenized(recs[k], cfg))
    BY SuccessMeans
  <2>2. ResultRecord(c, k)[n] =
           [text |-> TokenAt(c, cfg, recs, k, CHOOSE i \in Tokenized(recs[k], cfg) : cfg.fields[i].name = n),
            type |-> "str"]
    BY <1>2, <2>1 DEF WithTokens
  <2>. DEFINE i == CHOOSE i \in Tokenized(recs[k], cfg) : cfg.fields[i].name = n
  <2>3. i \in Tokenized(recs[k], cfg)
    BY <1>2
  <2>. HIDE DEF i, cfg, recs
  <2>4. TokenAt(c, cfg, recs, k, i) \in TokenString
    BY <2>1, <2>3, TokenAtType
  <2>5. ResultRecord(c, k)[n] = [text |-> TokenAt(c, cfg, recs, k, i), type |-> "str"]
    BY <2>2 DEF i, cfg, recs
  <2>6. ResultRecord(c, k)[n] \in [text: TokenString, type: ValueType]
    BY <2>4, <2>5 DEF ValueType, TypeName
  <2>. QED BY <2>6, ValuesAssumption
<1>. QED BY <1>1, <1>2

\* Field n of record rec is that of the record that was anonymized.
FieldIsOriginal(rec, item, n) ==
    IF item[n] = Null THEN rec[n] = Null ELSE rec[n].text = item[n].text

\* A record that is restored without error is the one that was anonymized, in
\* every field of the policy that restores it.
LEMMA RestoredFieldIsOriginal ==
    ASSUME HandlerInv, DeanonymizeInvertsAnonymize,
           NEW c \in Call, NEW k, NEW d \in Call, Restores(d, c, k),
           NEW i \in DOMAIN task[d].config.fields
    PROVE  FieldIsOriginal(RestoredRecord(d), task[c].input[k], task[d].config.fields[i].name)
<1>. DEFINE n == task[d].config.fields[i].name
            item == task[c].input[k]
            rec == ResultRecord(c, k)
            F == {j \in LookedUp(d) : task[d].config.fields[j].name = n /\ Restored(d, j).ok}
            value == Restored(d, CHOOSE j \in F : TRUE)
<1>1. IsConfig(task[d].config) /\ HasFound(d, c, k)
  BY LookupsOfRestored
<1>2. n \in Field
  <2>1. task[d].config.fields[i] \in FieldConfig
    BY <1>1 DEF IsConfig, Config
  <2>. QED BY <2>1 DEF FieldConfig
<1>3. /\ Succeeded(c, k) /\ TokenizerInv /\ task[d].input[1] = rec
      /\ rec[n] # Broken
  BY DEF Restores, RestoredAll, HandlerInv
<1>4. RestoredRecord(d)[n] = IF F = {} THEN rec[n] ELSE [text |-> value.text, type |-> value.type]
  BY <1>2, <1>3, Zenon DEF RestoredRecord
<1>5. CASE item[n] = Null
  <2>1. rec[n] = Null
    <3>. HIDE DEF n
    <3>. QED BY <1>2, <1>3, <1>5, NullComesBack
  <2>2. F = {}
    BY <1>1, <2>1 DEF HasFound
  <2>. QED BY <1>4, <1>5, <2>1, <2>2, Zenon DEF FieldIsOriginal
<1>6. CASE item[n] # Null
  <2>1. rec[n] # Null
    <3>. HIDE DEF n
    <3>. QED BY <1>2, <1>3, <1>6, ReturnedIsNotNull
  <2>2. i \in F
    BY <1>1, <1>3, <2>1 DEF HasFound
  <2>. DEFINE j == CHOOSE j \in F : TRUE
  <2>3. j \in F
    BY <2>2
  <2>. HIDE DEF j
  <2>4. Restored(d, j).text = item[n].text
    <3>1. j \in LookedUp(d) /\ task[d].config.fields[j].name = n
      BY <2>3
    <3>. HIDE DEF n
    <3>2. n = task[d].config.fields[j].name
      BY <3>1
    <3>. QED BY <1>6, <3>1, <3>2, FoundIsOriginal
  <2>5. value.text = item[n].text
    BY <2>4, Zenon DEF j
  <2>. HIDE DEF value, F
  <2>6. RestoredRecord(d)[n].text = value.text
    BY <1>4, <2>2
  <2>. QED BY <1>6, <2>5, <2>6, Zenon DEF FieldIsOriginal
<1>. QED BY <1>5, <1>6

\* What clients have been sent as restored are the records they had anonymized.
LEMMA RestoredAreOriginal ==
    HandlerInv /\ DeanonymizeInvertsAnonymize => RestoredRecordsAreOriginal
<1>. SUFFICES ASSUME HandlerInv, DeanonymizeInvertsAnonymize PROVE RestoredRecordsAreOriginal
  OBVIOUS
<1>1. ASSUME NEW g \in Handler, NEW h \in Handler, NEW r \in Sent(g), NEW q \in Sent(h),
             Asked(g, DeanonymizeOps), r.ok, Asked(h, AnonymizeOps), q.ok,
             request[g].system = request[h].system,
             request[g].items[r.id] = q.record,
             NEW i \in DOMAIN task[CallOf(g, r.id)].config.fields
      PROVE  FieldIsOriginal(r.record, request[h].items[q.id],
                             task[CallOf(g, r.id)].config.fields[i].name)
  <2>1. PICK d : RestoredFor(g, r, d)
    BY <1>1, SentIsRestored
  <2>2. PICK c, k : SentFor(h, q, c, k)
    BY <1>1, SentIsReturned
  <2>3. d = CallOf(g, r.id) /\ d \in Call /\ r.record = RestoredRecord(d)
    BY <2>1 DEF RestoredFor
  <2>4. c \in Call /\ task[c].input[k] = request[h].items[q.id]
    BY <2>2 DEF SentFor
  <2>5. Restores(d, c, k)
    BY <1>1, <2>1, <2>2 DEF RestoredFor, SentFor, Restores
  <2>6. FieldIsOriginal(RestoredRecord(d), task[c].input[k], task[d].config.fields[i].name)
    BY <1>1, <2>3, <2>4, <2>5, RestoredFieldIsOriginal
  <2>. QED BY <2>3, <2>4, <2>6
<1>2. \A g, h \in Handler : \A r \in Sent(g), q \in Sent(h) :
         /\ Asked(g, DeanonymizeOps) /\ r.ok
         /\ Asked(h, AnonymizeOps) /\ q.ok
         /\ request[g].system = request[h].system
         /\ request[g].items[r.id] = q.record
         => \A i \in DOMAIN task[CallOf(g, r.id)].config.fields :
               FieldIsOriginal(r.record, request[h].items[q.id],
                               task[CallOf(g, r.id)].config.fields[i].name)
  BY <1>1
<1>. QED BY <1>2, Zenon DEF RestoredRecordsAreOriginal, FieldIsOriginal

-----------------------------------------------------------------------------
(* Hence what the handlers promise. *)

\* A record of a V2 batch is answered with an error of its own only for a
\* reason of its own, the system's or the store's, and with an error of the
\* batch only where a document is no object or holds, in a field that its
\* policy does not list, what cannot be written (anonymize_batch,
\* AnonymizeBatch).
THEOREM ErrorsAreExplained == HandlerSpec => []ErrorsHaveReasons
<1>. QED BY ErrorsHaveReasonsHere, HandlerInvariant, PTL

\* Each record of a V2 request has one result, or two where a later record of
\* its batch could not be written; and what a client is sent for a record as
\* anonymized, in a response or on a line, stands for that record.
THEOREM ResultsAreOfTheirRecords == HandlerSpec => []ResultsBelongToTheirRecords
<1>. QED BY ResultsBelong, HandlerInvariant, HandledValuesAreRecoverable, PTL

\* A record that is sent back as restored is the record that was anonymized,
\* in every field of the policy that restores it, for any reloads, cancelled
\* requests and expired tokens in between (deanonymize_record,
\* DeanonymizeBatch, stream_deanonymize_as_ndjson).
THEOREM RestoredRecordsAreThoseSent == HandlerSpec => []RestoredRecordsAreOriginal
<1>. QED BY RestoredAreOriginal, HandlerInvariant, HandlersInvert, PTL
=============================================================================
