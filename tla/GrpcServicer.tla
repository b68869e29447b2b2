---------------------------- MODULE GrpcServicer ----------------------------
(***************************************************************************)
(* api/grpc_servicer.py: one bidirectional stream of the V1 API.  A        *)
(* consumer coroutine reads requests and spawns a task for every full      *)
(* batch (Anonymize) or every request (Deanonymize); the tasks share a     *)
(* semaphore and put responses into a queue, which the handler yields from *)
(* until it meets the consumer's None.                                     *)
(***************************************************************************)
EXTENDS Naturals, Sequences, FiniteSets

CONSTANTS Requests,       \* how many requests a client sends at most
          SystemOf,       \* the system_id of each request
          Unparsable,     \* the requests whose record is not JSON
          Unwritable,     \* those whose record orjson reads and cannot write
          MaxConcurrent,
          BatchSize,
          None            \* the sentinel of the response queue

Request == 1..Requests    \* in the order they are sent

ASSUME RequestsAssumption == Requests \in Nat /\ DOMAIN SystemOf = Request
ASSUME UnparsableAssumption == Unparsable \subseteq Request
ASSUME UnwritableAssumption == Unwritable \subseteq Request \ Unparsable
ASSUME BatchSizeAssumption == BatchSize \in Nat \ {0} /\ MaxConcurrent \in Nat
\* Nothing in Settings relates the two; otherwise no batch ever gets a permit.
ASSUME PermitsAssumption == MaxConcurrent \div BatchSize > 0
ASSUME NoneAssumption == None \notin Request

VARIABLES rpc,       \* the method: "Anonymize" or "Deanonymize"
          input,     \* the request iterator: "open", "ended" or "broken"
          read,      \* how many requests the consumer has read
          batch,     \* the requests read and not yet given to a task
          waiting,   \* tasks waiting for a permit, in that order
          running,   \* tasks that hold a permit
          consumer,  \* "reading", "gathering", "done"
          queue,     \* the response queue: requests, and None
          systems,   \* the system each request's record was processed under
          failed,    \* the batches logged as batch_anonymize_error
          yielded,   \* the responses yielded to the client
          handler    \* "yielding", "closing" (in gather), "ended", "cancelled",
                     \* "aborted" (cancelled in gather)

vars == <<rpc, input, read, batch, waiting, running, consumer, queue, systems,
          failed, yielded, handler>>

-----------------------------------------------------------------------------
\* Fault: the permits are not divided by the batch size.
PermitsPerRequest == MaxConcurrent

Permits == IF rpc = "Anonymize" THEN MaxConcurrent \div BatchSize ELSE MaxConcurrent

TaskSize == IF rpc = "Anonymize" THEN BatchSize ELSE 1

Init ==
    /\ rpc \in {"Anonymize", "Deanonymize"}
    /\ input = "open"
    /\ read = 0
    /\ batch = <<>>
    /\ waiting = <<>>
    /\ running = {}
    /\ consumer = "reading"
    /\ queue = <<>>
    /\ systems = [r \in Request |-> None]
    /\ failed = {}
    /\ yielded = <<>>
    /\ handler = "yielding"

\* Fault: the list given to a task is also the next batch's.
NextBatchAliased(b) == b

\* A task owns its list: the next batch begins a new one.
NextBatch(b) == <<>>

\* consume_requests takes the next request.  Anonymize answers a record it
\* cannot parse at once; Deanonymize leaves that to the request's task.
Read ==
    /\ consumer = "reading"
    /\ read + 1 \in Request
    /\ read' = read + 1
    /\ IF rpc = "Anonymize" /\ read' \in Unparsable
       THEN queue' = Append(queue, read') /\ UNCHANGED <<batch, waiting>>
       ELSE LET b == Append(batch, read')
            IN  /\ IF Len(b) >= TaskSize
                   THEN waiting' = Append(waiting, b) /\ batch' = NextBatch(b)
                   ELSE batch' = b /\ UNCHANGED waiting
                /\ UNCHANGED queue
    /\ UNCHANGED <<rpc, input, running, consumer, systems, failed, yielded, handler>>

\* The finally clause of consume_requests: Anonymize first gathers its tasks.
Finally ==
    IF rpc = "Anonymize"
    THEN consumer' = "gathering" /\ UNCHANGED queue
    ELSE consumer' = "done" /\ queue' = Append(queue, None)

\* The client half-closes; what is left becomes a task.
EndOfRequests ==
    /\ consumer = "reading"
    /\ input' = "ended"
    /\ waiting' = IF batch # <<>> THEN Append(waiting, batch) ELSE waiting
    /\ batch' = <<>>
    /\ Finally
    /\ UNCHANGED <<rpc, read, running, systems, failed, yielded, handler>>

\* The request iterator raises; a batch that was not full is dropped.
BreakOff ==
    /\ consumer = "reading"
    /\ input' = "broken"
    /\ batch' = <<>>
    /\ Finally
    /\ UNCHANGED <<rpc, read, waiting, running, systems, failed, yielded, handler>>

\* A task gets a permit; asyncio's semaphore is first come, first served.
Acquire ==
    /\ waiting # <<>>
    /\ Cardinality(running) < Permits
    /\ running' = running \cup {Head(waiting)}
    /\ waiting' = Tail(waiting)
    /\ UNCHANGED <<rpc, input, read, batch, consumer, queue, systems, failed, yielded, handler>>

\* The task gives its permit back.  A batch is processed under the system_id
\* of its first request.
Release(b) ==
    /\ b \in running
    /\ running' = running \ {b}
    /\ systems' = [r \in Request |->
                      IF \E i \in DOMAIN b : b[i] = r THEN SystemOf[Head(b)] ELSE systems[r]]
    /\ UNCHANGED <<rpc, input, read, batch, waiting, consumer, yielded, handler>>

\* The tokenizer answers: the task puts one response for each of its requests,
\* without suspending.  The request of Deanonymize also gets one for an exception.
Finish(b) ==
    /\ Release(b)
    /\ queue' = queue \o b
    /\ UNCHANGED failed

\* The first k requests are answered, then the whole batch is, with an error.
FailAll(b, k) == queue \o SubSeq(b, 1, k) \o b

\* The tokenizer raises, or a record cannot be written after the responses of
\* those before it were put: every request of the batch gets an error.
Fail(b) ==
    /\ rpc = "Anonymize"
    /\ Release(b)
    /\ \E k \in {0} \cup {i - 1 : i \in {j \in DOMAIN b : b[j] \in Unwritable}} :
           queue' = FailAll(b, k)
    /\ failed' = failed \cup {b}

\* Fault: the tasks that wait for a permit are forgotten.
AllDoneIfNoneRuns == running = {}

\* Fault: the responses must also have been taken out of the queue.
AllDoneAndYielded == waiting = <<>> /\ running = {} /\ queue = <<>>

\* gather(*active_tasks) returns.
AllDone == waiting = <<>> /\ running = {}

SignalEnd ==
    /\ consumer = "gathering"
    /\ AllDone
    /\ consumer' = "done"
    /\ queue' = Append(queue, None)
    /\ UNCHANGED <<rpc, input, read, batch, waiting, running, systems, failed, yielded, handler>>

\* The handler takes a response and yields it.
Yield ==
    /\ handler = "yielding"
    /\ queue # <<>> /\ Head(queue) # None
    /\ queue' = Tail(queue)
    /\ yielded' = Append(yielded, Head(queue))
    /\ UNCHANGED <<rpc, input, read, batch, waiting, running, consumer, systems, failed, handler>>

\* It meets None.  The consumer is done: awaiting it returns, or raises what
\* broke the iterator.  Deanonymize then gathers the tasks that are left.
Close ==
    /\ handler = "yielding"
    /\ queue # <<>> /\ Head(queue) = None
    /\ queue' = Tail(queue)
    /\ handler' = IF rpc = "Deanonymize" /\ input # "broken" /\ ~AllDone
                  THEN "closing" ELSE "ended"
    /\ UNCHANGED <<rpc, input, read, batch, waiting, running, consumer, systems, failed, yielded>>

\* The gather of Deanonymize returns.
End ==
    /\ handler = "closing"
    /\ AllDone
    /\ handler' = "ended"
    /\ UNCHANGED <<rpc, input, read, batch, waiting, running, consumer, queue, systems, failed, yielded>>

\* The stream is cancelled while it yields: the consumer and the tasks go on.
Cancel ==
    /\ handler = "yielding"
    /\ handler' = "cancelled"
    /\ UNCHANGED <<rpc, input, read, batch, waiting, running, consumer, queue, systems, failed, yielded>>

\* It is cancelled in gather, which cancels the tasks; CancelledError is no
\* Exception, so their requests get no response.
Abort ==
    /\ handler = "closing"
    /\ handler' = "aborted"
    /\ waiting' = <<>>
    /\ running' = {}
    /\ UNCHANGED <<rpc, input, read, batch, consumer, queue, systems, failed, yielded>>

Next ==
    \/ Read
    \/ EndOfRequests
    \/ BreakOff
    \/ Acquire
    \/ \E b \in running : Finish(b) \/ Fail(b)
    \/ SignalEnd
    \/ Yield
    \/ Close
    \/ End
    \/ Cancel
    \/ Abort

\* The loop resumes what can go on, and the tokenizer returns; nobody has to
\* send, close or cancel.
Fairness ==
    /\ WF_vars(Acquire)
    /\ WF_vars(\E b \in running : Finish(b) \/ Fail(b))
    /\ WF_vars(SignalEnd)
    /\ WF_vars(Yield)
    /\ WF_vars(Close)
    /\ WF_vars(End)

Spec == Init /\ [][Next]_vars /\ Fairness
-----------------------------------------------------------------------------
TypeOK ==
    /\ rpc \in {"Anonymize", "Deanonymize"}
    /\ input \in {"open", "ended", "broken"}
    /\ read \in 0..Requests
    /\ batch \in Seq(Request) /\ Len(batch) < TaskSize
    /\ waiting \in Seq(Seq(Request))
    /\ \A b \in running : b \in Seq(Request) /\ Len(b) \in 1..TaskSize
    /\ consumer \in {"reading", "gathering", "done"}
    /\ input = "open" <=> consumer = "reading"
    /\ queue \in Seq(Request \cup {None})
    /\ systems \in [Request -> {SystemOf[r] : r \in Request} \cup {None}]
    /\ \A b \in failed : b \in Seq(Request)
    /\ yielded \in Seq(Request)
    /\ handler \in {"yielding", "closing", "ended", "cancelled", "aborted"}

Positions(s, r) == {i \in DOMAIN s : s[i] = r}

\* Where the request r is while it has no response: the open batch, a task.
Unanswered(r) ==
    {<<"batch", i>> : i \in Positions(batch, r)}
    \cup {<<"waiting", i>> : i \in {j \in DOMAIN waiting : Positions(waiting[j], r) # {}}}
    \cup {<<"running", b>> : b \in {t \in running : Positions(t, r) # {}}}

\* Its responses.
Answers(r) ==
    {<<"queue", i>> : i \in Positions(queue, r)}
    \cup {<<"yielded", i>> : i \in Positions(yielded, r)}

Places(r) == Unanswered(r) \cup Answers(r)

\* Its batch failed when a record after its own could not be written.
FailedLater(r) ==
    \E b \in failed : \E i, j \in DOMAIN b : i < j /\ b[i] = r /\ b[j] \in Unwritable

\* A request that was read is in the open batch, in one task, or answered
\* (consume_requests, process_batch_with_semaphore).  It has one response;
\* only _process_anonymize_batch gives a second, an error, when a later record
\* of the batch cannot be written.  It is lost only with the batch that was
\* open when the iterator of Anonymize broke, or with a task cancelled by the
\* gather that ends Deanonymize.
RequestAccountedFor ==
    \A r \in 1..read :
        \/ Cardinality(Places(r)) = 1
        \/ Unanswered(r) = {} /\ Cardinality(Answers(r)) = 2 /\ FailedLater(r)
        \/ Places(r) = {} /\ rpc = "Anonymize" /\ input = "broken"
        \/ Places(r) = {} /\ rpc = "Deanonymize" /\ handler = "aborted"

\* At most MaxConcurrent records of one stream are processed at a time,
\* although the semaphore of Anonymize counts batches; each stream has its own
\* semaphore (Anonymize, Deanonymize).
ConcurrencyBounded ==
    Cardinality({r \in Request : \E b \in running : Positions(b, r) # {}}) <= MaxConcurrent

\* A stream that ends has answered every request the client sent: the None
\* of Anonymize comes after the responses of all tasks (consume_requests).
AnonymizeAnswersAll ==
    rpc = "Anonymize" /\ handler = "ended" /\ input = "ended" =>
        \A r \in 1..read : Positions(yielded, r) # {}

\* A stream whose client has half-closed, or whose iterator broke, ends, and
\* its tasks do too, before it or, after a broken iterator of Deanonymize or a
\* cancellation, on their own.
StreamEnds ==
    consumer # "reading" ~>
        handler \in {"ended", "cancelled", "aborted"} /\ consumer = "done" /\ AllDone

\* "Yields: DeanonymizeResponse for each processed record" (Deanonymize).
DeanonymizeAnswersAll ==
    rpc = "Deanonymize" /\ handler = "ended" /\ input = "ended" =>
        \A r \in 1..read : Positions(yielded, r) # {}
=============================================================================
