--------------------------- MODULE GrpcServicerV3 ---------------------------
(***************************************************************************)
(* api/grpc_servicer_v3.py: a handler per unary batch request submits a    *)
(* work item to the pool, keeps a future under its batch id and awaits it; *)
(* a collector coroutine resolves the futures from the result queue.  A    *)
(* client that goes away has its handler cancelled by the gRPC server, and *)
(* the pool may be stopped while handlers are waiting.                     *)
(***************************************************************************)
EXTENDS WorkerPool

CONSTANTS Deanonymizing   \* the requests that call DeanonymizeBatch

ASSUME DeanonymizingAssumption == Deanonymizing \subseteq Request

VARIABLES handler,  \* control state of each handler
          pending,  \* keys of pending_requests
          result,   \* what the future holds, once resolved: the result's ok
          answer    \* "results", "errors", or "none" before an answer

vars == <<poolVars, handler, pending, result, answer>>

-----------------------------------------------------------------------------
Init ==
    /\ PoolInit
    /\ handler = [r \in Request |-> "new"]
    /\ pending = {}
    /\ result = [r \in Request |-> FALSE]
    /\ answer = [r \in Request |-> "none"]

\* No record of the request parses: only parse errors are returned.
AnswerUnparsable(r) ==
    /\ handler[r] = "new"
    /\ handler' = [handler EXCEPT ![r] = "answered"]
    /\ answer' = [answer EXCEPT ![r] = "errors"]
    /\ UNCHANGED <<poolVars, pending, result>>

\* A handler registers its future and submits; submit_work suspends only if
\* the queue is full.
Begin(r) ==
    /\ handler[r] = "new"
    /\ pending' = pending \cup {r}
    /\ IF HasRoom
       THEN /\ workQueue' = Append(workQueue, r)
            /\ handler' = [handler EXCEPT ![r] = "awaiting"]
       ELSE /\ handler' = [handler EXCEPT ![r] = "putting"]
            /\ UNCHANGED workQueue
    /\ UNCHANGED <<running, resultQueue, worker, item, stopper, signals, result, answer>>

\* The blocked put of a handler gets its turn.
Submit(r) ==
    /\ handler[r] = "putting"
    /\ HasRoom
    /\ workQueue' = Append(workQueue, r)
    /\ handler' = [handler EXCEPT ![r] = "awaiting"]
    /\ UNCHANGED <<running, resultQueue, worker, item, stopper, signals, pending, result, answer>>

\* Fault: a failed batch has no future to resolve.
CollectSuccess ==
    /\ resultQueue # <<>>
    /\ stopper # "stopped"
    /\ resultQueue' = Tail(resultQueue)
    /\ LET r == Head(resultQueue).request
       IN  /\ pending' = pending \ {r}
           /\ IF r \in pending /\ handler[r] = "awaiting" /\ Head(resultQueue).ok
              THEN /\ handler' = [handler EXCEPT ![r] = "resolved"]
                   /\ result' = [result EXCEPT ![r] = TRUE]
              ELSE UNCHANGED <<handler, result>>
    /\ UNCHANGED <<running, workQueue, worker, item, stopper, signals, answer>>

\* Fault: the future is looked up and left in pending_requests.
CollectKeeping ==
    /\ resultQueue # <<>>
    /\ stopper # "stopped"
    /\ resultQueue' = Tail(resultQueue)
    /\ LET r == Head(resultQueue).request
       IN  IF r \in pending /\ handler[r] = "awaiting"
           THEN /\ handler' = [handler EXCEPT ![r] = "resolved"]
                /\ result' = [result EXCEPT ![r] = Head(resultQueue).ok]
           ELSE UNCHANGED <<handler, result>>
    /\ UNCHANGED <<running, workQueue, worker, item, stopper, signals, pending, answer>>

\* _collect_results: the future is popped, and resolved unless its handler
\* was cancelled, which cancelled the future it was awaiting.
Collect ==
    /\ resultQueue # <<>>
    /\ stopper # "stopped"
    /\ resultQueue' = Tail(resultQueue)
    /\ LET r == Head(resultQueue).request
       IN  /\ pending' = pending \ {r}
           /\ IF r \in pending /\ handler[r] = "awaiting"
              THEN /\ handler' = [handler EXCEPT ![r] = "resolved"]
                   /\ result' = [result EXCEPT ![r] = Head(resultQueue).ok]
              ELSE UNCHANGED <<handler, result>>
    /\ UNCHANGED <<running, workQueue, worker, item, stopper, signals, answer>>

\* The handler resumes.  A failed item, and in DeanonymizeBatch the missing
\* attribute result.error of a DeanonymizedRecord, end in an error for every
\* record.
Respond(r) ==
    /\ handler[r] = "resolved"
    /\ handler' = [handler EXCEPT ![r] = "answered"]
    /\ answer' = [answer EXCEPT ![r] =
                     IF result[r] /\ r \notin Deanonymizing THEN "results" ELSE "errors"]
    /\ pending' = IF answer'[r] = "errors" THEN pending \ {r} ELSE pending
    /\ UNCHANGED <<poolVars, result>>

\* The client goes away: CancelledError is no Exception, so the handler's
\* clean-up of pending_requests does not run.
Cancel(r) ==
    /\ handler[r] \in {"putting", "awaiting", "resolved"}
    /\ handler' = [handler EXCEPT ![r] = "cancelled"]
    /\ UNCHANGED <<poolVars, pending, result, answer>>

PoolStep ==
    /\ \/ \E w \in Worker : GetWork(w)
       \/ \E w \in Worker, ok \in BOOLEAN : Finish(w, ok)
       \/ BeginStop
       \/ ResumeStop
       \/ Join
    /\ UNCHANGED <<handler, pending, result, answer>>

Next ==
    \/ \E r \in Request : AnswerUnparsable(r)
    \/ \E r \in Request : Begin(r)
    \/ \E r \in Request : Submit(r)
    \/ Collect
    \/ \E r \in Request : Respond(r)
    \/ \E r \in Request : Cancel(r)
    \/ PoolStep

\* The loop resumes every coroutine that can go on, the tokenizer returns, and
\* nobody has to call stop() or cancel a request.
Fairness ==
    /\ \A r \in Request : WF_vars(Submit(r)) /\ WF_vars(Respond(r))
    /\ WF_vars(Collect)
    /\ \A w \in Worker :
          /\ WF_vars(GetWork(w) /\ UNCHANGED <<handler, pending, result, answer>>)
          /\ WF_vars((\E ok \in BOOLEAN : Finish(w, ok))
                        /\ UNCHANGED <<handler, pending, result, answer>>)
    /\ WF_vars(ResumeStop /\ UNCHANGED <<handler, pending, result, answer>>)
    /\ WF_vars(Join /\ UNCHANGED <<handler, pending, result, answer>>)

Spec == Init /\ [][Next]_vars /\ Fairness

-----------------------------------------------------------------------------
TypeOK ==
    /\ PoolTypeOK
    /\ handler \in [Request -> {"new", "putting", "awaiting", "resolved", "answered", "cancelled"}]
    /\ pending \subseteq Request
    /\ result \in [Request -> BOOLEAN]
    /\ answer \in [Request -> {"none", "results", "errors"}]

\* The places where the item of request r is.
Places(r) == {<<"queue", i>> : i \in {j \in DOMAIN workQueue : workQueue[j] = r}}
             \cup {<<"worker", w>> : w \in {v \in Worker : item[v] = r}}
             \cup {<<"result", i>> : i \in {j \in DOMAIN resultQueue : resultQueue[j].request = r}}

\* A handler that awaits its future is registered and its item is in exactly
\* one place, the queue, a worker or the results: it is neither lost nor
\* processed twice, whoever stops or cancels (submit_work, _worker,
\* _collect_results).
AwaitedItemInOnePlace ==
    \A r \in Request : handler[r] = "awaiting" => r \in pending /\ Cardinality(Places(r)) = 1

\* stop() never cuts work short: when it has returned, an unanswered request
\* is one whose item no worker had taken (stop, the gather of the workers).
StopAbandonsOnlyQueuedWork ==
    stopper = "stopped" =>
        \A r \in Request : handler[r] = "awaiting" =>
            \E i \in DOMAIN workQueue : workQueue[i] = r

\* pending_requests does not keep what has been answered.
AnsweredIsNotPending ==
    \A r \in Request : handler[r] \in {"resolved", "answered"} => r \notin pending

\* While the pool runs, every request submitted is answered or cancelled.
EveryRequestAnswered ==
    ([]running) =>
        \A r \in Request :
            handler[r] \in {"putting", "awaiting"} ~> handler[r] \in {"answered", "cancelled"}

\* "Stop all worker tasks gracefully": a stop that begins returns (stop).
StopReturns == ~running ~> stopper = "stopped"
=============================================================================
