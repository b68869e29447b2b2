----------------------------- MODULE WorkerPool -----------------------------
(***************************************************************************)
(* core/worker_pool.py: a fixed set of long-lived worker coroutines, a     *)
(* bounded work queue, an unbounded result queue, and a stop() that posts  *)
(* one None per worker and then waits for the workers.                     *)
(*                                                                         *)
(* All of it runs on one event loop: a step lasts from one await that      *)
(* really suspends to the next.                                            *)
(***************************************************************************)
EXTENDS Naturals, Sequences, FiniteSets

CONSTANTS Worker,     \* the worker coroutines
          Request,    \* the work items, named by the requests that submit them
          QueueSize,  \* maxsize of the work queue
          None        \* the stop signal

ASSUME WorkerAssumption == IsFiniteSet(Worker) /\ Worker # {}
ASSUME QueueSizeAssumption == QueueSize \in Nat \ {0}
ASSUME NoneAssumption == None \notin Request

VARIABLES running,      \* the flag the workers' loop tests
          workQueue,    \* items and stop signals, oldest first
          resultQueue,  \* results [request, ok], oldest first
          worker,       \* control state of each worker
          item,         \* the item each worker has in hand, or None
          stopper,      \* control state of stop()
          signals       \* how many stop signals it has still to put

poolVars == <<running, workQueue, resultQueue, worker, item, stopper, signals>>

\* The state after start().
PoolInit ==
    /\ running = TRUE
    /\ workQueue = <<>>
    /\ resultQueue = <<>>
    /\ worker = [w \in Worker |-> "waiting"]
    /\ item = [w \in Worker |-> None]
    /\ stopper = "idle"
    /\ signals = 0

\* Fault: put checks the size after it has put.
HasRoomForOneMore == Len(workQueue) <= QueueSize

\* Queue.put returns only when there is room; which of several blocked puts
\* goes first is up to the loop.
HasRoom == Len(workQueue) < QueueSize

\* A worker's get() returns: an item to process, or None, which ends it.
GetWork(w) ==
    /\ worker[w] = "waiting"
    /\ workQueue # <<>>
    /\ workQueue' = Tail(workQueue)
    /\ item' = [item EXCEPT ![w] = Head(workQueue)]
    /\ worker' = [worker EXCEPT ![w] = IF Head(workQueue) = None THEN "exited" ELSE "busy"]
    /\ UNCHANGED <<running, resultQueue, stopper, signals>>

\* Fault: an item whose processing raised leaves no result.
ResultsUnlessError(w, ok) ==
    IF ok THEN Append(resultQueue, [request |-> item[w], ok |-> ok]) ELSE resultQueue

\* One result is queued whether the tokenizer returned or raised.
Results(w, ok) == Append(resultQueue, [request |-> item[w], ok |-> ok])

\* The tokenizer returns or raises, and the loop condition decides whether
\* the worker goes back to get(), which does not suspend if an item is there.
Finish(w, ok) ==
    /\ worker[w] = "busy"
    /\ resultQueue' = Results(w, ok)
    /\ IF running /\ workQueue # <<>>
       THEN /\ item' = [item EXCEPT ![w] = Head(workQueue)]
            /\ workQueue' = Tail(workQueue)
            /\ UNCHANGED worker
       ELSE /\ item' = [item EXCEPT ![w] = None]
            /\ worker' = [worker EXCEPT ![w] = IF running THEN "waiting" ELSE "exited"]
            /\ UNCHANGED workQueue
    /\ UNCHANGED <<running, stopper, signals>>

\* stop() puts n more signals: as many as fit before a put suspends.
PutSignals(n) ==
    LET room == QueueSize - Len(workQueue)
        fit  == IF n <= room THEN n ELSE room
    IN  /\ workQueue' = workQueue \o [i \in 1..fit |-> None]
        /\ signals' = n - fit
        /\ stopper' = IF fit = n THEN "joining" ELSE "signalling"

\* stop() clears the flag and puts its signals.
BeginStop ==
    /\ running
    /\ running' = FALSE
    /\ PutSignals(Cardinality(Worker))
    /\ UNCHANGED <<resultQueue, worker, item>>

\* A blocked put(None) of stop() gets its turn.
ResumeStop ==
    /\ stopper = "signalling"
    /\ HasRoom
    /\ PutSignals(signals)
    /\ UNCHANGED <<running, resultQueue, worker, item>>

\* Fault: stop() does not wait for the workers that are busy.
JoinAny ==
    /\ stopper = "joining"
    /\ \E w \in Worker : worker[w] = "exited"
    /\ stopper' = "stopped"
    /\ UNCHANGED <<running, workQueue, resultQueue, worker, item, signals>>

\* gather(*workers) returns.  The loop runs callbacks in order, so the
\* consumer of the results, woken by the last put, has run before stop() does.
Join ==
    /\ stopper = "joining"
    /\ \A w \in Worker : worker[w] = "exited"
    /\ resultQueue = <<>>
    /\ stopper' = "stopped"
    /\ UNCHANGED <<running, workQueue, resultQueue, worker, item, signals>>

PoolTypeOK ==
    /\ running \in BOOLEAN
    /\ workQueue \in Seq(Request \cup {None}) /\ Len(workQueue) <= QueueSize
    /\ resultQueue \in Seq([request: Request, ok: BOOLEAN])
    /\ worker \in [Worker -> {"waiting", "busy", "exited"}]
    /\ item \in [Worker -> Request \cup {None}]
    /\ \A w \in Worker : worker[w] = "busy" <=> item[w] # None
    /\ stopper \in {"idle", "signalling", "joining", "stopped"}
    /\ signals \in 0..Cardinality(Worker)
    /\ running <=> stopper = "idle"
    /\ stopper = "signalling" <=> signals > 0
=============================================================================
