------------------------ MODULE GrpcServicerV3_proofs ------------------------
(***************************************************************************)
(* The safety of the worker pool and of the V3 servicer, for any number of *)
(* workers and requests and any queue: an awaited item is in exactly one   *)
(* place, answered requests are forgotten, and stop() cuts no work short.  *)
(***************************************************************************)
EXTENDS GrpcServicerV3, FiniteSetTheorems, SequenceTheorems, TLAPS

-----------------------------------------------------------------------------
(* Sequences in which a value occurs once, or not at all. *)

Absent(s, r) == \A j \in DOMAIN s : s[j] # r
Once(s, r) == \E i \in DOMAIN s : \A j \in DOMAIN s : s[j] = r <=> j = i

\* The requests a sequence of results is about.
RequestsOf(s) == [i \in DOMAIN s |-> s[i].request]

\* What Append does to the occurrences of a value.
LEMMA Appending ==
    ASSUME NEW S, NEW s \in Seq(S), NEW x \in S, NEW r
    PROVE  /\ Absent(s, r) /\ x # r => Absent(Append(s, x), r)
           /\ Absent(s, r) /\ x = r => Once(Append(s, x), r)
           /\ Once(s, r) /\ x # r => Once(Append(s, x), r)
<1> DEFINE t == Append(s, x)
<1>1. /\ t \in Seq(S)
      /\ DOMAIN s = 1..Len(s)
      /\ DOMAIN t = 1..(Len(s) + 1)
      /\ \A j \in 1..Len(s) : t[j] = s[j]
      /\ t[Len(s) + 1] = x
      /\ Len(s) \in Nat
  OBVIOUS
<1>2. DOMAIN t = DOMAIN s \cup {Len(s) + 1} /\ Len(s) + 1 \notin DOMAIN s
  BY <1>1
<1> HIDE DEF t
<1>3. Absent(s, r) /\ x # r => Absent(t, r)
  BY <1>1, <1>2 DEF Absent
<1>4. ASSUME Absent(s, r), x = r
      PROVE  Once(t, r)
  <2>1. \A j \in DOMAIN t : t[j] = r <=> j = Len(s) + 1
    BY <1>1, <1>2, <1>4 DEF Absent
  <2>2. QED
    BY <1>2, <2>1 DEF Once
<1>5. ASSUME Once(s, r), x # r
      PROVE  Once(t, r)
  <2>1. PICK i \in DOMAIN s : \A j \in DOMAIN s : s[j] = r <=> j = i
    BY <1>5 DEF Once
  <2>2. \A j \in DOMAIN t : t[j] = r <=> j = i
    BY <1>1, <1>2, <1>5, <2>1
  <2>3. QED
    BY <1>2, <2>1, <2>2 DEF Once
<1>6. QED
  BY <1>3, <1>4, <1>5 DEF t

\* What Tail does to them.
LEMMA TakingHead ==
    ASSUME NEW S, NEW s \in Seq(S), s # <<>>, NEW r
    PROVE  /\ Absent(s, r) => Absent(Tail(s), r) /\ Head(s) # r
           /\ Once(s, r) /\ Head(s) # r => Once(Tail(s), r)
           /\ Once(s, r) /\ Head(s) = r => Absent(Tail(s), r)
<1> DEFINE t == Tail(s)
<1>1. /\ Len(s) \in Nat \ {0}
      /\ DOMAIN s = 1..Len(s)
      /\ DOMAIN t = 1..(Len(s) - 1)
      /\ \A j \in 1..(Len(s) - 1) : t[j] = s[j + 1]
      /\ Head(s) = s[1]
      /\ 1 \in DOMAIN s
  OBVIOUS
<1> HIDE DEF t
<1>2. Absent(s, r) => Absent(t, r) /\ Head(s) # r
  BY <1>1 DEF Absent
<1>3. ASSUME Once(s, r), Head(s) # r
      PROVE  Once(t, r)
  <2>1. PICK i \in DOMAIN s : \A j \in DOMAIN s : s[j] = r <=> j = i
    BY <1>3 DEF Once
  <2>2. i # 1 /\ i - 1 \in DOMAIN t
    BY <1>1, <1>3, <2>1
  <2>3. \A j \in DOMAIN t : t[j] = r <=> j = i - 1
    BY <1>1, <2>1
  <2>4. QED
    BY <2>2, <2>3 DEF Once
<1>4. ASSUME Once(s, r), Head(s) = r
      PROVE  Absent(t, r)
  BY <1>1, <1>4 DEF Absent, Once
<1>5. QED
  BY <1>2, <1>3, <1>4 DEF t

\* Stop signals are no requests.
LEMMA Signalling ==
    ASSUME NEW S, NEW s \in Seq(S), NEW n \in Nat, None \in S, NEW r, r # None
    PROVE  LET t == s \o [i \in 1..n |-> None]
           IN  /\ t \in Seq(S) /\ Len(t) = Len(s) + n
               /\ Absent(s, r) => Absent(t, r)
               /\ Once(s, r) => Once(t, r)
<1> DEFINE z == [i \in 1..n |-> None]
           t == s \o z
<1>1. z \in Seq(S) /\ Len(z) = n
  OBVIOUS
<1>2. \A i \in 1..n : z[i] = None
  OBVIOUS
<1> HIDE DEF z
<1>3. /\ t \in Seq(S) /\ Len(t) = Len(s) + n
      /\ DOMAIN s = 1..Len(s) /\ DOMAIN t = 1..(Len(s) + n)
      /\ Len(s) \in Nat
      /\ \A j \in 1..Len(s) : t[j] = s[j]
      /\ \A j \in (Len(s) + 1)..(Len(s) + n) : t[j] = z[j - Len(s)]
  BY <1>1
<1>4. \A j \in DOMAIN t : j \in DOMAIN s \/ (j \in (Len(s) + 1)..(Len(s) + n) /\ j - Len(s) \in 1..n)
  BY <1>3
<1>5. DOMAIN s \subseteq DOMAIN t
  BY <1>3
<1> HIDE DEF t
<1>6. \A j \in DOMAIN t : t[j] = r <=> (j \in DOMAIN s /\ s[j] = r)
  BY <1>2, <1>3, <1>4, <1>5
<1>7. QED
  BY <1>3, <1>5, <1>6, ZenonT(40) DEF Absent, Once, t, z

\* The requests of a sequence of results follow what happens to it.
LEMMA ResultRequests ==
    ASSUME NEW s \in Seq([request: Request, ok: BOOLEAN])
    PROVE  /\ RequestsOf(s) \in Seq(Request)
           /\ \A x \in [request: Request, ok: BOOLEAN] :
                 RequestsOf(Append(s, x)) = Append(RequestsOf(s), x.request)
           /\ s # <<>> => /\ RequestsOf(s) # <<>>
                          /\ RequestsOf(Tail(s)) = Tail(RequestsOf(s))
                          /\ Head(RequestsOf(s)) = Head(s).request
<1> DEFINE R == [request: Request, ok: BOOLEAN]
           q == RequestsOf(s)
<1>0. /\ Len(s) \in Nat /\ DOMAIN s = 1..Len(s)
      /\ \A i \in 1..Len(s) : s[i] \in R
  <2>1. s \in Seq(R)
    OBVIOUS
  <2> HIDE DEF R
  <2>2. QED
    BY <2>1
<1>1. /\ q \in Seq(Request) /\ Len(q) = Len(s)
      /\ \A i \in 1..Len(s) : q[i] = s[i].request
  <2>1. \A i \in 1..Len(s) : s[i].request \in Request
    BY <1>0
  <2>2. q = [i \in 1..Len(s) |-> s[i].request]
    BY <1>0 DEF RequestsOf
  <2>3. QED
    BY <1>0, <2>1, <2>2
<1> HIDE DEF q
<1>2. ASSUME NEW x \in R
      PROVE  RequestsOf(Append(s, x)) = Append(q, x.request)
  <2>1. DOMAIN Append(s, x) = 1..(Len(s) + 1) /\ DOMAIN Append(q, x.request) = 1..(Len(s) + 1)
    BY <1>1
  <2>2. \A i \in 1..(Len(s) + 1) : Append(s, x)[i].request = Append(q, x.request)[i]
    BY <1>1
  <2>3. Append(q, x.request) = [i \in 1..(Len(s) + 1) |-> Append(q, x.request)[i]]
    BY <1>1
  <2>4. QED
    BY <2>1, <2>2, <2>3 DEF RequestsOf
<1>3. ASSUME s # <<>>
      PROVE  /\ q # <<>>
             /\ RequestsOf(Tail(s)) = Tail(q)
             /\ Head(q) = s[1].request /\ Head(s) = s[1]
  <2>1. q # <<>> /\ Head(q) = s[1].request /\ Head(s) = s[1]
    BY <1>1, <1>3
  <2> DEFINE t == RequestsOf(Tail(s))
  <2>2. Len(s) \in Nat \ {0} /\ Len(q) = Len(s)
    BY <1>0, <1>1, <1>3
  <2>3. /\ DOMAIN Tail(s) = 1..(Len(s) - 1)
        /\ \A i \in 1..(Len(s) - 1) : Tail(s)[i] = s[i + 1] /\ i + 1 \in 1..Len(s)
    BY <2>2, <1>3
  <2>4. t = [i \in 1..(Len(s) - 1) |-> q[i + 1]]
    BY <1>1, <2>3 DEF RequestsOf
  <2>5. /\ \A i \in 1..(Len(s) - 1) : q[i + 1] \in Request
        /\ Len(s) - 1 \in Nat
    BY <1>1, <2>2
  <2> HIDE DEF t
  <2>6. t \in Seq(Request) /\ Len(t) = Len(s) - 1
    BY <2>4, <2>5
  <2>7. /\ Tail(q) \in Seq(Request) /\ Len(Tail(q)) = Len(s) - 1
        /\ \A i \in 1..(Len(s) - 1) : Tail(q)[i] = q[i + 1]
    BY <1>1, <2>1, <2>2
  <2>8. t = Tail(q)
    BY <2>4, <2>6, <2>7, SeqEqual
  <2>9. QED
    BY <2>1, <2>8 DEF t
<1>4. QED
  BY <1>1, <1>2, <1>3 DEF q
-----------------------------------------------------------------------------
(* Where the item of a request is. *)

InHand(r) == {w \in Worker : item[w] = r}

\* Nowhere in the pool.
Nowhere(r) ==
    /\ Absent(workQueue, r)
    /\ InHand(r) = {}
    /\ Absent(RequestsOf(resultQueue), r)

\* In the queue, in the hands of one worker, or in the results.
Somewhere(r) ==
    \/ Once(workQueue, r) /\ InHand(r) = {} /\ Absent(RequestsOf(resultQueue), r)
    \/ /\ Absent(workQueue, r) /\ Absent(RequestsOf(resultQueue), r)
       /\ \E w \in Worker : InHand(r) = {w}
    \/ Absent(workQueue, r) /\ InHand(r) = {} /\ Once(RequestsOf(resultQueue), r)

\* Until a handler submits, its item is nowhere; while it awaits the result,
\* it is in one place.
ItemsInPlace ==
    \A r \in Request :
        /\ handler[r] \in {"new", "putting"} => Nowhere(r)
        /\ handler[r] = "awaiting" => Somewhere(r)

\* There are no stop signals in the queue before stop() begins.
NoEarlySignal == running => Absent(workQueue, None)

\* What pending_requests knows of each handler.
PendingInv ==
    \A r \in Request :
        /\ handler[r] \in {"new", "resolved", "answered"} => r \notin pending
        /\ handler[r] \in {"putting", "awaiting"} => r \in pending

\* When stop() has returned, the workers have, and no result is left.
StoppedInv ==
    stopper = "stopped" => resultQueue = <<>> /\ \A w \in Worker : worker[w] = "exited"

ServicerInv == TypeOK /\ NoEarlySignal /\ ItemsInPlace /\ PendingInv /\ StoppedInv

-----------------------------------------------------------------------------
(* Types. *)

\* There is a worker.
LEMMA SomeWorkers == Cardinality(Worker) \in Nat \ {0}
  BY WorkerAssumption, FS_CardinalityType, FS_EmptySet

\* What stop() does when it puts signals: as many as fit, nothing else moves.
LEMMA SignalsPut ==
    ASSUME workQueue \in Seq(Request \cup {None}), Len(workQueue) <= QueueSize,
           NEW n \in 0..Cardinality(Worker), PutSignals(n)
    PROVE  /\ workQueue' \in Seq(Request \cup {None}) /\ Len(workQueue') <= QueueSize
           /\ signals' \in 0..Cardinality(Worker)
           /\ stopper' \in {"signalling", "joining"}
           /\ stopper' = "signalling" <=> signals' > 0
           /\ \A r \in Request : /\ Absent(workQueue, r) => Absent(workQueue', r)
                                 /\ Once(workQueue, r) => Once(workQueue', r)
<1> DEFINE room == QueueSize - Len(workQueue)
           fit  == IF n <= room THEN n ELSE room
<1>1. Len(workQueue) \in Nat /\ Cardinality(Worker) \in Nat /\ n \in Nat
  BY SomeWorkers
<1>2. fit \in Nat /\ fit <= n /\ fit <= room
  BY <1>1, QueueSizeAssumption
<1>3. /\ workQueue' = workQueue \o [i \in 1..fit |-> None]
      /\ signals' = n - fit
      /\ stopper' = IF fit = n THEN "joining" ELSE "signalling"
  BY DEF PutSignals
<1> HIDE DEF fit
<1>4. ASSUME NEW r, r # None
      PROVE  /\ workQueue' \in Seq(Request \cup {None}) /\ Len(workQueue') = Len(workQueue) + fit
             /\ Absent(workQueue, r) => Absent(workQueue', r)
             /\ Once(workQueue, r) => Once(workQueue', r)
  BY <1>2, <1>3, <1>4, Signalling
<1>5. \E r : r # None
  OBVIOUS
<1>6. workQueue' \in Seq(Request \cup {None}) /\ Len(workQueue') = Len(workQueue) + fit
  BY <1>4, <1>5
<1>7. \A r \in Request : r # None
  BY NoneAssumption
<1>8. Len(workQueue') <= QueueSize
  BY <1>1, <1>2, <1>6, QueueSizeAssumption
<1>9. signals' \in 0..Cardinality(Worker) /\ (fit = n <=> signals' = 0) /\ signals' \in Nat
  BY <1>1, <1>2, <1>3
<1>10. /\ stopper' \in {"signalling", "joining"}
       /\ stopper' = "signalling" <=> signals' > 0
  <2>1. CASE fit = n
    BY <1>3, <1>9, <2>1
  <2>2. CASE fit # n
    BY <1>3, <1>9, <2>2
  <2>3. QED
    BY <2>1, <2>2
<1>11. \A r \in Request : /\ Absent(workQueue, r) => Absent(workQueue', r)
                          /\ Once(workQueue, r) => Once(workQueue', r)
  BY <1>4, <1>7
<1>12. QED
  BY <1>6, <1>8, <1>9, <1>10, <1>11

\* A worker takes the head of the queue.
LEMMA WorkTaken ==
    ASSUME workQueue \in Seq(Request \cup {None}), Len(workQueue) <= QueueSize, workQueue # <<>>
    PROVE  /\ Head(workQueue) \in Request \cup {None}
           /\ Tail(workQueue) \in Seq(Request \cup {None})
           /\ Len(Tail(workQueue)) <= QueueSize
<1>1. Len(workQueue) \in Nat
  OBVIOUS
<1>2. QED
  BY <1>1, HeadTailProperties, QueueSizeAssumption

\* A handler adds its item.
LEMMA WorkAdded ==
    ASSUME workQueue \in Seq(Request \cup {None}), Len(workQueue) <= QueueSize, HasRoom,
           NEW r \in Request
    PROVE  /\ Append(workQueue, r) \in Seq(Request \cup {None})
           /\ Len(Append(workQueue, r)) <= QueueSize
<1>1. Len(workQueue) \in Nat /\ Len(Append(workQueue, r)) = Len(workQueue) + 1
  OBVIOUS
<1>2. QED
  BY <1>1, QueueSizeAssumption DEF HasRoom

\* Each action keeps the types of the pool and of the handlers.
LEMMA TypesKept == TypeOK /\ NoEarlySignal /\ [Next]_vars => TypeOK'
<1> SUFFICES ASSUME TypeOK, NoEarlySignal, [Next]_vars
             PROVE  TypeOK'
  OBVIOUS
<1> USE DEF TypeOK, PoolTypeOK
<1>1. ASSUME NEW r \in Request, AnswerUnparsable(r)
      PROVE  TypeOK'
  BY <1>1 DEF AnswerUnparsable, poolVars
<1>2. ASSUME NEW r \in Request, Begin(r)
      PROVE  TypeOK'
  <2>1. CASE HasRoom
    BY <1>2, <2>1, WorkAdded DEF Begin
  <2>2. CASE ~HasRoom
    BY <1>2, <2>2 DEF Begin
  <2>3. QED
    BY <2>1, <2>2
<1>3. ASSUME NEW r \in Request, Submit(r)
      PROVE  TypeOK'
  BY <1>3, WorkAdded DEF Submit
<1>4. CASE Collect
  <2>1. PICK h \in [request: Request, ok: BOOLEAN] : h = Head(resultQueue)
    BY <1>4, HeadTailProperties DEF Collect
  <2>2. resultQueue' \in Seq([request: Request, ok: BOOLEAN])
    BY <1>4, HeadTailProperties DEF Collect
  <2>3. PICK r \in Request : r = h.request
    OBVIOUS
  <2>4. /\ pending' = pending \ {r}
        /\ \/ handler' = [handler EXCEPT ![r] = "resolved"] /\ result' = [result EXCEPT ![r] = h.ok]
           \/ UNCHANGED <<handler, result>>
        /\ UNCHANGED <<running, workQueue, worker, item, stopper, signals, answer>>
    BY <1>4, <2>1, <2>3 DEF Collect
  <2>5. h.ok \in BOOLEAN
    OBVIOUS
  <2>6. QED
    BY <2>2, <2>4, <2>5
<1>5. ASSUME NEW r \in Request, Respond(r)
      PROVE  TypeOK'
  BY <1>5 DEF Respond, poolVars
<1>6. ASSUME NEW r \in Request, Cancel(r)
      PROVE  TypeOK'
  BY <1>6 DEF Cancel, poolVars
<1>7. CASE PoolStep
  <2> USE <1>7 DEF PoolStep
  <2>1. ASSUME NEW w \in Worker, GetWork(w)
        PROVE  TypeOK'
    <3>1. /\ Head(workQueue) \in Request \cup {None}
          /\ workQueue' \in Seq(Request \cup {None}) /\ Len(workQueue') <= QueueSize
      BY <2>1, WorkTaken DEF GetWork
    <3>2. QED
      BY <2>1, <3>1 DEF GetWork
  <2>2. ASSUME NEW w \in Worker, NEW ok \in BOOLEAN, Finish(w, ok)
        PROVE  TypeOK'
    <3>1. item[w] \in Request
      BY <2>2 DEF Finish
    <3>2. resultQueue' \in Seq([request: Request, ok: BOOLEAN])
      BY <2>2, <3>1 DEF Finish, Results
    <3>3. CASE running /\ workQueue # <<>>
      <4>1. /\ Head(workQueue) \in Request \cup {None}
            /\ workQueue' \in Seq(Request \cup {None}) /\ Len(workQueue') <= QueueSize
        BY <2>2, <3>3, WorkTaken DEF Finish
      <4>3. Head(workQueue) # None
        BY <3>3, TakingHead DEF NoEarlySignal
      <4>2. QED
        BY <2>2, <3>2, <3>3, <4>1, <4>3 DEF Finish
    <3>4. CASE ~(running /\ workQueue # <<>>)
      BY <2>2, <3>2, <3>4 DEF Finish
    <3>5. QED
      BY <3>3, <3>4
  <2>3. CASE BeginStop
    <3>1. Cardinality(Worker) \in 0..Cardinality(Worker)
      BY SomeWorkers
    <3>2. QED
      BY <2>3, <3>1, SignalsPut DEF BeginStop
  <2>4. CASE ResumeStop
    BY <2>4, SignalsPut DEF ResumeStop
  <2>5. CASE Join
    BY <2>5 DEF Join
  <2>6. QED
    BY <2>1, <2>2, <2>3, <2>4, <2>5
<1>8. CASE UNCHANGED vars
  BY <1>8 DEF vars, poolVars
<1>9. QED
  BY <1>1, <1>2, <1>3, <1>4, <1>5, <1>6, <1>7, <1>8 DEF Next

\* Stop signals come with stop() only.
LEMMA NoEarlySignalKept == TypeOK /\ NoEarlySignal /\ [Next]_vars => NoEarlySignal'
<1> SUFFICES ASSUME TypeOK, NoEarlySignal, [Next]_vars, running'
             PROVE  Absent(workQueue', None)
  BY DEF NoEarlySignal
<1> USE DEF TypeOK, PoolTypeOK
<1>1. ASSUME running
      PROVE  Absent(workQueue, None)
  BY <1>1 DEF NoEarlySignal
<1>2. \A r \in Request : r # None
  BY NoneAssumption
<1>3. ASSUME NEW r \in Request, AnswerUnparsable(r) \/ Respond(r) \/ Cancel(r)
      PROVE  Absent(workQueue', None)
  BY <1>1, <1>3 DEF AnswerUnparsable, Respond, Cancel, poolVars
<1>4. ASSUME NEW r \in Request, Begin(r) \/ Submit(r)
      PROVE  Absent(workQueue', None)
  <2>1. running /\ workQueue' \in {workQueue, Append(workQueue, r)}
    BY <1>4 DEF Begin, Submit
  <2>2. Absent(Append(workQueue, r), None)
    BY <1>1, <1>2, <2>1, Appending
  <2>3. QED
    BY <1>1, <2>1, <2>2
<1>5. CASE Collect
  BY <1>1, <1>5 DEF Collect
<1>6. CASE PoolStep
  <2>1. ASSUME NEW w \in Worker, GetWork(w)
        PROVE  Absent(workQueue', None)
    BY <1>1, <2>1, TakingHead DEF GetWork
  <2>2. ASSUME NEW w \in Worker, NEW ok \in BOOLEAN, Finish(w, ok)
        PROVE  Absent(workQueue', None)
    <3>1. running /\ (workQueue' = workQueue \/ (workQueue # <<>> /\ workQueue' = Tail(workQueue)))
      BY <2>2 DEF Finish
    <3>2. Absent(workQueue, None)
      BY <1>1, <3>1
    <3>3. ASSUME workQueue # <<>>
          PROVE  Absent(Tail(workQueue), None)
      BY <3>2, <3>3, TakingHead
    <3>4. QED
      BY <3>1, <3>2, <3>3
  <2>3. CASE BeginStop \/ ResumeStop
    BY <2>3 DEF BeginStop, ResumeStop
  <2>4. CASE Join
    BY <1>1, <2>4 DEF Join
  <2>5. QED
    BY <1>6, <2>1, <2>2, <2>3, <2>4 DEF PoolStep
<1>7. CASE UNCHANGED vars
  BY <1>1, <1>7 DEF vars, poolVars
<1>8. QED
  BY <1>3, <1>4, <1>5, <1>6, <1>7 DEF Next

\* Registration follows the handlers.
LEMMA PendingKept == TypeOK /\ ItemsInPlace /\ PendingInv /\ [Next]_vars => PendingInv'
<1> SUFFICES ASSUME TypeOK, ItemsInPlace, PendingInv, [Next]_vars, NEW q \in Request
             PROVE  /\ handler'[q] \in {"new", "resolved", "answered"} => q \notin pending'
                    /\ handler'[q] \in {"putting", "awaiting"} => q \in pending'
  BY DEF PendingInv
<1> USE DEF PendingInv
<1>0. handler \in [Request -> {"new", "putting", "awaiting", "resolved", "answered", "cancelled"}]
  BY DEF TypeOK
<1>1. ASSUME NEW r \in Request, AnswerUnparsable(r) \/ Cancel(r)
      PROVE  PendingInv'
  BY <1>0, <1>1 DEF AnswerUnparsable, Cancel
<1>2. ASSUME NEW r \in Request, Begin(r) \/ Submit(r)
      PROVE  PendingInv'
  BY <1>0, <1>2 DEF Begin, Submit
<1>3. CASE Collect
  <2>1. PICK r \in Request : r = Head(resultQueue).request
    <3>1. Head(resultQueue) \in [request: Request, ok: BOOLEAN]
      BY <1>3, HeadTailProperties DEF Collect, TypeOK, PoolTypeOK
    <3>2. QED
      BY <3>1
  <2>2. /\ pending' = pending \ {r}
        /\ IF r \in pending /\ handler[r] = "awaiting"
           THEN handler' = [handler EXCEPT ![r] = "resolved"]
           ELSE handler' = handler
    BY <1>3, <2>1 DEF Collect
  <2>3. r \in pending => handler[r] \in {"putting", "awaiting", "cancelled"}
    BY <1>0
  <2>4. handler[r] # "putting"
    <3>1. /\ resultQueue \in Seq([request: Request, ok: BOOLEAN]) /\ resultQueue # <<>>
      BY <1>3 DEF Collect, TypeOK, PoolTypeOK
    <3>2. /\ RequestsOf(resultQueue) \in Seq(Request) /\ RequestsOf(resultQueue) # <<>>
          /\ Head(RequestsOf(resultQueue)) = r
      BY <2>1, <3>1, ResultRequests
    <3>3. ~Absent(RequestsOf(resultQueue), r)
      BY <3>2, TakingHead
    <3>4. QED
      BY <3>3 DEF ItemsInPlace, Nowhere
  <2>5. QED
    BY <1>0, <2>2, <2>3, <2>4
<1>4. ASSUME NEW r \in Request, Respond(r)
      PROVE  PendingInv'
  BY <1>0, <1>4 DEF Respond
<1>5. CASE PoolStep \/ UNCHANGED vars
  BY <1>5 DEF PoolStep, vars
<1>6. QED
  BY <1>1, <1>2, <1>3, <1>4, <1>5 DEF Next

-----------------------------------------------------------------------------
(* The way of an item through the pool. *)

\* A step that leaves the pool as it is leaves every item where it is.
LEMMA PlacesUnchanged ==
    ASSUME NEW q \in Request, UNCHANGED <<workQueue, item, resultQueue>>
    PROVE  /\ Nowhere(q) => Nowhere(q)'
           /\ Somewhere(q) => Somewhere(q)'
  BY DEF Nowhere, Somewhere, InHand

\* An item that is submitted is in the queue, and no other item moves.
LEMMA SubmittedItem ==
    ASSUME TypeOK, NEW q \in Request, NEW r \in Request,
           workQueue' = Append(workQueue, r), UNCHANGED <<item, resultQueue>>
    PROVE  /\ q = r /\ Nowhere(q) => Somewhere(q)'
           /\ q # r /\ Nowhere(q) => Nowhere(q)'
           /\ q # r /\ Somewhere(q) => Somewhere(q)'
<1>1. workQueue \in Seq(Request \cup {None})
  BY DEF TypeOK, PoolTypeOK
<1>2. /\ Absent(workQueue, q) /\ q # r => Absent(workQueue', q)
      /\ Absent(workQueue, q) /\ q = r => Once(workQueue', q)
      /\ Once(workQueue, q) /\ q # r => Once(workQueue', q)
  BY <1>1, Appending
<1>3. InHand(q)' = InHand(q)
  BY DEF InHand
<1>4. QED
  BY <1>2, <1>3 DEF Nowhere, Somewhere

\* A worker whose hands are empty takes the head of the queue; no other item
\* moves, and none is lost or doubled.
LEMMA TakenItem ==
    ASSUME TypeOK, NEW q \in Request, NEW w \in Worker, workQueue # <<>>, item[w] = None,
           workQueue' = Tail(workQueue), item' = [item EXCEPT ![w] = Head(workQueue)],
           UNCHANGED resultQueue
    PROVE  /\ Nowhere(q) => Nowhere(q)'
           /\ Somewhere(q) => Somewhere(q)'
<1>1. workQueue \in Seq(Request \cup {None}) /\ item \in [Worker -> Request \cup {None}]
  BY DEF TypeOK, PoolTypeOK
<1>2. /\ Absent(workQueue, q) => Absent(workQueue', q) /\ Head(workQueue) # q
      /\ Once(workQueue, q) /\ Head(workQueue) # q => Once(workQueue', q)
      /\ Once(workQueue, q) /\ Head(workQueue) = q => Absent(workQueue', q)
  BY <1>1, TakingHead
<1>3. w \notin InHand(q)
  BY NoneAssumption DEF InHand
<1>4. InHand(q)' = IF Head(workQueue) = q THEN InHand(q) \cup {w} ELSE InHand(q)
  BY <1>1, <1>3 DEF InHand
<1>5. Nowhere(q) => Nowhere(q)'
  BY <1>2, <1>4 DEF Nowhere
<1>6. ASSUME Somewhere(q)
      PROVE  Somewhere(q)'
  <2>1. CASE Once(workQueue, q) /\ InHand(q) = {} /\ Absent(RequestsOf(resultQueue), q)
    <3>1. CASE Head(workQueue) = q
      BY <1>2, <1>4, <2>1, <3>1 DEF Somewhere
    <3>2. CASE Head(workQueue) # q
      BY <1>2, <1>4, <2>1, <3>2 DEF Somewhere
    <3>3. QED
      BY <3>1, <3>2
  <2>2. CASE Absent(workQueue, q)
    BY <1>2, <1>4, <1>6, <2>2 DEF Somewhere
  <2>3. QED
    BY <1>6, <2>1, <2>2 DEF Somewhere
<1>7. QED
  BY <1>5, <1>6

\* A worker puts its result and empties its hands; no other item moves.
LEMMA FinishedItem ==
    ASSUME TypeOK, NEW q \in Request, NEW w \in Worker, NEW ok \in BOOLEAN,
           item[w] \in Request, resultQueue' = Results(w, ok),
           item' = [item EXCEPT ![w] = None], UNCHANGED workQueue
    PROVE  /\ Nowhere(q) => Nowhere(q)'
           /\ Somewhere(q) => Somewhere(q)'
<1>1. /\ item \in [Worker -> Request \cup {None}]
      /\ resultQueue \in Seq([request: Request, ok: BOOLEAN])
  BY DEF TypeOK, PoolTypeOK
<1> DEFINE s == RequestsOf(resultQueue)
           t == RequestsOf(resultQueue')
<1>2. s \in Seq(Request) /\ t = Append(s, item[w])
  <2>1. [request |-> item[w], ok |-> ok] \in [request: Request, ok: BOOLEAN]
    OBVIOUS
  <2>2. QED
    BY <1>1, <2>1, ResultRequests DEF Results
<1> HIDE DEF s, t
<1>3. /\ Absent(s, q) /\ item[w] # q => Absent(t, q)
      /\ Absent(s, q) /\ item[w] = q => Once(t, q)
      /\ Once(s, q) /\ item[w] # q => Once(t, q)
  BY <1>2, Appending
<1>4. InHand(q)' = InHand(q) \ {w} /\ (w \in InHand(q) <=> item[w] = q)
  BY <1>1, NoneAssumption DEF InHand
<1>5. Nowhere(q) => Nowhere(q)'
  BY <1>3, <1>4 DEF Nowhere, s, t
<1>6. ASSUME Somewhere(q)
      PROVE  Somewhere(q)'
  <2>1. CASE w \in InHand(q)
    <3>1. InHand(q) = {w} /\ Absent(workQueue, q) /\ Absent(s, q)
      BY <1>6, <2>1 DEF Somewhere, s
    <3>2. InHand(q)' = {} /\ Once(t, q)
      BY <1>3, <1>4, <2>1, <3>1
    <3>3. QED
      BY <3>1, <3>2 DEF Somewhere, t
  <2>2. CASE w \notin InHand(q)
    <3>1. InHand(q)' = InHand(q) /\ item[w] # q
      BY <1>4, <2>2
    <3>2. QED
      BY <1>3, <1>6, <3>1 DEF Somewhere, s, t
  <2>3. QED
    BY <2>1, <2>2
<1>7. QED
  BY <1>5, <1>6

\* A worker puts its result and takes the next item at once.
LEMMA ExchangedItem ==
    ASSUME TypeOK, NEW q \in Request, NEW w \in Worker, NEW ok \in BOOLEAN,
           item[w] \in Request, resultQueue' = Results(w, ok), workQueue # <<>>,
           workQueue' = Tail(workQueue), item' = [item EXCEPT ![w] = Head(workQueue)]
    PROVE  /\ Nowhere(q) => Nowhere(q)'
           /\ Somewhere(q) => Somewhere(q)'
<1>1. /\ workQueue \in Seq(Request \cup {None}) /\ item \in [Worker -> Request \cup {None}]
      /\ resultQueue \in Seq([request: Request, ok: BOOLEAN])
  BY DEF TypeOK, PoolTypeOK
<1> DEFINE s == RequestsOf(resultQueue)
           t == RequestsOf(resultQueue')
<1>2. s \in Seq(Request) /\ t = Append(s, item[w])
  <2>1. [request |-> item[w], ok |-> ok] \in [request: Request, ok: BOOLEAN]
    OBVIOUS
  <2>2. QED
    BY <1>1, <2>1, ResultRequests DEF Results
<1> HIDE DEF s, t
<1>3. /\ Absent(s, q) /\ item[w] # q => Absent(t, q)
      /\ Absent(s, q) /\ item[w] = q => Once(t, q)
      /\ Once(s, q) /\ item[w] # q => Once(t, q)
  BY <1>2, Appending
<1>4. /\ Absent(workQueue, q) => Absent(workQueue', q) /\ Head(workQueue) # q
      /\ Once(workQueue, q) /\ Head(workQueue) # q => Once(workQueue', q)
      /\ Once(workQueue, q) /\ Head(workQueue) = q => Absent(workQueue', q)
  BY <1>1, TakingHead
<1>5. /\ w \in InHand(q) <=> item[w] = q
      /\ InHand(q)' = IF Head(workQueue) = q THEN InHand(q) \cup {w} ELSE InHand(q) \ {w}
  BY <1>1 DEF InHand
<1>6. Nowhere(q) => Nowhere(q)'
  BY <1>3, <1>4, <1>5 DEF Nowhere, s, t
<1>7. ASSUME Somewhere(q)
      PROVE  Somewhere(q)'
  <2>1. CASE w \in InHand(q)
    <3>1. InHand(q) = {w} /\ Absent(workQueue, q) /\ Absent(s, q)
      BY <1>7, <2>1 DEF Somewhere, s
    <3>2. InHand(q)' = {} /\ Once(t, q) /\ Absent(workQueue', q)
      BY <1>3, <1>4, <1>5, <2>1, <3>1
    <3>3. QED
      BY <3>2 DEF Somewhere, t
  <2>2. CASE w \notin InHand(q) /\ Head(workQueue) = q
    <3>1. Once(workQueue, q) /\ InHand(q) = {} /\ Absent(s, q)
      BY <1>4, <1>7, <2>2 DEF Somewhere, s
    <3>2. Absent(workQueue', q) /\ InHand(q)' = {w} /\ Absent(t, q)
      BY <1>3, <1>4, <1>5, <2>2, <3>1
    <3>3. QED
      BY <3>2 DEF Somewhere, t
  <2>3. CASE w \notin InHand(q) /\ Head(workQueue) # q
    <3>1. InHand(q)' = InHand(q) /\ item[w] # q
      BY <1>5, <2>3
    <3>2. QED
      BY <1>3, <1>4, <1>7, <2>3, <3>1 DEF Somewhere, s, t
  <2>4. QED
    BY <2>1, <2>2, <2>3
<1>8. QED
  BY <1>6, <1>7

\* The collector takes a result; every other item stays where it is.
LEMMA CollectedItem ==
    ASSUME TypeOK, NEW q \in Request, resultQueue # <<>>, resultQueue' = Tail(resultQueue),
           UNCHANGED <<workQueue, item>>, q # Head(resultQueue).request
    PROVE  /\ Nowhere(q) => Nowhere(q)'
           /\ Somewhere(q) => Somewhere(q)'
<1>1. resultQueue \in Seq([request: Request, ok: BOOLEAN])
  BY DEF TypeOK, PoolTypeOK
<1> DEFINE s == RequestsOf(resultQueue)
           t == RequestsOf(resultQueue')
<1>2. s \in Seq(Request) /\ s # <<>> /\ t = Tail(s) /\ Head(s) = Head(resultQueue).request
  BY <1>1, ResultRequests
<1> HIDE DEF s, t
<1>3. /\ Absent(s, q) => Absent(t, q)
      /\ Once(s, q) => Once(t, q)
  BY <1>2, TakingHead
<1>4. InHand(q)' = InHand(q)
  BY DEF InHand
<1>5. QED
  BY <1>3, <1>4 DEF Nowhere, Somewhere, s, t

\* stop() adds signals behind the items.
LEMMA SignalledItems ==
    ASSUME TypeOK, NEW q \in Request, NEW n \in 0..Cardinality(Worker), PutSignals(n),
           UNCHANGED <<item, resultQueue>>
    PROVE  /\ Nowhere(q) => Nowhere(q)'
           /\ Somewhere(q) => Somewhere(q)'
<1>1. /\ Absent(workQueue, q) => Absent(workQueue', q)
      /\ Once(workQueue, q) => Once(workQueue', q)
  BY SignalsPut DEF TypeOK, PoolTypeOK
<1>2. InHand(q)' = InHand(q)
  BY DEF InHand
<1>3. QED
  BY <1>1, <1>2 DEF Nowhere, Somewhere

\* A step of the pool neither loses nor doubles an item.
LEMMA PoolKeepsItems ==
    ASSUME TypeOK, PoolStep, NEW q \in Request
    PROVE  /\ Nowhere(q) => Nowhere(q)'
           /\ Somewhere(q) => Somewhere(q)'
<1> DEFINE Goal == /\ Nowhere(q) => Nowhere(q)'
                   /\ Somewhere(q) => Somewhere(q)'
<1>1. ASSUME NEW w \in Worker, GetWork(w)
      PROVE  Goal
  <2>1. item[w] = None
    BY <1>1 DEF GetWork, TypeOK, PoolTypeOK
  <2>2. QED
    BY <1>1, <2>1, TakenItem DEF GetWork
<1>2. ASSUME NEW w \in Worker, NEW ok \in BOOLEAN, Finish(w, ok)
      PROVE  Goal
  <2>1. item[w] \in Request
    BY <1>2 DEF Finish, TypeOK, PoolTypeOK
  <2>2. CASE running /\ workQueue # <<>>
    BY <1>2, <2>1, <2>2, ExchangedItem DEF Finish
  <2>3. CASE ~(running /\ workQueue # <<>>)
    BY <1>2, <2>1, <2>3, FinishedItem DEF Finish
  <2>4. QED
    BY <2>2, <2>3
<1>3. CASE BeginStop
  <2>1. Cardinality(Worker) \in 0..Cardinality(Worker)
    BY SomeWorkers
  <2>2. QED
    BY <1>3, <2>1, SignalledItems DEF BeginStop
<1>4. CASE ResumeStop
  BY <1>4, SignalledItems DEF ResumeStop, TypeOK, PoolTypeOK
<1>5. CASE Join
  BY <1>5, PlacesUnchanged DEF Join
<1>6. QED
  BY <1>1, <1>2, <1>3, <1>4, <1>5 DEF PoolStep

\* Items are in their places after every step.
LEMMA ItemsKept == TypeOK /\ ItemsInPlace /\ PendingInv /\ [Next]_vars => ItemsInPlace'
<1> SUFFICES ASSUME TypeOK, ItemsInPlace, PendingInv, [Next]_vars, NEW q \in Request
             PROVE  /\ handler'[q] \in {"new", "putting"} => Nowhere(q)'
                    /\ handler'[q] = "awaiting" => Somewhere(q)'
  BY DEF ItemsInPlace
<1> DEFINE Goal == /\ handler'[q] \in {"new", "putting"} => Nowhere(q)'
                   /\ handler'[q] = "awaiting" => Somewhere(q)'
<1>0. /\ handler \in [Request -> {"new", "putting", "awaiting", "resolved", "answered", "cancelled"}]
      /\ handler[q] \in {"new", "putting"} => Nowhere(q)
      /\ handler[q] = "awaiting" => Somewhere(q)
  BY DEF TypeOK, ItemsInPlace
<1>1. ASSUME NEW r \in Request, AnswerUnparsable(r) \/ Respond(r) \/ Cancel(r)
      PROVE  Goal
  <2>1. UNCHANGED <<workQueue, item, resultQueue>>
    BY <1>1 DEF AnswerUnparsable, Respond, Cancel, poolVars
  <2>2. handler'[q] \in {handler[q], "answered", "cancelled"}
    BY <1>0, <1>1 DEF AnswerUnparsable, Respond, Cancel
  <2>3. QED
    BY <1>0, <2>1, <2>2, PlacesUnchanged
<1>2. ASSUME NEW r \in Request, Begin(r) \/ Submit(r)
      PROVE  Goal
  <2>1. handler[r] \in {"new", "putting"} /\ UNCHANGED <<item, resultQueue>>
    BY <1>2 DEF Begin, Submit
  <2>2. CASE workQueue' = Append(workQueue, r) /\ handler' = [handler EXCEPT ![r] = "awaiting"]
    BY <1>0, <2>1, <2>2, SubmittedItem
  <2>3. CASE workQueue' = workQueue /\ handler' = [handler EXCEPT ![r] = "putting"]
    BY <1>0, <2>1, <2>3, PlacesUnchanged
  <2>4. QED
    BY <1>2, <2>2, <2>3 DEF Begin, Submit
<1>3. CASE Collect
  <2>1. PICK r \in Request : r = Head(resultQueue).request
    <3>1. Head(resultQueue) \in [request: Request, ok: BOOLEAN]
      BY <1>3, HeadTailProperties DEF Collect, TypeOK, PoolTypeOK
    <3>2. QED
      BY <3>1
  <2>2. IF r \in pending /\ handler[r] = "awaiting"
        THEN handler' = [handler EXCEPT ![r] = "resolved"]
        ELSE handler' = handler
    BY <1>3, <2>1 DEF Collect
  <2>3. handler'[q] \in {handler[q], "resolved"}
    BY <1>0, <2>2
  <2>4. CASE q # r
    BY <1>0, <1>3, <2>1, <2>3, <2>4, CollectedItem DEF Collect
  <2>5. CASE q = r
    <3>1. handler'[q] # "awaiting"
      BY <1>0, <2>2, <2>5 DEF PendingInv
    <3>2. resultQueue \in Seq([request: Request, ok: BOOLEAN]) /\ resultQueue # <<>>
      BY <1>3 DEF Collect, TypeOK, PoolTypeOK
    <3>3. ~Absent(RequestsOf(resultQueue), q)
      <4>1. /\ RequestsOf(resultQueue) \in Seq(Request) /\ RequestsOf(resultQueue) # <<>>
            /\ Head(RequestsOf(resultQueue)) = q
        BY <2>1, <2>5, <3>2, ResultRequests
      <4>2. QED
        BY <4>1, TakingHead
    <3>4. handler[q] \notin {"new", "putting"}
      BY <1>0, <3>3 DEF Nowhere
    <3>5. QED
      BY <2>3, <3>1, <3>4
  <2>6. QED
    BY <2>4, <2>5
<1>4. CASE PoolStep
  <2>1. handler' = handler
    BY <1>4 DEF PoolStep
  <2>2. QED
    BY <1>0, <1>4, <2>1, PoolKeepsItems
<1>5. CASE UNCHANGED vars
  <2>1. UNCHANGED <<workQueue, item, resultQueue, handler>>
    BY <1>5 DEF vars, poolVars
  <2>2. QED
    BY <1>0, <2>1, PlacesUnchanged
<1>6. QED
  BY <1>1, <1>2, <1>3, <1>4, <1>5 DEF Next

\* A stopped pool stays empty-handed.
LEMMA StoppedKept == TypeOK /\ StoppedInv /\ [Next]_vars => StoppedInv'
<1> SUFFICES ASSUME TypeOK, StoppedInv, [Next]_vars, stopper' = "stopped"
             PROVE  resultQueue' = <<>> /\ \A w \in Worker : worker'[w] = "exited"
  BY DEF StoppedInv
<1>1. CASE stopper # "stopped"
  <2>1. Join
    <3>1. ASSUME NEW n, PutSignals(n)
          PROVE  stopper' # "stopped"
      BY <3>1 DEF PutSignals
    <3>2. QED
      BY <1>1, <3>1 DEF Next, AnswerUnparsable, Begin, Submit, Collect, Respond, Cancel,
         PoolStep, GetWork, Finish, BeginStop, ResumeStop, vars, poolVars
  <2>2. QED
    BY <2>1 DEF Join
<1>2. CASE stopper = "stopped"
  <2>1. ~running /\ resultQueue = <<>> /\ \A w \in Worker : worker[w] = "exited"
    BY <1>2 DEF StoppedInv, TypeOK, PoolTypeOK
  <2>2. UNCHANGED <<resultQueue, worker>>
    BY <1>2, <2>1 DEF Next, AnswerUnparsable, Begin, Submit, Collect, Respond, Cancel,
       PoolStep, GetWork, Finish, BeginStop, ResumeStop, Join, vars, poolVars
  <2>3. QED
    BY <2>1, <2>2
<1>3. QED
  BY <1>1, <1>2

-----------------------------------------------------------------------------
(* The theorems. *)

\* What the initial state gives.
LEMMA InitInv == Init => ServicerInv
<1> SUFFICES ASSUME Init
             PROVE  ServicerInv
  OBVIOUS
<1> USE DEF Init, PoolInit
<1>1. TypeOK
  BY SomeWorkers, QueueSizeAssumption, NoneAssumption DEF TypeOK, PoolTypeOK
<1>2. ItemsInPlace
  BY NoneAssumption DEF ItemsInPlace, Nowhere, Absent, InHand, RequestsOf
<1>3. NoEarlySignal /\ PendingInv /\ StoppedInv
  BY DEF NoEarlySignal, Absent, PendingInv, StoppedInv
<1>4. QED
  BY <1>1, <1>2, <1>3 DEF ServicerInv

\* Types, items and registrations are kept by every step of the servicer and
\* of its pool (grpc_servicer_v3.py, worker_pool.py).
THEOREM ServicerInvariant == Spec => []ServicerInv
<1>1. ServicerInv /\ [Next]_vars => ServicerInv'
  BY TypesKept, NoEarlySignalKept, PendingKept, ItemsKept, StoppedKept DEF ServicerInv
<1>2. QED
  BY <1>1, InitInv, PTL DEF Spec

\* The types, for any number of workers and requests and any queue.
THEOREM ServicerTypes == Spec => []TypeOK
<1>1. ServicerInv => TypeOK
  BY DEF ServicerInv
<1>2. QED
  BY <1>1, ServicerInvariant, PTL

\* The items of one place have one place in Places.
LEMMA OnePlace ==
    ASSUME TypeOK, NEW r \in Request, Somewhere(r)
    PROVE  Cardinality(Places(r)) = 1
<1>1. \E p : Places(r) = {p}
  <2>1. DOMAIN RequestsOf(resultQueue) = DOMAIN resultQueue
    BY DEF RequestsOf
  <2>2. {j \in DOMAIN resultQueue : resultQueue[j].request = r}
           = {j \in DOMAIN resultQueue : RequestsOf(resultQueue)[j] = r}
    BY DEF RequestsOf
  <2> DEFINE q == {j \in DOMAIN workQueue : workQueue[j] = r}
             t == {j \in DOMAIN resultQueue : resultQueue[j].request = r}
  <2>3. Places(r) = {<<"queue", i>> : i \in q} \cup {<<"worker", w>> : w \in InHand(r)}
                       \cup {<<"result", i>> : i \in t}
    BY DEF Places, InHand
  <2>4. /\ Absent(workQueue, r) => q = {}
        /\ Once(workQueue, r) => \E i : q = {i}
    BY DEF Absent, Once
  <2>5. /\ Absent(RequestsOf(resultQueue), r) => t = {}
        /\ Once(RequestsOf(resultQueue), r) => \E i : t = {i}
    BY <2>1, <2>2 DEF Absent, Once
  <2> HIDE DEF q, t
  <2>6. \/ t = {} /\ InHand(r) = {} /\ \E i : q = {i}
        \/ q = {} /\ t = {} /\ \E w : InHand(r) = {w}
        \/ q = {} /\ InHand(r) = {} /\ \E i : t = {i}
    BY <2>4, <2>5 DEF Somewhere
  <2>7. CASE t = {} /\ InHand(r) = {} /\ \E i : q = {i}
    <3>1. PICK i : q = {i}
      BY <2>7
    <3>2. Places(r) = {<<"queue", i>>}
      BY <2>3, <2>7, <3>1
    <3>3. QED
      BY <3>2
  <2>8. CASE q = {} /\ t = {} /\ \E w : InHand(r) = {w}
    <3>1. PICK w : InHand(r) = {w}
      BY <2>8
    <3>2. Places(r) = {<<"worker", w>>}
      BY <2>3, <2>8, <3>1
    <3>3. QED
      BY <3>2
  <2>9. CASE q = {} /\ InHand(r) = {} /\ \E i : t = {i}
    <3>1. PICK i : t = {i}
      BY <2>9
    <3>2. Places(r) = {<<"result", i>>}
      BY <2>3, <2>9, <3>1
    <3>3. QED
      BY <3>2
  <2>10. QED
    BY <2>6, <2>7, <2>8, <2>9
<1>2. QED
  BY <1>1, FS_Singleton

\* An awaited item is neither lost nor processed twice, whoever stops the
\* pool or cancels a handler (submit_work, _worker, _collect_results).
THEOREM AwaitedItemHasOnePlace == Spec => []AwaitedItemInOnePlace
<1>1. ServicerInv => AwaitedItemInOnePlace
  BY OnePlace DEF ServicerInv, ItemsInPlace, PendingInv, AwaitedItemInOnePlace
<1>2. QED
  BY <1>1, ServicerInvariant, PTL

\* When stop() has returned, an unanswered request is one no worker had taken.
THEOREM StopCutsNoWorkShort == Spec => []StopAbandonsOnlyQueuedWork
<1>1. ServicerInv => StopAbandonsOnlyQueuedWork
  <2> SUFFICES ASSUME ServicerInv, stopper = "stopped", NEW r \in Request, handler[r] = "awaiting"
               PROVE  \E i \in DOMAIN workQueue : workQueue[i] = r
    BY DEF StopAbandonsOnlyQueuedWork
  <2>1. /\ resultQueue = <<>> /\ \A w \in Worker : worker[w] = "exited"
        /\ Somewhere(r)
    BY DEF ServicerInv, StoppedInv, ItemsInPlace
  <2>2. \A w \in Worker : item[w] = None
    BY <2>1 DEF ServicerInv, TypeOK, PoolTypeOK
  <2>3. InHand(r) = {} /\ ~Once(RequestsOf(resultQueue), r)
    BY <2>1, <2>2, NoneAssumption DEF InHand, Once, RequestsOf
  <2>4. Once(workQueue, r)
    BY <2>1, <2>3 DEF Somewhere
  <2>5. QED
    BY <2>4 DEF Once
<1>2. QED
  BY <1>1, ServicerInvariant, PTL

\* pending_requests does not keep what has been answered (_collect_results).
THEOREM AnsweredIsForgotten == Spec => []AnsweredIsNotPending
<1>1. ServicerInv => AnsweredIsNotPending
  BY DEF ServicerInv, PendingInv, AnsweredIsNotPending
<1>2. QED
  BY <1>1, ServicerInvariant, PTL
=============================================================================
