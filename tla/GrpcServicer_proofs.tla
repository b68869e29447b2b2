------------------------- MODULE GrpcServicer_proofs -------------------------
(***************************************************************************)
(* The safety of a V1 stream, for any number of requests, any batch size   *)
(* and any concurrency: every request that was read is accounted for, the  *)
(* concurrency is bounded, and a stream that ends has answered.            *)
(***************************************************************************)
EXTENDS GrpcServicer, FiniteSetTheorems, SequenceTheorems, TLAPS

-----------------------------------------------------------------------------
(* Where the members of a set X occur in a sequence. *)

Hits(s, X) == {i \in DOMAIN s : s[i] \in X}
Single(A) == \E x : A = {x}
Pair(A) == \E x, y : x # y /\ A = {x, y}

\* What Append does to the occurrences.
LEMMA HitsAppend ==
    ASSUME NEW S, NEW s \in Seq(S), NEW x \in S, NEW X
    PROVE  Hits(Append(s, x), X) = IF x \in X THEN Hits(s, X) \cup {Len(s) + 1} ELSE Hits(s, X)
<1> DEFINE t == Append(s, x)
<1>1. /\ DOMAIN s = 1..Len(s) /\ Len(s) \in Nat
      /\ DOMAIN t = 1..(Len(s) + 1)
      /\ \A j \in 1..Len(s) : t[j] = s[j]
      /\ t[Len(s) + 1] = x
  OBVIOUS
<1>2. DOMAIN t = DOMAIN s \cup {Len(s) + 1} /\ Len(s) + 1 \notin DOMAIN s
  BY <1>1
<1> HIDE DEF t
<1>3. QED
  BY <1>1, <1>2 DEF Hits, t

\* A value that was not there occurs once after its Append, and others as before.
LEMMA HitsAppended ==
    ASSUME NEW S, NEW s \in Seq(S), NEW x \in S, NEW X
    PROVE  /\ x \notin X => Hits(Append(s, x), X) = Hits(s, X)
           /\ x \in X /\ Hits(s, X) = {} =>
                 Single(Hits(Append(s, x), X)) /\ Hits(Append(s, x), X) # {}
<1>1. Hits(Append(s, x), X) = IF x \in X THEN Hits(s, X) \cup {Len(s) + 1} ELSE Hits(s, X)
  BY HitsAppend
<1>2. ASSUME x \in X, Hits(s, X) = {}
      PROVE  Hits(Append(s, x), X) = {Len(s) + 1}
  BY <1>1, <1>2
<1>3. QED
  BY <1>1, <1>2 DEF Single

\* What Tail does to them.
LEMMA HitsTail ==
    ASSUME NEW S, NEW s \in Seq(S), s # <<>>, NEW X
    PROVE  /\ Hits(s, X) = {} => Hits(Tail(s), X) = {} /\ Head(s) \notin X
           /\ Single(Hits(s, X)) /\ Head(s) \notin X => Single(Hits(Tail(s), X))
           /\ Single(Hits(s, X)) /\ Head(s) \in X => Hits(Tail(s), X) = {}
<1> DEFINE t == Tail(s)
<1>1. /\ Len(s) \in Nat \ {0}
      /\ DOMAIN s = 1..Len(s)
      /\ DOMAIN t = 1..(Len(s) - 1)
      /\ \A j \in 1..(Len(s) - 1) : t[j] = s[j + 1]
      /\ Head(s) = s[1]
      /\ 1 \in DOMAIN s
  OBVIOUS
<1> HIDE DEF t
<1>2. \A j \in DOMAIN t : j + 1 \in DOMAIN s /\ t[j] = s[j + 1] /\ j + 1 # 1
  BY <1>1
<1>3. Hits(s, X) = {} => Hits(t, X) = {} /\ Head(s) \notin X
  BY <1>1, <1>2 DEF Hits
<1>4. ASSUME Single(Hits(s, X)), Head(s) \notin X
      PROVE  Single(Hits(t, X))
  <2>1. PICK i : Hits(s, X) = {i}
    BY <1>4 DEF Single
  <2>2. i \in DOMAIN s /\ s[i] \in X /\ i # 1
    BY <1>1, <1>4, <2>1 DEF Hits
  <2>3. i - 1 \in DOMAIN t /\ t[i - 1] \in X
    BY <1>1, <2>2
  <2>4. \A j \in DOMAIN t : t[j] \in X => j = i - 1
    <3> SUFFICES ASSUME NEW j \in DOMAIN t, t[j] \in X
                 PROVE  j = i - 1
      OBVIOUS
    <3>1. j + 1 \in Hits(s, X)
      BY <1>2 DEF Hits
    <3>2. j + 1 = i /\ j \in Nat
      BY <1>1, <2>1, <3>1
    <3>3. QED
      BY <1>1, <2>2, <3>2
  <2>5. Hits(t, X) = {i - 1}
    BY <2>3, <2>4 DEF Hits
  <2>6. QED
    BY <2>5 DEF Single
<1>5. ASSUME Single(Hits(s, X)), Head(s) \in X
      PROVE  Hits(t, X) = {}
  <2>1. 1 \in Hits(s, X)
    BY <1>1, <1>5 DEF Hits
  <2>2. Hits(s, X) = {1}
    BY <1>5, <2>1 DEF Single
  <2>3. ASSUME NEW j \in DOMAIN t, t[j] \in X
        PROVE  FALSE
    <3>1. j + 1 \in Hits(s, X)
      BY <1>2, <2>3 DEF Hits
    <3>2. QED
      BY <1>2, <2>2, <2>3, <3>1
  <2>4. QED
    BY <2>3 DEF Hits
<1>6. QED
  BY <1>3, <1>4, <1>5 DEF t

\* Every occurrence in the tail is one place before its own.
LEMMA HitsShifted ==
    ASSUME NEW S, NEW s \in Seq(S), s # <<>>, NEW X
    PROVE  /\ Hits(s, X) \subseteq Nat \ {0}
           /\ \A j : j \in Hits(Tail(s), X) <=> \E i \in Hits(s, X) : i # 1 /\ j = i - 1
           /\ 1 \in Hits(s, X) <=> Head(s) \in X
<1> DEFINE t == Tail(s)
<1>1. /\ Len(s) \in Nat \ {0}
      /\ DOMAIN s = 1..Len(s)
      /\ DOMAIN t = 1..(Len(s) - 1)
      /\ \A j \in 1..(Len(s) - 1) : t[j] = s[j + 1]
      /\ Head(s) = s[1]
  OBVIOUS
<1> HIDE DEF t
<1>2. ASSUME NEW j \in Hits(t, X)
      PROVE  j + 1 \in Hits(s, X) \ {1} /\ j = (j + 1) - 1
  BY <1>1 DEF Hits
<1>3. ASSUME NEW i \in Hits(s, X) \ {1}
      PROVE  i - 1 \in Hits(t, X)
  <2>1. i \in 1..Len(s) /\ s[i] \in X /\ i # 1
    BY <1>1, <1>3 DEF Hits
  <2>2. i - 1 \in 1..(Len(s) - 1) /\ (i - 1) + 1 = i
    BY <1>1, <2>1
  <2>3. QED
    BY <1>1, <2>1, <2>2 DEF Hits
<1>4. Hits(s, X) \subseteq Nat \ {0} /\ (1 \in Hits(s, X) <=> Head(s) \in X)
  BY <1>1 DEF Hits
<1>5. QED
  BY <1>2, <1>3, <1>4 DEF t

\* What is in the first k places.
LEMMA HitsSubSeq ==
    ASSUME NEW S, NEW s \in Seq(S), NEW k \in 0..Len(s), NEW X
    PROVE  /\ SubSeq(s, 1, k) \in Seq(S) /\ Len(SubSeq(s, 1, k)) = k
           /\ \A i : i \in Hits(SubSeq(s, 1, k), X) <=> i \in Hits(s, X) /\ i <= k
<1> DEFINE t == SubSeq(s, 1, k)
<1>1. /\ t \in Seq(S) /\ Len(s) \in Nat /\ k \in Nat
      /\ DOMAIN s = 1..Len(s) /\ DOMAIN t = 1..k /\ Len(t) = k
      /\ \A i \in 1..k : t[i] = s[i]
  OBVIOUS
<1> HIDE DEF t
<1>2. \A i : i \in Hits(t, X) <=> i \in Hits(s, X) /\ i <= k
  BY <1>1 DEF Hits
<1>3. QED
  BY <1>1, <1>2 DEF t

\* The positions of a value are where it hits.
LEMMA PositionsAreHits == \A s, r : Positions(s, r) = Hits(s, {r})
  BY DEF Positions, Hits

\* Two sequences of responses, one after the other.
LEMMA ResponsesConcat ==
    ASSUME NEW s \in Seq(Request \cup {None}), NEW t \in Seq(Request \cup {None}), NEW q
    PROVE  /\ s \o t \in Seq(Request \cup {None})
           /\ Len(s \o t) = Len(s) + Len(t)
           /\ \A j : j \in Hits(s \o t, {q}) <=>
                      j \in Hits(s, {q}) \/ \E k \in Hits(t, {q}) : j = Len(s) + k
           /\ Hits(t, {q}) = {} => Hits(s \o t, {q}) = Hits(s, {q})
<1> DEFINE u == s \o t
<1>1. /\ Len(s) \in Nat /\ Len(t) \in Nat
      /\ DOMAIN s = 1..Len(s) /\ DOMAIN t = 1..Len(t)
      /\ DOMAIN u = 1..(Len(s) + Len(t))
      /\ \A j \in 1..Len(s) : u[j] = s[j]
      /\ \A j \in 1..Len(t) : u[Len(s) + j] = t[j]
      /\ u \in Seq(Request \cup {None}) /\ Len(u) = Len(s) + Len(t)
  OBVIOUS
<1> HIDE DEF u
<1>2. \A j \in DOMAIN u : \/ j \in DOMAIN s
                         \/ \E k \in DOMAIN t : j = Len(s) + k
  <2> SUFFICES ASSUME NEW j \in DOMAIN u, j \notin DOMAIN s
               PROVE  \E k \in DOMAIN t : j = Len(s) + k
    OBVIOUS
  <2>1. j - Len(s) \in DOMAIN t /\ j = Len(s) + (j - Len(s))
    BY <1>1
  <2>2. QED
    BY <2>1
<1>3. /\ \A j \in DOMAIN s : j \in DOMAIN u /\ u[j] = s[j]
      /\ \A k \in DOMAIN t : Len(s) + k \in DOMAIN u /\ u[Len(s) + k] = t[k]
  BY <1>1
<1>4. \A j : j \in Hits(u, {q}) <=> j \in Hits(s, {q}) \/ \E k \in Hits(t, {q}) : j = Len(s) + k
  BY <1>2, <1>3 DEF Hits
<1>5. Hits(t, {q}) = {} => Hits(u, {q}) = Hits(s, {q})
  BY <1>4
<1>6. QED
  BY <1>1, <1>4, <1>5 DEF u

-----------------------------------------------------------------------------
(* Where a request is. *)

\* The tasks that have the request r.
TasksOf(r) == {t \in Seq(Request) : Hits(t, {r}) # {}}

HeldBy(r) == {t \in running : Hits(t, {r}) # {}}

Nowhere(r) ==
    /\ Hits(batch, {r}) = {} /\ Hits(waiting, TasksOf(r)) = {} /\ HeldBy(r) = {}
    /\ Answers(r) = {}

\* It has a response, or two because its batch failed later.
Answered(r) == Single(Answers(r)) \/ (Pair(Answers(r)) /\ FailedLater(r))

\* In the open batch, in a task, or answered.
Somewhere(r) ==
    \/ /\ Single(Hits(batch, {r}))
       /\ Hits(waiting, TasksOf(r)) = {} /\ HeldBy(r) = {} /\ Answers(r) = {}
    \/ /\ Single(Hits(waiting, TasksOf(r)))
       /\ Hits(batch, {r}) = {} /\ HeldBy(r) = {} /\ Answers(r) = {}
    \/ /\ Single(HeldBy(r))
       /\ Hits(batch, {r}) = {} /\ Hits(waiting, TasksOf(r)) = {} /\ Answers(r) = {}
    \/ /\ Answered(r)
       /\ Hits(batch, {r}) = {} /\ Hits(waiting, TasksOf(r)) = {} /\ HeldBy(r) = {}

\* Requests may have been lost.
Lossy ==
    \/ rpc = "Anonymize" /\ input = "broken"
    \/ rpc = "Deanonymize" /\ handler = "aborted"

\* A request is nowhere until it is read, and then somewhere, unless it was
\* in the open batch when the iterator broke, or in a task that was cancelled.
RequestsInPlace ==
    \A r \in Request :
        /\ r > read => Nowhere(r)
        /\ r <= read => Somewhere(r) \/ (Nowhere(r) /\ Lossy)

\* No task has a request twice.
TaskInv(t) ==
    /\ t \in Seq(Request) /\ Len(t) \in 1..TaskSize
    /\ \A r \in Request : Hits(t, {r}) # {} => Single(Hits(t, {r}))

TasksInv ==
    /\ \A i \in DOMAIN waiting : TaskInv(waiting[i])
    /\ \A t \in running : TaskInv(t)

PermitsInv == IsFiniteSet(running) /\ Cardinality(running) <= Permits

\* The None of the queue comes last, and after it nothing is left to do.
SentinelInv ==
    /\ consumer # "done" => Hits(queue, {None}) = {} /\ handler \in {"yielding", "cancelled"}
    /\ handler = "closing" => rpc = "Deanonymize"
    /\ rpc = "Anonymize" /\ consumer # "reading" => batch = <<>>
    /\ rpc = "Anonymize" /\ consumer = "done" =>
          /\ waiting = <<>> /\ running = {}
          /\ handler = "yielding" => \A i \in DOMAIN queue : queue[i] = None => i = Len(queue)
          /\ handler = "ended" => queue = <<>>
    /\ consumer = "gathering" => rpc = "Anonymize"

StreamInv == TypeOK /\ TasksInv /\ RequestsInPlace /\ PermitsInv /\ SentinelInv

-----------------------------------------------------------------------------
(* Types. *)

\* The constants of a stream.
LEMMA StreamConstants ==
    /\ TaskSize \in Nat \ {0} /\ Permits \in Nat \ {0}
    /\ Permits * TaskSize <= MaxConcurrent
    /\ \A r \in Request : r \in Nat /\ r # None
<1>1. /\ MaxConcurrent \div BatchSize \in Nat \ {0}
      /\ (MaxConcurrent \div BatchSize) * BatchSize <= MaxConcurrent
  BY BatchSizeAssumption, PermitsAssumption
<1>2. MaxConcurrent \in Nat \ {0}
  BY <1>1, BatchSizeAssumption
<1>3. \A r \in Request : r \in Nat /\ r # None
  BY RequestsAssumption, NoneAssumption DEF Request
<1>4. CASE rpc = "Anonymize"
  BY <1>1, <1>3, <1>4, BatchSizeAssumption DEF TaskSize, Permits
<1>5. CASE rpc # "Anonymize"
  BY <1>2, <1>3, <1>5 DEF TaskSize, Permits
<1>6. QED
  BY <1>4, <1>5

\* The next request joins the batch.
LEMMA BatchGrows ==
    ASSUME TypeOK, read + 1 \in Request
    PROVE  /\ Append(batch, read + 1) \in Seq(Request)
           /\ Len(Append(batch, read + 1)) \in 1..TaskSize
<1>1. batch \in Seq(Request) /\ Len(batch) \in Nat /\ Len(batch) < TaskSize /\ TaskSize \in Nat
  BY StreamConstants DEF TypeOK
<1>2. Len(Append(batch, read + 1)) = Len(batch) + 1
  BY <1>1
<1>3. QED
  BY <1>1, <1>2

\* The end of the requests: the consumer gathers, or is done.
LEMMA FinallyEffect ==
    ASSUME TypeOK, Finally
    PROVE  /\ consumer' \in {"gathering", "done"}
           /\ consumer' = "gathering" <=> rpc = "Anonymize"
           /\ queue' \in Seq(Request \cup {None})
           /\ \A r \in Request : Positions(queue', r) = Positions(queue, r)
<1>1. queue \in Seq(Request \cup {None})
  BY DEF TypeOK
<1>2. Append(queue, None) \in Seq(Request \cup {None})
  BY <1>1
<1>3. \A r \in Request : Positions(Append(queue, None), r) = Positions(queue, r)
  <2> SUFFICES ASSUME NEW r \in Request
               PROVE  Positions(Append(queue, None), r) = Positions(queue, r)
    OBVIOUS
  <2>1. None \notin {r} /\ None \in Request \cup {None}
    BY StreamConstants
  <2>2. QED
    BY <1>1, <2>1, HitsAppended, PositionsAreHits
<1>4. QED
  BY <1>1, <1>2, <1>3 DEF Finally

\* What a task puts: the responses of its requests, before them none, or those
\* of the requests before the record that cannot be written.
LEMMA ResponsesPut ==
    ASSUME NEW b \in Seq(Request), queue \in Seq(Request \cup {None}), Finish(b) \/ Fail(b)
    PROVE  \E k \in 0..Len(b) :
               /\ queue' = queue \o SubSeq(b, 1, k) \o b
               /\ k = 0 \/ (k + 1 \in DOMAIN b /\ b[k + 1] \in Unwritable /\ b \in failed')
<1>1. DOMAIN b = 1..Len(b) /\ Len(b) \in Nat
  OBVIOUS
<1>2. CASE Finish(b)
  <2>1. SubSeq(b, 1, 0) = <<>>
    OBVIOUS
  <2>2. queue \o <<>> = queue
    OBVIOUS
  <2>3. queue' = queue \o SubSeq(b, 1, 0) \o b
    BY <1>2, <2>1, <2>2 DEF Finish
  <2>4. 0 \in 0..Len(b)
    BY <1>1
  <2>5. QED
    BY <2>3, <2>4
<1>3. CASE Fail(b)
  <2>1. PICK k \in {0} \cup {i - 1 : i \in {j \in DOMAIN b : b[j] \in Unwritable}} :
            queue' = queue \o SubSeq(b, 1, k) \o b
    BY <1>3 DEF Fail, FailAll
  <2>2. b \in failed'
    BY <1>3 DEF Fail
  <2>3. CASE k = 0
    BY <1>1, <2>1, <2>3
  <2>4. CASE k # 0
    <3>1. PICK i \in DOMAIN b : k = i - 1 /\ b[i] \in Unwritable
      BY <2>1, <2>4
    <3>2. k \in 0..Len(b) /\ k + 1 = i
      BY <1>1, <3>1
    <3>3. QED
      BY <2>1, <2>2, <3>1, <3>2
  <2>5. QED
    BY <2>3, <2>4
<1>4. QED
  BY <1>2, <1>3

\* Each action keeps the types.
LEMMA TypesKept == TypeOK /\ TasksInv /\ [Next]_vars => TypeOK'
<1> SUFFICES ASSUME TypeOK, TasksInv, [Next]_vars
             PROVE  TypeOK'
  OBVIOUS
<1>0. rpc' = rpc => TaskSize' = TaskSize
  BY DEF TaskSize
<1>1. CASE Read
  <2>1. /\ read + 1 \in Request /\ read' = read + 1 /\ consumer = "reading"
        /\ UNCHANGED <<rpc, input, running, consumer, systems, failed, yielded, handler>>
    BY <1>1 DEF Read
  <2>2. read' \in 0..Requests
    BY <2>1, RequestsAssumption DEF Request
  <2> DEFINE b == Append(batch, read + 1)
  <2>3. b \in Seq(Request) /\ Len(b) \in 1..TaskSize
    BY <2>1, BatchGrows
  <2>4. /\ batch' \in Seq(Request) /\ Len(batch') < TaskSize
        /\ waiting' \in Seq(Seq(Request))
        /\ queue' \in Seq(Request \cup {None})
    <3>1. CASE rpc = "Anonymize" /\ read' \in Unparsable
      <4>1. queue' = Append(queue, read + 1) /\ UNCHANGED <<batch, waiting>>
        BY <1>1, <2>1, <3>1 DEF Read
      <4>2. QED
        BY <2>1, <4>1 DEF TypeOK
    <3>2. CASE ~(rpc = "Anonymize" /\ read' \in Unparsable)
      <4>1. /\ queue' = queue
            /\ IF Len(b) >= TaskSize
               THEN waiting' = Append(waiting, b) /\ batch' = <<>>
               ELSE batch' = b /\ waiting' = waiting
        BY <1>1, <2>1, <3>2 DEF Read, NextBatch
      <4> HIDE DEF b
      <4>2. CASE Len(b) >= TaskSize
        <5>1. batch' \in Seq(Request) /\ Len(batch') < TaskSize
          BY <4>1, <4>2, StreamConstants
        <5>2. waiting' = Append(waiting, b) /\ waiting \in Seq(Seq(Request)) /\ b \in Seq(Request)
          BY <2>3, <4>1, <4>2 DEF TypeOK
        <5>3. waiting' \in Seq(Seq(Request))
          BY <5>2
        <5>4. QED
          BY <4>1, <5>1, <5>3 DEF TypeOK
      <4>3. CASE ~(Len(b) >= TaskSize)
        BY <2>3, <4>1, <4>3, StreamConstants DEF TypeOK
      <4>4. QED
        BY <4>2, <4>3
    <3>3. QED
      BY <3>1, <3>2
  <2>5. QED
    BY <1>0, <2>1, <2>2, <2>4 DEF TypeOK
<1>2. CASE EndOfRequests
  <2>1. /\ consumer' \in {"gathering", "done"} /\ queue' \in Seq(Request \cup {None})
        /\ input' = "ended" /\ batch' = <<>>
        /\ UNCHANGED <<rpc, read, running, systems, failed, yielded, handler>>
    BY <1>2, FinallyEffect DEF EndOfRequests
  <2>2. waiting' \in Seq(Seq(Request))
    BY <1>2 DEF EndOfRequests, TypeOK
  <2>3. QED
    BY <1>0, <2>1, <2>2, StreamConstants DEF TypeOK
<1>3. CASE BreakOff
  <2>1. /\ consumer' \in {"gathering", "done"} /\ queue' \in Seq(Request \cup {None})
        /\ input' = "broken" /\ batch' = <<>>
        /\ UNCHANGED <<rpc, read, waiting, running, systems, failed, yielded, handler>>
    BY <1>3, FinallyEffect DEF BreakOff
  <2>2. QED
    BY <1>0, <2>1, StreamConstants DEF TypeOK
<1>4. CASE Acquire
  <2>1. waiting \in Seq(Seq(Request)) /\ waiting # <<>>
    BY <1>4 DEF Acquire, TypeOK
  <2>2. Tail(waiting) \in Seq(Seq(Request)) /\ Head(waiting) = waiting[1] /\ 1 \in DOMAIN waiting
    BY <2>1
  <2>3. Head(waiting) \in Seq(Request) /\ Len(Head(waiting)) \in 1..TaskSize
    BY <2>2 DEF TasksInv, TaskInv
  <2>4. QED
    BY <1>0, <1>4, <2>2, <2>3 DEF Acquire, TypeOK
<1>5. ASSUME NEW b \in running, Finish(b) \/ Fail(b)
      PROVE  TypeOK'
  <2>1. b \in Seq(Request) /\ Len(b) \in 1..TaskSize
    BY DEF TypeOK
  <2>2. Head(b) \in Request
    BY <2>1, StreamConstants
  <2>3. queue' \in Seq(Request \cup {None})
    <3>0. queue \in Seq(Request \cup {None})
      BY DEF TypeOK
    <3>1. PICK k \in 0..Len(b) : queue' = queue \o SubSeq(b, 1, k) \o b
      BY <1>5, <2>1, <3>0, ResponsesPut
    <3>2. b \in Seq(Request \cup {None}) /\ SubSeq(b, 1, k) \in Seq(Request \cup {None})
      <4>1. b \in Seq(Request \cup {None})
        BY <2>1
      <4>2. QED
        BY <4>1, HitsSubSeq
    <3>3. QED
      BY <3>0, <3>1, <3>2
  <2>4. systems' \in [Request -> {SystemOf[r] : r \in Request} \cup {None}]
    <3>1. systems' = [r \in Request |->
                         IF \E i \in DOMAIN b : b[i] = r THEN SystemOf[Head(b)] ELSE systems[r]]
      BY <1>5 DEF Finish, Fail, Release
    <3>2. QED
      BY <2>2, <3>1 DEF TypeOK
  <2>5. \A t \in failed' : t \in Seq(Request)
    BY <1>5, <2>1 DEF Finish, Fail, TypeOK
  <2>6. running' = running \ {b} /\ UNCHANGED <<rpc, input, read, batch, waiting, consumer, yielded, handler>>
    BY <1>5 DEF Finish, Fail, Release
  <2>7. QED
    BY <1>0, <2>3, <2>4, <2>5, <2>6 DEF TypeOK
<1>6. CASE SignalEnd
  <2>1. queue' \in Seq(Request \cup {None}) /\ consumer' = "done" /\ consumer = "gathering"
    BY <1>6 DEF SignalEnd, TypeOK
  <2>2. QED
    BY <1>0, <1>6, <2>1 DEF SignalEnd, TypeOK
<1>7. CASE Yield
  <2>1. Head(queue) \in Request /\ queue' \in Seq(Request \cup {None})
    BY <1>7, HeadTailProperties DEF Yield, TypeOK
  <2>2. yielded' \in Seq(Request)
    BY <1>7, <2>1 DEF Yield, TypeOK
  <2>3. QED
    BY <1>0, <1>7, <2>1, <2>2 DEF Yield, TypeOK
<1>8. CASE Close \/ End \/ Cancel \/ Abort
  <2>1. queue' \in Seq(Request \cup {None}) /\ waiting' \in Seq(Seq(Request))
    <3>1. queue \in Seq(Request \cup {None}) /\ waiting \in Seq(Seq(Request))
      BY DEF TypeOK
    <3>2. \/ queue # <<>> /\ queue' = Tail(queue) /\ waiting' = waiting
          \/ queue' = queue /\ waiting' \in {waiting, <<>>}
      BY <1>8 DEF Close, End, Cancel, Abort
    <3>3. queue # <<>> => Tail(queue) \in Seq(Request \cup {None})
      BY <3>1, HeadTailProperties
    <3>4. <<>> \in Seq(Seq(Request))
      OBVIOUS
    <3>5. QED
      BY <3>1, <3>2, <3>3, <3>4
  <2>2. handler' \in {"closing", "ended", "cancelled", "aborted"} /\ running' \subseteq running
    BY <1>8 DEF Close, End, Cancel, Abort
  <2>3. UNCHANGED <<rpc, input, read, batch, consumer, systems, failed, yielded>>
    BY <1>8 DEF Close, End, Cancel, Abort
  <2>4. QED
    BY <1>0, <2>1, <2>2, <2>3 DEF TypeOK
<1>9. CASE UNCHANGED vars
  BY <1>0, <1>9 DEF vars, TypeOK
<1>10. QED
  BY <1>1, <1>2, <1>3, <1>4, <1>5, <1>6, <1>7, <1>8, <1>9 DEF Next

-----------------------------------------------------------------------------
(* The way of a request through the stream. *)

\* The queue without a new position of the request.
LEMMA AnswersUnchanged ==
    ASSUME NEW q \in Request, Positions(queue', q) = Positions(queue, q), UNCHANGED yielded
    PROVE  Answers(q)' = Answers(q)
BY DEF Answers

\* Batches that failed stay failed.
LEMMA AnsweredKept ==
    ASSUME NEW q \in Request, Answers(q)' = Answers(q), failed \subseteq failed'
    PROVE  Answered(q) => Answered(q)'
<1>1. FailedLater(q) => FailedLater(q)'
  BY DEF FailedLater
<1>2. QED
  BY <1>1 DEF Answered

\* A step that leaves every request where it is.
LEMMA PlacesUnchanged ==
    ASSUME NEW q \in Request,
           Hits(batch', {q}) = Hits(batch, {q}), UNCHANGED <<waiting, running, failed>>,
           Answers(q)' = Answers(q)
    PROVE  /\ Nowhere(q) => Nowhere(q)'
           /\ Somewhere(q) => Somewhere(q)'
<1>1. HeldBy(q)' = HeldBy(q) /\ Hits(waiting', TasksOf(q)) = Hits(waiting, TasksOf(q))
  BY DEF HeldBy
<1>2. TasksOf(q)' = TasksOf(q)
  BY DEF TasksOf
<1>3. Answered(q) => Answered(q)'
  BY AnsweredKept
<1>4. QED
  BY <1>1, <1>2, <1>3 DEF Nowhere, Somewhere

\* The request that was read is answered at once, or joins the batch.
LEMMA ReadRequestIsPlaced ==
    ASSUME TypeOK, NEW q \in Request, Nowhere(q), UNCHANGED <<running, yielded>>,
           \/ queue' = Append(queue, q) /\ UNCHANGED <<batch, waiting>>
           \/ batch' = Append(batch, q) /\ UNCHANGED <<queue, waiting>>
           \/ batch' = <<>> /\ waiting' = Append(waiting, Append(batch, q)) /\ UNCHANGED queue
    PROVE  Somewhere(q)'
<1>1. /\ batch \in Seq(Request) /\ queue \in Seq(Request \cup {None}) /\ waiting \in Seq(Seq(Request))
  BY DEF TypeOK
<1>2. /\ Hits(batch, {q}) = {} /\ Hits(waiting, TasksOf(q)) = {} /\ HeldBy(q) = {}
      /\ Answers(q) = {}
  BY DEF Nowhere
<1>3. HeldBy(q)' = {} /\ TasksOf(q)' = TasksOf(q) /\ (UNCHANGED queue => Answers(q)' = {})
  BY <1>2 DEF HeldBy, TasksOf, Answers
<1>4. Single(Hits(Append(batch, q), {q})) /\ Hits(Append(batch, q), {q}) # {}
  <2>1. q \in {q} /\ Hits(batch, {q}) = {} =>
           Single(Hits(Append(batch, q), {q})) /\ Hits(Append(batch, q), {q}) # {}
    BY <1>1, HitsAppended
  <2>2. QED
    BY <1>2, <2>1
<1>5. CASE queue' = Append(queue, q) /\ UNCHANGED <<batch, waiting>>
  <2>1. q \in {q} /\ q \in Request \cup {None}
    OBVIOUS
  <2>2. Positions(queue, q) = {} /\ Positions(yielded, q) = {}
    BY <1>2 DEF Answers
  <2>3. Single(Positions(queue', q))
    BY <1>1, <1>5, <2>1, <2>2, HitsAppended, PositionsAreHits
  <2>4. PICK i : Positions(queue', q) = {i}
    BY <2>3 DEF Single
  <2>5. Answers(q)' = {<<"queue", i>>}
    BY <2>2, <2>4 DEF Answers
  <2>6. Answered(q)'
    BY <2>5 DEF Answered, Single
  <2>7. QED
    BY <1>2, <1>3, <1>5, <2>6 DEF Somewhere
<1>6. CASE batch' = Append(batch, q) /\ UNCHANGED <<queue, waiting>>
  <2>1. Single(Hits(batch', {q}))
    BY <1>4, <1>6
  <2>2. QED
    BY <1>2, <1>3, <1>6, <2>1 DEF Somewhere
<1>7. CASE batch' = <<>> /\ waiting' = Append(waiting, Append(batch, q)) /\ UNCHANGED queue
  <2> DEFINE b == Append(batch, q)
  <2>1. b \in Seq(Request) /\ b \in TasksOf(q)
    <3>1. b \in Seq(Request)
      BY <1>1
    <3>2. Hits(b, {q}) # {}
      BY <1>4
    <3> HIDE DEF b
    <3>3. QED
      BY <3>1, <3>2 DEF TasksOf
  <2>2. waiting' = Append(waiting, b)
    BY <1>7
  <2> HIDE DEF b
  <2>3. Single(Hits(waiting', TasksOf(q))) /\ Hits(batch', {q}) = {}
    <3>1. Single(Hits(waiting', TasksOf(q)))
      BY <1>1, <1>2, <2>1, <2>2, HitsAppended
    <3>2. Hits(<<>>, {q}) = {}
      BY DEF Hits
    <3>3. QED
      BY <1>7, <3>1, <3>2
  <2>4. QED
    BY <1>2, <1>3, <1>7, <2>3 DEF Somewhere
<1>8. QED
  BY <1>5, <1>6, <1>7

\* The batch becomes a task; its requests go with it.
LEMMA BatchBecomesTask ==
    ASSUME TypeOK, NEW q \in Request, NEW b \in Seq(Request),
           Hits(b, {q}) = Hits(batch, {q}),
           batch' = <<>>, waiting' = Append(waiting, b), UNCHANGED <<running, failed>>,
           Answers(q)' = Answers(q)
    PROVE  /\ Nowhere(q) => Nowhere(q)'
           /\ Somewhere(q) => Somewhere(q)'
<1>1. waiting \in Seq(Seq(Request))
  BY DEF TypeOK
<1>2. HeldBy(q)' = HeldBy(q) /\ TasksOf(q)' = TasksOf(q) /\ Hits(batch', {q}) = {}
  BY DEF HeldBy, TasksOf, Hits
<1>3. Hits(waiting', TasksOf(q)) = IF b \in TasksOf(q) THEN Hits(waiting, TasksOf(q)) \cup {Len(waiting) + 1}
                                   ELSE Hits(waiting, TasksOf(q))
  BY <1>1, HitsAppend
<1>4. b \in TasksOf(q) <=> Hits(batch, {q}) # {}
  BY DEF TasksOf
<1>5. \A A : Single(A) => A # {}
  BY DEF Single
<1>6. \A x : Single({} \cup {x})
  BY DEF Single
<1>a. Answered(q) => Answered(q)'
  BY AnsweredKept
<1>7. Nowhere(q) => Nowhere(q)'
  BY <1>2, <1>3, <1>4 DEF Nowhere
<1>8. ASSUME Somewhere(q)
      PROVE  Somewhere(q)'
  <2>1. CASE Hits(batch, {q}) # {}
    <3>1. Hits(waiting, TasksOf(q)) = {} /\ HeldBy(q) = {} /\ Answers(q) = {}
      BY <1>8, <2>1 DEF Somewhere
    <3>2. Single(Hits(waiting', TasksOf(q)))
      BY <1>3, <1>4, <1>6, <2>1, <3>1
    <3>3. QED
      BY <1>2, <3>1, <3>2 DEF Somewhere
  <2>2. CASE Hits(batch, {q}) = {}
    BY <1>2, <1>3, <1>4, <1>5, <1>8, <1>a, <2>2 DEF Somewhere
  <2>3. QED
    BY <2>1, <2>2
<1>9. QED
  BY <1>7, <1>8

\* A task gets a permit; its requests go with it.
LEMMA TaskIsHeld ==
    ASSUME TypeOK, NEW q \in Request, waiting # <<>>, waiting' = Tail(waiting),
           running' = running \cup {Head(waiting)}, UNCHANGED <<batch, failed>>,
           Answers(q)' = Answers(q)
    PROVE  /\ Nowhere(q) => Nowhere(q)'
           /\ Somewhere(q) => Somewhere(q)'
<1>1. waiting \in Seq(Seq(Request)) /\ Head(waiting) \in Seq(Request)
  BY HeadTailProperties DEF TypeOK
<1>2. TasksOf(q)' = TasksOf(q)
  BY DEF TasksOf
<1> DEFINE h == Head(waiting)
<1>3. /\ Hits(waiting, TasksOf(q)) = {} => Hits(waiting', TasksOf(q)) = {} /\ h \notin TasksOf(q)
      /\ Single(Hits(waiting, TasksOf(q))) /\ h \notin TasksOf(q) => Single(Hits(waiting', TasksOf(q)))
      /\ Single(Hits(waiting, TasksOf(q))) /\ h \in TasksOf(q) => Hits(waiting', TasksOf(q)) = {}
  BY <1>1, HitsTail
<1>4. HeldBy(q)' = IF h \in TasksOf(q) THEN HeldBy(q) \cup {h} ELSE HeldBy(q)
  BY <1>1 DEF HeldBy, TasksOf
<1> HIDE DEF h
<1>5. \A x : Single({} \cup {x})
  BY DEF Single
<1>a. Answered(q) => Answered(q)'
  BY AnsweredKept
<1>6. Nowhere(q) => Nowhere(q)'
  BY <1>2, <1>3, <1>4 DEF Nowhere
<1>7. ASSUME Somewhere(q)
      PROVE  Somewhere(q)'
  <2>1. CASE h \in TasksOf(q)
    <3>1. /\ Single(Hits(waiting, TasksOf(q))) /\ HeldBy(q) = {}
          /\ Hits(batch, {q}) = {} /\ Answers(q) = {}
      BY <1>3, <1>7, <2>1 DEF Somewhere
    <3>2. Hits(waiting', TasksOf(q)) = {} /\ Single(HeldBy(q)')
      BY <1>3, <1>4, <1>5, <2>1, <3>1
    <3>3. QED
      BY <1>2, <3>1, <3>2 DEF Somewhere
  <2>2. CASE h \notin TasksOf(q)
    BY <1>2, <1>3, <1>4, <1>7, <1>a, <2>2 DEF Somewhere
  <2>3. QED
    BY <2>1, <2>2
<1>8. QED
  BY <1>6, <1>7

\* Where the responses of a task are in the queue: once, or also before
\* that for a request before the record that cannot be written.
LEMMA ResponsesOfTask ==
    ASSUME TypeOK, TasksInv, NEW q \in Request, NEW b \in running, Finish(b) \/ Fail(b)
    PROVE  /\ Hits(b, {q}) = {} => Answers(q)' = Answers(q)
           /\ Hits(b, {q}) # {} /\ Answers(q) = {} => Answered(q)'
<1>1. /\ queue \in Seq(Request \cup {None}) /\ b \in Seq(Request) /\ b \in Seq(Request \cup {None})
      /\ Len(queue) \in Nat /\ DOMAIN b = 1..Len(b) /\ Len(b) \in Nat /\ yielded' = yielded
  <2>1. b \in Seq(Request) /\ queue \in Seq(Request \cup {None}) /\ yielded' = yielded
    BY DEF TypeOK, Finish, Fail, Release
  <2>2. b \in Seq(Request \cup {None})
    BY <2>1
  <2>3. QED
    BY <2>1, <2>2
<1>2. PICK k \in 0..Len(b) :
          /\ queue' = queue \o SubSeq(b, 1, k) \o b
          /\ k = 0 \/ (k + 1 \in DOMAIN b /\ b[k + 1] \in Unwritable /\ b \in failed')
  BY <1>1, ResponsesPut
<1>3. \A j : j \in Positions(queue', q) <=>
                 \/ j \in Positions(queue, q)
                 \/ \E i \in Hits(b, {q}) : i <= k /\ j = Len(queue) + i
                 \/ \E i \in Hits(b, {q}) : j = Len(queue) + k + i
  <2> DEFINE c == SubSeq(b, 1, k)
             d == queue \o c
  <2>1. /\ c \in Seq(Request \cup {None}) /\ Len(c) = k
        /\ \A i : i \in Hits(c, {q}) <=> i \in Hits(b, {q}) /\ i <= k
    BY <1>1, HitsSubSeq
  <2> HIDE DEF c
  <2>2. /\ d \in Seq(Request \cup {None}) /\ Len(d) = Len(queue) + k
        /\ queue' = d \o b
    BY <1>1, <1>2, <2>1 DEF c
  <2>3. \A j : j \in Hits(d, {q}) <=> j \in Hits(queue, {q}) \/ \E i \in Hits(c, {q}) : j = Len(queue) + i
    BY <1>1, <2>1, ResponsesConcat
  <2> HIDE DEF d
  <2>4. \A j : j \in Hits(d \o b, {q}) <=> j \in Hits(d, {q}) \/ \E i \in Hits(b, {q}) : j = Len(d) + i
    BY <1>1, <2>2, ResponsesConcat
  <2>5. TAKE j
  <2> DEFINE First == \E i \in Hits(b, {q}) : i <= k /\ j = Len(queue) + i
             Second == \E i \in Hits(b, {q}) : j = Len(queue) + k + i
  <2>6. (\E i \in Hits(c, {q}) : j = Len(queue) + i) <=> First
    BY <2>1
  <2>7. (\E i \in Hits(b, {q}) : j = Len(d) + i) <=> Second
    BY <2>2
  <2> HIDE DEF First, Second
  <2>8. j \in Positions(queue, q) <=> j \in Hits(queue, {q})
    BY PositionsAreHits
  <2>9. j \in Hits(d, {q}) <=> j \in Positions(queue, q) \/ First
    BY <2>3, <2>6, <2>8
  <2>10. j \in Hits(d \o b, {q}) <=> j \in Hits(d, {q}) \/ Second
    BY <2>4, <2>7
  <2>11. j \in Positions(queue', q) <=> j \in Hits(d \o b, {q})
    BY <2>2, PositionsAreHits
  <2>12. j \in Positions(queue', q) <=> j \in Positions(queue, q) \/ First \/ Second
    BY <2>9, <2>10, <2>11
  <2>13. QED
    BY <2>12 DEF First, Second
<1>4. ASSUME Hits(b, {q}) = {}
      PROVE  Answers(q)' = Answers(q)
  <2>1. Positions(queue', q) = Positions(queue, q)
    BY <1>3, <1>4
  <2>2. QED
    BY <1>1, <2>1 DEF Answers
<1>5. ASSUME Hits(b, {q}) # {}, Answers(q) = {}
      PROVE  Answered(q)'
  <2>1. PICK p : Hits(b, {q}) = {p}
    BY <1>5 DEF TasksInv, TaskInv, Single
  <2>2. p \in DOMAIN b /\ b[p] = q /\ p \in Nat \ {0}
    BY <1>1, <2>1 DEF Hits
  <2>3. Positions(queue, q) = {} /\ Positions(yielded, q) = {}
    BY <1>5 DEF Answers
  <2>4. CASE p <= k
    <3>1. Positions(queue', q) = {Len(queue) + p, Len(queue) + k + p}
      <4>1. Len(queue) + p \in Positions(queue', q) /\ Len(queue) + k + p \in Positions(queue', q)
        BY <1>3, <2>1, <2>4
      <4>2. \A j \in Positions(queue', q) : j = Len(queue) + p \/ j = Len(queue) + k + p
        BY <1>3, <2>1, <2>3
      <4>3. QED
        BY <4>1, <4>2
    <3>2. Answers(q)' = {<<"queue", Len(queue) + p>>, <<"queue", Len(queue) + k + p>>}
      BY <1>1, <2>3, <3>1 DEF Answers
    <3>3. Len(queue) + p # Len(queue) + k + p /\ k \in Nat /\ k # 0
      BY <1>1, <2>2, <2>4
    <3>4. Pair(Answers(q)')
      BY <3>2, <3>3 DEF Pair
    <3>5. FailedLater(q)'
      <4>1. k + 1 \in DOMAIN b /\ b[k + 1] \in Unwritable /\ b \in failed' /\ p < k + 1
        BY <1>2, <2>2, <2>4, <3>3
      <4>2. QED
        BY <2>2, <4>1 DEF FailedLater
    <3>6. QED
      BY <3>4, <3>5 DEF Answered
  <2>5. CASE ~(p <= k)
    <3>1. Positions(queue', q) = {Len(queue) + k + p}
      <4>1. Len(queue) + k + p \in Positions(queue', q)
        BY <1>3, <2>1
      <4>2. \A j \in Positions(queue', q) : j = Len(queue) + k + p
        BY <1>3, <2>1, <2>3, <2>5
      <4>3. QED
        BY <4>1, <4>2
    <3>2. Answers(q)' = {<<"queue", Len(queue) + k + p>>}
      BY <1>1, <2>3, <3>1 DEF Answers
    <3>3. QED
      BY <3>2 DEF Answered, Single
  <2>6. QED
    BY <2>4, <2>5
<1>6. QED
  BY <1>4, <1>5

\* A task puts its responses; each of its requests is answered.
LEMMA TaskIsAnswered ==
    ASSUME TypeOK, TasksInv, NEW q \in Request, NEW b \in running, Finish(b) \/ Fail(b)
    PROVE  /\ Nowhere(q) => Nowhere(q)'
           /\ Somewhere(q) => Somewhere(q)'
<1>1. /\ Hits(b, {q}) = {} => Answers(q)' = Answers(q)
      /\ Hits(b, {q}) # {} /\ Answers(q) = {} => Answered(q)'
  BY ResponsesOfTask
<1>2. TasksOf(q)' = TasksOf(q) /\ Hits(waiting', TasksOf(q)) = Hits(waiting, TasksOf(q))
  BY DEF TasksOf, Finish, Fail, Release
<1>3. UNCHANGED batch /\ running' = running \ {b} /\ failed \subseteq failed'
  BY DEF Finish, Fail, Release
<1>4. /\ b \in HeldBy(q) <=> Hits(b, {q}) # {}
      /\ HeldBy(q)' = HeldBy(q) \ {b}
  BY <1>3 DEF HeldBy
<1>5. Nowhere(q) => Nowhere(q)'
  BY <1>1, <1>2, <1>3, <1>4 DEF Nowhere
<1>6. ASSUME Somewhere(q)
      PROVE  Somewhere(q)'
  <2>1. CASE b \in HeldBy(q)
    <3>1. /\ Single(HeldBy(q)) /\ Answers(q) = {}
          /\ Hits(batch, {q}) = {} /\ Hits(waiting, TasksOf(q)) = {}
      BY <1>6, <2>1 DEF Somewhere
    <3>2. HeldBy(q) = {b}
      BY <2>1, <3>1 DEF Single
    <3>3. HeldBy(q)' = {} /\ Answered(q)'
      BY <1>1, <1>4, <2>1, <3>1, <3>2
    <3>4. QED
      BY <1>2, <1>3, <3>1, <3>3 DEF Somewhere
  <2>2. CASE b \notin HeldBy(q)
    <3>1. HeldBy(q)' = HeldBy(q) /\ Answers(q)' = Answers(q)
      BY <1>1, <1>4, <2>2
    <3>2. Answered(q) => Answered(q)'
      BY <1>3, <3>1, AnsweredKept
    <3>3. QED
      BY <1>2, <1>3, <1>6, <3>1, <3>2 DEF Somewhere
  <2>3. QED
    BY <2>1, <2>2
<1>7. QED
  BY <1>5, <1>6

\* A response, or None, leaves the queue: the responses are as many as before.
LEMMA AnswersMove ==
    ASSUME TypeOK, NEW q \in Request, Yield \/ Close
    PROVE  /\ Answers(q) = {} => Answers(q)' = {}
           /\ Single(Answers(q)) => Single(Answers(q)')
           /\ Pair(Answers(q)) => Pair(Answers(q)')
<1>1. /\ queue \in Seq(Request \cup {None}) /\ queue # <<>> /\ yielded \in Seq(Request)
      /\ Head(queue) \in Request \cup {None} /\ q # None /\ Len(yielded) \in Nat
      /\ queue' = Tail(queue)
  BY HeadTailProperties, StreamConstants DEF TypeOK, Yield, Close
<1>2. /\ Positions(queue, q) \subseteq Nat \ {0}
      /\ \A j : j \in Positions(queue', q) <=> \E i \in Positions(queue, q) : i # 1 /\ j = i - 1
      /\ 1 \in Positions(queue, q) <=> Head(queue) = q
  <2>1. /\ Hits(queue, {q}) \subseteq Nat \ {0}
        /\ \A j : j \in Hits(Tail(queue), {q}) <=> \E i \in Hits(queue, {q}) : i # 1 /\ j = i - 1
        /\ 1 \in Hits(queue, {q}) <=> Head(queue) \in {q}
    BY <1>1, HitsShifted
  <2>2. Positions(queue, q) = Hits(queue, {q}) /\ Positions(queue', q) = Hits(Tail(queue), {q})
    BY <1>1, PositionsAreHits
  <2>3. Head(queue) \in {q} <=> Head(queue) = q
    OBVIOUS
  <2>4. QED
    BY <2>1, <2>2, <2>3
<1>3. Positions(yielded', q) = IF Head(queue) = q THEN Positions(yielded, q) \cup {Len(yielded) + 1}
                               ELSE Positions(yielded, q)
  <2>1. CASE Head(queue) = None
    BY <1>1, <2>1 DEF Yield, Close
  <2>2. CASE Head(queue) # None
    <3>1. PICK r \in Request : r = Head(queue)
      BY <1>1, <2>2
    <3>2. yielded' = Append(yielded, r)
      BY <2>2, <3>1 DEF Yield, Close
    <3>3. Hits(Append(yielded, r), {q}) = IF r \in {q} THEN Hits(yielded, {q}) \cup {Len(yielded) + 1}
                                          ELSE Hits(yielded, {q})
      BY <1>1, HitsAppend
    <3>4. QED
      BY <3>1, <3>2, <3>3, PositionsAreHits
  <2>3. QED
    BY <2>1, <2>2
<1>4. Positions(yielded, q) \subseteq 1..Len(yielded)
  BY <1>1 DEF Positions
\* Where each response goes.
<1> DEFINE Q == Positions(queue, q)
           Y == Positions(yielded, q)
           g(p) == IF p[1] = "yielded" THEN p
                   ELSE IF p[2] = 1 THEN <<"yielded", Len(yielded) + 1>>
                   ELSE <<"queue", p[2] - 1>>
<1>5. Answers(q) = {<<"queue", i>> : i \in Q} \cup {<<"yielded", i>> : i \in Y}
  BY DEF Answers
<1>6. Answers(q)' = {g(p) : p \in Answers(q)}
  <2>1. Answers(q)' = {<<"queue", i>> : i \in Positions(queue', q)}
                         \cup {<<"yielded", i>> : i \in Positions(yielded', q)}
    BY DEF Answers
  <2>2. ASSUME NEW p \in Answers(q)
        PROVE  g(p) \in Answers(q)'
    <3>1. CASE \E i \in Y : p = <<"yielded", i>>
      BY <1>3, <2>1, <3>1
    <3>2. CASE \E i \in Q : p = <<"queue", i>>
      <4>1. PICK i \in Q : p = <<"queue", i>>
        BY <3>2
      <4>2. CASE i = 1
        BY <1>2, <1>3, <2>1, <4>1, <4>2
      <4>3. CASE i # 1
        BY <1>2, <2>1, <4>1, <4>3
      <4>4. QED
        BY <4>2, <4>3
    <3>3. QED
      BY <1>5, <3>1, <3>2
  <2>3. ASSUME NEW o \in Answers(q)'
        PROVE  \E p \in Answers(q) : o = g(p)
    <3>1. CASE \E i \in Positions(queue', q) : o = <<"queue", i>>
      <4>1. PICK i \in Q : i # 1 /\ o = <<"queue", i - 1>>
        BY <1>2, <3>1
      <4>2. <<"queue", i>> \in Answers(q) /\ o = g(<<"queue", i>>)
        BY <1>5, <4>1
      <4>3. QED
        BY <4>2
    <3>2. CASE \E i \in Positions(yielded', q) : o = <<"yielded", i>>
      <4>1. PICK i \in Positions(yielded', q) : o = <<"yielded", i>>
        BY <3>2
      <4>2. CASE i \in Y
        <5>1. o \in Answers(q) /\ o = g(o)
          BY <1>5, <4>1, <4>2
        <5>2. QED
          BY <5>1
      <4>3. CASE i \notin Y
        <5>1. i = Len(yielded) + 1 /\ 1 \in Q
          BY <1>2, <1>3, <4>1, <4>3
        <5>2. <<"queue", 1>> \in Answers(q) /\ o = g(<<"queue", 1>>)
          BY <1>5, <4>1, <5>1
        <5>3. QED
          BY <5>2
      <4>4. QED
        BY <4>2, <4>3
    <3>3. QED
      BY <2>1, <3>1, <3>2
  <2>4. QED
    BY <2>2, <2>3
<1>7. \A p, o \in Answers(q) : g(p) = g(o) => p = o
  <2> SUFFICES ASSUME NEW p \in Answers(q), NEW o \in Answers(q), g(p) = g(o)
               PROVE  p = o
    OBVIOUS
  <2>1. /\ \/ \E i \in Q : p = <<"queue", i>>
           \/ \E i \in Y : p = <<"yielded", i>>
        /\ \/ \E i \in Q : o = <<"queue", i>>
           \/ \E i \in Y : o = <<"yielded", i>>
    BY <1>5
  <2>2. \A i \in Y : i \in Nat /\ i # Len(yielded) + 1
    BY <1>1, <1>4
  <2>3. \A i \in Q : i \in Nat
    BY <1>2
  <2> HIDE DEF Q, Y
  <2>4. QED
    BY <1>1, <2>1, <2>2, <2>3
<1> HIDE DEF g
<1>8. Single(Answers(q)) => Single(Answers(q)')
  <2> SUFFICES ASSUME Single(Answers(q))
               PROVE  Single(Answers(q)')
    OBVIOUS
  <2>1. PICK x : Answers(q) = {x}
    BY DEF Single
  <2>2. Answers(q)' = {g(x)}
    BY <1>6, <2>1
  <2>3. QED
    BY <2>2 DEF Single
<1>9. Pair(Answers(q)) => Pair(Answers(q)')
  <2> SUFFICES ASSUME Pair(Answers(q))
               PROVE  Pair(Answers(q)')
    OBVIOUS
  <2>1. PICK x, y : x # y /\ Answers(q) = {x, y}
    BY DEF Pair
  <2>2. Answers(q)' = {g(x), g(y)}
    BY <1>6, <2>1
  <2>3. g(x) # g(y)
    BY <1>7, <2>1
  <2>4. QED
    BY <2>2, <2>3 DEF Pair
<1>10. QED
  BY <1>6, <1>8, <1>9

\* A response goes to the client.
LEMMA ResponseIsYielded ==
    ASSUME TypeOK, NEW q \in Request, Yield \/ Close
    PROVE  /\ Nowhere(q) => Nowhere(q)'
           /\ Somewhere(q) => Somewhere(q)'
<1>1. UNCHANGED <<batch, waiting, running, failed>>
  BY DEF Yield, Close
<1>2. TasksOf(q)' = TasksOf(q) /\ HeldBy(q)' = HeldBy(q) /\ Hits(waiting', TasksOf(q)) = Hits(waiting, TasksOf(q))
  BY <1>1 DEF TasksOf, HeldBy
<1>3. /\ Answers(q) = {} => Answers(q)' = {}
      /\ Answered(q) => Answered(q)'
  <2>1. FailedLater(q)' = FailedLater(q)
    BY <1>1 DEF FailedLater
  <2>2. QED
    BY <2>1, AnswersMove DEF Answered
<1>4. QED
  BY <1>1, <1>2, <1>3 DEF Nowhere, Somewhere

\* The tasks are cancelled: their requests are nowhere, all others stay.
LEMMA TasksAreCancelled ==
    ASSUME NEW q \in Request, Abort
    PROVE  /\ Nowhere(q) => Nowhere(q)'
           /\ Somewhere(q) => Somewhere(q)' \/ Nowhere(q)'
<1>1. /\ waiting' = <<>> /\ running' = {} /\ UNCHANGED <<batch, queue, yielded, failed>>
  BY DEF Abort
<1>2. HeldBy(q)' = {} /\ Hits(waiting', TasksOf(q)') = {} /\ Answers(q)' = Answers(q)
  BY <1>1 DEF HeldBy, Hits, Answers
<1>3. Answered(q) => Answered(q)'
  BY <1>1, <1>2, AnsweredKept
<1>4. QED
  BY <1>1, <1>2, <1>3 DEF Somewhere, Nowhere

-----------------------------------------------------------------------------
(* The invariant. *)

\* What reading a request does to the batch, the tasks and the queue.
LEMMA ReadEffect ==
    ASSUME TypeOK, Read
    PROVE  LET q == read + 1
           IN  /\ q \in Request /\ read' = q
               /\ UNCHANGED <<rpc, input, running, failed, yielded, handler>>
               /\ \/ queue' = Append(queue, q) /\ UNCHANGED <<batch, waiting>>
                  \/ batch' = Append(batch, q) /\ UNCHANGED <<queue, waiting>>
                  \/ batch' = <<>> /\ waiting' = Append(waiting, Append(batch, q)) /\ UNCHANGED queue
<1>1. CASE rpc = "Anonymize" /\ read' \in Unparsable
  BY <1>1 DEF Read
<1>2. CASE ~(rpc = "Anonymize" /\ read' \in Unparsable)
  BY <1>2 DEF Read, NextBatch
<1>3. QED
  BY <1>1, <1>2

\* Every request stays in its place, moves on, or is lost.
LEMMA PlacesKept ==
    TypeOK /\ TasksInv /\ SentinelInv /\ RequestsInPlace /\ [Next]_vars => RequestsInPlace'
<1> SUFFICES ASSUME TypeOK, TasksInv, SentinelInv, RequestsInPlace, [Next]_vars, NEW q \in Request
             PROVE  /\ q > read' => Nowhere(q)'
                    /\ q <= read' => Somewhere(q)' \/ (Nowhere(q)' /\ Lossy')
  BY DEF RequestsInPlace
<1> DEFINE Goal == /\ q > read' => Nowhere(q)'
                   /\ q <= read' => Somewhere(q)' \/ (Nowhere(q)' /\ Lossy')
           Kept == /\ Nowhere(q) => Nowhere(q)'
                   /\ Somewhere(q) => Somewhere(q)'
<1>0. /\ q > read => Nowhere(q)
      /\ q <= read => Somewhere(q) \/ (Nowhere(q) /\ Lossy)
      /\ read \in Nat /\ q \in Nat /\ q # None
  BY StreamConstants DEF RequestsInPlace, TypeOK
<1> HIDE DEF Kept
<1>a. ASSUME Kept, read' = read, Lossy => Lossy'
      PROVE  Goal
  BY <1>0, <1>a DEF Kept
<1>b. Lossy => Lossy'
  BY DEF Lossy, TypeOK, Next, Read, EndOfRequests, BreakOff, Acquire, Finish, Fail, Release,
         SignalEnd, Yield, Close, End, Cancel, Abort, vars
<1>1. CASE Read
  <2> DEFINE r == read + 1
             b == Append(batch, r)
  <2>1. /\ r \in Request /\ read' = r /\ UNCHANGED <<running, failed, yielded>>
        /\ \/ queue' = Append(queue, r) /\ UNCHANGED <<batch, waiting>>
           \/ batch' = b /\ UNCHANGED <<queue, waiting>>
           \/ batch' = <<>> /\ waiting' = Append(waiting, b) /\ UNCHANGED queue
    BY <1>1, ReadEffect
  <2>2. CASE q = r
    <3>1. Nowhere(q)
      BY <1>0, <2>2
    <3>2. Somewhere(q)'
      BY <2>1, <2>2, <3>1, ReadRequestIsPlaced
    <3>3. QED
      BY <1>0, <2>1, <2>2, <3>2
  <2>3. CASE q # r
    <3>1. r \notin {q} /\ r \in Request \cup {None}
      BY <2>1, <2>3
    <3>2. batch \in Seq(Request) /\ queue \in Seq(Request \cup {None}) /\ r \in Request
      BY <2>1 DEF TypeOK
    <3>3. b \in Seq(Request)
      BY <2>1, BatchGrows
    <3> HIDE DEF r
    <3>4. Positions(Append(queue, r), q) = Positions(queue, q)
      BY <3>1, <3>2, HitsAppended, PositionsAreHits
    <3>5. Hits(b, {q}) = Hits(batch, {q})
      BY <3>1, <3>2, HitsAppended
    <3> HIDE DEF b
    <3>c. Answers(q)' = Answers(q)
      BY <2>1, <3>4, AnswersUnchanged
    <3>6. ASSUME UNCHANGED <<batch, waiting>>
          PROVE  Kept
      BY <2>1, <3>6, <3>c, PlacesUnchanged DEF Kept
    <3>7. ASSUME batch' = b, UNCHANGED waiting
          PROVE  Kept
      BY <2>1, <3>5, <3>7, <3>c, PlacesUnchanged DEF Kept
    <3>a. ASSUME batch' = <<>>, waiting' = Append(waiting, b)
          PROVE  Kept
      BY <2>1, <3>5, <3>3, <3>a, <3>c, BatchBecomesTask DEF Kept
    <3>b. Kept
      BY <2>1, <3>6, <3>7, <3>a
    <3>8. (q > read' => q > read) /\ (q <= read' => q <= read)
      BY <1>0, <2>1, <2>3 DEF r
    <3>9. QED
      BY <1>0, <1>b, <3>b, <3>8 DEF Kept
  <2>4. QED
    BY <2>2, <2>3
<1>2. CASE EndOfRequests
  <2>1. /\ Answers(q)' = Answers(q)
        /\ batch' = <<>> /\ UNCHANGED <<read, running, failed>>
    BY <1>2, FinallyEffect, AnswersUnchanged DEF EndOfRequests
  <2>2. CASE batch # <<>>
    <3>1. waiting' = Append(waiting, batch) /\ batch \in Seq(Request)
      BY <1>2, <2>2 DEF EndOfRequests, TypeOK
    <3>2. Kept
      BY <2>1, <3>1, BatchBecomesTask DEF Kept
    <3>3. QED
      BY <1>a, <1>b, <2>1, <3>2
  <2>3. CASE batch = <<>>
    <3>1. UNCHANGED waiting /\ Hits(batch', {q}) = Hits(batch, {q})
      BY <1>2, <2>1, <2>3 DEF EndOfRequests
    <3>2. Kept
      BY <2>1, <3>1, PlacesUnchanged DEF Kept
    <3>3. QED
      BY <1>a, <1>b, <2>1, <3>2
  <2>4. QED
    BY <2>2, <2>3
<1>3. CASE BreakOff
  <2>1. /\ Answers(q)' = Answers(q) /\ input' = "broken"
        /\ batch' = <<>> /\ UNCHANGED <<rpc, read, running, waiting, failed>>
    BY <1>3, FinallyEffect, AnswersUnchanged DEF BreakOff
  <2>2. CASE Hits(batch, {q}) = {}
    <3>1. Hits(batch', {q}) = Hits(batch, {q})
      BY <2>1, <2>2 DEF Hits
    <3>2. Kept
      BY <2>1, <3>1, PlacesUnchanged DEF Kept
    <3>3. QED
      BY <1>a, <1>b, <2>1, <3>2
  <2>3. CASE Hits(batch, {q}) # {}
    <3>1. /\ Hits(waiting, TasksOf(q)) = {} /\ HeldBy(q) = {} /\ q <= read
          /\ Answers(q) = {}
      BY <1>0, <2>3 DEF Nowhere, Somewhere
    <3>2. Hits(batch', {q}) = {} /\ HeldBy(q)' = HeldBy(q) /\ TasksOf(q)' = TasksOf(q)
      BY <2>1 DEF Hits, HeldBy, TasksOf
    <3>3. Nowhere(q)'
      BY <2>1, <3>1, <3>2 DEF Nowhere
    <3>4. rpc = "Anonymize"
      <4>1. batch # <<>>
        BY <2>3 DEF Hits
      <4>2. QED
        BY <4>1 DEF TypeOK, TaskSize
    <3>5. QED
      BY <1>0, <2>1, <3>1, <3>3, <3>4 DEF Lossy
  <2>4. QED
    BY <2>2, <2>3
<1>4. CASE Acquire
  <2>1. Answers(q)' = Answers(q)
    BY <1>4 DEF Acquire, Answers
  <2>2. Kept
    BY <1>4, <2>1, TaskIsHeld DEF Acquire, Kept
  <2>3. QED
    BY <1>a, <1>b, <1>4, <2>2 DEF Acquire
<1>5. ASSUME NEW b \in running, Finish(b) \/ Fail(b)
      PROVE  Goal
  <2>1. Kept
    BY <1>5, TaskIsAnswered DEF Kept
  <2>2. QED
    BY <1>a, <1>b, <1>5, <2>1 DEF Finish, Fail, Release
<1>6. CASE SignalEnd
  <2>1. Positions(queue', q) = Positions(queue, q)
    <3>1. queue \in Seq(Request \cup {None}) /\ queue' = Append(queue, None) /\ None \notin {q}
      BY <1>0, <1>6 DEF SignalEnd, TypeOK
    <3>2. None \in Request \cup {None}
      OBVIOUS
    <3>3. QED
      BY <3>1, <3>2, HitsAppended, PositionsAreHits
  <2>2. Answers(q)' = Answers(q)
    BY <1>6, <2>1, AnswersUnchanged DEF SignalEnd
  <2>3. Kept
    BY <1>6, <2>2, PlacesUnchanged DEF SignalEnd, Kept
  <2>4. QED
    BY <1>a, <1>b, <1>6, <2>3 DEF SignalEnd
<1>7. CASE Yield \/ Close
  <2>1. Kept
    BY <1>7, ResponseIsYielded DEF Kept
  <2>2. QED
    BY <1>a, <1>b, <1>7, <2>1 DEF Yield, Close
<1>8. CASE End \/ Cancel \/ UNCHANGED vars
  <2>1. UNCHANGED <<batch, waiting, running, failed, queue, yielded, read>>
    BY <1>8 DEF End, Cancel, vars
  <2>2. Answers(q)' = Answers(q)
    BY <2>1 DEF Answers
  <2>3. Kept
    BY <2>1, <2>2, PlacesUnchanged DEF Kept
  <2>4. QED
    BY <1>a, <1>b, <2>1, <2>3
<1>9. CASE Abort
  <2>1. Lossy' /\ read' = read
    BY <1>9 DEF Lossy, Abort, SentinelInv
  <2>2. QED
    BY <1>0, <1>9, <2>1, TasksAreCancelled
<1>10. QED
  BY <1>1, <1>2, <1>3, <1>4, <1>5, <1>6, <1>7, <1>8, <1>9 DEF Next

\* A batch that becomes a task has each of its requests once.
LEMMA BatchIsTask ==
    ASSUME TypeOK, RequestsInPlace, NEW r \in Request
    PROVE  Hits(batch, {r}) # {} => Single(Hits(batch, {r}))
<1>1. r > read \/ r <= read
  BY StreamConstants DEF TypeOK
<1>2. QED
  BY <1>1 DEF RequestsInPlace, Nowhere, Somewhere

\* Tasks have each of their requests once.
LEMMA TasksKept == TypeOK /\ TasksInv /\ RequestsInPlace /\ [Next]_vars => TasksInv'
<1> SUFFICES ASSUME TypeOK, TasksInv, RequestsInPlace, [Next]_vars
             PROVE  TasksInv'
  OBVIOUS
<1>0. UNCHANGED rpc => \A t : TaskInv(t)' <=> TaskInv(t)
  BY DEF TaskInv, TaskSize
<1>a. ASSUME NEW b, TaskInv(b), waiting' = Append(waiting, b), UNCHANGED <<rpc, running>>
      PROVE  TasksInv'
  <2>1. waiting \in Seq(Seq(Request)) /\ b \in Seq(Request)
    BY <1>a DEF TypeOK, TaskInv
  <2>2. /\ DOMAIN waiting' = DOMAIN waiting \cup {Len(waiting) + 1}
        /\ waiting'[Len(waiting) + 1] = b
        /\ \A i \in DOMAIN waiting : waiting'[i] = waiting[i]
    BY <1>a, <2>1
  <2>3. QED
    BY <1>0, <1>a, <2>2 DEF TasksInv
<1>b. ASSUME UNCHANGED <<rpc, waiting>>, running' \subseteq running
      PROVE  TasksInv'
  BY <1>0, <1>b DEF TasksInv
<1>c. ASSUME UNCHANGED rpc, waiting' = <<>>, running' = {}
      PROVE  TasksInv'
  BY <1>c DEF TasksInv
<1>1. CASE Read
  <2> DEFINE r == read + 1
             b == Append(batch, r)
  <2>1. /\ r \in Request /\ UNCHANGED <<running, rpc>> /\ r \in Nat
        /\ \/ UNCHANGED waiting
           \/ waiting' = Append(waiting, b)
    BY <1>1, ReadEffect, StreamConstants DEF Read
  <2>2. TaskInv(b)
    <3>1. b \in Seq(Request) /\ Len(b) \in 1..TaskSize
      BY <2>1, BatchGrows
    <3>2. ASSUME NEW q \in Request, Hits(b, {q}) # {}
          PROVE  Single(Hits(b, {q}))
      <4>0. batch \in Seq(Request)
        BY DEF TypeOK
      <4>1. CASE q = r
        <5>1. Hits(batch, {q}) = {}
          <6>1. q > read
            BY <2>1, <4>1 DEF TypeOK
          <6>2. QED
            BY <6>1 DEF RequestsInPlace, Nowhere
        <5>2. r \in {q}
          BY <4>1
        <5>3. QED
          BY <2>1, <4>0, <5>1, <5>2, HitsAppended
      <4>2. CASE q # r
        <5>1. r \notin {q}
          BY <4>2
        <5>2. Hits(b, {q}) = Hits(batch, {q})
          BY <2>1, <4>0, <5>1, HitsAppended
        <5>3. QED
          BY <3>2, <5>2, BatchIsTask
      <4>3. QED
        BY <4>1, <4>2
    <3>3. QED
      BY <3>1, <3>2 DEF TaskInv
  <2> HIDE DEF b
  <2>3. QED
    BY <1>a, <1>b, <2>1, <2>2
<1>2. CASE EndOfRequests
  <2>1. CASE batch # <<>>
    <3>1. waiting' = Append(waiting, batch) /\ UNCHANGED <<rpc, running>>
      BY <1>2, <2>1 DEF EndOfRequests
    <3>2. batch \in Seq(Request) /\ Len(batch) \in 1..TaskSize
      BY <2>1, StreamConstants DEF TypeOK
    <3>3. TaskInv(batch)
      BY <3>2, BatchIsTask DEF TaskInv
    <3>4. QED
      BY <1>a, <3>1, <3>3
  <2>2. CASE batch = <<>>
    BY <1>b, <1>2, <2>2 DEF EndOfRequests
  <2>3. QED
    BY <2>1, <2>2
<1>3. CASE Acquire
  <2>1. waiting \in Seq(Seq(Request)) /\ waiting # <<>> /\ UNCHANGED rpc
    BY <1>3 DEF Acquire, TypeOK
  <2>2. /\ Len(waiting) \in Nat \ {0} /\ DOMAIN Tail(waiting) = 1..(Len(waiting) - 1)
        /\ Head(waiting) = waiting[1] /\ 1 \in DOMAIN waiting
        /\ \A i \in 1..(Len(waiting) - 1) : Tail(waiting)[i] = waiting[i + 1] /\ i + 1 \in DOMAIN waiting
    BY <2>1
  <2>3. TaskInv(Head(waiting)) /\ \A i \in DOMAIN Tail(waiting) : TaskInv(Tail(waiting)[i])
    BY <2>2 DEF TasksInv
  <2>4. QED
    BY <1>0, <1>3, <2>1, <2>3 DEF TasksInv, Acquire
<1>4. CASE \/ BreakOff \/ (\E b \in running : Finish(b) \/ Fail(b)) \/ SignalEnd
           \/ Yield \/ Close \/ End \/ Cancel \/ UNCHANGED vars
  <2>1. UNCHANGED <<rpc, waiting>> /\ running' \subseteq running
    BY <1>4 DEF BreakOff, Finish, Fail, Release, SignalEnd, Yield, Close, End, Cancel, vars
  <2>2. QED
    BY <1>b, <2>1
<1>5. CASE Abort
  BY <1>c, <1>5 DEF Abort
<1>6. QED
  BY <1>1, <1>2, <1>3, <1>4, <1>5 DEF Next

\* No more tasks run than there are permits.
LEMMA PermitsKept == TypeOK /\ PermitsInv /\ [Next]_vars => PermitsInv'
<1> SUFFICES ASSUME TypeOK, PermitsInv, [Next]_vars
             PROVE  PermitsInv'
  OBVIOUS
<1>0. Permits' = Permits /\ Permits \in Nat /\ Cardinality(running) \in Nat
  <2>1. rpc' = rpc
    BY DEF Next, Read, EndOfRequests, BreakOff, Acquire, Finish, Fail, Release, SignalEnd,
           Yield, Close, End, Cancel, Abort, vars
  <2>2. QED
    BY <2>1, StreamConstants, FS_CardinalityType DEF Permits, PermitsInv
<1>1. CASE Acquire
  <2>1. /\ Cardinality(running) < Permits
        /\ running' = running \cup {Head(waiting)}
    BY <1>1 DEF Acquire
  <2>2. QED
    BY <1>0, <2>1, FS_AddElement DEF PermitsInv
<1>2. ASSUME NEW b \in running, Finish(b) \/ Fail(b)
      PROVE  PermitsInv'
  <2>1. running' = running \ {b} /\ IsFiniteSet(running)
    BY <1>2 DEF Finish, Fail, Release, PermitsInv
  <2>2. IsFiniteSet(running') /\ Cardinality(running') = Cardinality(running) - 1
    BY <2>1, FS_RemoveElement
  <2>3. QED
    BY <1>0, <2>2 DEF PermitsInv
<1>3. CASE UNCHANGED running
  BY <1>0, <1>3 DEF PermitsInv
<1>4. CASE Abort
  BY <1>0, <1>4, FS_EmptySet DEF Abort, PermitsInv
<1>5. QED
  BY <1>1, <1>2, <1>3, <1>4 DEF Next, Read, EndOfRequests, BreakOff, SignalEnd, Yield, Close, End, Cancel, vars

\* The None stays last, and the stream closes only after it.
LEMMA SentinelKept == TypeOK /\ SentinelInv /\ [Next]_vars => SentinelInv'
<1> SUFFICES ASSUME TypeOK, SentinelInv, [Next]_vars
             PROVE  SentinelInv'
  OBVIOUS
<1>0. /\ queue \in Seq(Request \cup {None}) /\ consumer \in {"reading", "gathering", "done"}
      /\ rpc' = rpc /\ None \notin Request
  BY NoneAssumption
  DEF TypeOK, Next, Read, EndOfRequests, BreakOff, Acquire, Finish, Fail, Release, SignalEnd,
      Yield, Close, End, Cancel, Abort, vars
\* The consumer puts its None.
<1>a. ASSUME queue' = Append(queue, None), Hits(queue, {None}) = {}
      PROVE  \A i \in DOMAIN queue' : queue'[i] = None => i = Len(queue')
  <2>1. /\ DOMAIN queue' = DOMAIN queue \cup {Len(queue) + 1}
        /\ Len(queue') = Len(queue) + 1
        /\ \A i \in DOMAIN queue : queue'[i] = queue[i]
    BY <1>0, <1>a
  <2>2. \A i \in DOMAIN queue : queue[i] # None
    BY <1>a DEF Hits
  <2>3. QED
    BY <2>1, <2>2
<1>1. CASE Read
  <2>1. /\ consumer = "reading" /\ consumer' = "reading" /\ handler' = handler
        /\ \/ queue' = queue
           \/ queue' = Append(queue, read + 1) /\ read + 1 \in Request
    BY <1>1, ReadEffect DEF Read
  <2>2. Hits(queue', {None}) = Hits(queue, {None})
    <3>1. CASE queue' = Append(queue, read + 1) /\ read + 1 \in Request
      <4>1. read + 1 \notin {None} /\ read + 1 \in Request \cup {None}
        BY <1>0, <3>1
      <4>2. QED
        BY <1>0, <3>1, <4>1, HitsAppended
    <3>2. QED
      BY <2>1, <3>1
  <2>3. QED
    BY <2>1, <2>2 DEF SentinelInv
<1>2. CASE EndOfRequests \/ BreakOff
  <2>1. /\ consumer = "reading" /\ batch' = <<>> /\ handler' = handler
        /\ \/ rpc = "Anonymize" /\ consumer' = "gathering" /\ queue' = queue
           \/ rpc # "Anonymize" /\ consumer' = "done"
    BY <1>2 DEF EndOfRequests, BreakOff, Finally
  <2>2. QED
    BY <1>0, <2>1 DEF SentinelInv
<1>3. CASE Acquire
  <2>1. /\ waiting # <<>> /\ UNCHANGED <<consumer, queue, batch, handler>>
    BY <1>3 DEF Acquire
  <2>2. QED
    BY <1>0, <2>1 DEF SentinelInv
<1>4. ASSUME NEW b \in running, Finish(b) \/ Fail(b)
      PROVE  SentinelInv'
  <2>1. UNCHANGED <<consumer, batch, handler>>
    BY <1>4 DEF Finish, Fail, Release
  <2>2. b \in Seq(Request)
    BY DEF TypeOK
  <2>3. b \in Seq(Request \cup {None})
    BY <2>2
  <2>4. Hits(b, {None}) = {}
    BY <1>0, <2>2 DEF Hits
  <2>5. Hits(queue', {None}) = Hits(queue, {None})
    <3>1. PICK k \in 0..Len(b) : queue' = queue \o SubSeq(b, 1, k) \o b
      BY <1>0, <1>4, <2>2, ResponsesPut
    <3>2. ASSUME NEW s \in Seq(Request \cup {None})
          PROVE  Hits(s \o b, {None}) = Hits(s, {None})
      BY <2>3, <2>4, ResponsesConcat
    <3> DEFINE c == SubSeq(b, 1, k)
    <3>3. c \in Seq(Request \cup {None}) /\ \A i : i \in Hits(c, {None}) <=> i \in Hits(b, {None}) /\ i <= k
      BY ONLY <2>3, HitsSubSeq, Zenon
    <3> HIDE DEF c
    <3>4. Hits(c, {None}) = {}
      BY <2>4, <3>3
    <3>5. queue \in Seq(Request \cup {None})
      BY <1>0
    <3>6. Hits(queue \o c, {None}) = Hits(queue, {None})
      BY <3>3, <3>4, <3>5, ResponsesConcat
    <3>7. queue \o c \in Seq(Request \cup {None})
      BY <3>3, <3>5
    <3>8. QED
      BY <3>1, <3>2, <3>5, <3>6, <3>7 DEF c
  <2>6. QED
    BY <1>0, <2>1, <2>5 DEF SentinelInv
<1>5. CASE SignalEnd
  <2>1. /\ consumer = "gathering" /\ consumer' = "done" /\ queue' = Append(queue, None)
        /\ waiting' = <<>> /\ running' = {} /\ UNCHANGED <<batch, handler>>
    BY <1>5 DEF SignalEnd, AllDone
  <2>2. Hits(queue, {None}) = {} /\ handler \in {"yielding", "cancelled"} /\ batch = <<>>
    BY <2>1 DEF SentinelInv
  <2>3. \A i \in DOMAIN queue' : queue'[i] = None => i = Len(queue')
    BY <1>a, <2>1, <2>2
  <2>4. QED
    BY <2>1, <2>2, <2>3 DEF SentinelInv
<1>6. CASE Yield \/ Close
  <2>1. /\ handler = "yielding" /\ queue # <<>> /\ queue' = Tail(queue)
        /\ Head(queue) = None => handler' = "ended" \/ (rpc = "Deanonymize" /\ handler' = "closing")
        /\ Head(queue) # None => handler' = "yielding"
        /\ UNCHANGED <<consumer, batch, waiting, running>>
    BY <1>6 DEF Yield, Close
  <2>2. /\ Len(queue) \in Nat \ {0} /\ DOMAIN queue = 1..Len(queue)
        /\ Len(queue') = Len(queue) - 1 /\ DOMAIN queue' = 1..(Len(queue) - 1)
        /\ \A i \in 1..(Len(queue) - 1) : queue'[i] = queue[i + 1]
        /\ Head(queue) = queue[1] /\ queue' \in Seq(Request \cup {None})
    BY <1>0, <2>1
  <2>3. ASSUME consumer # "done"
        PROVE  Hits(queue', {None}) = {} /\ handler' = "yielding"
    <3>1. Hits(queue, {None}) = {}
      BY <2>3 DEF SentinelInv
    <3>2. Hits(queue', {None}) = {} /\ Head(queue) \notin {None}
      BY <1>0, <2>1, <3>1, HitsTail
    <3>3. QED
      BY <2>1, <3>2
  <2>4. ASSUME rpc = "Anonymize", consumer = "done"
        PROVE  /\ handler' = "yielding" => \A i \in DOMAIN queue' : queue'[i] = None => i = Len(queue')
               /\ handler' = "ended" => queue' = <<>>
    <3>1. \A i \in DOMAIN queue : queue[i] = None => i = Len(queue)
      BY <2>1, <2>4 DEF SentinelInv
    <3>2. ASSUME NEW i \in DOMAIN queue', queue'[i] = None
          PROVE  i = Len(queue')
      <4>1. i + 1 \in DOMAIN queue /\ queue[i + 1] = None /\ i \in Nat
        BY <2>2, <3>2
      <4>2. i + 1 = Len(queue)
        BY <3>1, <4>1
      <4>3. QED
        BY <2>2, <4>1, <4>2
    <3>3. ASSUME Head(queue) = None
          PROVE  queue' = <<>>
      <4>1. Len(queue) = 1
        BY <2>2, <3>1, <3>3
      <4>2. QED
        BY <2>2, <4>1
    <3>4. QED
      BY <2>1, <3>2, <3>3
  <2>5. QED
    BY <1>0, <2>1, <2>3, <2>4 DEF SentinelInv
<1>7. CASE End \/ Cancel \/ Abort \/ UNCHANGED vars
  <2>1. /\ UNCHANGED <<consumer, queue, batch>>
        /\ waiting' \in {waiting, <<>>} /\ running' \in {running, {}}
        /\ \/ handler' = handler
           \/ handler' = "cancelled"
           \/ handler = "closing" /\ handler' \in {"ended", "aborted"}
    BY <1>7 DEF End, Cancel, Abort, vars
  <2>2. QED
    BY <1>0, <2>1 DEF SentinelInv
<1>8. QED
  BY <1>1, <1>2, <1>3, <1>4, <1>5, <1>6, <1>7 DEF Next

\* The stream begins with nothing read.
LEMMA StreamInit == Init => StreamInv
<1> SUFFICES ASSUME Init PROVE StreamInv
  OBVIOUS
<1>1. TypeOK
  BY StreamConstants, RequestsAssumption DEF Init, TypeOK
<1>2. TasksInv /\ SentinelInv
  BY DEF Init, TasksInv, SentinelInv, Hits
<1>3. RequestsInPlace
  BY StreamConstants DEF Init, RequestsInPlace, Nowhere, Hits, HeldBy, Request, Answers, Positions
<1>4. PermitsInv
  BY StreamConstants, FS_EmptySet DEF Init, PermitsInv
<1>5. QED
  BY <1>1, <1>2, <1>3, <1>4 DEF StreamInv

\* In every reachable state of a stream: a request that was read has its place
\* or its answers, or was lost as RequestsInPlace says; permits are not
\* overdrawn; and an Anonymize stream has its None last (Anonymize, Deanonymize).
THEOREM StreamInvariant == Spec => []StreamInv
<1>1. StreamInv /\ [Next]_vars => StreamInv'
  BY TypesKept, TasksKept, PlacesKept, PermitsKept, SentinelKept DEF StreamInv
<1>2. QED
  BY StreamInit, <1>1, PTL DEF Spec

-----------------------------------------------------------------------------
(* The properties the runs check. *)

\* Type correctness (Anonymize, Deanonymize).
THEOREM StreamTypes == Spec => []TypeOK
<1>1. StreamInv => TypeOK
  BY DEF StreamInv
<1>2. QED
  BY <1>1, StreamInvariant, PTL

\* An Anonymize stream that ends has answered every request the client sent.
THEOREM EndedStreamHasAnswered == Spec => []AnonymizeAnswersAll
<1>1. ASSUME StreamInv
      PROVE  AnonymizeAnswersAll
  <2> SUFFICES ASSUME rpc = "Anonymize", handler = "ended", input = "ended", NEW r \in 1..read
               PROVE  Positions(yielded, r) # {}
    BY DEF AnonymizeAnswersAll
  <2>1. TypeOK /\ SentinelInv /\ RequestsInPlace
    BY <1>1 DEF StreamInv
  <2>2. consumer = "done"
    BY <2>1 DEF SentinelInv
  <2>3. batch = <<>> /\ waiting = <<>> /\ running = {} /\ queue = <<>>
    BY <2>1, <2>2 DEF SentinelInv
  <2>4. r \in Request /\ r <= read
    BY <2>1, RequestsAssumption DEF TypeOK, Request
  <2>5. Somewhere(r)
    BY <2>1, <2>4 DEF RequestsInPlace, Lossy
  <2>6. Answered(r)
    BY <2>3, <2>5 DEF Somewhere, Single, Hits, HeldBy
  <2>7. Answers(r) # {}
    BY <2>6 DEF Answered, Single, Pair
  <2>8. QED
    BY <2>3, <2>7 DEF Answers, Positions
<1>2. QED
  BY <1>1, StreamInvariant, PTL

\* The places of a request without a response.
LEMMA UnansweredPlaces ==
    ASSUME TypeOK, NEW r \in Request
    PROVE  Unanswered(r) = {<<"batch", i>> : i \in Hits(batch, {r})}
                              \cup {<<"waiting", i>> : i \in Hits(waiting, TasksOf(r))}
                              \cup {<<"running", b>> : b \in HeldBy(r)}
<1>1. {j \in DOMAIN waiting : Positions(waiting[j], r) # {}} = Hits(waiting, TasksOf(r))
  <2>1. \A j \in DOMAIN waiting : waiting[j] \in Seq(Request)
    BY DEF TypeOK
  <2>2. \A j \in DOMAIN waiting : Positions(waiting[j], r) # {} <=> waiting[j] \in TasksOf(r)
    BY <2>1, PositionsAreHits DEF TasksOf
  <2>3. QED
    BY <2>2 DEF Hits
<1>2. {t \in running : Positions(t, r) # {}} = HeldBy(r)
  BY PositionsAreHits DEF HeldBy
<1>3. QED
  BY <1>1, <1>2, PositionsAreHits DEF Unanswered

\* A pair has two members.
LEMMA PairHasTwo == \A A : Pair(A) => Cardinality(A) = 2
<1> SUFFICES ASSUME NEW A, Pair(A)
             PROVE  Cardinality(A) = 2
  OBVIOUS
<1>1. PICK x, y : x # y /\ A = {x, y}
  BY DEF Pair
<1>2. IsFiniteSet({x}) /\ Cardinality({x}) = 1
  BY FS_Singleton
<1>3. {x} \cup {y} = A /\ y \notin {x}
  BY <1>1
<1>4. Cardinality({x} \cup {y}) = Cardinality({x}) + 1
  BY <1>2, <1>3, FS_AddElement
<1>5. QED
  BY <1>2, <1>3, <1>4

\* A request that is somewhere is in one place, or has its two responses.
LEMMA OnePlace ==
    ASSUME TypeOK, NEW r \in Request, Somewhere(r)
    PROVE  \/ Cardinality(Places(r)) = 1
           \/ Unanswered(r) = {} /\ Cardinality(Answers(r)) = 2 /\ FailedLater(r)
<1> DEFINE B == Hits(batch, {r})
           W == Hits(waiting, TasksOf(r))
           H == HeldBy(r)
           A == Answers(r)
<1>1. Unanswered(r) = {<<"batch", i>> : i \in B} \cup {<<"waiting", i>> : i \in W}
                         \cup {<<"running", b>> : b \in H}
  BY UnansweredPlaces
<1>2. Places(r) = Unanswered(r) \cup A
  BY DEF Places
<1>3. \/ W = {} /\ H = {} /\ A = {} /\ \E i : B = {i}
      \/ B = {} /\ H = {} /\ A = {} /\ \E i : W = {i}
      \/ B = {} /\ W = {} /\ A = {} /\ \E b : H = {b}
      \/ B = {} /\ W = {} /\ H = {} /\ Answered(r)
  BY DEF Somewhere, Single
<1> HIDE DEF B, W, H
<1>4. ASSUME W = {}, H = {}, A = {}, NEW i, B = {i}
      PROVE  Places(r) = {<<"batch", i>>}
  BY <1>1, <1>2, <1>4
<1>5. ASSUME B = {}, H = {}, A = {}, NEW i, W = {i}
      PROVE  Places(r) = {<<"waiting", i>>}
  BY <1>1, <1>2, <1>5
<1>6. ASSUME B = {}, W = {}, A = {}, NEW b, H = {b}
      PROVE  Places(r) = {<<"running", b>>}
  BY <1>1, <1>2, <1>6
<1>7. ASSUME B = {}, W = {}, H = {}
      PROVE  Unanswered(r) = {} /\ Places(r) = Answers(r)
  BY <1>1, <1>2, <1>7
<1> HIDE DEF A
<1>8. CASE \E p : Places(r) = {p}
  BY <1>8, FS_Singleton
<1>9. CASE B = {} /\ W = {} /\ H = {} /\ Pair(Answers(r)) /\ FailedLater(r)
  BY <1>7, <1>9, PairHasTwo
<1>10. QED
  BY <1>3, <1>4, <1>5, <1>6, <1>7, <1>8, <1>9 DEF Answered, Single

\* Every request that was read is in the open batch, in a task or answered, is
\* answered again only when its batch failed later, and is lost only with the
\* open batch or a cancelled task (consume_requests, _process_anonymize_batch).
THEOREM RequestIsAccountedFor == Spec => []RequestAccountedFor
<1>1. ASSUME StreamInv
      PROVE  RequestAccountedFor
  <2> SUFFICES ASSUME NEW r \in 1..read
               PROVE  \/ Cardinality(Places(r)) = 1
                      \/ Unanswered(r) = {} /\ Cardinality(Answers(r)) = 2 /\ FailedLater(r)
                      \/ Places(r) = {} /\ Lossy
    BY DEF RequestAccountedFor, Lossy
  <2>1. TypeOK /\ RequestsInPlace
    BY <1>1 DEF StreamInv
  <2>2. r \in Request /\ r <= read
    BY <2>1, RequestsAssumption DEF TypeOK, Request
  <2>3. Somewhere(r) \/ (Nowhere(r) /\ Lossy)
    BY <2>1, <2>2 DEF RequestsInPlace
  <2>4. Nowhere(r) => Places(r) = {}
    BY <2>1, <2>2, UnansweredPlaces DEF Nowhere, Places
  <2>5. QED
    BY <2>1, <2>2, <2>3, <2>4, OnePlace
<1>2. QED
  BY <1>1, StreamInvariant, PTL

\* No more requests are being processed than the tasks with a permit can hold.
LEMMA RunningBoundsRequests ==
    ASSUME TypeOK, PermitsInv
    PROVE  Cardinality({r \in Request : \E b \in running : Positions(b, r) # {}})
              <= Cardinality(running) * TaskSize
<1> DEFINE H == {r \in Request : \E b \in running : Positions(b, r) # {}}
           P == running \X (1..TaskSize)
<1>1. IsFiniteSet(H) /\ Cardinality(H) \in Nat
  <2>1. IsFiniteSet(Request)
    BY RequestsAssumption, FS_Interval DEF Request
  <2>2. QED
    BY <2>1, FS_Subset, FS_CardinalityType
<1>2. /\ IsFiniteSet(P) /\ Cardinality(P) = Cardinality(running) * TaskSize /\ Cardinality(P) \in Nat
  <2>1. IsFiniteSet(1..TaskSize) /\ Cardinality(1..TaskSize) = TaskSize
    BY StreamConstants, FS_Interval
  <2>2. QED
    BY <2>1, FS_Product, FS_CardinalityType DEF PermitsInv
\* Two requests have no place in common.
<1> DEFINE Holds(b, i, r) == b \in running /\ i \in 1..TaskSize /\ b[i] = r
           task(r) == CHOOSE b : \E i : Holds(b, i, r)
           place(r) == CHOOSE i : Holds(task(r), i, r)
           f == [r \in H |-> <<task(r), place(r)>>]
<1>3. \A r \in H : Holds(task(r), place(r), r)
  <2> SUFFICES ASSUME NEW r \in H
               PROVE  Holds(task(r), place(r), r)
    OBVIOUS
  <2>1. PICK b \in running : Positions(b, r) # {}
    OBVIOUS
  <2>2. PICK i \in DOMAIN b : b[i] = r
    BY <2>1 DEF Positions
  <2>3. b \in Seq(Request) /\ Len(b) \in 1..TaskSize /\ TaskSize \in Nat
    BY StreamConstants DEF TypeOK
  <2>4. i \in 1..TaskSize
    BY <2>3
  <2>5. Holds(b, i, r)
    BY <2>2, <2>4
  <2> HIDE DEF Holds
  <2>6. \E j : Holds(task(r), j, r)
    BY <2>5
  <2> HIDE DEF task
  <2>7. QED
    BY <2>6
<1> HIDE DEF task, place, H
<1>4. f \in [H -> P]
  BY <1>3
<1>5. \A x, y \in H : f[x] = f[y] => x = y
  BY <1>3
<1> HIDE DEF f, P
<1>6. ~(Cardinality(P) < Cardinality(H))
  BY <1>1, <1>2, <1>4, <1>5, FS_PigeonHole
<1>7. QED
  BY <1>1, <1>2, <1>6 DEF H

\* At most MaxConcurrent records of a stream are processed at a time, although
\* the semaphore of Anonymize counts batches (process_batch_with_semaphore).
THEOREM ConcurrencyIsBounded == Spec => []ConcurrencyBounded
<1>1. ASSUME StreamInv
      PROVE  ConcurrencyBounded
  <2> DEFINE n == Cardinality({r \in Request : \E b \in running : Positions(b, r) # {}})
             c == Cardinality(running)
  <2>1. n <= c * TaskSize
    BY <1>1, RunningBoundsRequests DEF StreamInv
  <2>2. c \in Nat /\ c <= Permits
    BY <1>1, FS_CardinalityType DEF StreamInv, PermitsInv
  <2>3. n \in Nat
    <3>1. IsFiniteSet(Request)
      BY RequestsAssumption, FS_Interval DEF Request
    <3>2. IsFiniteSet({r \in Request : \E b \in running : Positions(b, r) # {}})
      BY <3>1, FS_Subset
    <3>3. QED
      BY <3>2, FS_CardinalityType
  <2> HIDE DEF n, c
  <2>4. TaskSize \in Nat /\ Permits \in Nat /\ Permits * TaskSize <= MaxConcurrent
    BY StreamConstants
  <2>5. c * TaskSize <= Permits * TaskSize
    BY <2>2, <2>4
  <2>6. c * TaskSize \in Nat /\ Permits * TaskSize \in Nat /\ MaxConcurrent \in Nat
    BY <2>2, <2>4, BatchSizeAssumption
  <2>7. n <= MaxConcurrent
    BY <2>1, <2>3, <2>4, <2>5, <2>6
  <2>8. QED
    BY <2>7 DEF n, ConcurrencyBounded
<1>2. QED
  BY <1>1, StreamInvariant, PTL
=============================================================================
