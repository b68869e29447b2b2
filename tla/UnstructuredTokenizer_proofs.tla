-------------------- MODULE UnstructuredTokenizer_proofs --------------------
(***************************************************************************)
(* The unstructured tokenizer over its store, for every set of systems,    *)
(* policies, texts, detectors and concurrent requests: its types, what the *)
(* resolution of findings and the splices into a text result in, and that  *)
(* what it restores is what was anonymized.                                *)
(***************************************************************************)
EXTENDS UnstructuredTokenizer, TokenStore_proofs

-----------------------------------------------------------------------------
(* Resolution: the findings in the order in which they are considered. *)

Size(f) == f.end - f.start

Disjoint(f, g) == f.end <= g.start \/ g.end <= f.start

IsDisjoint(findings) ==
    \A j, k \in DOMAIN findings : j # k => Disjoint(findings[j], findings[k])

\* Each finding is a span of the text, and holds no token the text does not.
AreSpans(findings, text) ==
    \A i \in DOMAIN findings :
        /\ findings[i] \in FindingType
        /\ findings[i].start < findings[i].end
        /\ findings[i].end <= Len(text)
        /\ ToSet(findings[i].value) \cap UuidToken \subseteq ToSet(text)

\* resolve_findings' sort is a strict order, ties broken by position.
LEMMA LongestFirstIsOrder ==
    ASSUME NEW findings \in Seq(FindingType)
    PROVE  /\ IsStrictOrder(DOMAIN findings, LongestFirst(findings))
           /\ \A i, j \in DOMAIN findings : <<i, j>> \in LongestFirst(findings)
                 => Size(findings[i]) >= Size(findings[j])
<1>. DEFINE F == DOMAIN findings
            size(i) == findings[i].end - findings[i].start
            Ahead(i, j) == \/ size(i) > size(j)
                           \/ size(i) = size(j) /\ findings[i].start < findings[j].start
<1>1. \A i, j \in F : <<i, j>> \in LongestFirst(findings)
                         <=> Ahead(i, j) \/ (~Ahead(j, i) /\ i < j)
  BY DEF LongestFirst
<1>2. ASSUME NEW i \in F
      PROVE  i \in Nat /\ size(i) \in Int /\ findings[i].start \in Nat
  <2>1. findings[i] \in FindingType
    OBVIOUS
  <2>2. findings[i].start \in Nat /\ findings[i].end \in Nat
    BY <2>1 DEF FindingType
  <2>3. i \in Nat
    BY LenProperties
  <2>. QED BY <2>2, <2>3
<1>3. \A i \in F : size(i) = Size(findings[i])
  BY DEF Size
<1>. DEFINE order == LongestFirst(findings)
<1>. HIDE DEF F, size, order
<1>4. \A x \in F : <<x, x>> \notin order
  BY <1>1, <1>2 DEF order
<1>5. \A x, y \in F : x # y => <<x, y>> \in order \/ <<y, x>> \in order
  BY <1>1, <1>2 DEF order
<1>6. ASSUME NEW x \in F, NEW y \in F, NEW z \in F, <<x, y>> \in order, <<y, z>> \in order
      PROVE  <<x, z>> \in order
  <2>1. /\ x \in Nat /\ size(x) \in Int /\ findings[x].start \in Nat
        /\ y \in Nat /\ size(y) \in Int /\ findings[y].start \in Nat
        /\ z \in Nat /\ size(z) \in Int /\ findings[z].start \in Nat
    BY <1>2
  <2>2. /\ Ahead(x, y) \/ (~Ahead(y, x) /\ x < y)
        /\ Ahead(y, z) \/ (~Ahead(z, y) /\ y < z)
    BY <1>1, <1>6 DEF order
  <2>3. Ahead(x, z) \/ (~Ahead(z, x) /\ x < z)
    BY <2>1, <2>2, SMTT(30)
  <2>. QED BY <1>1, <2>3 DEF order
<1>7. \A i, j \in F : <<i, j>> \in order => size(i) >= size(j)
  BY <1>1, <1>2 DEF order
<1>. QED BY <1>3, <1>4, <1>5, <1>6, <1>7 DEF IsStrictOrder, F, order

\* One step of resolve_findings.
Keep(findings, kept, i) ==
    IF \E k \in DOMAIN kept : Overlaps(kept[k], findings[i])
    THEN kept ELSE Append(kept, findings[i])

ResolveOrder(findings) == Listed(DOMAIN findings, LongestFirst(findings))

\* The order lists each finding once.
LEMMA ResolveOrderLists ==
    ASSUME NEW findings \in Seq(FindingType)
    PROVE  /\ ResolveOrder(findings) \in [1..Len(findings) -> 1..Len(findings)]
           /\ DOMAIN ResolveOrder(findings) = 1..Len(findings)
           /\ \A i \in 1..Len(findings) : \E n \in 1..Len(findings) : ResolveOrder(findings)[n] = i
           /\ \A m, n \in 1..Len(findings) : m < n =>
                 /\ ResolveOrder(findings)[m] # ResolveOrder(findings)[n]
                 /\ Size(findings[ResolveOrder(findings)[m]]) >= Size(findings[ResolveOrder(findings)[n]])
<1>. DEFINE N == Len(findings)
            F == DOMAIN findings
            before == LongestFirst(findings)
            order == Listed(F, before)
<1>1. N \in Nat /\ F = 1..N
  BY LenProperties
<1>2. IsFiniteSet(F) /\ Cardinality(F) = N
  BY <1>1, FS_Interval
<1>3. /\ IsStrictOrder(F, before)
      /\ \A i, j \in F : <<i, j>> \in before => Size(findings[i]) >= Size(findings[j])
  BY LongestFirstIsOrder
<1>4. order = ResolveOrder(findings)
  BY DEF ResolveOrder
<1>. HIDE DEF F, before, order
<1>5. /\ order \in [1..Cardinality(F) -> F]
      /\ \A x \in F : \E n \in 1..Cardinality(F) : order[n] = x
      /\ \A m, n \in 1..Cardinality(F) : m < n => <<order[m], order[n]>> \in before
  BY <1>2, <1>3, ListingInOrder DEF order
<1>. HIDE DEF N
<1>6. /\ order \in [1..N -> F]
      /\ \A x \in F : \E n \in 1..N : order[n] = x
      /\ \A m, n \in 1..N : m < n => <<order[m], order[n]>> \in before
  BY <1>2, <1>5
<1>7. \A m, n \in 1..N : m < n =>
         order[m] # order[n] /\ Size(findings[order[m]]) >= Size(findings[order[n]])
  BY <1>3, <1>6 DEF IsStrictOrder
<1>. QED BY <1>1, <1>4, <1>6, <1>7 DEF N

\* The fold of resolve_findings, step by step.
LEMMA ResolveSteps ==
    ASSUME NEW findings \in Seq(FindingType)
    PROVE  \E g \in [0..Len(findings) -> Seq(FindingType)] :
              /\ g[0] = <<>>
              /\ \A n \in 1..Len(findings) :
                    g[n] = Keep(findings, g[n - 1], ResolveOrder(findings)[n])
              /\ Resolve(findings) = g[Len(findings)]
<1>. DEFINE N == Len(findings)
            order == ResolveOrder(findings)
            S == Seq(FindingType)
            F == [n \in 1..N |-> [kept \in S |-> Keep(findings, kept, order[n])]]
<1>1. /\ N \in Nat
      /\ DOMAIN order = 1..N
      /\ \A n \in 1..N : order[n] \in 1..N /\ findings[order[n]] \in FindingType
  <2>1. N \in Nat /\ \A i \in 1..N : findings[i] \in FindingType
    BY LenProperties
  <2>2. DOMAIN order = 1..N /\ order \in [1..N -> 1..N]
    BY ResolveOrderLists
  <2>. HIDE DEF N, order
  <2>. QED BY <2>1, <2>2
<1>2. \A n \in 1..N : \A kept \in S : Keep(findings, kept, order[n]) \in S
  BY <1>1, AppendProperties DEF Keep
<1>3. AreFunctions(F, S, N)
  <2>. HIDE DEF N, order, S
  <2>. QED BY <1>2 DEF AreFunctions
<1>4. <<>> \in S
  BY EmptySeq
<1>. DEFINE IsIter(h) == h = [s \in SUBSET (1..N) |->
                                 IF s = {} THEN <<>> ELSE Keep(findings, h[s \ {Max(s)}], order[Max(s)])]
            iter == CHOOSE h : IsIter(h)
<1>5. Resolve(findings) = iter[1..N]
  <2>. HIDE DEF N
  <2>. QED BY <1>1 DEF Resolve, FoldLeft, MapThenFoldSet, Keep, ResolveOrder
<1>6. \E h : IsIter(h)
  <2>1. PICK h : IsFold(h, F, S, <<>>, N)
    <3>. HIDE DEF F, S, N
    <3>. QED BY <1>1, <1>3, <1>4, FoldExists
  <2>2. /\ h \in [SUBSET (1..N) -> S]
        /\ \A s \in SUBSET (1..N) : h[s] = IF s = {} THEN <<>> ELSE F[Max(s)][h[s \ {Max(s)}]]
    <3>. HIDE DEF F, S, N
    <3>. QED BY <2>1 DEF IsFold
  <2>3. ASSUME NEW s \in SUBSET (1..N), s # {}
        PROVE  h[s] = Keep(findings, h[s \ {Max(s)}], order[Max(s)])
    <3>1. s \ {Max(s)} \in SUBSET (1..N)
      OBVIOUS
    <3>2. h[s \ {Max(s)}] \in S
      BY <2>2, <3>1
    <3>3. Max(s) \in 1..N
      BY <1>1, <2>3, MaxIsMember
    <3>4. h[s] = F[Max(s)][h[s \ {Max(s)}]]
      BY <2>2, <2>3
    <3>. HIDE DEF N, order, S
    <3>. QED BY <3>2, <3>3, <3>4
  <2>. HIDE DEF F, N, order
  <2>. QED BY <2>2, <2>3
<1>7. IsIter(iter)
  <2>. HIDE DEF IsIter
  <2>. QED BY <1>6
<1>8. FollowsFold(iter, F, S, <<>>, N)
  <2>1. ASSUME NEW s \in SUBSET (1..N), s # {}, iter[s \ {Max(s)}] \in S
        PROVE  iter[s] = F[Max(s)][iter[s \ {Max(s)}]]
    <3>1. Max(s) \in 1..N
      BY <1>1, <2>1, MaxIsMember
    <3>2. iter[s] = Keep(findings, iter[s \ {Max(s)}], order[Max(s)])
      <4>. HIDE DEF iter
      <4>. QED BY <1>7, <2>1
    <3>. HIDE DEF iter, N, order, S
    <3>. QED BY <2>1, <3>1, <3>2
  <2>2. {} \in SUBSET (1..N) /\ iter[{}] = <<>>
    <3>. HIDE DEF iter
    <3>. QED BY <1>7
  <2>. HIDE DEF iter, F, S, N
  <2>. QED BY <2>1, <2>2 DEF FollowsFold
<1>9. PICK g : IsRun(g, F, S, <<>>, N) /\ iter[1..N] = g[N]
  <2>. HIDE DEF iter, F, S, N
  <2>. QED BY <1>1, <1>3, <1>4, <1>8, FoldIsRun
<1>10. g \in [0..N -> S] /\ g[0] = <<>> /\ \A n \in 1..N : g[n] = F[n][g[n - 1]]
  <2>. HIDE DEF F, S, N
  <2>. QED BY <1>9 DEF IsRun
<1>11. \A n \in 1..N : g[n] = Keep(findings, g[n - 1], order[n])
  <2>. SUFFICES ASSUME NEW n \in 1..N
                PROVE  g[n] = Keep(findings, g[n - 1], order[n])
    OBVIOUS
  <2>1. n - 1 \in 0..N
    BY <1>1
  <2>2. g[n - 1] \in S
    BY <1>10, <2>1
  <2>. HIDE DEF N, order, S
  <2>. QED BY <1>10, <2>2
<1>. HIDE DEF iter
<1>. QED BY <1>5, <1>9, <1>10, <1>11

\* resolve_findings keeps some of the findings, no two of which overlap, and
\* leaves out only what overlaps one that is kept and is at least as long.
LEMMA ResolveKeeps ==
    ASSUME NEW findings \in Seq(FindingType),
           \A i \in DOMAIN findings : findings[i].start < findings[i].end
    PROVE  /\ Resolve(findings) \in Seq(FindingType)
           /\ Len(Resolve(findings)) <= Len(findings)
           /\ \A k \in DOMAIN Resolve(findings) :
                 \E i \in DOMAIN findings : Resolve(findings)[k] = findings[i]
           /\ IsDisjoint(Resolve(findings))
           /\ \A i \in DOMAIN findings :
                 \/ \E k \in DOMAIN Resolve(findings) : Resolve(findings)[k] = findings[i]
                 \/ \E k \in DOMAIN Resolve(findings) :
                       /\ Size(Resolve(findings)[k]) >= Size(findings[i])
                       /\ Overlaps(Resolve(findings)[k], findings[i])
<1>. DEFINE N == Len(findings)
            F == DOMAIN findings
            order == ResolveOrder(findings)
<1>1. PICK g \in [0..N -> Seq(FindingType)] :
         /\ g[0] = <<>>
         /\ \A n \in 1..N : g[n] = Keep(findings, g[n - 1], order[n])
         /\ Resolve(findings) = g[N]
  BY ResolveSteps
<1>2. N \in Nat /\ F = 1..N
  BY LenProperties
<1>3. \A n \in F : findings[n] \in FindingType /\ findings[n].start < findings[n].end
  OBVIOUS
<1>4. /\ order \in [1..N -> 1..N]
      /\ \A i \in 1..N : \E n \in 1..N : order[n] = i
      /\ \A m, n \in 1..N : m < n => Size(findings[order[m]]) >= Size(findings[order[n]])
  BY ResolveOrderLists
<1>. DEFINE From(kept, n) == \A k \in DOMAIN kept : \E m \in 1..n : kept[k] = findings[order[m]]
            Taken(kept, i) ==
               \/ \E k \in DOMAIN kept : kept[k] = findings[i]
               \/ \E k \in DOMAIN kept : /\ Size(kept[k]) >= Size(findings[i])
                                         /\ Overlaps(kept[k], findings[i])
            Good(n) == /\ Len(g[n]) <= n
                       /\ From(g[n], n)
                       /\ IsDisjoint(g[n])
                       /\ \A m \in 1..n : Taken(g[n], order[m])
<1>. HIDE DEF N, F, order
<1>5. Good(0)
  BY <1>1, <1>2 DEF IsDisjoint
<1>6. ASSUME NEW n \in 0..N, n < N, Good(n)
      PROVE  Good(n + 1)
  <2>. DEFINE kept == g[n]
              i == order[n + 1]
  <2>1. n \in Nat /\ n + 1 \in 1..N /\ (n + 1) - 1 = n /\ 1..(n + 1) = (1..n) \cup {n + 1}
    BY <1>2, <1>6
  <2>2. kept \in Seq(FindingType) /\ g[n + 1] = Keep(findings, kept, i)
    BY <1>1, <2>1
  <2>3. i \in F /\ findings[i] \in FindingType
    BY <1>2, <1>3, <1>4, <2>1
  <2>4. ASSUME NEW k \in DOMAIN kept
        PROVE  kept[k] \in FindingType /\ Size(kept[k]) >= Size(findings[i])
    <3>1. PICK m \in 1..n : kept[k] = findings[order[m]]
      BY <1>6
    <3>2. m \in 1..N /\ m < n + 1
      BY <1>2, <2>1
    <3>. QED BY <1>2, <1>3, <1>4, <2>1, <3>1, <3>2
  <2>5. CASE \E k \in DOMAIN kept : Overlaps(kept[k], findings[i])
    <3>1. g[n + 1] = kept
      BY <2>2, <2>5 DEF Keep
    <3>2. Taken(kept, i)
      BY <2>4, <2>5
    <3>3. Len(kept) <= n + 1
      <4>1. Len(kept) \in Nat /\ Len(kept) <= n
        BY <1>6, <2>2, LenProperties
      <4>. QED BY <2>1, <4>1
    <3>4. From(kept, n + 1)
      BY <1>6, <2>1
    <3>5. \A m \in 1..(n + 1) : Taken(kept, order[m])
      <4>. HIDE DEF Taken
      <4>. QED BY <1>6, <2>1, <3>2
    <3>6. IsDisjoint(kept)
      BY <1>6
    <3>. HIDE DEF From, Taken, kept
    <3>. QED BY <3>1, <3>3, <3>4, <3>5, <3>6
  <2>6. CASE ~ \E k \in DOMAIN kept : Overlaps(kept[k], findings[i])
    <3>. DEFINE next == Append(kept, findings[i])
    <3>1. g[n + 1] = next
      BY <2>2, <2>6 DEF Keep
    <3>2. /\ Len(kept) \in Nat /\ DOMAIN kept = 1..Len(kept)
          /\ DOMAIN next = 1..(Len(kept) + 1) /\ Len(next) = Len(kept) + 1
          /\ \A k \in DOMAIN kept : next[k] = kept[k]
          /\ next[Len(kept) + 1] = findings[i]
      BY <2>2, <2>3, LenProperties, AppendProperties
    <3>3. \A k \in DOMAIN next : k \in DOMAIN kept \/ k = Len(kept) + 1
      BY <3>2
    <3>4. \A k \in DOMAIN kept : k \in DOMAIN next
      BY <3>2
    <3>5. Len(kept) + 1 \in DOMAIN next
      BY <3>2
    <3>. HIDE DEF next
    <3>6. Len(next) <= n + 1
      BY <1>6, <2>1, <3>2
    <3>7. From(next, n + 1)
      BY <1>6, <2>1, <3>2, <3>3
    <3>8. ASSUME NEW k \in DOMAIN kept
          PROVE  Disjoint(kept[k], findings[i]) /\ Disjoint(findings[i], kept[k])
      <4>1. kept[k].start \in Nat /\ kept[k].end \in Nat
            /\ findings[i].start \in Nat /\ findings[i].end \in Nat
        BY <2>3, <2>4 DEF FindingType
      <4>. QED BY <2>6, <4>1, SMTT(30) DEF Overlaps, Disjoint
    <3>9. IsDisjoint(next)
      BY <1>6, <3>2, <3>3, <3>8 DEF IsDisjoint
    <3>10. \A m \in 1..n : Taken(next, order[m])
      BY <1>6, <3>2, <3>4
    <3>11. Taken(next, i)
      BY <3>2, <3>5
    <3>. QED BY <2>1, <3>1, <3>6, <3>7, <3>9, <3>10, <3>11
  <2>. QED BY <2>5, <2>6
<1>7. Good(N)
  <2>. DEFINE All == {n \in 0..N : Good(n)}
  <2>. HIDE DEF Good
  <2>1. 0 \in All
    BY <1>2, <1>5
  <2>2. \A n \in 0..N : n < N /\ n \in All => n + 1 \in All
    BY <1>2, <1>6
  <2>3. 0..N \subseteq All
    <3>. HIDE DEF All
    <3>. QED BY <1>2, <2>1, <2>2, UpTo
  <2>. QED BY <1>2, <2>3
<1>8. \A k \in DOMAIN g[N] : \E i \in F : g[N][k] = findings[i]
  BY <1>2, <1>4, <1>7
<1>9. \A i \in F : Taken(g[N], i)
  <2>1. \A m \in 1..N : Taken(g[N], order[m])
    BY <1>7
  <2>. HIDE DEF Taken
  <2>. QED BY <1>2, <1>4, <2>1
<1>10. g[N] \in Seq(FindingType)
  BY <1>1, <1>2
<1>. HIDE DEF From
<1>. QED BY <1>1, <1>7, <1>8, <1>9, <1>10 DEF N, F

-----------------------------------------------------------------------------
(* Splicing replacements into a text. *)

\* The findings a text is anonymized by.
AreKept(findings, text) ==
    /\ findings \in Seq(FindingType)
    /\ IsBounded(findings)
    /\ AreSpans(findings, text)
    /\ IsDisjoint(findings)

LEMMA SliceType ==
    ASSUME NEW text \in Seq(Symbol), NEW start \in Nat, NEW end \in Nat
    PROVE  Slice(text, start, end) \in Seq(Symbol)
<1>. DEFINE last == IF end <= Len(text) THEN end ELSE Len(text)
<1>1. /\ Len(text) \in Nat /\ \A i \in 1..Len(text) : text[i] \in Symbol
      /\ start + 1 \in Int /\ last \in Int
      /\ \A i \in (start + 1)..last : i \in 1..Len(text)
  BY LenProperties
<1>2. Slice(text, start, end) = SubSeq(text, start + 1, last)
  BY DEF Slice
<1>. HIDE DEF last
<1>. QED BY <1>1, <1>2, SubSeqProperties

\* A finding is replaced by its token or by its redaction; only the former is
\* a token, and it tells the finding from every other one.
LEMMA ReplacementType ==
    ASSUME NEW c \in Call, NEW findings \in Seq(FindingType), IsBounded(findings),
           NEW k \in DOMAIN findings
    PROVE  /\ TokenOf(c, k) \in UuidToken
           /\ Replacement(c, findings, k) \in Symbol
           /\ Replacement(c, findings, k) \in UuidToken <=> findings[k].action = "tokenize"
           /\ Replacement(c, findings, k) \in UuidToken => Replacement(c, findings, k) = TokenOf(c, k)
<1>1. k \in Index /\ 1 \in Index
  <2>1. DOMAIN findings = 1..Len(findings) /\ Len(findings) \in Nat
    BY LenProperties
  <2>2. 1 \in DOMAIN findings
    BY <2>1
  <2>. QED BY <2>2 DEF IsBounded
<1>2. findings[k] \in FindingType
  OBVIOUS
<1>3. findings[k].type \in STRING
  BY <1>2 DEF FindingType
<1>4. TokenOf(c, k) \in UuidToken
  BY <1>1 DEF TokenOf, UuidToken, Position
<1>5. [redacted |-> findings[k].type] \in Redaction
  BY <1>3 DEF Redaction
<1>6. [redacted |-> findings[k].type] \notin UuidToken
  BY DEF UuidToken
<1>. QED BY <1>4, <1>5, <1>6 DEF Replacement, Symbol

ReplaceOrder(findings) == Listed(DOMAIN findings, SpliceOrder(findings))

\* The order lists each finding once, the ones further right first.
LEMMA ReplaceOrderLists ==
    ASSUME NEW findings, NEW text, AreKept(findings, text)
    PROVE  /\ ReplaceOrder(findings) \in [1..Len(findings) -> 1..Len(findings)]
           /\ DOMAIN ReplaceOrder(findings) = 1..Len(findings)
           /\ \A i \in 1..Len(findings) : \E n \in 1..Len(findings) : ReplaceOrder(findings)[n] = i
           /\ \A m, n \in 1..Len(findings) : m < n =>
                 findings[ReplaceOrder(findings)[n]].end <= findings[ReplaceOrder(findings)[m]].start
<1>. DEFINE N == Len(findings)
            F == DOMAIN findings
            before == SpliceOrder(findings)
            order == Listed(F, before)
<1>1. N \in Nat /\ F = 1..N
  BY LenProperties DEF AreKept
<1>2. IsFiniteSet(F) /\ Cardinality(F) = N
  <2>. HIDE DEF N, F
  <2>. QED BY <1>1, FS_Interval
<1>3. \A i, j \in F : <<i, j>> \in before <=> findings[i].start > findings[j].start
  BY DEF SpliceOrder
<1>4. ASSUME NEW i \in F
      PROVE  /\ findings[i].start \in Nat /\ findings[i].end \in Nat
             /\ findings[i].start < findings[i].end
  <2>1. findings[i] \in FindingType /\ findings[i].start < findings[i].end
    BY DEF AreKept, AreSpans
  <2>. QED BY <2>1 DEF FindingType
<1>5. \A i, j \in F : i # j =>
         findings[i].end <= findings[j].start \/ findings[j].end <= findings[i].start
  BY DEF AreKept, IsDisjoint, Disjoint
<1>. HIDE DEF F, before
<1>6. IsStrictOrder(F, before)
  <2>1. \A x \in F : <<x, x>> \notin before
    BY <1>3, <1>4
  <2>2. \A x, y \in F : x # y => <<x, y>> \in before \/ <<y, x>> \in before
    BY <1>3, <1>4, <1>5
  <2>3. \A x, y, z \in F : <<x, y>> \in before /\ <<y, z>> \in before => <<x, z>> \in before
    BY <1>3, <1>4
  <2>. QED BY <2>1, <2>2, <2>3 DEF IsStrictOrder
<1>7. \A i, j \in F : <<i, j>> \in before => findings[j].end <= findings[i].start
  <2>. SUFFICES ASSUME NEW i \in F, NEW j \in F, <<i, j>> \in before
                PROVE  findings[j].end <= findings[i].start
    OBVIOUS
  <2>1. findings[i].start > findings[j].start
    BY <1>3
  <2>2. /\ findings[i].start \in Nat /\ findings[i].end \in Nat
        /\ findings[j].start \in Nat /\ findings[j].end \in Nat
        /\ findings[i].start < findings[i].end
    BY <1>4
  <2>3. i # j
    BY <2>1, <2>2
  <2>. QED BY <1>5, <2>1, <2>2, <2>3
<1>8. order = ReplaceOrder(findings)
  BY DEF ReplaceOrder, F, before
<1>9. /\ order \in [1..Cardinality(F) -> F]
      /\ \A x \in F : \E n \in 1..Cardinality(F) : order[n] = x
      /\ \A m, n \in 1..Cardinality(F) : m < n => <<order[m], order[n]>> \in before
  BY <1>2, <1>6, ListingInOrder
<1>. HIDE DEF N, order
<1>10. /\ order \in [1..N -> F]
       /\ \A x \in F : \E n \in 1..N : order[n] = x
       /\ \A m, n \in 1..N : m < n => <<order[m], order[n]>> \in before
  BY <1>2, <1>9
<1>11. \A m, n \in 1..N : m < n => findings[order[n]].end <= findings[order[m]].start
  BY <1>7, <1>10
<1>. QED BY <1>1, <1>8, <1>10, <1>11 DEF N

\* One step of apply_transformations.
Splice(c, findings, result, k) ==
    Slice(result, 0, findings[k].start)
    \o <<Replacement(c, findings, k)>>
    \o Slice(result, findings[k].end, Len(result))

LEMMA SpliceType ==
    ASSUME NEW c \in Call, NEW findings, NEW text, AreKept(findings, text),
           NEW result \in Seq(Symbol), NEW k \in DOMAIN findings
    PROVE  Splice(c, findings, result, k) \in Seq(Symbol)
<1>. DEFINE start == findings[k].start
            end == findings[k].end
            piece == Replacement(c, findings, k)
            length == Len(result)
<1>1. start \in Nat /\ end \in Nat
  <2>1. findings[k] \in FindingType
    BY DEF AreKept, AreSpans
  <2>. QED BY <2>1 DEF FindingType
<1>2. length \in Nat
  BY LenProperties
<1>3. piece \in Symbol
  BY ReplacementType DEF AreKept
<1>. HIDE DEF start, end, piece, length
<1>4. /\ Slice(result, 0, start) \in Seq(Symbol)
      /\ Slice(result, end, length) \in Seq(Symbol)
      /\ <<piece>> \in Seq(Symbol)
  <2>1. Slice(result, 0, start) \in Seq(Symbol)
    BY <1>1, SliceType
  <2>2. Slice(result, end, length) \in Seq(Symbol)
    BY <1>1, <1>2, SliceType
  <2>3. <<piece>> \in Seq(Symbol)
    BY <1>3
  <2>. QED BY <2>1, <2>2, <2>3
<1>. DEFINE a == Slice(result, 0, start)
            b == Slice(result, end, length)
<1>5. (a \o <<piece>>) \o b \in Seq(Symbol)
  <2>1. a \in Seq(Symbol) /\ b \in Seq(Symbol)
    BY <1>4
  <2>. HIDE DEF a, b
  <2>2. a \o <<piece>> \in Seq(Symbol)
    BY <1>4, <2>1, ConcatProperties
  <2>. QED BY <2>1, <2>2, ConcatProperties
<1>. QED BY <1>5 DEF Splice, start, end, piece, length

\* The fold of apply_transformations, step by step.
LEMMA TransformedSteps ==
    ASSUME NEW c \in Call, NEW text \in Seq(Symbol), NEW findings, AreKept(findings, text)
    PROVE  \E g \in [0..Len(findings) -> Seq(Symbol)] :
              /\ g[0] = text
              /\ \A n \in 1..Len(findings) :
                    g[n] = Splice(c, findings, g[n - 1], ReplaceOrder(findings)[n])
              /\ Transformed(c, text, findings) = g[Len(findings)]
<1>. DEFINE N == Len(findings)
            order == ReplaceOrder(findings)
            S == Seq(Symbol)
            F == [n \in 1..N |-> [result \in S |-> Splice(c, findings, result, order[n])]]
<1>1. /\ N \in Nat
      /\ DOMAIN order = 1..N
      /\ \A n \in 1..N : order[n] \in DOMAIN findings
  <2>1. N \in Nat /\ DOMAIN findings = 1..N
    BY LenProperties DEF AreKept
  <2>2. DOMAIN order = 1..N /\ order \in [1..N -> 1..N]
    BY ReplaceOrderLists
  <2>. HIDE DEF N, order
  <2>. QED BY <2>1, <2>2
<1>2. \A n \in 1..N : \A result \in S : Splice(c, findings, result, order[n]) \in S
  BY <1>1, SpliceType
<1>3. AreFunctions(F, S, N)
  <2>. HIDE DEF N, order, S
  <2>. QED BY <1>2 DEF AreFunctions
<1>4. text \in S
  OBVIOUS
<1>. DEFINE IsIter(h) == h = [s \in SUBSET (1..N) |->
                                 IF s = {} THEN text ELSE Splice(c, findings, h[s \ {Max(s)}], order[Max(s)])]
            iter == CHOOSE h : IsIter(h)
<1>5. Transformed(c, text, findings) = iter[1..N]
  <2>. HIDE DEF N
  <2>. QED BY <1>1 DEF Transformed, FoldLeft, MapThenFoldSet, Splice, ReplaceOrder
<1>6. \E h : IsIter(h)
  <2>1. PICK h : IsFold(h, F, S, text, N)
    <3>. HIDE DEF F, S, N
    <3>. QED BY <1>1, <1>3, <1>4, FoldExists
  <2>2. /\ h \in [SUBSET (1..N) -> S]
        /\ \A s \in SUBSET (1..N) : h[s] = IF s = {} THEN text ELSE F[Max(s)][h[s \ {Max(s)}]]
    <3>. HIDE DEF F, S, N
    <3>. QED BY <2>1 DEF IsFold
  <2>3. ASSUME NEW s \in SUBSET (1..N), s # {}
        PROVE  h[s] = Splice(c, findings, h[s \ {Max(s)}], order[Max(s)])
    <3>1. s \ {Max(s)} \in SUBSET (1..N)
      OBVIOUS
    <3>2. h[s \ {Max(s)}] \in S
      BY <2>2, <3>1
    <3>3. Max(s) \in 1..N
      BY <1>1, <2>3, MaxIsMember
    <3>4. h[s] = F[Max(s)][h[s \ {Max(s)}]]
      BY <2>2, <2>3
    <3>. HIDE DEF N, order, S
    <3>. QED BY <3>2, <3>3, <3>4
  <2>. HIDE DEF F, N, order
  <2>. QED BY <2>2, <2>3
<1>7. IsIter(iter)
  <2>. HIDE DEF IsIter
  <2>. QED BY <1>6
<1>8. FollowsFold(iter, F, S, text, N)
  <2>1. ASSUME NEW s \in SUBSET (1..N), s # {}, iter[s \ {Max(s)}] \in S
        PROVE  iter[s] = F[Max(s)][iter[s \ {Max(s)}]]
    <3>1. Max(s) \in 1..N
      BY <1>1, <2>1, MaxIsMember
    <3>2. iter[s] = Splice(c, findings, iter[s \ {Max(s)}], order[Max(s)])
      <4>. HIDE DEF iter
      <4>. QED BY <1>7, <2>1
    <3>. HIDE DEF iter, N, order, S
    <3>. QED BY <2>1, <3>1, <3>2
  <2>2. {} \in SUBSET (1..N) /\ iter[{}] = text
    <3>. HIDE DEF iter
    <3>. QED BY <1>7
  <2>. HIDE DEF iter, F, S, N
  <2>. QED BY <2>1, <2>2 DEF FollowsFold
<1>9. PICK g : IsRun(g, F, S, text, N) /\ iter[1..N] = g[N]
  <2>. HIDE DEF iter, F, S, N
  <2>. QED BY <1>1, <1>3, <1>4, <1>8, FoldIsRun
<1>10. g \in [0..N -> S] /\ g[0] = text /\ \A n \in 1..N : g[n] = F[n][g[n - 1]]
  <2>. HIDE DEF F, S, N
  <2>. QED BY <1>9 DEF IsRun
<1>11. \A n \in 1..N : g[n] = Splice(c, findings, g[n - 1], order[n])
  <2>. SUFFICES ASSUME NEW n \in 1..N
                PROVE  g[n] = Splice(c, findings, g[n - 1], order[n])
    OBVIOUS
  <2>1. n - 1 \in 0..N
    BY <1>1
  <2>2. g[n - 1] \in S
    BY <1>10, <2>1
  <2>. HIDE DEF N, order, S
  <2>. QED BY <1>10, <2>2
<1>. HIDE DEF iter
<1>. QED BY <1>5, <1>9, <1>10, <1>11

LEMMA Regrouped ==
    ASSUME NEW A, NEW a \in Seq(A), NEW b \in Seq(A), NEW m \in Seq(A), NEW t \in Seq(A)
    PROVE  (a \o b) \o (m \o t) = a \o ((b \o m) \o t)
<1>. DEFINE mt == m \o t
            bm == b \o m
<1>1. mt \in Seq(A) /\ bm \in Seq(A)
  BY ConcatProperties
<1>2. b \o (m \o t) = (b \o m) \o t
  BY ConcatAssociative, SMTT(30)
<1>. HIDE DEF mt, bm
<1>3. (a \o b) \o mt = a \o (b \o mt)
  BY <1>1, ConcatAssociative, SMTT(30)
<1>. QED BY <1>2, <1>3 DEF mt, bm

\* A finding from s to e is spliced into a text that is unchanged up to b.
IsSplice(A, text, P, b, e, s, x, result) ==
    /\ text \in Seq(A) /\ P \in Seq(Seq(A)) /\ Len(P) = Len(text)
    /\ b \in 0..Len(text) /\ e \in 0..b /\ s \in 0..(e - 1)
    /\ x \in A /\ P[s + 1] = <<x>>
    /\ \A i \in (s + 2)..e : P[i] = <<>>
    /\ \A i \in (e + 1)..b : P[i] = <<text[i]>>
    /\ result = SubSeq(text, 1, b) \o Joined(P, b + 1, Len(text))

MovesBound(text, P, e, s, x, result) ==
    Slice(result, 0, s) \o <<x>> \o Slice(result, e, Len(result))
        = SubSeq(text, 1, s) \o Joined(P, s + 1, Len(text))

\* One splice: the text up to a place and pieces from there on become the text
\* up to the finding and pieces from there on.
LEMMA SpliceIntoPieces ==
    ASSUME NEW A, NEW text, NEW P, NEW b, NEW e, NEW s, NEW x, NEW result,
           IsSplice(A, text, P, b, e, s, x, result)
    PROVE  MovesBound(text, P, e, s, x, result)
<1>. USE DEF IsSplice, MovesBound
<1>. DEFINE L    == Len(text)
            head == SubSeq(text, 1, b)
            tail == Joined(P, b + 1, L)
            mid  == SubSeq(text, e + 1, b)
            left == SubSeq(text, 1, s)
            one  == <<x>>
<1>0. P \in Seq(Seq(A))
  OBVIOUS
<1>1. L \in Nat /\ s \in Nat /\ e \in Nat /\ b \in Nat /\ s < e /\ e <= b /\ b <= L
  BY LenProperties
<1>2. head \in Seq(A) /\ Len(head) = b
  <2>1. 1 \in 1..(Len(text) + 1) /\ b \in (1 - 1)..Len(text) /\ (b - 1) + 1 = b
    BY <1>1
  <2>. QED BY <2>1, PartOfLists
<1>3. /\ Joined(P, s + 1, L) = Joined(P, s + 1, b) \o tail
      /\ tail \in Seq(A)
  <2>. DEFINE m == s + 1
  <2>1. m \in 1..(Len(P) + 1) /\ b \in (m - 1)..Len(P) /\ L \in b..Len(P)
    BY <1>1
  <2>. HIDE DEF m, L
  <2>3. Joined(P, m, L) = Joined(P, m, b) \o Joined(P, b + 1, L) /\ Joined(P, b + 1, L) \in Seq(A)
    BY ONLY <1>0, <2>1, JoinedAdjacent, ZenonT(40)
  <2>. QED BY <2>3 DEF m
<1>4. Joined(P, s + 1, b) = Joined(P, s + 1, e) \o mid
  <2>. DEFINE m == s + 1
              k == e + 1
  <2>1. m \in 1..(Len(P) + 1) /\ e \in (m - 1)..Len(P) /\ b \in e..Len(P)
        /\ k \in 1..(Len(P) + 1) /\ b \in (k - 1)..Len(P)
    BY <1>1
  <2>2. \A i \in k..b : P[i] = <<text[i]>>
    OBVIOUS
  <2>. HIDE DEF m, k
  <2>3. Joined(P, m, b) = Joined(P, m, e) \o Joined(P, e + 1, b)
    BY ONLY <1>0, <2>1, JoinedAdjacent, ZenonT(40)
  <2>4. Joined(P, k, b) = SubSeq(text, k, b)
    BY <2>1, <2>2, JoinedSingles
  <2>. QED BY <2>3, <2>4 DEF m, k
<1>5. Joined(P, s + 1, e) = one
  <2>. DEFINE m == s + 1
              k == m + 1
              y == Joined(P, m, m)
  <2>1. m \in 1..(Len(P) + 1) /\ m \in (m - 1)..Len(P) /\ e \in m..Len(P) /\ m \in 1..Len(P)
        /\ k \in 1..(Len(P) + 1) /\ e \in (k - 1)..Len(P)
    BY <1>1
  <2>2. \A i \in k..e : P[i] = <<>>
    <3>1. k = s + 2
      BY <1>1
    <3>. QED BY <3>1
  <2>3. P[m] = one
    OBVIOUS
  <2>. HIDE DEF m, k, one
  <2>4. Joined(P, m, e) = Joined(P, m, m) \o Joined(P, m + 1, e) /\ Joined(P, m, m) \in Seq(A)
    BY ONLY <1>0, <2>1, JoinedAdjacent, ZenonT(40)
  <2>5. Joined(P, k, e) = <<>>
    BY <2>1, <2>2, JoinedEmpties
  <2>6. Joined(P, m, m) = one
    BY <2>1, <2>3, JoinedFew
  <2>7. y \o <<>> = y
    <3>1. y \in Seq(A)
      BY <2>4
    <3>. HIDE DEF y
    <3>. QED BY <3>1, ConcatEmptySeq
  <2>. QED BY <2>4, <2>5, <2>6, <2>7 DEF m, k
<1>6. Joined(P, s + 1, L) = (one \o mid) \o tail
  BY <1>3, <1>4, <1>5
<1>7. Slice(result, 0, s) = left
  <2>1. SubSeq(result, 1, s) = SubSeq(head, 1, s)
    <3>1. s \in 0..Len(head)
      BY <1>1, <1>2
    <3>. HIDE DEF head, tail
    <3>. QED BY <1>2, <1>3, <3>1, ConcatSplit DEF head, tail
  <2>2. SubSeq(head, 1, s) = left
    <3>1. 1 \in 1..(b + 1) /\ s \in (1 - 1)..b
      BY <1>1
    <3>. QED BY <3>1, PartOfBeginning
  <2>3. Len(result) \in Nat /\ s <= Len(result) /\ 0 + 1 = 1
    <3>1. Len(head \o tail) = Len(head) + Len(tail) /\ Len(tail) \in Nat
      <4>. HIDE DEF head, tail
      <4>. QED BY <1>2, <1>3, ConcatProperties, LenProperties
    <3>2. result = head \o tail
      OBVIOUS
    <3>. HIDE DEF head, tail
    <3>. QED BY <1>1, <1>2, <3>1, <3>2
  <2>. QED BY <2>1, <2>2, <2>3 DEF Slice
<1>8. Slice(result, e, Len(result)) = mid \o tail
  <2>1. SubSeq(result, e + 1, Len(result)) = SubSeq(head, e + 1, b) \o tail
    <3>1. e \in 0..Len(head)
      BY <1>1, <1>2
    <3>2. result = head \o tail
      OBVIOUS
    <3>. HIDE DEF head, tail
    <3>3. SubSeq(head \o tail, e + 1, Len(head \o tail)) = SubSeq(head, e + 1, Len(head)) \o tail
      BY <1>2, <1>3, <3>1, ConcatSplit
    <3>. QED BY <1>2, <3>2, <3>3
  <2>2. SubSeq(head, e + 1, b) = mid
    <3>. DEFINE k == e + 1
    <3>1. k \in 1..(b + 1) /\ b \in (k - 1)..b
      BY <1>1
    <3>. HIDE DEF k
    <3>2. SubSeq(SubSeq(text, 1, b), k, b) = SubSeq(text, k, b)
      BY <3>1, PartOfBeginning
    <3>. QED BY <3>2 DEF k
  <2>. QED BY <2>1, <2>2 DEF Slice
<1>9. mid \in Seq(A) /\ left \in Seq(A) /\ one \in Seq(A)
  <2>1. mid \in Seq(A)
    <3>. DEFINE k == e + 1
    <3>1. k \in 1..(Len(text) + 1) /\ b \in (k - 1)..Len(text)
      BY <1>1
    <3>. HIDE DEF k
    <3>2. SubSeq(text, k, b) \in Seq(A)
      BY <3>1, PartOfLists
    <3>. QED BY <3>2 DEF k
  <2>2. left \in Seq(A)
    <3>1. 1 \in 1..(Len(text) + 1) /\ s \in (1 - 1)..Len(text)
      BY <1>1
    <3>. QED BY <3>1, PartOfLists
  <2>3. one \in Seq(A)
    OBVIOUS
  <2>. QED BY <2>1, <2>2, <2>3
<1>. HIDE DEF mid, left, one, tail, L
<1>10. (left \o one) \o (mid \o tail) = left \o ((one \o mid) \o tail)
  <2>1. tail \in Seq(A)
    BY <1>3
  <2>. QED BY ONLY <1>9, <2>1, Regrouped, SMTT(40)
<1>. QED BY <1>6, <1>7, <1>8, <1>10 DEF one, left, L

\* What becomes of each place of a text.
Covering(findings, i) ==
    {k \in DOMAIN findings : findings[k].start < i /\ i <= findings[k].end}

PieceAt(c, text, findings, i) ==
    IF Covering(findings, i) = {} THEN <<text[i]>>
    ELSE LET k == CHOOSE j \in Covering(findings, i) : TRUE
         IN  IF findings[k].start + 1 = i THEN <<Replacement(c, findings, k)>> ELSE <<>>

Pieces(c, text, findings) == [i \in DOMAIN text |-> PieceAt(c, text, findings, i)]

LEMMA SpanBounds ==
    ASSUME NEW text \in Seq(Symbol), NEW findings, AreKept(findings, text), NEW k \in DOMAIN findings
    PROVE  /\ findings[k].start \in Nat /\ findings[k].end \in Nat
           /\ findings[k].start < findings[k].end /\ findings[k].end <= Len(text)
           /\ Len(text) \in Nat
<1>1. findings[k] \in FindingType /\ findings[k].start < findings[k].end /\ findings[k].end <= Len(text)
  BY DEF AreKept, AreSpans
<1>2. Len(text) \in Nat
  BY LenProperties
<1>. QED BY <1>1, <1>2 DEF FindingType

\* No place is of two findings.
LEMMA PieceOfFinding ==
    ASSUME NEW c, NEW text \in Seq(Symbol), NEW findings, AreKept(findings, text),
           NEW k \in DOMAIN findings, NEW i \in Nat,
           findings[k].start < i, i <= findings[k].end
    PROVE  /\ Covering(findings, i) = {k}
           /\ PieceAt(c, text, findings, i) =
                 IF findings[k].start + 1 = i THEN <<Replacement(c, findings, k)>> ELSE <<>>
<1>1. ASSUME NEW j \in Covering(findings, i)
      PROVE  j = k
  <2>1. j \in DOMAIN findings /\ findings[j].start < i /\ i <= findings[j].end
    BY DEF Covering
  <2>2. /\ findings[j].start \in Nat /\ findings[j].end \in Nat
        /\ findings[k].start \in Nat /\ findings[k].end \in Nat
    BY <2>1, SpanBounds
  <2>3. j # k => findings[j].end <= findings[k].start \/ findings[k].end <= findings[j].start
    BY <2>1 DEF AreKept, IsDisjoint, Disjoint
  <2>. QED BY <2>1, <2>2, <2>3
<1>2. k \in Covering(findings, i)
  BY DEF Covering
<1>3. Covering(findings, i) = {k}
  BY <1>1, <1>2
<1>4. (CHOOSE j \in {k} : TRUE) = k
  OBVIOUS
<1>. QED BY <1>3, <1>4 DEF PieceAt

LEMMA PiecesType ==
    ASSUME NEW c \in Call, NEW text \in Seq(Symbol), NEW findings, AreKept(findings, text)
    PROVE  /\ Pieces(c, text, findings) \in Seq(Seq(Symbol))
           /\ Len(Pieces(c, text, findings)) = Len(text)
           /\ DOMAIN Pieces(c, text, findings) = 1..Len(text)
           /\ \A i \in 1..Len(text) :
                 /\ Pieces(c, text, findings)[i] \in Seq(Symbol)
                 /\ Pieces(c, text, findings)[i] = PieceAt(c, text, findings, i)
                 /\ Pieces(c, text, findings)[i] = <<>>
                       \/ \E x \in Symbol : Pieces(c, text, findings)[i] = <<x>>
<1>. DEFINE L == Len(text)
            P == Pieces(c, text, findings)
<1>1. L \in Nat /\ DOMAIN text = 1..L /\ \A i \in 1..L : text[i] \in Symbol
  BY LenProperties
<1>2. DOMAIN P = 1..L /\ P = [i \in 1..L |-> PieceAt(c, text, findings, i)]
      /\ \A i \in 1..L : P[i] = PieceAt(c, text, findings, i)
  BY <1>1 DEF Pieces
<1>3. \A k \in DOMAIN findings : Replacement(c, findings, k) \in Symbol
  BY ReplacementType DEF AreKept
<1>. HIDE DEF P, L
<1>4. ASSUME NEW i \in 1..L
      PROVE  P[i] = <<>> \/ \E x \in Symbol : P[i] = <<x>>
  <2>1. CASE Covering(findings, i) = {}
    BY <1>1, <1>2, <2>1 DEF PieceAt
  <2>2. CASE Covering(findings, i) # {}
    <3>1. PICK k \in DOMAIN findings : findings[k].start < i /\ i <= findings[k].end
      BY <2>2 DEF Covering
    <3>2. i \in Nat
      BY <1>1
    <3>3. PieceAt(c, text, findings, i) =
             IF findings[k].start + 1 = i THEN <<Replacement(c, findings, k)>> ELSE <<>>
      BY <3>1, <3>2, PieceOfFinding
    <3>. QED BY <1>2, <1>3, <3>3
  <2>. QED BY <2>1, <2>2
<1>5. ASSUME NEW i \in 1..L
      PROVE  P[i] \in Seq(Symbol)
  <2>1. <<>> \in Seq(Symbol)
    BY EmptySeq
  <2>2. \A x \in Symbol : <<x>> \in Seq(Symbol)
    OBVIOUS
  <2>. QED BY <1>4, <2>1, <2>2
<1>6. P \in [1..L -> Seq(Symbol)]
  BY <1>2, <1>5
<1>7. P \in Seq(Seq(Symbol)) /\ Len(P) = L
  BY <1>1, <1>6, IsASeq, LenProperties
<1>. QED BY <1>2, <1>4, <1>5, <1>7 DEF P, L

\* Left of the last finding spliced in, up to which the text is unchanged.
SpliceBound(text, findings, n) ==
    IF n = 0 THEN Len(text) ELSE findings[ReplaceOrder(findings)[n]].start

\* The n-th splice is left of the ones before, and no finding is in between.
LEMMA SpliceBounds ==
    ASSUME NEW c \in Call, NEW text \in Seq(Symbol), NEW findings, AreKept(findings, text)
    PROVE  /\ \A n \in 0..Len(findings) : SpliceBound(text, findings, n) \in 0..Len(text)
           /\ \A n \in 1..Len(findings) :
                 LET k == ReplaceOrder(findings)[n]
                 IN  /\ k \in DOMAIN findings
                     /\ SpliceBound(text, findings, n) = findings[k].start
                     /\ findings[k].end <= SpliceBound(text, findings, n - 1)
                     /\ \A i \in (findings[k].end + 1)..SpliceBound(text, findings, n - 1) :
                           Covering(findings, i) = {}
           /\ \A i \in 1..SpliceBound(text, findings, Len(findings)) : Covering(findings, i) = {}
<1>. DEFINE N == Len(findings)
            L == Len(text)
            order == ReplaceOrder(findings)
            start(n) == findings[order[n]].start
            end(n) == findings[order[n]].end
            bound(n) == SpliceBound(text, findings, n)
<1>1. /\ N \in Nat /\ DOMAIN findings = 1..N /\ L \in Nat
  BY LenProperties DEF AreKept
<1>2. /\ order \in [1..N -> 1..N]
      /\ \A i \in 1..N : \E n \in 1..N : order[n] = i
      /\ \A m, n \in 1..N : m < n => end(n) <= start(m)
  BY ReplaceOrderLists
<1>3. ASSUME NEW n \in 1..N
      PROVE  start(n) \in Nat /\ end(n) \in Nat /\ start(n) < end(n) /\ end(n) <= L
  <2>1. order[n] \in DOMAIN findings
    BY <1>1, <1>2
  <2>. HIDE DEF order
  <2>. QED BY <2>1, SpanBounds
<1>4. bound(0) = L /\ \A n \in 1..N : bound(n) = start(n)
  BY <1>1 DEF SpliceBound
<1>5. \A i : \A k \in DOMAIN findings : k \in Covering(findings, i) =>
         \E m \in 1..N : order[m] = k /\ start(m) < i /\ i <= end(m)
  BY <1>1, <1>2 DEF Covering
<1>6. \A i : Covering(findings, i) # {} => \E m \in 1..N : start(m) < i /\ i <= end(m)
  <2>1. \A i : Covering(findings, i) \subseteq DOMAIN findings
    BY DEF Covering
  <2>. QED BY <1>5, <2>1
<1>. HIDE DEF start, end, bound, order, L, N
<1>7. ASSUME NEW n \in 0..N
      PROVE  bound(n) \in 0..L
  <2>1. CASE n = 0
    BY <1>1, <1>4, <2>1
  <2>2. CASE n # 0
    <3>1. n \in 1..N
      BY <1>1, <2>2
    <3>2. bound(n) = start(n) /\ start(n) \in Nat /\ end(n) \in Nat /\ start(n) < end(n) /\ end(n) <= L
      BY <1>3, <1>4, <3>1
    <3>. QED BY <1>1, <3>2
  <2>. QED BY <2>1, <2>2
<1>8. ASSUME NEW n \in 1..N
      PROVE  end(n) <= bound(n - 1)
  <2>1. CASE n = 1
    BY <1>3, <1>4, <2>1
  <2>2. CASE n # 1
    <3>1. n - 1 \in 1..N /\ n - 1 < n
      BY <1>1, <2>2
    <3>. QED BY <1>2, <1>4, <3>1
  <2>. QED BY <2>1, <2>2
<1>9. ASSUME NEW n \in 1..N, NEW m \in 1..N, m <= n
      PROVE  start(n) <= start(m)
  <2>1. CASE m = n
    BY <1>3, <2>1
  <2>2. CASE m < n
    BY <1>2, <1>3, <2>2
  <2>. QED BY <1>1, <1>9, <2>1, <2>2
<1>10. ASSUME NEW n \in 1..N, NEW i \in (end(n) + 1)..bound(n - 1)
       PROVE  Covering(findings, i) = {}
  <2>1. i \in Nat /\ end(n) < i /\ i <= bound(n - 1)
    BY <1>1, <1>3, <1>7
  <2>2. ASSUME NEW m \in 1..N, start(m) < i, i <= end(m)
        PROVE  FALSE
    <3>1. CASE m < n
      <4>1. n - 1 \in 1..N /\ m <= n - 1
        BY <1>1, <3>1
      <4>2. start(n - 1) <= start(m) /\ bound(n - 1) = start(n - 1)
        BY <1>4, <1>9, <4>1
      <4>. QED BY <1>3, <2>1, <2>2, <4>1, <4>2
    <3>2. CASE n < m
      <4>1. end(m) <= start(n)
        BY <1>2, <3>2
      <4>. QED BY <1>3, <2>1, <2>2, <4>1
    <3>3. CASE n = m
      BY <1>3, <2>1, <2>2, <3>3
    <3>. QED BY <1>1, <3>1, <3>2, <3>3
  <2>. QED BY <1>6, <2>2
<1>11. ASSUME NEW i \in 1..bound(N)
       PROVE  Covering(findings, i) = {}
  <2>1. ASSUME NEW m \in 1..N, start(m) < i, i <= end(m)
        PROVE  FALSE
    <3>1. N \in 1..N /\ m <= N
      BY <1>1
    <3>2. start(N) <= start(m) /\ bound(N) = start(N)
      BY <1>4, <1>9, <3>1
    <3>. QED BY <1>3, <2>1, <3>1, <3>2
  <2>. QED BY <1>6, <2>1
<1>12. \A n \in 1..N : order[n] \in DOMAIN findings
  BY <1>1, <1>2
<1>. QED BY <1>4, <1>7, <1>8, <1>10, <1>11, <1>12 DEF start, end, bound, order, L, N

\* apply_transformations: the text is what becomes of its places, in order.
LEMMA TransformedIsPieces ==
    ASSUME NEW c \in Call, NEW text \in Seq(Symbol), NEW findings, AreKept(findings, text)
    PROVE  /\ Transformed(c, text, findings) = FlattenSeq(Pieces(c, text, findings))
           /\ Transformed(c, text, findings) \in Seq(Symbol)
<1>. DEFINE N == Len(findings)
            L == Len(text)
            P == Pieces(c, text, findings)
            order == ReplaceOrder(findings)
            bound(n) == SpliceBound(text, findings, n)
            Reached(n) == SubSeq(text, 1, bound(n)) \o Joined(P, bound(n) + 1, L)
<1>1. PICK g \in [0..N -> Seq(Symbol)] :
         /\ g[0] = text
         /\ \A n \in 1..N : g[n] = Splice(c, findings, g[n - 1], order[n])
         /\ Transformed(c, text, findings) = g[N]
  BY TransformedSteps
<1>2. N \in Nat /\ L \in Nat
  BY LenProperties DEF AreKept
<1>3. /\ P \in Seq(Seq(Symbol)) /\ Len(P) = L
      /\ \A i \in 1..L : P[i] = PieceAt(c, text, findings, i)
  BY PiecesType
<1>4. /\ \A n \in 0..N : bound(n) \in 0..L
      /\ \A n \in 1..N :
            /\ order[n] \in DOMAIN findings
            /\ bound(n) = findings[order[n]].start
            /\ findings[order[n]].end <= bound(n - 1)
            /\ \A i \in (findings[order[n]].end + 1)..bound(n - 1) : Covering(findings, i) = {}
      /\ \A i \in 1..bound(N) : Covering(findings, i) = {}
  BY SpliceBounds
<1>5. bound(0) = L
  BY DEF SpliceBound
<1>6. \A i \in 1..L : Covering(findings, i) = {} => P[i] = <<text[i]>>
  BY <1>3 DEF PieceAt
<1>. DEFINE Good == {n \in 0..N : g[n] = Reached(n)}
<1>7. 0 \in Good
  <2>1. SubSeq(text, 1, L) = text
    BY SubSeqFull
  <2>2. Joined(P, L + 1, L) = <<>>
    <3>1. L \in Int
      BY <1>2
    <3>. QED BY <3>1, JoinedNothing
  <2>3. text \o <<>> = text
    BY ConcatEmptySeq
  <2>4. Reached(0) = text
    BY <1>5, <2>1, <2>2, <2>3
  <2>5. 0 \in 0..N
    BY <1>2
  <2>. HIDE DEF Reached, N
  <2>. QED BY <1>1, <2>4, <2>5
<1>8. ASSUME NEW m \in 0..N, m < N, m \in Good
      PROVE  m + 1 \in Good
  <2>. DEFINE n == m + 1
              k == order[n]
              s == findings[k].start
              e == findings[k].end
              b == bound(m)
              x == Replacement(c, findings, k)
              result == g[m]
  <2>1. n \in 1..N /\ n \in 0..N /\ n - 1 = m
    BY <1>2, <1>8
  <2>2. /\ k \in DOMAIN findings /\ bound(n) = s /\ e <= b
        /\ \A i \in (e + 1)..b : Covering(findings, i) = {}
        /\ b \in 0..L
    <3>. HIDE DEF n, order, bound, L, N
    <3>. QED BY <1>4, <1>8, <2>1
  <2>3. s \in Nat /\ e \in Nat /\ s < e /\ e <= L
    <3>. HIDE DEF k
    <3>. QED BY <2>2, SpanBounds
  <2>4. x \in Symbol
    <3>. HIDE DEF k
    <3>. QED BY <2>2, ReplacementType DEF AreKept
  <2>5. \A i \in (s + 1)..e : i \in 1..L /\ i \in Nat /\ s < i /\ i <= e
    BY <1>2, <2>3, SMTT(30)
  <2>6. \A i \in (s + 1)..e : P[i] = IF s + 1 = i THEN <<x>> ELSE <<>>
    <3>. SUFFICES ASSUME NEW i \in (s + 1)..e PROVE P[i] = IF s + 1 = i THEN <<x>> ELSE <<>>
      OBVIOUS
    <3>1. k \in DOMAIN findings /\ i \in Nat /\ i \in 1..L /\ s < i /\ i <= e
      BY <2>2, <2>5
    <3>2. PieceAt(c, text, findings, i) = IF s + 1 = i THEN <<x>> ELSE <<>>
      <4>. HIDE DEF k, L
      <4>. QED BY <3>1, PieceOfFinding
    <3>. QED BY <1>3, <3>1, <3>2
  <2>7. s + 1 \in (s + 1)..e /\ \A i \in (s + 2)..e : i \in (s + 1)..e /\ s + 1 # i
    <3>. HIDE DEF s, e
    <3>. QED BY <2>3
  <2>8. P[s + 1] = <<x>> /\ \A i \in (s + 2)..e : P[i] = <<>>
    BY <2>6, <2>7
  <2>9. \A i \in (e + 1)..b : i \in 1..L
    BY <1>2, <2>2, <2>3
  <2>10. \A i \in (e + 1)..b : P[i] = <<text[i]>>
    BY <1>6, <2>2, <2>9
  <2>11. b \in 0..Len(text) /\ e \in 0..b /\ s \in 0..(e - 1)
    BY <2>2, <2>3
  <2>12. g[n] = Splice(c, findings, result, k)
    <3>. HIDE DEF order, N
    <3>. QED BY <1>1, <2>1
  <2>13. result = SubSeq(text, 1, b) \o Joined(P, b + 1, L)
    BY <1>8
  <2>. HIDE DEF n, k, s, e, b, x, result, P
  <2>14. Slice(result, 0, s) \o <<x>> \o Slice(result, e, Len(result))
            = SubSeq(text, 1, s) \o Joined(P, s + 1, Len(text))
    <3>1. text \in Seq(Symbol)
      OBVIOUS
    <3>2. P \in Seq(Seq(Symbol)) /\ Len(P) = Len(text)
      BY <1>3
    <3>3. result = SubSeq(text, 1, b) \o Joined(P, b + 1, Len(text))
      BY <2>13
    <3>4. IsSplice(Symbol, text, P, b, e, s, x, result)
      BY ONLY <2>4, <2>8, <2>10, <2>11, <3>1, <3>2, <3>3 DEF IsSplice
    <3>5. MovesBound(text, P, e, s, x, result)
      BY ONLY <3>4, SpliceIntoPieces
    <3>. QED BY ONLY <3>5 DEF MovesBound
  <2>15. g[n] = Reached(n)
    BY <2>2, <2>12, <2>14 DEF Splice, s, e, x
  <2>. HIDE DEF Reached
  <2>. QED BY <2>1, <2>15 DEF n
<1>9. N \in Good
  <2>. HIDE DEF Good, N
  <2>1. 0..N \subseteq Good
    BY <1>2, <1>7, <1>8, UpTo
  <2>. QED BY <1>2, <2>1
<1>10. SubSeq(text, 1, bound(N)) = Joined(P, 1, bound(N))
  <2>. DEFINE b == bound(N)
  <2>1. b \in 0..L
    BY <1>2, <1>4
  <2>2. \A i \in 1..b : P[i] = <<text[i]>>
    <3>1. \A i \in 1..b : i \in 1..L
      BY <1>2, <2>1
    <3>. HIDE DEF L, P
    <3>. QED BY <1>4, <1>6, <3>1
  <2>3. 1 \in 1..(Len(P) + 1) /\ b \in (1 - 1)..Len(P)
    BY <1>2, <1>3, <2>1
  <2>. HIDE DEF b, P
  <2>4. Joined(P, 1, b) = SubSeq(text, 1, b)
    BY <1>3, <2>2, <2>3, JoinedSingles
  <2>. QED BY <2>4 DEF b, P
<1>11. Joined(P, 1, L) = Joined(P, 1, bound(N)) \o Joined(P, bound(N) + 1, L)
  <2>. DEFINE b == bound(N)
              first == 1
  <2>1. first \in 1..(Len(P) + 1) /\ b \in (first - 1)..Len(P) /\ L \in b..Len(P)
    BY <1>2, <1>3, <1>4
  <2>2. P \in Seq(Seq(Symbol))
    BY <1>3
  <2>. HIDE DEF b, P, L, first
  <2>3. \A seqs \in Seq(Seq(Symbol)) : \A m \in 1..(Len(seqs) + 1) :
           \A k \in (m - 1)..Len(seqs) : \A n \in k..Len(seqs) :
              Joined(seqs, m, n) = Joined(seqs, m, k) \o Joined(seqs, k + 1, n)
    BY ONLY JoinedAdjacent, ZenonT(40)
  <2>4. \A k \in (first - 1)..Len(P) : \A n \in k..Len(P) :
           Joined(P, first, n) = Joined(P, first, k) \o Joined(P, k + 1, n)
    BY ONLY <2>1, <2>2, <2>3, Zenon
  <2>5. Joined(P, first, L) = Joined(P, first, b) \o Joined(P, b + 1, L)
    BY ONLY <2>1, <2>4, Zenon
  <2>. QED BY <2>5 DEF b, first
<1>12. SubSeq(P, 1, L) = P
  <2>. HIDE DEF P, L
  <2>. QED BY <1>3, SubSeqFull
<1>13. g[N] = FlattenSeq(P)
  <2>. HIDE DEF P, L, N, bound
  <2>. QED BY <1>9, <1>10, <1>11, <1>12 DEF Joined
<1>14. g[N] \in Seq(Symbol)
  BY <1>1, <1>2
<1>. QED BY <1>1, <1>13, <1>14

\* A symbol of the result was in the text or replaces a finding.
LEMMA TransformedMembers ==
    ASSUME NEW c \in Call, NEW text \in Seq(Symbol), NEW findings, AreKept(findings, text),
           NEW x \in ToSet(Transformed(c, text, findings))
    PROVE  x \in ToSet(text) \/ \E k \in DOMAIN findings : x = Replacement(c, findings, k)
<1>. DEFINE P == Pieces(c, text, findings)
            L == Len(text)
<1>1. /\ P \in Seq(Seq(Symbol)) /\ DOMAIN P = 1..L
      /\ \A i \in 1..L : P[i] = PieceAt(c, text, findings, i)
  BY PiecesType
<1>2. x \in ToSet(FlattenSeq(P))
  BY TransformedIsPieces
<1>. HIDE DEF P
<1>3. PICK i \in 1..L : x \in ToSet(P[i])
  BY <1>1, <1>2, FlattenMembers
<1>4. i \in DOMAIN text /\ i \in Nat
  BY LenProperties
<1>5. CASE Covering(findings, i) = {}
  <2>1. P[i] = <<text[i]>>
    BY <1>1, <1>5 DEF PieceAt
  <2>2. x = text[i]
    BY <1>3, <2>1 DEF ToSet
  <2>. QED BY <1>4, <2>2 DEF ToSet
<1>6. CASE Covering(findings, i) # {}
  <2>1. PICK k \in DOMAIN findings : findings[k].start < i /\ i <= findings[k].end
    BY <1>6 DEF Covering
  <2>2. PieceAt(c, text, findings, i) =
           IF findings[k].start + 1 = i THEN <<Replacement(c, findings, k)>> ELSE <<>>
    BY <1>4, <2>1, PieceOfFinding
  <2>3. P[i] = <<Replacement(c, findings, k)>> \/ P[i] = <<>>
    BY <1>1, <2>2
  <2>4. x = Replacement(c, findings, k)
    BY <1>3, <2>3 DEF ToSet
  <2>. QED BY <2>4
<1>. QED BY <1>5, <1>6

-----------------------------------------------------------------------------
(* Findings, mappings and looked-up tokens. *)

\* What is kept of the findings of a text can be spliced into it.
LEMMA KeptOfFindings ==
    ASSUME NEW text \in Seq(Symbol), NEW detected, IsFindings(detected, text)
    PROVE  AreKept(Resolve(detected), text)
<1>. DEFINE kept == Resolve(detected)
<1>1. detected \in Seq(FindingType) /\ \A i \in DOMAIN detected : detected[i].start < detected[i].end
  BY DEF IsFindings
<1>2. /\ kept \in Seq(FindingType)
      /\ Len(kept) <= Len(detected)
      /\ \A k \in DOMAIN kept : \E i \in DOMAIN detected : kept[k] = detected[i]
      /\ IsDisjoint(kept)
  BY <1>1, ResolveKeeps
<1>. HIDE DEF kept
<1>3. IsBounded(kept)
  <2>1. DOMAIN kept = 1..Len(kept) /\ DOMAIN detected = 1..Len(detected)
        /\ Len(kept) \in Nat /\ Len(detected) \in Nat
    BY <1>1, <1>2, LenProperties
  <2>2. DOMAIN kept \subseteq DOMAIN detected
    BY <1>2, <2>1
  <2>. QED BY <2>2 DEF IsBounded, IsFindings
<1>4. AreSpans(kept, text)
  <2>1. \A i \in DOMAIN detected : detected[i] \in FindingType
    BY <1>1
  <2>. QED BY <1>2, <2>1 DEF AreSpans, IsFindings
<1>. QED BY <1>2, <1>3, <1>4 DEF AreKept, kept

LEMMA NoFindings == \A text : IsFindings(<<>>, text)
<1>1. <<>> \in Seq(FindingType) /\ DOMAIN <<>> = {}
  BY EmptySeq
<1>. QED BY <1>1 DEF IsFindings, IsBounded

\* The key and the text of a blob are those it was made from.
LEMMA SealedText ==
    ASSUME NEW text \in Text, NEW key \in EncKey, NEW other
    PROVE  /\ Encrypt(text, key, "str") \in Blob
           /\ Decrypt(Encrypt(text, key, "str"), other).ok <=> other = key
           /\ other = key => Decrypt(Encrypt(text, key, "str"), other).text = text
<1>1. ~(Encrypt(text, key, "str").size < MinLength)
  BY EncryptedIsLong
<1>2. Encrypt(text, key, "str") \in Blob
  BY BlobAssumption
<1>. QED BY <1>1, <1>2 DEF Encrypt, Decrypt, Plain, Corrupted

\* A mapping per finding to tokenize, with that finding's token and value.
LEMMA MappingsOfFindings ==
    ASSUME NEW c \in Call, NEW s \in System, NEW cfg \in Config, NEW text, NEW kept,
           AreKept(kept, text)
    PROVE  /\ IsBatch(Mappings(c, s, cfg, kept))
           /\ \A k \in DOMAIN kept : kept[k].action = "tokenize" =>
                 /\ <<1, k>> \in DOMAIN Mappings(c, s, cfg, kept)
                 /\ KeyOf(Mappings(c, s, cfg, kept)[<<1, k>>]) = BuildKey(s, TokenOf(c, k))
                 /\ Mappings(c, s, cfg, kept)[<<1, k>>].blob = Encrypt(kept[k].value, cfg.key, "str")
           /\ \A p \in DOMAIN Mappings(c, s, cfg, kept) :
                 \E k \in DOMAIN kept : p = <<1, k>> /\ kept[k].action = "tokenize"
<1>. DEFINE M == Mappings(c, s, cfg, kept)
            F == {n \in DOMAIN kept : kept[n].action = "tokenize"}
            P == {<<1, k>> : k \in F}
<1>1. DOMAIN M = P
  BY DEF Mappings
<1>2. kept \in Seq(FindingType) /\ IsBounded(kept)
  BY DEF AreKept
<1>3. ASSUME NEW k \in F
      PROVE  /\ M[<<1, k>>] = [system |-> s, token |-> TokenOf(c, k),
                               blob |-> Encrypt(kept[k].value, cfg.key, "str"), ttl |-> TokenTtl(cfg)]
             /\ <<1, k>> \in Position
             /\ M[<<1, k>>] \in Mapping
  <2>1. M[<<1, k>>] = [system |-> s, token |-> TokenOf(c, k),
                       blob |-> Encrypt(kept[k].value, cfg.key, "str"), ttl |-> TokenTtl(cfg)]
    BY DEF Mappings
  <2>2. TokenOf(c, k) \in UuidToken
    BY <1>2, ReplacementType
  <2>3. <<1, k>> \in Position /\ TokenOf(c, k) \in Token
    BY <2>2, TokenAssumption DEF TokenOf, UuidToken
  <2>4. kept[k].value \in Text
    <3>1. kept[k] \in FindingType
      BY <1>2
    <3>. QED BY <3>1 DEF FindingType
  <2>5. cfg.key \in EncKey /\ TokenTtl(cfg) \in Nat
    BY DEF Config, TokenTtl
  <2>6. Encrypt(kept[k].value, cfg.key, "str") \in Blob
    BY <2>4, <2>5, SealedText
  <2>. HIDE DEF M
  <2>. QED BY <2>1, <2>3, <2>5, <2>6 DEF Mapping
<1>4. M = [p \in P |-> M[p]]
  BY DEF Mappings
<1>. HIDE DEF M
<1>5. P \subseteq Position /\ M \in [P -> Mapping]
  BY <1>3, <1>4
<1>6. IsBatch(M)
  BY <1>1, <1>5 DEF IsBatch
<1>7. ASSUME NEW k \in F
      PROVE  /\ KeyOf(M[<<1, k>>]) = BuildKey(s, TokenOf(c, k))
             /\ M[<<1, k>>].blob = Encrypt(kept[k].value, cfg.key, "str")
  <2>. DEFINE m == M[<<1, k>>]
              blob == Encrypt(kept[k].value, cfg.key, "str")
              ttl == TokenTtl(cfg)
              token == TokenOf(c, k)
  <2>1. m = [system |-> s, token |-> token, blob |-> blob, ttl |-> ttl]
    BY <1>3
  <2>. HIDE DEF m, blob, ttl, token
  <2>2. m.system = s /\ m.token = token /\ m.blob = blob
    BY <2>1
  <2>. QED BY <2>2 DEF KeyOf, m, blob, token
<1>. QED BY <1>1, <1>6, <1>7 DEF M

\* The places of the tokens of a text, from left to right.
TokenPlaces(text) == {i \in DOMAIN text : text[i] \in UuidToken}

\* extract_tokens finds each token of the text, glued to a word or not.
LEMMA ExtractedTokens ==
    ASSUME NEW text \in Seq(Symbol)
    PROVE  LET places == Ascending(TokenPlaces(text))
               tokens == ExtractTokens(text)
           IN  /\ Cardinality(TokenPlaces(text)) \in Nat
               /\ places \in [1..Cardinality(TokenPlaces(text)) -> TokenPlaces(text)]
               /\ \A i \in TokenPlaces(text) :
                     \E n \in 1..Cardinality(TokenPlaces(text)) : places[n] = i
               /\ DOMAIN tokens = 1..Cardinality(TokenPlaces(text))
               /\ \A n \in DOMAIN tokens :
                     tokens[n] = IF Glued(text, places[n])
                                 THEN [glued |-> text[places[n]]] ELSE text[places[n]]
               /\ \A n \in DOMAIN tokens : tokens[n] \in Token
<1>. DEFINE S == TokenPlaces(text)
            N == Cardinality(S)
            places == Ascending(S)
            tokens == ExtractTokens(text)
<1>1. S \in SUBSET Nat /\ IsFiniteSet(S)
  <2>1. DOMAIN text = 1..Len(text) /\ Len(text) \in Nat
    BY LenProperties
  <2>2. IsFiniteSet(1..Len(text))
    BY <2>1, FS_Interval
  <2>3. S \subseteq 1..Len(text)
    BY <2>1 DEF TokenPlaces
  <2>. QED BY <2>1, <2>2, <2>3, FS_Subset
<1>. HIDE DEF S
<1>2. /\ N \in Nat /\ places \in [1..N -> S]
      /\ \A i \in S : \E n \in 1..N : places[n] = i
  BY <1>1, AscendingInOrder
<1>3. tokens = [n \in DOMAIN places |->
                   IF Glued(text, places[n]) THEN [glued |-> text[places[n]]] ELSE text[places[n]]]
  BY DEF ExtractTokens, S, TokenPlaces
<1>. HIDE DEF places, N, tokens
<1>4. DOMAIN tokens = 1..N
      /\ \A n \in 1..N : tokens[n] = IF Glued(text, places[n])
                                     THEN [glued |-> text[places[n]]] ELSE text[places[n]]
  BY <1>2, <1>3
<1>5. ASSUME NEW n \in 1..N
      PROVE  tokens[n] \in Token
  <2>1. text[places[n]] \in UuidToken
    BY <1>2 DEF S, TokenPlaces
  <2>. QED BY <1>4, <2>1, TokenAssumption
<1>. QED BY <1>2, <1>4, <1>5 DEF S, N, places, tokens

-----------------------------------------------------------------------------
(* The inductive invariant of the tokenizer. *)

\* The tokens of a text are of coroutines that have started.
TokensAreIssued(text) ==
    \A i \in DOMAIN text : text[i] \in UuidToken => task[text[i].call] # NoTask

Lookups(s, text) == [n \in DOMAIN ExtractTokens(text) |-> BuildKey(s, ExtractTokens(text)[n])]

AnonymizerInOrder(c) ==
    /\ DOMAIN query[c] = {}
    /\ IsFindings(task[c].detected, task[c].text)
    /\ task[c].kept = Resolve(task[c].detected)
    /\ task[c].config = NoConfig => task[c].refused
    /\ batch[c] = IF task[c].refused THEN Nothing
                  ELSE Mappings(c, task[c].system, task[c].config, task[c].kept)
    /\ TokensAreIssued(task[c].text)
    /\ \A i \in DOMAIN task[c].text : task[c].text[i] \in UuidToken => task[c].text[i].call # c

DeanonymizerInOrder(c) ==
    /\ DOMAIN batch[c] = {}
    /\ task[c].refused <=> task[c].config = NoConfig
    /\ query[c] = IF task[c].refused THEN Nothing ELSE Lookups(task[c].system, task[c].text)
    /\ status[c] = "done" => DOMAIN got[c] = DOMAIN query[c]

\* The call of the store of each coroutine is the one its task makes.
TasksInOrder ==
    \A c \in Call :
        /\ task[c] = NoTask => DOMAIN query[c] = {}
        /\ Anonymizer(c) => AnonymizerInOrder(c)
        /\ Deanonymizer(c) => DeanonymizerInOrder(c)

TokenizerInv == StoreInv /\ TypeOK /\ TasksInOrder /\ ReadsOriginate

\* The captures of a coroutine that anonymizes have their types.
LEMMA AnonymizerMeans ==
    ASSUME TokenizerInv, NEW c \in Call, Anonymizer(c)
    PROVE  /\ task[c] \in TaskType
           /\ task[c].text \in Seq(Symbol)
           /\ task[c].system \in System
           /\ ~task[c].refused => task[c].config \in Config
           /\ AreKept(task[c].kept, task[c].text)
           /\ AnonymizerInOrder(c)
<1>1. task[c] # NoTask /\ AnonymizerInOrder(c)
  BY DEF TokenizerInv, TasksInOrder, Anonymizer
<1>2. task[c] \in TaskType
  BY <1>1 DEF TokenizerInv, TypeOK
<1>3. /\ task[c].text \in Seq(Symbol) /\ task[c].system \in System
      /\ task[c].config \in Config \cup {NoConfig}
  BY <1>2 DEF TaskType
<1>4. AreKept(Resolve(task[c].detected), task[c].text)
  BY <1>1, <1>3, KeptOfFindings DEF AnonymizerInOrder
<1>. QED BY <1>1, <1>2, <1>3, <1>4 DEF AnonymizerInOrder

\* The texts clients were given, of which every token was issued.
LEMMA GivenTexts ==
    ASSUME TokenizerInv, NEW text \in Given
    PROVE  text \in Seq(Symbol) /\ TokensAreIssued(text)
<1>1. PICK c \in Call : Anonymizer(c) /\ Succeeded(c) /\ text = AnonymizedText(c)
  BY DEF Given
<1>. DEFINE original == task[c].text
            kept == task[c].kept
<1>2. original \in Seq(Symbol) /\ AreKept(kept, original) /\ TokensAreIssued(original)
  BY <1>1, AnonymizerMeans DEF AnonymizerInOrder
<1>3. text = Transformed(c, original, kept)
  BY <1>1 DEF AnonymizedText
<1>4. task[c] # NoTask
  BY <1>1 DEF Succeeded
<1>. HIDE DEF original, kept
<1>5. text \in Seq(Symbol)
  BY <1>2, <1>3, TransformedIsPieces
<1>6. ASSUME NEW i \in DOMAIN text, text[i] \in UuidToken
      PROVE  task[text[i].call] # NoTask
  <2>1. text[i] \in ToSet(text)
    BY DEF ToSet
  <2>. DEFINE x == text[i]
  <2>. HIDE DEF x
  <2>2. x \in ToSet(Transformed(c, original, kept))
    BY <1>3, <2>1 DEF x
  <2>3. x \in ToSet(original) \/ \E k \in DOMAIN kept : x = Replacement(c, kept, k)
    BY <1>2, <2>2, TransformedMembers
  <2>4. CASE x \in ToSet(original)
    BY <1>2, <1>6, <2>4 DEF TokensAreIssued, ToSet, x
  <2>5. CASE \E k \in DOMAIN kept : x = Replacement(c, kept, k)
    <3>1. PICK k \in DOMAIN kept : x = Replacement(c, kept, k)
      BY <2>5
    <3>2. kept \in Seq(FindingType) /\ IsBounded(kept)
      BY <1>2 DEF AreKept
    <3>3. x = TokenOf(c, k)
      BY <1>6, <3>1, <3>2, ReplacementType DEF x
    <3>. QED BY <1>4, <3>3 DEF TokenOf, x
  <2>. QED BY <2>3, <2>4, <2>5
<1>. QED BY <1>5, <1>6 DEF TokensAreIssued

\* Two texts, one after the other.
LEMMA TwoTexts ==
    ASSUME NEW a \in Seq(Symbol), NEW b \in Seq(Symbol)
    PROVE  a \o b \in Seq(Symbol)
BY ConcatProperties

LEMMA CharsAreSymbols ==
    ASSUME NEW text \in Seq(Char)
    PROVE  /\ text \in Seq(Symbol)
           /\ \A i \in DOMAIN text : text[i] \notin UuidToken
<1>1. text \in [1..Len(text) -> Char] /\ Len(text) \in Nat /\ DOMAIN text = 1..Len(text)
  BY LenProperties
<1>2. text \in [1..Len(text) -> Symbol]
  BY <1>1 DEF Symbol
<1>3. text \in Seq(Symbol)
  BY <1>1, <1>2, IsASeq
<1>4. \A i \in DOMAIN text : text[i] \in Char
  BY <1>1
<1>. QED BY <1>3, <1>4, SymbolsAssumption

\* Initially no coroutine has started and nothing is stored.
LEMMA TokenizerInitInv == Init => TokenizerInv
<1>. SUFFICES ASSUME Init PROVE TokenizerInv
  OBVIOUS
<1>1. StoreInv
  BY StoreInitInv DEF Init
<1>2. /\ status = [c \in Call |-> "idle"]
      /\ query = [c \in Call |-> Nothing]
      /\ got = [c \in Call |-> Nothing]
      /\ expired = {}
      /\ task = [c \in Call |-> NoTask]
      /\ policy \in Policies
      /\ DOMAIN Nothing = {}
  BY DEF Init, StoreInit, Nothing
<1>3. TypeOK
  BY <1>1, <1>2 DEF TypeOK, StoreInv
<1>4. TasksInOrder
  BY <1>2 DEF TasksInOrder, Anonymizer, Deanonymizer
<1>5. ReadsOriginate
  BY <1>2 DEF ReadsOriginate
<1>. QED BY <1>1, <1>3, <1>4, <1>5 DEF TokenizerInv

\* A coroutine captures a config of the loaded policy, or none.
LEMMA ConfigOfType ==
    ASSUME TypeOK, NEW s \in System
    PROVE  ConfigOf(s) \in Config \cup {NoConfig}
<1>1. policy \in Policies
  BY DEF TypeOK
<1>2. \A t \in DOMAIN policy : policy[t] \in Config
  BY <1>1, PoliciesAssumption DEF IsConfig
<1>. QED BY <1>2 DEF ConfigOf

\* What the captures of a coroutine that starts must be, before they are set.
LEMMA AnonymizerKept ==
    ASSUME TokenizerInv, NEW c \in Call, task[c] = NoTask,
           NEW t \in TaskType, task' = [task EXCEPT ![c] = t],
           NEW a \in Call, a # c, Anonymizer(a),
           batch'[a] = batch[a], query'[a] = query[a]
    PROVE  AnonymizerInOrder(a)'
<1>1. task \in [Call -> TaskType \cup {NoTask}]
  BY DEF TokenizerInv, TypeOK
<1>2. t # NoTask
  BY NoTaskAssumption
<1>3. task'[a] = task[a]
  BY <1>1
<1>4. \A b : b \in Call /\ task[b] # NoTask => task'[b] # NoTask
  BY <1>1, <1>2
<1>5. AnonymizerInOrder(a)
  BY DEF TokenizerInv, TasksInOrder
<1>6. TokensAreIssued(task[a].text)'
  <2>1. \A i \in DOMAIN task[a].text : task[a].text[i] \in UuidToken =>
           task[a].text[i].call \in Call /\ task[task[a].text[i].call] # NoTask
    BY <1>5 DEF AnonymizerInOrder, TokensAreIssued, UuidToken
  <2>2. \A i \in DOMAIN task[a].text : task[a].text[i] \in UuidToken =>
           task'[task[a].text[i].call] # NoTask
    BY <1>4, <2>1
  <2>. QED BY <1>3, <2>2 DEF TokensAreIssued
<1>. QED BY <1>3, <1>5, <1>6 DEF AnonymizerInOrder

-----------------------------------------------------------------------------
(* The steps preserve it. *)

\* A text is anonymized: its tokens were issued by others.
LEMMA AnonymizeTextInv ==
    ASSUME TokenizerInv, NEW c \in Call, NEW s \in System, NEW text \in Texts \cup Given,
           NEW ner, AnonymizeText(c, s, text, ner)
    PROVE  TokenizerInv'
<1>. USE DEF TokenizerInv
<1>. DEFINE cfg == ConfigOf(s)
            refused == Refused(cfg, text, ner)
            detected == IF refused THEN <<>> ELSE Detected(text, cfg, ner)
            kept == Resolve(detected)
            b == IF refused THEN Nothing ELSE Mappings(c, s, cfg, kept)
            t == [op |-> "anonymize", system |-> s, config |-> cfg, text |-> text,
                  refused |-> refused, detected |-> detected, kept |-> kept]
<1>1. /\ IsFindings(detected, text)
      /\ StoreBatch(c, b)
      /\ task' = [task EXCEPT ![c] = t]
      /\ UNCHANGED policy
  BY DEF AnonymizeText, Capture
<1>2. text \in Seq(Symbol) /\ TokensAreIssued(text)
  <2>1. CASE text \in Texts
    <3>1. text \in Seq(Char)
      BY <2>1, InputsAssumption
    <3>. QED BY <3>1, CharsAreSymbols DEF TokensAreIssued
  <2>. QED BY <2>1, GivenTexts
<1>3. refused \in BOOLEAN /\ (cfg = NoConfig => refused)
  BY DEF Refused
<1>4. cfg \in Config \cup {NoConfig}
  BY ConfigOfType
<1>. HIDE DEF cfg, refused, detected, kept, b
<1>5. AreKept(kept, text) /\ kept = Resolve(detected)
  BY <1>1, <1>2, KeptOfFindings DEF kept
<1>6. t \in TaskType
  <2>1. detected \in Seq(FindingType) /\ kept \in Seq(FindingType)
    BY <1>1, <1>5 DEF IsFindings, AreKept
  <2>. QED BY <1>2, <1>3, <1>4, <2>1 DEF TaskType
<1>7. /\ t.op = "anonymize" /\ t.system = s /\ t.config = cfg /\ t.text = text
      /\ t.refused = refused /\ t.detected = detected /\ t.kept = kept
  OBVIOUS
<1>. HIDE DEF t
<1>8. IsBatch(b)
  <2>1. IsBatch(Nothing)
    <3>1. DOMAIN Nothing = {} /\ Nothing \in [{} -> Mapping]
      BY DEF Nothing
    <3>. QED BY <3>1 DEF IsBatch
  <2>2. ~refused => IsBatch(Mappings(c, s, cfg, kept))
    BY <1>3, <1>4, <1>5, MappingsOfFindings
  <2>. QED BY <2>1, <2>2 DEF b
<1>9. StoreInv'
  BY <1>1, <1>8, StoreBatchInv
<1>10. /\ status[c] = "idle"
       /\ batch' = [batch EXCEPT ![c] = b]
       /\ status' \in {[status EXCEPT ![c] = "done"], [status EXCEPT ![c] = "writing"]}
       /\ UNCHANGED <<db, expired, query, got>>
  BY <1>1 DEF StoreBatch
<1>11. t # NoTask
  BY <1>6, NoTaskAssumption
<1>12. /\ status \in [Call -> {"idle", "writing", "reading", "done", "failed"}]
       /\ task \in [Call -> TaskType \cup {NoTask}]
       /\ DOMAIN batch = Call
       /\ task[c] = NoTask
  BY <1>10 DEF TypeOK, StoreInv, StoreTypeOK
<1>13. TypeOK'
  <2>1. task' \in [Call -> TaskType \cup {NoTask}]
    BY <1>1, <1>6, <1>12
  <2>2. \A a \in Call : task'[a] = NoTask <=> status'[a] = "idle"
    BY <1>1, <1>10, <1>11, <1>12 DEF TypeOK
  <2>3. policy' \in Policies
    BY <1>1 DEF TypeOK
  <2>. QED BY <1>9, <2>1, <2>2, <2>3 DEF TypeOK, StoreInv
<1>14. DOMAIN batch[c] = {} /\ DOMAIN got[c] = {} /\ DOMAIN query[c] = {}
  BY <1>10, <1>12 DEF StoreInv, CallsInOrder, TasksInOrder
<1>15. TasksInOrder'
  <2>1. ASSUME NEW a \in Call, a # c
        PROVE  /\ task'[a] = task[a] /\ status'[a] = status[a] /\ batch'[a] = batch[a]
               /\ query'[a] = query[a] /\ got'[a] = got[a]
    BY <1>1, <1>10, <1>12, <2>1
  <2>2. task'[c] = t /\ batch'[c] = b /\ DOMAIN query'[c] = {}
    BY <1>1, <1>10, <1>12, <1>14
  <2>3. AnonymizerInOrder(c)'
    <3>1. \A i \in DOMAIN text : text[i] \in UuidToken =>
             text[i].call \in Call /\ task[text[i].call] # NoTask
      BY <1>2 DEF TokensAreIssued, UuidToken
    <3>2. \A i \in DOMAIN text : text[i] \in UuidToken => text[i].call # c /\ task'[text[i].call] # NoTask
      BY <1>1, <1>12, <3>1
    <3>3. TokensAreIssued(text)'
      BY <3>2 DEF TokensAreIssued
    <3>4. b = IF refused THEN Nothing ELSE Mappings(c, s, cfg, kept)
      BY DEF b
    <3>. QED BY <1>1, <1>3, <1>5, <1>7, <2>2, <3>2, <3>3, <3>4 DEF AnonymizerInOrder
  <2>4. ~Deanonymizer(c)'
    BY <1>7, <2>2 DEF Deanonymizer
  <2>5. ASSUME NEW a \in Call, a # c
        PROVE  /\ task'[a] = NoTask => DOMAIN query'[a] = {}
               /\ Anonymizer(a)' => AnonymizerInOrder(a)'
               /\ Deanonymizer(a)' => DeanonymizerInOrder(a)'
    <3>1. task[a] = NoTask => DOMAIN query[a] = {}
      BY DEF TasksInOrder
    <3>2. Anonymizer(a)' => AnonymizerInOrder(a)'
      <4>1. Anonymizer(a)' => Anonymizer(a)
        BY <2>1, <2>5 DEF Anonymizer
      <4>. QED BY <1>1, <1>6, <1>12, <2>1, <2>5, <4>1, AnonymizerKept
    <3>3. Deanonymizer(a)' => DeanonymizerInOrder(a)'
      BY <2>1, <2>5 DEF TasksInOrder, Deanonymizer, DeanonymizerInOrder, Lookups
    <3>. QED BY <2>1, <2>5, <3>1, <3>2, <3>3
  <2>. QED BY <1>11, <2>2, <2>3, <2>4, <2>5 DEF TasksInOrder
<1>16. ReadsOriginate'
  BY <1>10, <1>12, <1>14, ReadsOriginateKept
<1>. QED BY <1>9, <1>13, <1>15, <1>16

\* A text is de-anonymized: its tokens are looked up under its system.
LEMMA DeanonymizeTextInv ==
    ASSUME TokenizerInv, NEW c \in Call, NEW s \in System, NEW text \in Seq(Symbol),
           DeanonymizeText(c, s, text)
    PROVE  TokenizerInv'
<1>. USE DEF TokenizerInv
<1>. DEFINE cfg == ConfigOf(s)
            none == <<>>
            tokens == ExtractTokens(text)
            q == IF cfg = NoConfig THEN Nothing ELSE Lookups(s, text)
            t == [op |-> "deanonymize", system |-> s, config |-> cfg, text |-> text,
                  refused |-> cfg = NoConfig, detected |-> none, kept |-> Resolve(none)]
<1>1. /\ IsBounded(tokens)
      /\ RetrieveBatch(c, q)
      /\ task' = [task EXCEPT ![c] = t]
      /\ UNCHANGED policy
  BY DEF DeanonymizeText, Capture, Lookups
<1>2. cfg \in Config \cup {NoConfig}
  BY ConfigOfType
<1>3. none \in Seq(FindingType) /\ Resolve(none) \in Seq(FindingType)
  <2>1. IsFindings(none, text)
    BY NoFindings
  <2>. HIDE DEF none
  <2>2. AreKept(Resolve(none), text)
    BY <2>1, KeptOfFindings
  <2>. QED BY <2>1, <2>2 DEF IsFindings, AreKept
<1>4. IsQuery(q)
  <2>1. IsQuery(Nothing)
    <3>1. DOMAIN Nothing = {} /\ Nothing \in [{} -> StoreKey]
      BY DEF Nothing
    <3>. QED BY <3>1 DEF IsQuery
  <2>2. IsQuery(Lookups(s, text))
    <3>1. \A n \in DOMAIN tokens : tokens[n] \in Token
      BY ExtractedTokens
    <3>. HIDE DEF tokens
    <3>2. Lookups(s, text) = [n \in DOMAIN tokens |-> BuildKey(s, tokens[n])]
      BY DEF Lookups, tokens
    <3>3. \A n \in DOMAIN tokens : BuildKey(s, tokens[n]) \in StoreKey
      BY <3>1 DEF BuildKey, StoreKey
    <3>. QED BY <1>1, <3>2, <3>3 DEF IsQuery, IsBounded
  <2>. QED BY <2>1, <2>2
<1>. HIDE DEF cfg, none, tokens
<1>5. t \in TaskType
  BY <1>2, <1>3 DEF TaskType
<1>6. /\ t.op = "deanonymize" /\ t.system = s /\ t.config = cfg /\ t.text = text
      /\ t.refused <=> cfg = NoConfig
  OBVIOUS
<1>. HIDE DEF t
<1>7. q = IF t.refused THEN Nothing ELSE Lookups(t.system, t.text)
  BY <1>6
<1>. HIDE DEF q
<1>8. StoreInv'
  BY <1>1, <1>4, RetrieveBatchInv
<1>9. /\ status[c] = "idle"
      /\ query' = [query EXCEPT ![c] = q]
      /\ \/ status' = [status EXCEPT ![c] = "done"] /\ DOMAIN q = {}
         \/ status' = [status EXCEPT ![c] = "reading"]
      /\ UNCHANGED <<db, expired, batch, got>>
  BY <1>1 DEF RetrieveBatch
<1>10. t # NoTask
  BY <1>5, NoTaskAssumption
<1>11. /\ status \in [Call -> {"idle", "writing", "reading", "done", "failed"}]
       /\ task \in [Call -> TaskType \cup {NoTask}]
       /\ DOMAIN query = Call
       /\ task[c] = NoTask
  BY <1>9 DEF TypeOK, StoreInv, StoreTypeOK
<1>12. TypeOK'
  <2>1. task' \in [Call -> TaskType \cup {NoTask}]
    BY <1>1, <1>5, <1>11
  <2>2. \A a \in Call : task'[a] = NoTask <=> status'[a] = "idle"
    BY <1>1, <1>9, <1>10, <1>11 DEF TypeOK
  <2>3. policy' \in Policies
    BY <1>1 DEF TypeOK
  <2>. QED BY <1>8, <2>1, <2>2, <2>3 DEF TypeOK, StoreInv
<1>13. DOMAIN batch[c] = {} /\ DOMAIN got[c] = {}
  BY <1>9 DEF StoreInv, CallsInOrder
<1>14. TasksInOrder'
  <2>1. ASSUME NEW a \in Call, a # c
        PROVE  /\ task'[a] = task[a] /\ status'[a] = status[a] /\ batch'[a] = batch[a]
               /\ query'[a] = query[a] /\ got'[a] = got[a]
    BY <1>1, <1>9, <1>11, <2>1
  <2>2. /\ task'[c] = t /\ query'[c] = q /\ DOMAIN batch'[c] = {} /\ DOMAIN got'[c] = {}
        /\ status'[c] = "done" => DOMAIN q = {}
    BY <1>1, <1>9, <1>11, <1>13
  <2>3. ~Anonymizer(c)'
    BY <1>6, <2>2 DEF Anonymizer
  <2>4. DeanonymizerInOrder(c)'
    BY <1>6, <1>7, <2>2 DEF DeanonymizerInOrder
  <2>5. ASSUME NEW a \in Call, a # c
        PROVE  /\ task'[a] = NoTask => DOMAIN query'[a] = {}
               /\ Anonymizer(a)' => AnonymizerInOrder(a)'
               /\ Deanonymizer(a)' => DeanonymizerInOrder(a)'
    <3>1. task[a] = NoTask => DOMAIN query[a] = {}
      BY DEF TasksInOrder
    <3>2. Anonymizer(a)' => AnonymizerInOrder(a)'
      <4>1. Anonymizer(a)' => Anonymizer(a)
        BY <2>1, <2>5 DEF Anonymizer
      <4>. QED BY <1>1, <1>5, <1>11, <2>1, <2>5, <4>1, AnonymizerKept
    <3>3. Deanonymizer(a)' => DeanonymizerInOrder(a)'
      BY <2>1, <2>5 DEF TasksInOrder, Deanonymizer, DeanonymizerInOrder, Lookups
    <3>. QED BY <2>1, <2>5, <3>1, <3>2, <3>3
  <2>. QED BY <1>10, <2>2, <2>3, <2>4, <2>5 DEF TasksInOrder
<1>15. ReadsOriginate'
  BY <1>9, <1>11, <1>13, ReadsOriginateKept
<1>. QED BY <1>8, <1>12, <1>14, <1>15

\* What coroutines captured stays in order while the rest of it stands still.
LEMMA TasksKept ==
    ASSUME TasksInOrder, UNCHANGED <<task, batch, query>>,
           \A c \in Call : status'[c] = "done" /\ DOMAIN batch[c] = {} =>
               DOMAIN got'[c] = DOMAIN query[c] \/ (status[c] = "done" /\ got'[c] = got[c])
    PROVE  TasksInOrder'
<1>1. \A c \in Call : (Anonymizer(c)' <=> Anonymizer(c)) /\ (Deanonymizer(c)' <=> Deanonymizer(c))
  BY DEF Anonymizer, Deanonymizer
<1>2. \A c \in Call : AnonymizerInOrder(c) => AnonymizerInOrder(c)'
  BY DEF AnonymizerInOrder, TokensAreIssued
<1>3. \A c \in Call : DeanonymizerInOrder(c) => DeanonymizerInOrder(c)'
  BY DEF DeanonymizerInOrder
<1>. QED BY <1>1, <1>2, <1>3 DEF TasksInOrder

\* A reload changes what later requests capture, not what earlier ones did.
LEMMA ReloadInv == TokenizerInv /\ Reload => TokenizerInv'
<1>. SUFFICES ASSUME TokenizerInv, Reload PROVE TokenizerInv'
  OBVIOUS
<1>1. UNCHANGED <<storeVars, task>> /\ policy' \in Policies
  BY DEF Reload
<1>2. StoreInv'
  BY <1>1, StoreStutterInv DEF TokenizerInv
<1>3. UNCHANGED <<status, batch, query, got, expired, task>>
  BY <1>1 DEF storeVars
<1>4. TypeOK'
  BY <1>1, <1>2, <1>3 DEF TokenizerInv, TypeOK, StoreInv
<1>5. TasksInOrder'
  <2>1. \A c \in Call : status'[c] = "done" /\ DOMAIN batch[c] = {} =>
           DOMAIN got'[c] = DOMAIN query[c] \/ (status[c] = "done" /\ got'[c] = got[c])
    BY <1>3
  <2>. QED BY <1>3, <2>1, TasksKept DEF TokenizerInv
<1>6. ReadsOriginate'
  BY <1>3 DEF TokenizerInv, ReadsOriginate, Stored
<1>. QED BY <1>2, <1>4, <1>5, <1>6 DEF TokenizerInv

\* The store and the server proceed, on behalf of coroutines that wait.
LEMMA StoreStepTokenizerInv ==
    ASSUME TokenizerInv, StoreStep, UNCHANGED <<policy, task>>
    PROVE  TokenizerInv'
<1>. USE DEF TokenizerInv
<1>1. StoreInv' /\ StoreStepEffect
  BY StoreStepInv, StoreStepHasEffect
<1>2. UNCHANGED <<batch, query, policy, task>>
  BY <1>1 DEF StoreStepEffect
<1>3. TypeOK'
  BY <1>1, <1>2 DEF TypeOK, StoreInv, StoreStepEffect
<1>4. TasksInOrder'
  <2>1. \A c \in Call : status'[c] = "done" /\ DOMAIN batch[c] = {} =>
           DOMAIN got'[c] = DOMAIN query[c] \/ (status[c] = "done" /\ got'[c] = got[c])
    BY <1>1 DEF StoreStepEffect
  <2>. QED BY <1>2, <2>1, TasksKept
<1>5. ReadsOriginate'
  BY StoreStepOrigins
<1>. QED BY <1>1, <1>3, <1>4, <1>5

LEMMA StutterInv == TokenizerInv /\ UNCHANGED vars => TokenizerInv'
<1>. SUFFICES ASSUME TokenizerInv, UNCHANGED vars PROVE TokenizerInv'
  OBVIOUS
<1>1. UNCHANGED storeVars /\ UNCHANGED <<policy, task>>
  BY DEF vars
<1>2. UNCHANGED <<status, batch, query, got, expired>>
  BY <1>1 DEF storeVars
<1>3. StoreInv'
  BY <1>1, StoreStutterInv DEF TokenizerInv
<1>4. TypeOK'
  BY <1>1, <1>2, <1>3 DEF TokenizerInv, TypeOK, StoreInv
<1>5. TasksInOrder'
  <2>1. \A c \in Call : status'[c] = "done" /\ DOMAIN batch[c] = {} =>
           DOMAIN got'[c] = DOMAIN query[c] \/ (status[c] = "done" /\ got'[c] = got[c])
    BY <1>2
  <2>. QED BY <1>1, <1>2, <2>1, TasksKept DEF TokenizerInv
<1>6. ReadsOriginate'
  BY <1>2 DEF TokenizerInv, ReadsOriginate, Stored
<1>. QED BY <1>3, <1>4, <1>5, <1>6 DEF TokenizerInv

\* Every step of the tokenizer, the policy and the store preserves the invariant.
LEMMA TokenizerStepInv == TokenizerInv /\ [Next]_vars => TokenizerInv'
<1>. SUFFICES ASSUME TokenizerInv, [Next]_vars PROVE TokenizerInv'
  OBVIOUS
<1>. USE CallsAssumption
<1>1. CASE \E c \in AnonymizeCalls, s \in System : \E text \in Texts \cup Given :
              \E ner \in NerAnswers(text) : AnonymizeText(c, s, text, ner)
  BY <1>1, AnonymizeTextInv
<1>2. CASE \E c \in DeanonymizeCalls, s \in System : \E text \in Given \cup Foreign :
              DeanonymizeText(c, s, text)
  <2>1. \A text \in Given \cup Foreign : text \in Seq(Symbol)
    BY GivenTexts, InputsAssumption
  <2>. QED BY <1>2, <2>1, DeanonymizeTextInv
<1>3. CASE \E c \in DeanonymizeCalls, s \in System : \E text1, text2 \in Given :
              DeanonymizeText(c, s, text1 \o text2)
  <2>1. PICK c \in DeanonymizeCalls, s \in System, text1 \in Given, text2 \in Given :
           DeanonymizeText(c, s, text1 \o text2)
    BY <1>3
  <2>2. text1 \in Seq(Symbol) /\ text2 \in Seq(Symbol)
    BY GivenTexts
  <2>. DEFINE text == text1 \o text2
  <2>3. text \in Seq(Symbol) /\ DeanonymizeText(c, s, text)
    BY <2>1, <2>2, TwoTexts
  <2>. HIDE DEF text
  <2>. QED BY <2>3, DeanonymizeTextInv
<1>4. CASE Reload
  BY <1>4, ReloadInv
<1>5. CASE StoreStep /\ UNCHANGED <<policy, task>>
  BY <1>5, StoreStepTokenizerInv
<1>6. CASE UNCHANGED vars
  BY <1>6, StutterInv
<1>. QED BY <1>1, <1>2, <1>3, <1>4, <1>5, <1>6 DEF Next

\* The coroutines, their captures and the store stay consistent
\* (unstructured_tokenizer.py:242-386).
THEOREM TokenizerInvariant == Spec => []TokenizerInv
<1>. QED BY TokenizerInitInv, TokenizerStepInv, PTL DEF Spec

\* Every variable of the tokenizer and its store keeps its type.
THEOREM TokenizerTypeCorrect == Spec => []TypeOK
<1>1. TokenizerInv => TypeOK
  BY DEF TokenizerInv
<1>. QED BY <1>1, TokenizerInvariant, PTL

-----------------------------------------------------------------------------
(* What a text is anonymized to. *)

\* The kept findings do not overlap, and one that is left out overlaps a kept
\* one that is at least as long (resolve_findings).
THEOREM LongestFirstHolds == Spec => []ResolutionIsLongestFirst
<1>1. ASSUME TokenizerInv, NEW c \in Call, Anonymizer(c), Succeeded(c)
      PROVE  LET kept     == task[c].kept
                 detected == task[c].detected
             IN  /\ \A j, k \in DOMAIN kept : j # k =>
                        kept[j].end <= kept[k].start \/ kept[k].end <= kept[j].start
                 /\ \A i \in DOMAIN detected :
                        \/ \E k \in DOMAIN kept : kept[k] = detected[i]
                        \/ \E k \in DOMAIN kept :
                              /\ kept[k].end - kept[k].start >= detected[i].end - detected[i].start
                              /\ kept[k].start < detected[i].end /\ detected[i].start < kept[k].end
  <2>. DEFINE detected == task[c].detected
  <2>1. task[c].kept = Resolve(detected) /\ IsFindings(detected, task[c].text)
    BY <1>1, AnonymizerMeans DEF AnonymizerInOrder
  <2>2. detected \in Seq(FindingType) /\ \A i \in DOMAIN detected : detected[i].start < detected[i].end
    BY <2>1 DEF IsFindings
  <2>. HIDE DEF detected
  <2>3. /\ IsDisjoint(Resolve(detected))
        /\ \A i \in DOMAIN detected :
              \/ \E k \in DOMAIN Resolve(detected) : Resolve(detected)[k] = detected[i]
              \/ \E k \in DOMAIN Resolve(detected) :
                    /\ Size(Resolve(detected)[k]) >= Size(detected[i])
                    /\ Overlaps(Resolve(detected)[k], detected[i])
    BY <2>2, ResolveKeeps
  <2>. QED BY <2>1, <2>3 DEF detected, IsDisjoint, Disjoint, Size, Overlaps
<1>2. TokenizerInv => ResolutionIsLongestFirst
  BY <1>1 DEF ResolutionIsLongestFirst
<1>. QED BY <1>2, TokenizerInvariant, PTL

\* Splicing the replacements in from the right leaves every other place of the
\* text as it was (apply_transformations).
THEOREM ReplacementsAreInPlace == Spec => []ReplacedInPlace
<1>1. ASSUME TokenizerInv, NEW c \in Call, Anonymizer(c), Succeeded(c)
      PROVE  AnonymizedText(c) = InPlace(c)
  <2>1. task[c].text \in Seq(Symbol) /\ AreKept(task[c].kept, task[c].text)
    BY <1>1, AnonymizerMeans
  <2>2. AnonymizedText(c) = FlattenSeq(Pieces(c, task[c].text, task[c].kept))
    BY <2>1, TransformedIsPieces DEF AnonymizedText
  <2>3. InPlace(c) = FlattenSeq(Pieces(c, task[c].text, task[c].kept))
    BY DEF InPlace, Pieces, PieceAt, Covering
  <2>. QED BY <2>2, <2>3
<1>2. TokenizerInv => ReplacedInPlace
  BY <1>1 DEF ReplacedInPlace
<1>. QED BY <1>2, TokenizerInvariant, PTL

-----------------------------------------------------------------------------
(* What is answered is stored. *)

Tokenized(c) == {k \in DOMAIN task[c].kept : task[c].kept[k].action = "tokenize"}

\* The entity map has the kept finding of each token that was put in the text.
LEMMA EntityMapOf ==
    ASSUME NEW c
    PROVE  /\ DOMAIN EntityMap(c) = {TokenOf(c, k) : k \in Tokenized(c)}
           /\ \A k \in Tokenized(c) : EntityMap(c)[TokenOf(c, k)] = task[c].kept[k]
<1>1. \A k : TokenOf(c, k).at[2] = k
  BY DEF TokenOf
<1>. QED BY <1>1 DEF EntityMap, Tokenized

\* A coroutine stored one blob per finding to tokenize: the finding's value,
\* sealed with the key it captured, under the finding's own token.
LEMMA StoredFinding ==
    ASSUME TokenizerInv, NEW c \in Call, NEW p \in DOMAIN batch[c]
    PROVE  /\ Anonymizer(c) /\ ~task[c].refused
           /\ \E k \in Tokenized(c) :
                 /\ KeyOf(batch[c][p]) = BuildKey(task[c].system, TokenOf(c, k))
                 /\ batch[c][p].blob = Encrypt(task[c].kept[k].value, task[c].config.key, "str")
<1>1. Anonymizer(c)
  <2>1. task[c] # NoTask
    BY DEF TokenizerInv, TypeOK, StoreInv, CallsInOrder
  <2>2. ~Deanonymizer(c)
    BY DEF TokenizerInv, TasksInOrder, DeanonymizerInOrder
  <2>3. task[c] \in TaskType
    BY <2>1 DEF TokenizerInv, TypeOK
  <2>4. task[c].op \in {"anonymize", "deanonymize"}
    BY <2>3 DEF TaskType
  <2>. QED BY <2>1, <2>2, <2>4 DEF Anonymizer, Deanonymizer
<1>. DEFINE t == task[c]
<1>2. /\ t.system \in System /\ AreKept(t.kept, t.text)
      /\ ~t.refused => t.config \in Config
      /\ batch[c] = IF t.refused THEN Nothing ELSE Mappings(c, t.system, t.config, t.kept)
  BY <1>1, AnonymizerMeans DEF AnonymizerInOrder
<1>3. ~t.refused
  <2>1. DOMAIN Nothing = {}
    BY DEF Nothing
  <2>2. batch[c] # Nothing
    BY <2>1
  <2>. QED BY <1>2, <2>2
<1>. HIDE DEF t
<1>4. PICK k \in DOMAIN t.kept : p = <<1, k>> /\ t.kept[k].action = "tokenize"
  BY <1>2, <1>3, MappingsOfFindings
<1>5. /\ KeyOf(batch[c][p]) = BuildKey(t.system, TokenOf(c, k))
      /\ batch[c][p].blob = Encrypt(t.kept[k].value, t.config.key, "str")
  BY <1>2, <1>3, <1>4, MappingsOfFindings
<1>. QED BY <1>1, <1>3, <1>4, <1>5 DEF t, Tokenized

\* A finding's value and key have their types.
LEMMA TokenizedType ==
    ASSUME TokenizerInv, NEW c \in Call, Anonymizer(c), ~task[c].refused, NEW k \in Tokenized(c)
    PROVE  /\ task[c].kept[k].value \in Text
           /\ task[c].config.key \in EncKey
           /\ TokenOf(c, k) \in UuidToken
<1>1. task[c].config \in Config /\ AreKept(task[c].kept, task[c].text)
  BY AnonymizerMeans
<1>2. k \in DOMAIN task[c].kept
  BY DEF Tokenized
<1>3. task[c].kept \in Seq(FindingType) /\ IsBounded(task[c].kept)
  BY <1>1 DEF AreKept
<1>4. task[c].kept[k] \in FindingType
  BY <1>2, <1>3
<1>5. TokenOf(c, k) \in UuidToken
  BY <1>2, <1>3, ReplacementType
<1>. QED BY <1>1, <1>4, <1>5 DEF FindingType, Config

\* A token names its coroutine and its finding.
LEMMA OneTokenOneFinding ==
    ASSUME NEW s, NEW c, NEW k, NEW r, NEW a, NEW j,
           BuildKey(s, TokenOf(c, k)) = BuildKey(r, TokenOf(a, j))
    PROVE  s = r /\ c = a /\ k = j
<1>1. s = r /\ TokenOf(c, k) = TokenOf(a, j)
  BY DEF BuildKey
<1>2. TokenOf(c, k).call = c /\ TokenOf(c, k).at[2] = k
      /\ TokenOf(a, j).call = a /\ TokenOf(a, j).at[2] = j
  BY DEF TokenOf
<1>. QED BY <1>1, <1>2

\* The token of an answered text is in the server, under its finding's value,
\* or has expired.
LEMMA AnsweredTokenIsStored ==
    ASSUME TokenizerInv, NEW c \in Call, Anonymizer(c), Succeeded(c), NEW k \in Tokenized(c)
    PROVE  LET key == BuildKey(task[c].system, TokenOf(c, k))
           IN  /\ \E p \in DOMAIN batch[c] : KeyOf(batch[c][p]) = key
               /\ key \in DOMAIN db \cup expired
               /\ key \in DOMAIN db =>
                     /\ Decrypt(db[key].blob, task[c].config.key).ok
                     /\ Decrypt(db[key].blob, task[c].config.key).text = task[c].kept[k].value
<1>. DEFINE t == task[c]
            key == BuildKey(t.system, TokenOf(c, k))
<1>1. /\ t.system \in System /\ AreKept(t.kept, t.text)
      /\ t.config \in Config /\ ~t.refused /\ status[c] = "done"
      /\ batch[c] = Mappings(c, t.system, t.config, t.kept)
  BY AnonymizerMeans DEF AnonymizerInOrder, Succeeded
<1>2. k \in DOMAIN t.kept /\ t.kept[k].action = "tokenize"
  BY DEF Tokenized
<1>. HIDE DEF t
<1>3. <<1, k>> \in DOMAIN batch[c] /\ KeyOf(batch[c][<<1, k>>]) = key
  BY <1>1, <1>2, MappingsOfFindings
<1>. HIDE DEF key
<1>4. key \in DOMAIN db \cup expired
  BY <1>1, <1>3, StoreInvImpliesPersistence DEF TokenizerInv, AcknowledgedWritesPersist
<1>5. ASSUME key \in DOMAIN db
      PROVE  Decrypt(db[key].blob, t.config.key).ok
             /\ Decrypt(db[key].blob, t.config.key).text = t.kept[k].value
  <2>1. PICK a \in Call : \E p \in DOMAIN batch[a] :
           KeyOf(batch[a][p]) = key /\ db[key].blob = batch[a][p].blob
    BY <1>5 DEF TokenizerInv, StoreInv, EntriesComeFromBatches
  <2>2. PICK p \in DOMAIN batch[a] : KeyOf(batch[a][p]) = key /\ db[key].blob = batch[a][p].blob
    BY <2>1
  <2>3. PICK j \in Tokenized(a) :
           /\ KeyOf(batch[a][p]) = BuildKey(task[a].system, TokenOf(a, j))
           /\ batch[a][p].blob = Encrypt(task[a].kept[j].value, task[a].config.key, "str")
    BY StoredFinding
  <2>4. c = a /\ k = j
    <3>1. BuildKey(t.system, TokenOf(c, k)) = BuildKey(task[a].system, TokenOf(a, j))
      BY <2>2, <2>3 DEF key
    <3>. QED BY <3>1, OneTokenOneFinding
  <2>5. db[key].blob = Encrypt(t.kept[k].value, t.config.key, "str")
    BY <2>2, <2>3, <2>4 DEF t
  <2>6. t.kept[k].value \in Text /\ t.config.key \in EncKey
    BY <1>1, TokenizedType DEF t
  <2>. QED BY <2>5, <2>6, SealedText
<1>. QED BY <1>3, <1>4, <1>5 DEF t, key

\* A token of a coroutine in its own text is that of one of its findings.
LEMMA OwnTokenIsIssued ==
    ASSUME TokenizerInv, NEW c \in Call, Anonymizer(c), NEW x \in ToSet(AnonymizedText(c)),
           x \in UuidToken
    PROVE  \/ x \in ToSet(task[c].text) /\ x.call # c
           \/ \E k \in Tokenized(c) : x = TokenOf(c, k)
<1>. DEFINE text == task[c].text
            kept == task[c].kept
<1>1. text \in Seq(Symbol) /\ AreKept(kept, text)
      /\ \A i \in DOMAIN text : text[i] \in UuidToken => text[i].call # c
  BY AnonymizerMeans DEF AnonymizerInOrder
<1>2. x \in ToSet(Transformed(c, text, kept))
  BY DEF AnonymizedText
<1>. HIDE DEF text, kept
<1>3. x \in ToSet(text) \/ \E k \in DOMAIN kept : x = Replacement(c, kept, k)
  BY <1>1, <1>2, TransformedMembers
<1>4. x \in ToSet(text) => x.call # c
  BY <1>1 DEF ToSet
<1>5. ASSUME NEW k \in DOMAIN kept, x = Replacement(c, kept, k)
      PROVE  k \in Tokenized(c) /\ x = TokenOf(c, k)
  <2>1. kept \in Seq(FindingType) /\ IsBounded(kept)
    BY <1>1 DEF AreKept
  <2>2. x = TokenOf(c, k) /\ kept[k].action = "tokenize"
    BY <1>5, <2>1, ReplacementType
  <2>. QED BY <2>2 DEF Tokenized, kept
<1>. QED BY <1>3, <1>4, <1>5 DEF text

\* No value is lost: every token of an answered text that its coroutine made is
\* in its entity map, and the server has that entity's value under it, readable
\* with the key that was in force, until its TTL ends (anonymize_text).
THEOREM TextValuesAreRecoverable == Spec => []TextValuesRecoverable
<1>1. ASSUME TokenizerInv, NEW c \in Call, Anonymizer(c), Succeeded(c),
             NEW i \in DOMAIN AnonymizedText(c), NEW token, token = AnonymizedText(c)[i],
             token \in UuidToken, token.call = c
      PROVE  LET key == BuildKey(task[c].system, token)
             IN  /\ token \in DOMAIN EntityMap(c)
                 /\ \/ key \in expired
                    \/ /\ key \in DOMAIN db
                       /\ Decrypt(db[key].blob, task[c].config.key).ok
                       /\ Decrypt(db[key].blob, task[c].config.key).text = EntityMap(c)[token].value
  <2>1. token \in ToSet(AnonymizedText(c))
    BY <1>1 DEF ToSet
  <2>2. PICK k \in Tokenized(c) : token = TokenOf(c, k)
    BY <1>1, <2>1, OwnTokenIsIssued
  <2>3. token \in DOMAIN EntityMap(c) /\ EntityMap(c)[token] = task[c].kept[k]
    BY <2>2, EntityMapOf
  <2>. DEFINE key == BuildKey(task[c].system, token)
  <2>4. /\ key \in DOMAIN db \cup expired
        /\ key \in DOMAIN db =>
              /\ Decrypt(db[key].blob, task[c].config.key).ok
              /\ Decrypt(db[key].blob, task[c].config.key).text = task[c].kept[k].value
    BY <1>1, <2>2, AnsweredTokenIsStored
  <2>. QED BY <2>3, <2>4
<1>2. TokenizerInv => TextValuesRecoverable
  BY <1>1 DEF TextValuesRecoverable
<1>. QED BY <1>2, TokenizerInvariant, PTL

\* A token a client already holds is found when it is looked up, unless it has
\* expired (anonymize_text, deanonymize_text).
THEOREM AnsweredTokensFound == Spec => AnsweredTokensAreFound
<1>1. ASSUME TokenizerInv, ReadSeesWrites,
             NEW d \in Call, NEW n \in DOMAIN got'[d] \ DOMAIN got[d], got'[d][n] = NotFound,
             NEW c \in Call, Anonymizer(c), Succeeded(c),
             NEW token \in DOMAIN EntityMap(c), BuildKey(task[c].system, token) = query[d][n]
      PROVE  query[d][n] \in expired
  <2>1. PICK k \in Tokenized(c) : token = TokenOf(c, k)
    <3>1. DOMAIN EntityMap(c) = {TokenOf(c, j) : j \in Tokenized(c)}
      BY EntityMapOf
    <3>. QED BY <1>1, <3>1
  <2>2. \E p \in DOMAIN batch[c] : KeyOf(batch[c][p]) = query[d][n]
    BY <1>1, <2>1, AnsweredTokenIsStored
  <2>3. status[c] = "done"
    BY <1>1 DEF Succeeded
  <2>. QED BY <1>1, <2>2, <2>3 DEF ReadSeesWrites
<1>2. TokenizerInv /\ [Next]_vars => [ReadSeesWrites]_vars
  <2>. SUFFICES ASSUME TokenizerInv, Next PROVE ReadSeesWrites
    OBVIOUS
  <2>1. CASE StoreStep
    BY <2>1, StoreStepReads DEF TokenizerInv
  <2>2. CASE got' = got
    BY <2>2 DEF ReadSeesWrites
  <2>3. StoreStep \/ got' = got
    BY DEF Next, AnonymizeText, DeanonymizeText, Reload, StoreBatch, RetrieveBatch, storeVars
  <2>. QED BY <2>1, <2>2, <2>3
<1>3. TokenizerInv /\ [ReadSeesWrites]_vars =>
         [\A d \in Call : \A n \in DOMAIN got'[d] \ DOMAIN got[d] :
             got'[d][n] = NotFound =>
                 \A c \in Call : Anonymizer(c) /\ Succeeded(c) =>
                     \A token \in DOMAIN EntityMap(c) :
                         BuildKey(task[c].system, token) = query[d][n] => query[d][n] \in expired]_vars
  BY <1>1
<1>. QED BY <1>2, <1>3, TokenizerInvariant, PTL DEF Spec, AnsweredTokensAreFound

-----------------------------------------------------------------------------
(* What is restored was stored. *)

\* A looked-up token of a coroutine that was answered: it was not found, or it
\* is one that a coroutine of the same system stored its finding under.
LEMMA RetrievedFrom ==
    ASSUME TokenizerInv, NEW d \in Call, Deanonymizer(d), Succeeded(d),
           NEW n \in DOMAIN ExtractTokens(task[d].text)
    PROVE  LET token == ExtractTokens(task[d].text)[n]
               answer == Answer(d, BuildKey(task[d].system, token))
           IN  \/ answer = NotFound /\ ~Retrieved(d, n).ok
               \/ \E c \in Call : \E k \in Tokenized(c) :
                     /\ Anonymizer(c) /\ ~task[c].refused
                     /\ task[c].system = task[d].system
                     /\ token = TokenOf(c, k)
                     /\ answer # NotFound
                     /\ Retrieved(d, n).ok <=> task[d].config.key = task[c].config.key
                     /\ Retrieved(d, n).ok => Retrieved(d, n).text = task[c].kept[k].value
<1>. DEFINE t == task[d]
            token == ExtractTokens(t.text)[n]
            key == BuildKey(t.system, token)
            answer == Answer(d, key)
<1>1. /\ status[d] = "done" /\ ~t.refused
      /\ query[d] = Lookups(t.system, t.text)
      /\ DOMAIN got[d] = DOMAIN query[d]
  BY DEF TokenizerInv, TasksInOrder, DeanonymizerInOrder, Succeeded
<1>2. n \in DOMAIN query[d] /\ query[d][n] = key
  BY <1>1 DEF Lookups
<1>3. IsQuery(query[d])
  BY DEF TokenizerInv, StoreInv, StoreTypeOK
<1>. HIDE DEF key, t
<1>4. PICK p \in DOMAIN query[d] : query[d][p] = key /\ answer = got[d][p]
  BY <1>2, <1>3, AnswerWasRead
<1>5. Retrieved(d, n) = IF answer = NotFound THEN Corrupted ELSE Decrypt(answer, t.config.key)
  BY <1>2 DEF Retrieved, KeyInUse, t
<1>6. CASE answer = NotFound
  <2>1. ~Retrieved(d, n).ok
    BY <1>5, <1>6 DEF Corrupted
  <2>. QED BY <1>6, <2>1 DEF key, t
<1>7. CASE answer # NotFound
  <2>1. Stored(key, answer)
    BY <1>1, <1>4, <1>7 DEF TokenizerInv, ReadsOriginate
  <2>2. PICK c \in Call : \E q \in DOMAIN batch[c] : KeyOf(batch[c][q]) = key /\ batch[c][q].blob = answer
    BY <2>1 DEF Stored
  <2>3. PICK q \in DOMAIN batch[c] : KeyOf(batch[c][q]) = key /\ batch[c][q].blob = answer
    BY <2>2
  <2>4. Anonymizer(c) /\ ~task[c].refused
    BY StoredFinding
  <2>5. PICK k \in Tokenized(c) :
           /\ KeyOf(batch[c][q]) = BuildKey(task[c].system, TokenOf(c, k))
           /\ batch[c][q].blob = Encrypt(task[c].kept[k].value, task[c].config.key, "str")
    BY StoredFinding
  <2>6. task[c].system = t.system /\ token = TokenOf(c, k)
    BY <2>3, <2>5 DEF BuildKey, key
  <2>7. task[c].kept[k].value \in Text /\ task[c].config.key \in EncKey
    BY <2>4, TokenizedType
  <2>8. answer = Encrypt(task[c].kept[k].value, task[c].config.key, "str")
    BY <2>3, <2>5
  <2>9. /\ Decrypt(answer, t.config.key).ok <=> t.config.key = task[c].config.key
        /\ t.config.key = task[c].config.key =>
              Decrypt(answer, t.config.key).text = task[c].kept[k].value
    BY <2>7, <2>8, SealedText
  <2>10. Retrieved(d, n) = Decrypt(answer, t.config.key)
    BY <1>5, <1>7
  <2>. HIDE DEF answer, token
  <2>11. /\ Retrieved(d, n).ok <=> t.config.key = task[c].config.key
         /\ Retrieved(d, n).ok => Retrieved(d, n).text = task[c].kept[k].value
    BY <2>9, <2>10
  <2>. QED BY <1>7, <2>4, <2>6, <2>11 DEF answer, token, key, t
<1>. QED BY <1>6, <1>7

\* What str.replace makes of each symbol of a text.
ReplacedPieces(text, token, value) ==
    [i \in DOMAIN text |-> IF text[i] = token THEN value ELSE <<text[i]>>]

LEMMA ReplacedPiecesType ==
    ASSUME NEW A, NEW text \in Seq(A), NEW token, NEW value \in Seq(A)
    PROVE  /\ ReplacedPieces(text, token, value) \in Seq(Seq(A))
           /\ Len(ReplacedPieces(text, token, value)) = Len(text)
           /\ \A i \in 1..Len(text) : ReplacedPieces(text, token, value)[i] =
                 IF text[i] = token THEN value ELSE <<text[i]>>
<1>. DEFINE L == Len(text)
            P == ReplacedPieces(text, token, value)
<1>1. L \in Nat /\ DOMAIN text = 1..L /\ \A i \in 1..L : text[i] \in A
  BY LenProperties
<1>2. P = [i \in 1..L |-> IF text[i] = token THEN value ELSE <<text[i]>>]
  BY <1>1 DEF ReplacedPieces
<1>3. \A x \in A : <<x>> \in Seq(A)
  OBVIOUS
<1>. HIDE DEF L
<1>4. P \in [1..L -> Seq(A)]
  BY <1>1, <1>2, <1>3
<1>5. \A i \in 1..L : P[i] = IF text[i] = token THEN value ELSE <<text[i]>>
  BY <1>2
<1>. HIDE DEF P
<1>6. P \in Seq(Seq(A)) /\ Len(P) = L
  BY <1>1, <1>4, IsASeq, LenProperties
<1>. QED BY <1>5, <1>6 DEF L, P

\* str.replace puts the value for the token, and nothing else.
LEMMA ReplaceTokenMembers ==
    ASSUME NEW A, NEW text \in Seq(A), NEW token, NEW value \in Seq(A)
    PROVE  /\ ReplaceToken(text, token, value) \in Seq(A)
           /\ \A x \in ToSet(ReplaceToken(text, token, value)) : x \in ToSet(text) \cup ToSet(value)
<1>. DEFINE P == ReplacedPieces(text, token, value)
<1>1. /\ P \in Seq(Seq(A)) /\ DOMAIN P = DOMAIN text
      /\ \A i \in DOMAIN text : P[i] = value \/ P[i] = <<text[i]>>
  <2>1. DOMAIN text = 1..Len(text)
    BY LenProperties
  <2>2. /\ P \in Seq(Seq(A))
        /\ \A i \in 1..Len(text) : P[i] = IF text[i] = token THEN value ELSE <<text[i]>>
    BY ReplacedPiecesType
  <2>. QED BY <2>1, <2>2 DEF ReplacedPieces
<1>2. ReplaceToken(text, token, value) = FlattenSeq(P)
  BY DEF ReplaceToken, ReplacedPieces
<1>. HIDE DEF P
<1>3. FlattenSeq(P) \in Seq(A)
  BY <1>1, FlattenType
<1>4. ASSUME NEW x \in ToSet(FlattenSeq(P))
      PROVE  x \in ToSet(text) \cup ToSet(value)
  <2>1. PICK i \in DOMAIN P : x \in ToSet(P[i])
    BY <1>1, FlattenMembers
  <2>2. P[i] = <<text[i]>> => x = text[i]
    BY <2>1 DEF ToSet
  <2>. QED BY <1>1, <2>1, <2>2 DEF ToSet
<1>. QED BY <1>2, <1>3, <1>4

\* One step of deanonymize_text's loop over the tokens.
RestoreStep(d, result, n) ==
    LET tokens == ExtractTokens(task[d].text)
    IN  IF Retrieved(d, n).ok /\ \A m \in 1..(n - 1) : tokens[m] # tokens[n]
        THEN ReplaceToken(result, tokens[n], Retrieved(d, n).text) ELSE result

LEMMA RestoreStepType ==
    ASSUME TokenizerInv, NEW d \in Call, Deanonymizer(d), Succeeded(d),
           NEW n \in DOMAIN ExtractTokens(task[d].text), NEW result \in Seq(Symbol)
    PROVE  RestoreStep(d, result, n) \in Seq(Symbol)
<1>1. CASE Retrieved(d, n).ok
  <2>1. PICK c \in Call : \E k \in Tokenized(c) :
           /\ Anonymizer(c) /\ ~task[c].refused
           /\ Retrieved(d, n).text = task[c].kept[k].value
    BY <1>1, RetrievedFrom
  <2>2. Retrieved(d, n).text \in Text
    BY <2>1, TokenizedType
  <2>3. Retrieved(d, n).text \in Seq(Symbol)
    BY <2>2, TextAssumption
  <2>. DEFINE token == ExtractTokens(task[d].text)[n]
              value == Retrieved(d, n).text
  <2>4. ReplaceToken(result, token, value) \in Seq(Symbol)
    <3>. HIDE DEF value, token
    <3>. QED BY <2>3, ReplaceTokenMembers DEF value
  <2>. QED BY <2>4 DEF RestoreStep
<1>2. CASE ~Retrieved(d, n).ok
  BY <1>2 DEF RestoreStep
<1>. QED BY <1>1, <1>2

\* The loop of deanonymize_text, step by step.
LEMMA RestoreSteps ==
    ASSUME TokenizerInv, NEW d \in Call, Deanonymizer(d), Succeeded(d)
    PROVE  \E g \in [0..Cardinality(TokenPlaces(task[d].text)) -> Seq(Symbol)] :
              /\ g[0] = task[d].text
              /\ \A n \in 1..Cardinality(TokenPlaces(task[d].text)) : g[n] = RestoreStep(d, g[n - 1], n)
              /\ DeanonymizedText(d) = g[Cardinality(TokenPlaces(task[d].text))]
<1>. DEFINE text == task[d].text
            N == Cardinality(TokenPlaces(text))
            tokens == ExtractTokens(text)
            S == Seq(Symbol)
            F == [n \in 1..N |-> [result \in S |-> RestoreStep(d, result, n)]]
<1>1. text \in S
  <2>1. task[d] \in TaskType
    BY DEF TokenizerInv, TypeOK, Deanonymizer
  <2>. QED BY <2>1 DEF TaskType
<1>2. N \in Nat /\ DOMAIN tokens = 1..N
  <2>. HIDE DEF text
  <2>. QED BY <1>1, ExtractedTokens
<1>3. \A n \in 1..N : \A result \in S : RestoreStep(d, result, n) \in S
  BY <1>2, RestoreStepType
<1>4. AreFunctions(F, S, N)
  <2>. HIDE DEF N, S
  <2>. QED BY <1>3 DEF AreFunctions
<1>. DEFINE order == [n \in DOMAIN tokens |-> n]
            IsIter(h) == h = [s \in SUBSET (1..N) |->
                                 IF s = {} THEN text ELSE RestoreStep(d, h[s \ {Max(s)}], order[Max(s)])]
            iter == CHOOSE h : IsIter(h)
<1>5. DeanonymizedText(d) = iter[1..N]
  <2>1. DOMAIN order = 1..N
    BY <1>2
  <2>. HIDE DEF N
  <2>. QED BY <1>2, <2>1 DEF DeanonymizedText, FoldLeft, MapThenFoldSet, RestoreStep
<1>6. \A n \in 1..N : order[n] = n
  BY <1>2
<1>. HIDE DEF order
<1>7. \E h : IsIter(h)
  <2>1. PICK h : IsFold(h, F, S, text, N)
    <3>. HIDE DEF F, S, N, text
    <3>. QED BY <1>1, <1>2, <1>4, FoldExists
  <2>2. /\ h \in [SUBSET (1..N) -> S]
        /\ \A s \in SUBSET (1..N) : h[s] = IF s = {} THEN text ELSE F[Max(s)][h[s \ {Max(s)}]]
    <3>. HIDE DEF F, S, N, text
    <3>. QED BY <2>1 DEF IsFold
  <2>3. ASSUME NEW s \in SUBSET (1..N), s # {}
        PROVE  h[s] = RestoreStep(d, h[s \ {Max(s)}], order[Max(s)])
    <3>1. s \ {Max(s)} \in SUBSET (1..N)
      OBVIOUS
    <3>2. h[s \ {Max(s)}] \in S
      BY <2>2, <3>1
    <3>3. Max(s) \in 1..N
      BY <1>2, <2>3, MaxIsMember
    <3>4. h[s] = F[Max(s)][h[s \ {Max(s)}]]
      BY <2>2, <2>3
    <3>. HIDE DEF N, S
    <3>. QED BY <1>6, <3>2, <3>3, <3>4
  <2>. HIDE DEF F, N, text
  <2>. QED BY <2>2, <2>3
<1>8. IsIter(iter)
  <2>. HIDE DEF IsIter
  <2>. QED BY <1>7
<1>9. FollowsFold(iter, F, S, text, N)
  <2>1. ASSUME NEW s \in SUBSET (1..N), s # {}, iter[s \ {Max(s)}] \in S
        PROVE  iter[s] = F[Max(s)][iter[s \ {Max(s)}]]
    <3>1. Max(s) \in 1..N
      BY <1>2, <2>1, MaxIsMember
    <3>2. iter[s] = RestoreStep(d, iter[s \ {Max(s)}], order[Max(s)])
      <4>. HIDE DEF iter, text
      <4>. QED BY <1>8, <2>1
    <3>. HIDE DEF iter, N, S
    <3>. QED BY <1>6, <2>1, <3>1, <3>2
  <2>2. {} \in SUBSET (1..N) /\ iter[{}] = text
    <3>. HIDE DEF iter, text
    <3>. QED BY <1>8
  <2>. HIDE DEF iter, F, S, N, text
  <2>. QED BY <2>1, <2>2 DEF FollowsFold
<1>10. PICK g : IsRun(g, F, S, text, N) /\ iter[1..N] = g[N]
  <2>. HIDE DEF iter, F, S, N, text
  <2>. QED BY <1>1, <1>2, <1>4, <1>9, FoldIsRun
<1>11. g \in [0..N -> S] /\ g[0] = text /\ \A n \in 1..N : g[n] = F[n][g[n - 1]]
  <2>. HIDE DEF F, S, N, text
  <2>. QED BY <1>10 DEF IsRun
<1>12. \A n \in 1..N : g[n] = RestoreStep(d, g[n - 1], n)
  <2>. SUFFICES ASSUME NEW n \in 1..N
                PROVE  g[n] = RestoreStep(d, g[n - 1], n)
    OBVIOUS
  <2>1. n - 1 \in 0..N
    BY <1>2
  <2>2. g[n - 1] \in S
    BY <1>11, <2>1
  <2>. HIDE DEF N, S, text
  <2>. QED BY <1>11, <2>2
<1>. HIDE DEF iter
<1>. QED BY <1>5, <1>10, <1>11, <1>12

\* The tokens and the text of a de-anonymization.
LEMMA DeanonymizerMeans ==
    ASSUME TokenizerInv, NEW d \in Call, Deanonymizer(d)
    PROVE  /\ task[d].text \in Seq(Symbol)
           /\ LET text   == task[d].text
                  tokens == ExtractTokens(text)
                  places == Ascending(TokenPlaces(text))
                  N      == Cardinality(TokenPlaces(text))
              IN  /\ N \in Nat
                  /\ DOMAIN tokens = 1..N
                  /\ \A i \in TokenPlaces(text) : \E n \in 1..N : places[n] = i
                  /\ \A n \in 1..N :
                        /\ places[n] \in TokenPlaces(text)
                        /\ tokens[n] = IF Glued(text, places[n])
                                       THEN [glued |-> text[places[n]]] ELSE text[places[n]]
<1>1. task[d].text \in Seq(Symbol)
  <2>1. task[d] \in TaskType
    BY DEF TokenizerInv, TypeOK, Deanonymizer
  <2>. QED BY <2>1 DEF TaskType
<1>. DEFINE text   == task[d].text
            tokens == ExtractTokens(text)
            places == Ascending(TokenPlaces(text))
            N      == Cardinality(TokenPlaces(text))
<1>2. /\ N \in Nat /\ places \in [1..N -> TokenPlaces(text)] /\ DOMAIN tokens = 1..N
      /\ \A i \in TokenPlaces(text) : \E n \in 1..N : places[n] = i
      /\ \A n \in DOMAIN tokens : tokens[n] =
            IF Glued(text, places[n]) THEN [glued |-> text[places[n]]] ELSE text[places[n]]
  <2>. HIDE DEF text
  <2>. QED BY <1>1, ExtractedTokens DEF text
<1>. HIDE DEF places, N, tokens, text
<1>3. \A n \in 1..N : places[n] \in TokenPlaces(text)
  BY <1>2
<1>. QED BY <1>1, <1>2, <1>3 DEF places, N, tokens, text

\* A looked-up token that was restored is one of the text as it stands: no
\* coroutine stores under a token that is glued to a word.
LEMMA RestoredToken ==
    ASSUME TokenizerInv, NEW d \in Call, Deanonymizer(d), NEW c \in Call,
           Anonymizer(c), ~task[c].refused, NEW k \in Tokenized(c),
           NEW n \in DOMAIN ExtractTokens(task[d].text),
           ExtractTokens(task[d].text)[n] = TokenOf(c, k)
    PROVE  LET place == Ascending(TokenPlaces(task[d].text))[n]
           IN  ~Glued(task[d].text, place) /\ task[d].text[place] = TokenOf(c, k)
<1>. DEFINE text   == task[d].text
            place == Ascending(TokenPlaces(text))[n]
<1>1. ExtractTokens(text)[n] = IF Glued(text, place) THEN [glued |-> text[place]] ELSE text[place]
  BY DeanonymizerMeans
<1>. HIDE DEF place, text
<1>2. TokenOf(c, k) # [glued |-> text[place]]
  <2>1. DOMAIN TokenOf(c, k) = {"call", "at"}
    BY DEF TokenOf
  <2>2. DOMAIN [glued |-> text[place]] = {"glued"}
    OBVIOUS
  <2>. QED BY <2>1, <2>2
<1>3. TokenOf(c, k) = IF Glued(text, place) THEN [glued |-> text[place]] ELSE text[place]
  BY <1>1 DEF text
<1>4. ~Glued(text, place)
  BY <1>2, <1>3
<1>. QED BY <1>3, <1>4 DEF place, text

\* What comes back is of the text's own system: each symbol of it was in the
\* text, or is of a value that was anonymized for this system under a token of
\* the text (build_key, deanonymize_text).
THEOREM RestoredTextStaysInSystem == Spec => []RestoredTextIsOfSystem
<1>1. ASSUME TokenizerInv, NEW d \in Call, Deanonymizer(d), Succeeded(d),
             NEW symbol \in ToSet(DeanonymizedText(d)) \ ToSet(task[d].text)
      PROVE  \E c \in Call :
                /\ Anonymizer(c) /\ ~task[c].refused /\ task[c].system = task[d].system
                /\ \E token \in DOMAIN EntityMap(c) \cap ToSet(task[d].text) :
                      symbol \in ToSet(EntityMap(c)[token].value)
  <2>. DEFINE text == task[d].text
              tokens == ExtractTokens(text)
              N == Cardinality(TokenPlaces(text))
              Bound(x) == \E c \in Call :
                             /\ Anonymizer(c) /\ ~task[c].refused /\ task[c].system = task[d].system
                             /\ \E token \in DOMAIN EntityMap(c) \cap ToSet(text) :
                                   x \in ToSet(EntityMap(c)[token].value)
  <2>1. PICK g \in [0..N -> Seq(Symbol)] :
           /\ g[0] = text
           /\ \A n \in 1..N : g[n] = RestoreStep(d, g[n - 1], n)
           /\ DeanonymizedText(d) = g[N]
    BY <1>1, RestoreSteps
  <2>2. N \in Nat /\ DOMAIN tokens = 1..N /\ text \in Seq(Symbol)
    BY <1>1, DeanonymizerMeans
  <2>3. ASSUME NEW n \in 1..N, Retrieved(d, n).ok
        PROVE  /\ Retrieved(d, n).text \in Seq(Symbol)
               /\ \A x \in ToSet(Retrieved(d, n).text) : Bound(x)
    <3>1. n \in DOMAIN tokens
      BY <2>2
    <3>2. PICK c \in Call : \E k \in Tokenized(c) :
             /\ Anonymizer(c) /\ ~task[c].refused
             /\ task[c].system = task[d].system
             /\ tokens[n] = TokenOf(c, k)
             /\ Retrieved(d, n).text = task[c].kept[k].value
      BY <1>1, <2>3, <3>1, RetrievedFrom
    <3>3. PICK k \in Tokenized(c) :
             /\ Anonymizer(c) /\ ~task[c].refused
             /\ task[c].system = task[d].system
             /\ tokens[n] = TokenOf(c, k)
             /\ Retrieved(d, n).text = task[c].kept[k].value
      BY <3>2
    <3>4. Retrieved(d, n).text \in Seq(Symbol)
      BY <1>1, <3>3, TokenizedType, TextAssumption
    <3>. DEFINE place == Ascending(TokenPlaces(text))[n]
    <3>5. text[place] = TokenOf(c, k)
      BY <1>1, <3>1, <3>3, RestoredToken
    <3>6. place \in DOMAIN text
      <4>1. place \in TokenPlaces(text)
        BY <1>1, <2>2, DeanonymizerMeans
      <4>. QED BY <4>1 DEF TokenPlaces
    <3>7. TokenOf(c, k) \in ToSet(text)
      <4>. HIDE DEF place, text
      <4>. QED BY <3>5, <3>6 DEF ToSet
    <3>8. TokenOf(c, k) \in DOMAIN EntityMap(c) /\ EntityMap(c)[TokenOf(c, k)] = task[c].kept[k]
      <4>1. DOMAIN EntityMap(c) = {TokenOf(c, j) : j \in Tokenized(c)}
        BY EntityMapOf
      <4>2. EntityMap(c)[TokenOf(c, k)] = task[c].kept[k]
        BY EntityMapOf
      <4>. QED BY <4>1, <4>2
    <3>. QED BY <3>3, <3>4, <3>7, <3>8
  <2>4. symbol \in ToSet(DeanonymizedText(d)) /\ symbol \notin ToSet(text)
    OBVIOUS
  <2>. HIDE DEF Bound, text, N, tokens
  <2>. DEFINE Good == {n \in 0..N : \A x \in ToSet(g[n]) : x \in ToSet(text) \/ Bound(x)}
  <2>5. 0 \in Good
    BY <2>1, <2>2
  <2>6. ASSUME NEW m \in 0..N, m < N, m \in Good
        PROVE  m + 1 \in Good
    <3>. DEFINE n == m + 1
                value == Retrieved(d, n).text
                token == tokens[n]
                result == g[m]
    <3>1. n \in 1..N /\ n \in 0..N /\ n - 1 = m
      BY <2>2, <2>6
    <3>2. result \in Seq(Symbol) /\ \A x \in ToSet(result) : x \in ToSet(text) \/ Bound(x)
      BY <2>6
    <3>3. g[n] = RestoreStep(d, result, n)
      <4>. HIDE DEF n
      <4>. QED BY <2>1, <3>1
    <3>4. g[n] = result \/ (Retrieved(d, n).ok /\ g[n] = ReplaceToken(result, token, value))
      <4>. HIDE DEF n, result
      <4>. QED BY <3>3 DEF RestoreStep, tokens, text
    <3>5. CASE g[n] = result
      BY <3>1, <3>2, <3>5
    <3>6. CASE Retrieved(d, n).ok /\ g[n] = ReplaceToken(result, token, value)
      <4>1. value \in Seq(Symbol) /\ \A x \in ToSet(value) : Bound(x)
        <5>. HIDE DEF n
        <5>. QED BY <2>3, <3>1, <3>6
      <4>. HIDE DEF value, token, result
      <4>2. \A x \in ToSet(g[n]) : x \in ToSet(result) \cup ToSet(value)
        BY <3>2, <3>6, <4>1, ReplaceTokenMembers
      <4>3. \A x \in ToSet(g[n]) : x \in ToSet(text) \/ Bound(x)
        BY <3>2, <4>1, <4>2
      <4>. QED BY <3>1, <4>3
    <3>. QED BY <3>4, <3>5, <3>6
  <2>7. N \in Good
    <3>. HIDE DEF Good
    <3>1. 0..N \subseteq Good
      BY <2>2, <2>5, <2>6, UpTo
    <3>. QED BY <2>2, <3>1
  <2>8. Bound(symbol)
    BY <2>1, <2>4, <2>7
  <2>. QED BY <2>8 DEF Bound, text
<1>2. TokenizerInv => RestoredTextIsOfSystem
  BY <1>1 DEF RestoredTextIsOfSystem
<1>. QED BY <1>2, TokenizerInvariant, PTL

-----------------------------------------------------------------------------
(* Restoring inverts anonymizing. *)

\* str.replace in a text of two parts, in one symbol, and without the token.
LEMMA ReplaceTokenConcat ==
    ASSUME NEW A, NEW a \in Seq(A), NEW b \in Seq(A), NEW token, NEW value \in Seq(A)
    PROVE  ReplaceToken(a \o b, token, value)
              = ReplaceToken(a, token, value) \o ReplaceToken(b, token, value)
<1>. DEFINE pa == ReplacedPieces(a, token, value)
            pb == ReplacedPieces(b, token, value)
            pc == ReplacedPieces(a \o b, token, value)
            l == Len(a)
            r == Len(b)
<1>1. /\ l \in Nat /\ r \in Nat /\ a \o b \in Seq(A) /\ Len(a \o b) = l + r
      /\ \A i \in 1..(l + r) : (a \o b)[i] = IF i <= l THEN a[i] ELSE b[i - l]
  BY LenProperties, ConcatProperties
<1>2. /\ pa \in Seq(Seq(A)) /\ Len(pa) = l
      /\ \A i \in 1..l : pa[i] = IF a[i] = token THEN value ELSE <<a[i]>>
  BY ReplacedPiecesType
<1>3. /\ pb \in Seq(Seq(A)) /\ Len(pb) = r
      /\ \A i \in 1..r : pb[i] = IF b[i] = token THEN value ELSE <<b[i]>>
  BY ReplacedPiecesType
<1>. DEFINE ab == a \o b
<1>4. /\ pc \in Seq(Seq(A)) /\ Len(pc) = l + r
      /\ \A i \in 1..(l + r) : pc[i] = IF ab[i] = token THEN value ELSE <<ab[i]>>
  <2>1. ab \in Seq(A) /\ Len(ab) = l + r
    BY <1>1
  <2>. HIDE DEF ab
  <2>2. /\ ReplacedPieces(ab, token, value) \in Seq(Seq(A))
        /\ Len(ReplacedPieces(ab, token, value)) = Len(ab)
        /\ \A i \in 1..Len(ab) : ReplacedPieces(ab, token, value)[i] =
              IF ab[i] = token THEN value ELSE <<ab[i]>>
    BY <2>1, ReplacedPiecesType
  <2>. HIDE DEF l, r
  <2>. QED BY <2>1, <2>2 DEF ab
<1>5. \A i \in 1..(l + r) : ab[i] = IF i <= l THEN a[i] ELSE b[i - l]
  BY <1>1
<1>. HIDE DEF pa, pb, pc, ab, l, r
<1>6. pc = pa \o pb
  <2>1. /\ pa \o pb \in Seq(Seq(A)) /\ Len(pa \o pb) = l + r
        /\ \A i \in 1..(l + r) : (pa \o pb)[i] = IF i <= l THEN pa[i] ELSE pb[i - l]
    BY <1>2, <1>3, ConcatProperties, ZenonT(40)
  <2>2. ASSUME NEW i \in 1..(l + r)
        PROVE  pc[i] = (pa \o pb)[i]
    <3>1. CASE i <= l
      <4>1. i \in 1..l
        BY <1>1, <3>1
      <4>2. (pa \o pb)[i] = pa[i] /\ ab[i] = a[i]
        BY <1>5, <2>1, <3>1
      <4>3. pa[i] = IF a[i] = token THEN value ELSE <<a[i]>>
        BY <1>2, <4>1
      <4>. QED BY <1>4, <4>2, <4>3
    <3>2. CASE ~(i <= l)
      <4>. DEFINE k == i - l
      <4>1. k \in 1..r
        BY <1>1, <3>2
      <4>2. (pa \o pb)[i] = pb[k] /\ ab[i] = b[k]
        BY <1>5, <2>1, <3>2
      <4>. HIDE DEF k
      <4>3. pb[k] = IF b[k] = token THEN value ELSE <<b[k]>>
        BY <1>3, <4>1
      <4>. QED BY <1>4, <4>2, <4>3
    <3>. QED BY <3>1, <3>2
  <2>. DEFINE pp == pa \o pb
  <2>. HIDE DEF pp
  <2>3. pp \in Seq(Seq(A)) /\ Len(pp) = l + r /\ \A i \in 1..(l + r) : pc[i] = pp[i]
    BY <2>1, <2>2 DEF pp
  <2>4. pc = pp
    BY <1>4, <2>3, SeqEqual
  <2>. QED BY <2>4 DEF pp
<1>7. FlattenSeq(pa \o pb) = FlattenSeq(pa) \o FlattenSeq(pb)
  BY <1>2, <1>3, FlattenConcat
<1>8. /\ ReplaceToken(a, token, value) = FlattenSeq(pa)
      /\ ReplaceToken(b, token, value) = FlattenSeq(pb)
      /\ ReplaceToken(a \o b, token, value) = FlattenSeq(pc)
  BY DEF ReplaceToken, ReplacedPieces, pa, pb, pc
<1>. QED BY <1>6, <1>7, <1>8

ReplacesOne(token, value) ==
    \A x : ReplaceToken(<<x>>, token, value) = IF x = token THEN value ELSE <<x>>

LEMMA ReplaceTokenFew ==
    ASSUME NEW A, NEW token, NEW value \in Seq(A)
    PROVE  ReplaceToken(<<>>, token, value) = <<>> /\ ReplacesOne(token, value)
<1>1. ReplaceToken(<<>>, token, value) = <<>>
  <2>1. ReplacedPieces(<<>>, token, value) = <<>>
    BY DEF ReplacedPieces
  <2>. QED BY <2>1, FlattenFew DEF ReplaceToken, ReplacedPieces
<1>2. ASSUME NEW x
      PROVE  ReplaceToken(<<x>>, token, value) = IF x = token THEN value ELSE <<x>>
  <2>. DEFINE piece == IF x = token THEN value ELSE <<x>>
              B == A \cup {x}
  <2>1. ReplaceToken(<<x>>, token, value) = FlattenSeq(<<piece>>)
    <3>1. ReplacedPieces(<<x>>, token, value) = <<piece>>
      BY DEF ReplacedPieces
    <3>. QED BY <3>1 DEF ReplaceToken, ReplacedPieces
  <2>2. piece \in Seq(B)
    <3>1. <<x>> \in Seq(B)
      OBVIOUS
    <3>2. value \in Seq(B)
      <4>1. value = [i \in 1..Len(value) |-> value[i]] /\ Len(value) \in Nat
            /\ \A i \in 1..Len(value) : value[i] \in A
        BY LenProperties
      <4>2. \A i \in 1..Len(value) : value[i] \in B
        BY <4>1
      <4>. HIDE DEF B
      <4>. QED BY <4>1, <4>2, IsASeq
    <3>. QED BY <3>1, <3>2
  <2>. HIDE DEF piece, B
  <2>3. FlattenSeq(<<piece>>) = piece
    BY <2>2, FlattenFew
  <2>. QED BY <2>1, <2>3 DEF piece
<1>. QED BY <1>1, <1>2 DEF ReplacesOne

LEMMA ReplaceTokenAbsent ==
    ASSUME NEW A, NEW text \in Seq(A), NEW token, NEW value \in Seq(A), token \notin ToSet(text)
    PROVE  ReplaceToken(text, token, value) = text
<1>. DEFINE P == ReplacedPieces(text, token, value)
            L == Len(text)
<1>1. /\ P \in Seq(Seq(A)) /\ Len(P) = L
      /\ \A i \in 1..L : P[i] = IF text[i] = token THEN value ELSE <<text[i]>>
  BY ReplacedPiecesType
<1>2. L \in Nat /\ \A i \in 1..L : i \in DOMAIN text
  BY LenProperties
<1>3. \A i \in 1..L : P[i] = <<text[i]>>
  BY <1>1, <1>2 DEF ToSet
<1>4. 1 \in 1..(L + 1) /\ L \in (1 - 1)..L
  BY <1>2
<1>5. ReplaceToken(text, token, value) = FlattenSeq(P)
  BY DEF ReplaceToken, ReplacedPieces
<1>. HIDE DEF P
<1>6. Joined(P, 1, L) = SubSeq(text, 1, L)
  <2>1. Len(P) = Len(text) /\ 1 \in 1..(Len(P) + 1) /\ L \in (1 - 1)..Len(P)
    BY <1>1, <1>4
  <2>. HIDE DEF L
  <2>. QED BY <1>1, <1>3, <2>1, JoinedSingles
<1>7. SubSeq(text, 1, L) = text /\ SubSeq(P, 1, L) = P
  BY <1>1, SubSeqFull
<1>. QED BY <1>5, <1>6, <1>7 DEF Joined

\* str.replace in each of the pieces of a text.
AreReplaced(A, seqs, other, token, value) ==
    /\ seqs \in Seq(Seq(A)) /\ other \in Seq(Seq(A)) /\ value \in Seq(A)
    /\ Len(other) = Len(seqs)
    /\ \A i \in 1..Len(seqs) : other[i] = ReplaceToken(seqs[i], token, value)

LEMMA ReplaceTokenFlatten ==
    ASSUME NEW A, NEW seqs, NEW token, NEW value, NEW other, AreReplaced(A, seqs, other, token, value)
    PROVE  ReplaceToken(FlattenSeq(seqs), token, value) = FlattenSeq(other)
<1>. USE DEF AreReplaced
<1>. DEFINE N == Len(seqs)
<1>1. PICK g \in [0..N -> Seq(A)] :
         /\ g[0] = <<>>
         /\ \A n \in 1..N : g[n] = g[n - 1] \o seqs[n] /\ seqs[n] \in Seq(A)
         /\ FlattenSeq(seqs) = g[N]
  BY FlattenSteps
<1>2. N \in Nat /\ Len(other) = N
  BY LenProperties
<1>3. \A n \in 1..N : other[n] = ReplaceToken(seqs[n], token, value)
  OBVIOUS
<1>. HIDE DEF N
<1>. DEFINE h == [n \in 0..N |-> ReplaceToken(g[n], token, value)]
<1>4. \A n \in 0..N : g[n] \in Seq(A)
  OBVIOUS
<1>5. \A n \in 0..N : ReplaceToken(g[n], token, value) \in Seq(A)
  BY <1>4, ReplaceTokenMembers
<1>6. h \in [0..N -> Seq(A)]
  BY <1>5
<1>7. h[0] = <<>>
  <2>1. 0 \in 0..N
    BY <1>2
  <2>. QED BY <1>1, <2>1, ReplaceTokenFew, ZenonT(40)
<1>8. ASSUME NEW n \in 1..N
      PROVE  h[n] = h[n - 1] \o other[n]
  <2>. DEFINE m == n - 1
              before == g[m]
              piece == seqs[n]
  <2>1. m \in 0..N /\ n \in 0..N
    BY <1>2
  <2>2. g[n] = before \o piece /\ piece \in Seq(A) /\ before \in Seq(A)
    BY <1>1, <1>4, <2>1
  <2>3. h[n] = ReplaceToken(g[n], token, value) /\ h[m] = ReplaceToken(before, token, value)
    <3>. HIDE DEF m
    <3>. QED BY <2>1
  <2>4. other[n] = ReplaceToken(piece, token, value)
    BY <1>3
  <2>. HIDE DEF before, piece, m, h
  <2>5. ReplaceToken(before \o piece, token, value)
           = ReplaceToken(before, token, value) \o ReplaceToken(piece, token, value)
    BY <2>2, ReplaceTokenConcat, SMTT(30)
  <2>. QED BY <2>2, <2>3, <2>4, <2>5 DEF m
<1>9. h[N] = ReplaceToken(g[N], token, value)
  BY <1>2
<1>. HIDE DEF h
<1>10. FlattenSeq(other) = h[Len(other)]
  <2>1. h \in [0..Len(other) -> Seq(A)] /\ \A n \in 1..Len(other) : h[n] = h[n - 1] \o other[n]
    BY <1>2, <1>6, <1>8
  <2>. QED BY <1>7, <2>1, FlattenUnique
<1>. QED BY <1>1, <1>2, <1>9, <1>10

\* A text without tokens is answered with tokens of its own findings, each of
\* them once.
LEMMA TokensOccurOnce ==
    ASSUME TokenizerInv, NEW c \in Call, Anonymizer(c), ~task[c].refused, ~HoldsToken(task[c].text)
    PROVE  /\ AnonymizedText(c) \in Seq(Symbol)
           /\ \A i \in DOMAIN AnonymizedText(c) : AnonymizedText(c)[i] \in UuidToken =>
                 \E k \in Tokenized(c) : AnonymizedText(c)[i] = TokenOf(c, k)
           /\ \A i, j \in DOMAIN AnonymizedText(c) :
                 /\ AnonymizedText(c)[i] \in UuidToken
                 /\ AnonymizedText(c)[i] = AnonymizedText(c)[j]
                 => i = j
<1>. DEFINE text == task[c].text
            kept == task[c].kept
            P == Pieces(c, text, kept)
            T == AnonymizedText(c)
            L == Len(text)
<1>1. text \in Seq(Symbol) /\ AreKept(kept, text)
  BY AnonymizerMeans
<1>2. \A i \in DOMAIN text : text[i] \notin UuidToken
  BY DEF HoldsToken
<1>. HIDE DEF text, kept
<1>3. /\ P \in Seq(Seq(Symbol)) /\ Len(P) = L
      /\ \A i \in 1..L : /\ P[i] = PieceAt(c, text, kept, i)
                         /\ P[i] = <<>> \/ \E x \in Symbol : P[i] = <<x>>
  BY <1>1, PiecesType
<1>4. T = FlattenSeq(P) /\ T \in Seq(Symbol)
  BY <1>1, TransformedIsPieces DEF AnonymizedText, text, kept
<1>5. DOMAIN text = 1..L /\ L \in Nat
  BY <1>1, LenProperties
<1>. HIDE DEF P, T
<1>6. PICK o : AreOrigins(o, P, L, T)
  <2>1. \A i \in 1..Len(P) : P[i] = <<>> \/ \E x \in Symbol : P[i] = <<x>>
    BY <1>3
  <2>2. \E o : AreOrigins(o, P, Len(P), FlattenSeq(P))
    BY <1>3, <2>1, FlattenOrigins
  <2>. QED BY <1>3, <1>4, <2>2
<1>7. DOMAIN T = 1..Len(T) /\ Len(T) \in Nat
  BY <1>4, LenProperties
<1>8. ASSUME NEW i \in DOMAIN T, T[i] \in UuidToken
      PROVE  \E k \in Tokenized(c) : T[i] = TokenOf(c, k) /\ o[i] = kept[k].start + 1
  <2>. DEFINE at == o[i]
  <2>1. at \in 1..L /\ P[at] = <<T[i]>>
    BY <1>6, <1>7 DEF AreOrigins
  <2>. HIDE DEF at
  <2>2. P[at] = PieceAt(c, text, kept, at) /\ at \in DOMAIN text /\ at \in Nat
    <3>1. at \in DOMAIN text /\ at \in Nat
      BY <1>5, <2>1
    <3>. HIDE DEF L
    <3>2. P[at] = PieceAt(c, text, kept, at)
      BY <1>3, <2>1
    <3>. QED BY <3>1, <3>2
  <2>3. Covering(kept, at) # {}
    <3>. SUFFICES ASSUME Covering(kept, at) = {} PROVE FALSE
      OBVIOUS
    <3>1. P[at] = <<text[at]>>
      BY <2>2 DEF PieceAt
    <3>2. T[i] = text[at]
      BY <2>1, <3>1
    <3>. QED BY <1>2, <1>8, <2>2, <3>2
  <2>4. PICK k \in DOMAIN kept : kept[k].start < at /\ at <= kept[k].end
    BY <2>3 DEF Covering
  <2>5. PieceAt(c, text, kept, at) =
           IF kept[k].start + 1 = at THEN <<Replacement(c, kept, k)>> ELSE <<>>
    <3>1. kept[k].start < at /\ at <= kept[k].end /\ at \in Nat
      BY <2>2, <2>4
    <3>. QED BY <1>1, <3>1, PieceOfFinding
  <2>6. kept[k].start + 1 = at /\ <<T[i]>> = <<Replacement(c, kept, k)>>
    <3>1. <<T[i]>> # <<>>
      OBVIOUS
    <3>. QED BY <2>1, <2>2, <2>5, <3>1
  <2>7. T[i] = Replacement(c, kept, k)
    BY <2>6
  <2>8. T[i] = TokenOf(c, k) /\ kept[k].action = "tokenize"
    BY <1>1, <1>8, <2>7, ReplacementType DEF AreKept
  <2>. QED BY <2>6, <2>8 DEF Tokenized, kept, at
<1>9. ASSUME NEW i \in DOMAIN T, NEW j \in DOMAIN T, T[i] \in UuidToken, T[i] = T[j]
      PROVE  i = j
  <2>1. PICK k \in Tokenized(c) : T[i] = TokenOf(c, k) /\ o[i] = kept[k].start + 1
    BY <1>8, <1>9
  <2>2. PICK m \in Tokenized(c) : T[j] = TokenOf(c, m) /\ o[j] = kept[m].start + 1
    BY <1>8, <1>9
  <2>3. k = m
    <3>1. BuildKey(c, TokenOf(c, k)) = BuildKey(c, TokenOf(c, m))
      BY <1>9, <2>1, <2>2
    <3>. QED BY <3>1, OneTokenOneFinding
  <2>4. o[i] = o[j]
    BY <2>1, <2>2, <2>3
  <2>. QED BY <1>6, <1>7, <2>4 DEF AreOrigins
<1>. QED BY <1>4, <1>8, <1>9 DEF T

\* What becomes of a place of an answered text that is de-anonymized.
RestoredPiece(d, c, i) ==
    IF task[d].text[i] \in DOMAIN EntityMap(c) /\ Restorable(d, c, i)
    THEN EntityMap(c)[task[d].text[i]].value ELSE <<task[d].text[i]>>

\* Coroutine d de-anonymizes what c answered for a text without tokens.
RestoresAnswer(d, c) ==
    /\ d \in Call /\ Deanonymizer(d) /\ Succeeded(d)
    /\ c \in Call /\ Anonymizer(c) /\ Succeeded(c)
    /\ ~HoldsToken(task[c].text)
    /\ task[d].text = AnonymizedText(c)

LEMMA OwnFinding ==
    ASSUME TokenizerInv, NEW d, NEW c, RestoresAnswer(d, c),
           NEW i \in DOMAIN task[d].text, task[d].text[i] \in UuidToken
    PROVE  \E k \in Tokenized(c) :
              /\ task[d].text[i] = TokenOf(c, k)
              /\ task[d].text[i] \in DOMAIN EntityMap(c)
              /\ EntityMap(c)[task[d].text[i]] = task[c].kept[k]
<1>1. ~task[c].refused
  BY DEF RestoresAnswer, Succeeded
<1>2. PICK k \in Tokenized(c) : task[d].text[i] = TokenOf(c, k)
  BY <1>1, TokensOccurOnce DEF RestoresAnswer
<1>3. DOMAIN EntityMap(c) = {TokenOf(c, j) : j \in Tokenized(c)}
  BY EntityMapOf
<1>4. EntityMap(c)[TokenOf(c, k)] = task[c].kept[k]
  BY EntityMapOf
<1>. QED BY <1>2, <1>3, <1>4

\* Each piece is its symbol, or a value that holds no token.
LEMMA RestoredPieceType ==
    ASSUME TokenizerInv, NEW d, NEW c, RestoresAnswer(d, c), NEW i \in DOMAIN task[d].text
    PROVE  /\ RestoredPiece(d, c, i) \in Seq(Symbol)
           /\ task[d].text[i] \notin UuidToken => RestoredPiece(d, c, i) = <<task[d].text[i]>>
           /\ \/ RestoredPiece(d, c, i) = <<task[d].text[i]>>
              \/ ToSet(RestoredPiece(d, c, i)) \cap UuidToken = {}
<1>. DEFINE x == task[d].text[i]
<1>0. c \in Call /\ d \in Call /\ Anonymizer(c) /\ ~task[c].refused /\ Deanonymizer(d)
  BY DEF RestoresAnswer, Succeeded
<1>1. x \in Symbol
  <2>1. task[d].text \in Seq(Symbol)
    BY <1>0, DeanonymizerMeans
  <2>. QED BY <2>1
<1>2. <<x>> \in Seq(Symbol)
  BY <1>1
<1>3. x \in DOMAIN EntityMap(c) => x \in UuidToken
  <2>1. DOMAIN EntityMap(c) = {TokenOf(c, j) : j \in Tokenized(c)}
    BY EntityMapOf
  <2>2. \A j \in Tokenized(c) : TokenOf(c, j) \in UuidToken
    BY <1>0, TokenizedType
  <2>. QED BY <2>1, <2>2
<1>4. ASSUME x \in UuidToken
      PROVE  /\ EntityMap(c)[x].value \in Seq(Symbol)
             /\ ToSet(EntityMap(c)[x].value) \cap UuidToken = {}
  <2>1. PICK k \in Tokenized(c) : EntityMap(c)[x] = task[c].kept[k]
    BY <1>4, OwnFinding
  <2>2. task[c].kept[k].value \in Text
    BY <1>0, TokenizedType
  <2>3. ToSet(task[c].kept[k].value) \cap UuidToken \subseteq ToSet(task[c].text)
    <3>1. AreKept(task[c].kept, task[c].text) /\ k \in DOMAIN task[c].kept
      BY <1>0, AnonymizerMeans DEF Tokenized
    <3>. QED BY <3>1 DEF AreKept, AreSpans
  <2>4. ToSet(task[c].text) \cap UuidToken = {}
    BY DEF RestoresAnswer, HoldsToken, ToSet
  <2>. QED BY <2>1, <2>2, <2>3, <2>4, TextAssumption
<1>. HIDE DEF x
<1>5. RestoredPiece(d, c, i) = <<x>>
      \/ (x \in UuidToken /\ RestoredPiece(d, c, i) = EntityMap(c)[x].value)
  BY <1>3 DEF RestoredPiece, x
<1>6. x \notin UuidToken => RestoredPiece(d, c, i) = <<x>>
  BY <1>5
<1>. QED BY <1>2, <1>4, <1>5, <1>6 DEF x

\* A place is restored to what its token was found and decrypted to.
LEMMA RestoredPieceAt ==
    ASSUME TokenizerInv, NEW d, NEW c, RestoresAnswer(d, c),
           NEW n \in DOMAIN ExtractTokens(task[d].text)
    PROVE  LET i     == Ascending(TokenPlaces(task[d].text))[n]
               token == ExtractTokens(task[d].text)[n]
           IN  /\ Retrieved(d, n).ok =>
                     /\ token = task[d].text[i]
                     /\ RestoredPiece(d, c, i) = Retrieved(d, n).text
               /\ ~Retrieved(d, n).ok => RestoredPiece(d, c, i) = <<task[d].text[i]>>
<1>. DEFINE text  == task[d].text
            i     == Ascending(TokenPlaces(text))[n]
            token == ExtractTokens(text)[n]
            key   == BuildKey(task[d].system, token)
<1>1. /\ d \in Call /\ Deanonymizer(d) /\ Succeeded(d)
      /\ c \in Call /\ Anonymizer(c)
  BY DEF RestoresAnswer
<1>2. i \in TokenPlaces(text) /\ token = IF Glued(text, i) THEN [glued |-> text[i]] ELSE text[i]
  BY <1>1, DeanonymizerMeans
<1>3. i \in DOMAIN text /\ text[i] \in UuidToken
  BY <1>2 DEF TokenPlaces
<1>. HIDE DEF i
<1>4. PICK k \in Tokenized(c) :
         /\ text[i] = TokenOf(c, k)
         /\ text[i] \in DOMAIN EntityMap(c)
         /\ EntityMap(c)[text[i]] = task[c].kept[k]
  BY <1>3, OwnFinding
<1>5. ASSUME NEW a \in Call, NEW j \in Tokenized(a), text[i] = TokenOf(a, j)
      PROVE  a = c /\ j = k
  <2>1. BuildKey(c, TokenOf(c, k)) = BuildKey(c, TokenOf(a, j))
    BY <1>4, <1>5
  <2>. QED BY <2>1, OneTokenOneFinding
<1>6. ASSUME Retrieved(d, n).ok
      PROVE  token = text[i] /\ RestoredPiece(d, c, i) = Retrieved(d, n).text
  <2>1. PICK a \in Call : \E j \in Tokenized(a) :
           /\ Anonymizer(a) /\ ~task[a].refused
           /\ task[a].system = task[d].system
           /\ token = TokenOf(a, j)
           /\ Answer(d, key) # NotFound
           /\ Retrieved(d, n).ok <=> task[d].config.key = task[a].config.key
           /\ Retrieved(d, n).ok => Retrieved(d, n).text = task[a].kept[j].value
    BY <1>1, <1>6, RetrievedFrom
  <2>2. PICK j \in Tokenized(a) :
           /\ Anonymizer(a) /\ ~task[a].refused
           /\ task[a].system = task[d].system
           /\ token = TokenOf(a, j)
           /\ Answer(d, key) # NotFound
           /\ Retrieved(d, n).ok <=> task[d].config.key = task[a].config.key
           /\ Retrieved(d, n).ok => Retrieved(d, n).text = task[a].kept[j].value
    BY <2>1
  <2>3. ~Glued(text, i) /\ text[i] = TokenOf(a, j)
    BY <1>1, <2>2, RestoredToken DEF i
  <2>4. a = c /\ j = k
    BY <1>5, <2>3
  <2>5. task[c].system = task[d].system /\ task[d].config.key = task[c].config.key
    BY <1>6, <2>2, <2>4
  <2>6. token = text[i]
    BY <2>2, <2>3
  <2>7. Retrieved(d, n).text = task[c].kept[k].value
    BY <1>6, <2>2, <2>4
  <2>8. Restorable(d, c, i)
    BY <2>2, <2>3, <2>5, <2>6 DEF Restorable
  <2>. QED BY <1>4, <2>6, <2>7, <2>8 DEF RestoredPiece
<1>7. ASSUME ~Retrieved(d, n).ok
      PROVE  RestoredPiece(d, c, i) = <<text[i]>>
  <2>. SUFFICES ASSUME Restorable(d, c, i) PROVE FALSE
    BY DEF RestoredPiece
  <2>1. /\ task[d].system = task[c].system
        /\ task[d].config.key = task[c].config.key
        /\ ~Glued(text, i)
        /\ Answer(d, BuildKey(task[d].system, text[i])) # NotFound
    BY DEF Restorable
  <2>2. token = text[i]
    BY <1>2, <2>1
  <2>3. Answer(d, key) # NotFound
    BY <2>1, <2>2
  <2>4. PICK a \in Call : \E j \in Tokenized(a) :
           /\ token = TokenOf(a, j)
           /\ Retrieved(d, n).ok <=> task[d].config.key = task[a].config.key
    BY <1>1, <2>3, RetrievedFrom
  <2>5. a = c
    BY <1>5, <2>2, <2>4
  <2>. QED BY <1>7, <2>1, <2>4, <2>5
<1>. QED BY <1>6, <1>7 DEF i

\* The text once n of its tokens have been looked at, in pieces.
RestoredUpTo(d, c, n) ==
    LET text   == task[d].text
        places == Ascending(TokenPlaces(text))
    IN  [i \in DOMAIN text |->
            IF \E m \in 1..n : places[m] = i THEN RestoredPiece(d, c, i) ELSE <<text[i]>>]

AreRestored(P, d, c, n) ==
    /\ P \in Seq(Seq(Symbol))
    /\ Len(P) = Len(task[d].text)
    /\ \A i \in 1..Len(task[d].text) :
          P[i] = IF \E m \in 1..n : Ascending(TokenPlaces(task[d].text))[m] = i
                 THEN RestoredPiece(d, c, i) ELSE <<task[d].text[i]>>

LEMMA RestoredUpToType ==
    ASSUME TokenizerInv, NEW d, NEW c, RestoresAnswer(d, c), NEW n
    PROVE  AreRestored(RestoredUpTo(d, c, n), d, c, n)
<1>. DEFINE text   == task[d].text
            places == Ascending(TokenPlaces(text))
            L      == Len(text)
            P      == RestoredUpTo(d, c, n)
<1>1. text \in Seq(Symbol)
  BY DeanonymizerMeans DEF RestoresAnswer
<1>2. \A i \in DOMAIN text : RestoredPiece(d, c, i) \in Seq(Symbol)
  BY RestoredPieceType
<1>. HIDE DEF text
<1>3. L \in Nat /\ DOMAIN text = 1..L /\ \A i \in 1..L : text[i] \in Symbol
  BY <1>1, LenProperties
<1>4. P = [i \in 1..L |-> IF \E m \in 1..n : places[m] = i THEN RestoredPiece(d, c, i) ELSE <<text[i]>>]
  BY <1>3 DEF RestoredUpTo, text
<1>5. \A x \in Symbol : <<x>> \in Seq(Symbol)
  OBVIOUS
<1>. HIDE DEF L, places
<1>6. \A i \in 1..L : P[i] = IF \E m \in 1..n : places[m] = i THEN RestoredPiece(d, c, i) ELSE <<text[i]>>
  BY <1>4
<1>7. P \in [1..L -> Seq(Symbol)]
  BY <1>2, <1>3, <1>4, <1>5
<1>. HIDE DEF P
<1>8. P \in Seq(Seq(Symbol)) /\ Len(P) = L
  BY <1>3, <1>7, IsASeq, LenProperties
<1>. QED BY <1>6, <1>8 DEF AreRestored, P, L, places, text

\* One step of the loop restores the pieces of one token.
LEMMA RestoreStepPieces ==
    ASSUME TokenizerInv, NEW d, NEW c, RestoresAnswer(d, c),
           NEW n \in 1..Cardinality(TokenPlaces(task[d].text))
    PROVE  RestoreStep(d, FlattenSeq(RestoredUpTo(d, c, n - 1)), n) = FlattenSeq(RestoredUpTo(d, c, n))
<1>. DEFINE text   == task[d].text
            tokens == ExtractTokens(text)
            places == Ascending(TokenPlaces(text))
            N      == Cardinality(TokenPlaces(text))
            at     == places[n]
            L      == Len(text)
            before == RestoredUpTo(d, c, n - 1)
            after  == RestoredUpTo(d, c, n)
            token  == tokens[n]
            value  == Retrieved(d, n).text
            piece(i) == RestoredPiece(d, c, i)
<1>1. /\ d \in Call /\ Deanonymizer(d) /\ Succeeded(d)
      /\ c \in Call /\ Anonymizer(c) /\ ~task[c].refused
  BY DEF RestoresAnswer, Succeeded
<1>2. /\ text \in Seq(Symbol) /\ N \in Nat /\ DOMAIN tokens = 1..N
      /\ \A m \in 1..N : /\ places[m] \in TokenPlaces(text)
                         /\ tokens[m] = IF Glued(text, places[m])
                                        THEN [glued |-> text[places[m]]] ELSE text[places[m]]
  BY <1>1, DeanonymizerMeans
<1>3. L \in Nat /\ DOMAIN text = 1..L
  BY <1>2, LenProperties
<1>4. at \in TokenPlaces(text) /\ at \in 1..L /\ text[at] \in UuidToken
  BY <1>2, <1>3 DEF TokenPlaces
<1>5. /\ before \in Seq(Seq(Symbol)) /\ Len(before) = L
      /\ \A i \in 1..L : before[i] = IF \E m \in 1..(n - 1) : places[m] = i THEN piece(i) ELSE <<text[i]>>
  <2>1. AreRestored(before, d, c, n - 1)
    BY RestoredUpToType
  <2>. HIDE DEF before
  <2>. QED BY <2>1 DEF AreRestored
<1>6. /\ after \in Seq(Seq(Symbol)) /\ Len(after) = L
      /\ \A i \in 1..L : after[i] = IF \E m \in 1..n : places[m] = i THEN piece(i) ELSE <<text[i]>>
  <2>1. AreRestored(after, d, c, n)
    BY RestoredUpToType
  <2>. HIDE DEF after
  <2>. QED BY <2>1 DEF AreRestored
<1>7. 1..n = 1..(n - 1) \cup {n} /\ \A m \in 1..(n - 1) : m \in 1..N /\ n \in 1..N
  BY <1>2
<1>8. /\ Retrieved(d, n).ok => token = text[at] /\ piece(at) = value
      /\ ~Retrieved(d, n).ok => piece(at) = <<text[at]>>
  <2>1. n \in DOMAIN tokens
    BY <1>2
  <2>. QED BY <2>1, RestoredPieceAt
<1>9. \A i \in 1..L : /\ piece(i) \in Seq(Symbol)
                      /\ piece(i) = <<text[i]>> \/ ToSet(piece(i)) \cap UuidToken = {}
  BY <1>3, RestoredPieceType
<1>10. \A i \in 1..L : text[i] = text[at] => i = at
  <2>1. ~HoldsToken(task[c].text) /\ text = AnonymizedText(c)
    BY DEF RestoresAnswer
  <2>2. \A i, j \in DOMAIN AnonymizedText(c) :
           /\ AnonymizedText(c)[i] \in UuidToken
           /\ AnonymizedText(c)[i] = AnonymizedText(c)[j]
           => i = j
    BY <1>1, <2>1, TokensOccurOnce
  <2>. HIDE DEF at, L
  <2>. QED BY <1>3, <1>4, <2>1, <2>2
<1>11. RestoreStep(d, FlattenSeq(before), n) =
          IF Retrieved(d, n).ok /\ \A m \in 1..(n - 1) : tokens[m] # token
          THEN ReplaceToken(FlattenSeq(before), token, value) ELSE FlattenSeq(before)
  BY DEF RestoreStep
<1>. HIDE DEF text, tokens, places, N, at, L, before, after, token, value, piece
<1>12. ASSUME NEW i \in 1..L, i # at
       PROVE  after[i] = before[i]
  <2>1. (\E m \in 1..n : places[m] = i) <=> (\E m \in 1..(n - 1) : places[m] = i)
    BY <1>7, <1>12 DEF at
  <2>. QED BY <1>5, <1>6, <2>1
<1>13. after[at] = piece(at)
  <2>1. \E m \in 1..n : places[m] = at
    BY <1>7 DEF at
  <2>. QED BY <1>4, <1>6, <2>1
<1>14. ASSUME after[at] = before[at]
       PROVE  after = before
  <2>1. \A i \in 1..L : after[i] = before[i]
    BY <1>12, <1>14
  <2>. QED BY <1>5, <1>6, <2>1, SeqEqual
<1>15. CASE ~Retrieved(d, n).ok
  <2>1. before[at] = piece(at)
    BY <1>4, <1>5, <1>8, <1>15
  <2>2. after = before
    BY <1>13, <1>14, <2>1
  <2>. QED BY <1>11, <1>15, <2>2 DEF before, after
<1>16. CASE Retrieved(d, n).ok /\ \E m \in 1..(n - 1) : tokens[m] = token
  <2>1. PICK m \in 1..(n - 1) : tokens[m] = token
    BY <1>16
  <2>2. m \in 1..N /\ places[m] \in 1..L
    BY <1>2, <1>3, <1>7 DEF TokenPlaces
  <2>3. tokens[m] = text[at]
    BY <1>8, <1>16, <2>1
  <2>4. ~Glued(text, places[m])
    <3>. SUFFICES ASSUME Glued(text, places[m]) PROVE FALSE
      OBVIOUS
    <3>1. [glued |-> text[places[m]]] = text[at]
      BY <1>2, <2>2, <2>3
    <3>2. DOMAIN [glued |-> text[places[m]]] = {"glued"}
      OBVIOUS
    <3>3. DOMAIN text[at] = {"call", "at"}
      BY <1>4 DEF UuidToken
    <3>. QED BY <3>1, <3>2, <3>3
  <2>5. text[places[m]] = text[at]
    BY <1>2, <2>2, <2>3, <2>4
  <2>6. places[m] = at
    BY <1>10, <2>2, <2>5
  <2>7. before[at] = piece(at)
    BY <1>4, <1>5, <2>6
  <2>8. after = before
    BY <1>13, <1>14, <2>7
  <2>9. ~(\A k \in 1..(n - 1) : tokens[k] # token)
    BY <1>16
  <2>. QED BY <1>11, <2>8, <2>9 DEF before, after
<1>17. CASE Retrieved(d, n).ok /\ \A m \in 1..(n - 1) : tokens[m] # token
  <2>1. token = text[at] /\ piece(at) = value /\ value \in Seq(Symbol)
    BY <1>4, <1>8, <1>9, <1>17
  <2>2. before[at] = <<text[at]>>
    <3>1. ASSUME NEW m \in 1..(n - 1), places[m] = at
          PROVE  FALSE
      <4>1. tokens[m] = IF Glued(text, at) THEN [glued |-> text[at]] ELSE text[at]
        BY <1>2, <1>7, <3>1
      <4>2. tokens[n] = IF Glued(text, at) THEN [glued |-> text[at]] ELSE text[at]
        BY <1>2 DEF at, N, text
      <4>3. tokens[m] = token
        BY <4>1, <4>2 DEF token
      <4>. QED BY <1>17, <4>3
    <3>. QED BY <1>4, <1>5, <3>1
  <2>3. value \in Seq(Symbol)
    BY <2>1
  <2>4. \A x : ReplaceToken(<<x>>, token, value) = IF x = token THEN value ELSE <<x>>
    <3>1. ReplacesOne(token, value)
      BY <2>3, ReplaceTokenFew
    <3>. QED BY <3>1 DEF ReplacesOne
  <2>5. ASSUME NEW i \in 1..L
        PROVE  after[i] = ReplaceToken(before[i], token, value)
    <3>1. CASE i = at
      <4>1. ReplaceToken(<<text[at]>>, token, value) = value
        BY <2>1, <2>4
      <4>. QED BY <1>13, <2>1, <2>2, <3>1, <4>1
    <3>2. CASE i # at
      <4>1. after[i] = before[i]
        BY <1>12, <3>2
      <4>2. text[i] # token
        BY <1>10, <2>1, <3>2
      <4>3. before[i] = <<text[i]>> \/ (before[i] = piece(i) /\ ToSet(piece(i)) \cap UuidToken = {})
        BY <1>5, <1>9
      <4>4. CASE before[i] = <<text[i]>>
        BY <2>4, <4>1, <4>2, <4>4
      <4>5. CASE before[i] = piece(i) /\ ToSet(piece(i)) \cap UuidToken = {}
        <5>1. token \notin ToSet(piece(i)) /\ piece(i) \in Seq(Symbol)
          BY <1>4, <1>9, <2>1, <4>5
        <5>2. ReplaceToken(piece(i), token, value) = piece(i)
          BY <2>1, <5>1, ReplaceTokenAbsent
        <5>. QED BY <4>1, <4>5, <5>2
      <4>. QED BY <4>3, <4>4, <4>5
    <3>. QED BY <3>1, <3>2
  <2>6. ReplaceToken(FlattenSeq(before), token, value) = FlattenSeq(after)
    <3>1. before \in Seq(Seq(Symbol)) /\ after \in Seq(Seq(Symbol)) /\ Len(after) = Len(before)
      BY <1>5, <1>6
    <3>2. \A i \in 1..Len(before) : after[i] = ReplaceToken(before[i], token, value)
      BY <1>5, <2>5
    <3>3. AreReplaced(Symbol, before, after, token, value)
      BY <2>3, <3>1, <3>2 DEF AreReplaced
    <3>. QED BY ONLY <3>3, ReplaceTokenFlatten
  <2>. QED BY <1>11, <1>17, <2>6 DEF before, after
<1>. QED BY <1>15, <1>16, <1>17

\* De-anonymizing an answered text puts back each finding's value wherever its
\* token is not glued to a word, was found, and is read with the key it was
\* written with, and changes no other symbol.
LEMMA RestoresPieces ==
    ASSUME TokenizerInv, NEW d, NEW c, RestoresAnswer(d, c)
    PROVE  DeanonymizedText(d) = FlattenSeq([i \in DOMAIN task[d].text |-> RestoredPiece(d, c, i)])
<1>. DEFINE text == task[d].text
            places == Ascending(TokenPlaces(text))
            N == Cardinality(TokenPlaces(text))
            L == Len(text)
            P(n) == RestoredUpTo(d, c, n)
<1>1. d \in Call /\ Deanonymizer(d) /\ Succeeded(d)
  BY DEF RestoresAnswer
<1>2. /\ text \in Seq(Symbol) /\ N \in Nat
      /\ \A i \in TokenPlaces(text) : \E n \in 1..N : places[n] = i
      /\ \A n \in 1..N : places[n] \in TokenPlaces(text)
  BY <1>1, DeanonymizerMeans
<1>3. DOMAIN text = 1..L /\ L \in Nat
  BY <1>2, LenProperties
<1>4. PICK g \in [0..N -> Seq(Symbol)] :
         /\ g[0] = text
         /\ \A n \in 1..N : g[n] = RestoreStep(d, g[n - 1], n)
         /\ DeanonymizedText(d) = g[N]
  BY <1>1, RestoreSteps
<1>. DEFINE Good == {n \in 0..N : g[n] = FlattenSeq(P(n))}
<1>5. 0 \in Good
  <2>. DEFINE start == P(0)
  <2>1. /\ start \in Seq(Seq(Symbol)) /\ Len(start) = L
        /\ \A i \in 1..L : start[i] = IF \E m \in 1..0 : places[m] = i
                                      THEN RestoredPiece(d, c, i) ELSE <<text[i]>>
    <3>1. AreRestored(start, d, c, 0)
      BY RestoredUpToType
    <3>. HIDE DEF start
    <3>. QED BY <3>1 DEF AreRestored
  <2>2. \A i \in 1..L : start[i] = <<text[i]>>
    BY <2>1
  <2>3. 1 \in 1..(Len(start) + 1) /\ L \in (1 - 1)..Len(start) /\ Len(start) = Len(text)
    BY <1>3, <2>1
  <2>. HIDE DEF start, L, text
  <2>4. Joined(start, 1, L) = SubSeq(text, 1, L)
    <3>1. text \in Seq(Symbol)
      BY <1>2
    <3>2. start \in Seq(Seq(Symbol))
      BY <2>1
    <3>. QED BY ONLY <2>2, <2>3, <3>1, <3>2, JoinedSingles
  <2>5. SubSeq(start, 1, L) = start
    BY <2>1, SubSeqFull
  <2>6. SubSeq(text, 1, L) = text
    BY <1>2, SubSeqFull DEF L
  <2>7. FlattenSeq(start) = text
    BY <2>4, <2>5, <2>6 DEF Joined
  <2>8. 0 \in 0..N
    BY <1>2
  <2>. HIDE DEF N
  <2>. QED BY <1>4, <2>7, <2>8 DEF start, text
<1>6. ASSUME NEW m \in 0..N, m < N, m \in Good
      PROVE  m + 1 \in Good
  <2>. DEFINE n == m + 1
  <2>1. n \in 1..N /\ n \in 0..N /\ n - 1 = m
    BY <1>2, <1>6
  <2>2. g[m] = FlattenSeq(P(m))
    BY <1>6
  <2>. HIDE DEF n
  <2>3. g[n] = RestoreStep(d, g[n - 1], n)
    BY <1>4, <2>1
  <2>4. RestoreStep(d, FlattenSeq(P(n - 1)), n) = FlattenSeq(P(n))
    BY <2>1, RestoreStepPieces
  <2>5. g[n] = FlattenSeq(P(n))
    BY <2>1, <2>2, <2>3, <2>4
  <2>. QED BY <2>1, <2>5 DEF n
<1>7. N \in Good
  <2>. HIDE DEF Good, N
  <2>1. 0..N \subseteq Good
    BY <1>2, <1>5, <1>6, UpTo
  <2>. QED BY <1>2, <2>1
<1>8. P(N) = [i \in DOMAIN text |-> RestoredPiece(d, c, i)]
  <2>1. ASSUME NEW i \in DOMAIN text, ~\E m \in 1..N : places[m] = i
        PROVE  RestoredPiece(d, c, i) = <<text[i]>>
    <3>1. text[i] \notin UuidToken
      BY <1>2, <2>1 DEF TokenPlaces
    <3>. QED BY <3>1, RestoredPieceType
  <2>2. P(N) = [i \in DOMAIN text |-> IF \E m \in 1..N : places[m] = i
                                     THEN RestoredPiece(d, c, i) ELSE <<text[i]>>]
    BY DEF RestoredUpTo
  <2>. HIDE DEF text, N, places
  <2>3. \A i \in DOMAIN text : (IF \E m \in 1..N : places[m] = i
                                THEN RestoredPiece(d, c, i) ELSE <<text[i]>>) = RestoredPiece(d, c, i)
    BY <2>1
  <2>. QED BY <2>2, <2>3
<1>. QED BY <1>4, <1>7, <1>8

\* De-anonymizing an answered text puts back each finding's value, and only
\* that, wherever its token is not glued to a word, was found, and is read with
\* the key it was written with (anonymize_text, deanonymize_text).
THEOREM RestoreInvertsAnonymizing == Spec => []RestoreInvertsAnonymize
<1>1. ASSUME TokenizerInv, NEW d \in Call, NEW c \in Call,
             Deanonymizer(d), Succeeded(d), Anonymizer(c), Succeeded(c),
             ~HoldsToken(task[c].text), task[d].text = AnonymizedText(c)
      PROVE  DeanonymizedText(d) =
                FlattenSeq([i \in DOMAIN task[d].text |->
                    IF task[d].text[i] \in DOMAIN EntityMap(c) /\ Restorable(d, c, i)
                    THEN EntityMap(c)[task[d].text[i]].value ELSE <<task[d].text[i]>>])
  <2>1. RestoresAnswer(d, c)
    BY <1>1 DEF RestoresAnswer
  <2>2. DeanonymizedText(d) = FlattenSeq([i \in DOMAIN task[d].text |-> RestoredPiece(d, c, i)])
    BY <1>1, <2>1, RestoresPieces
  <2>. QED BY <2>2 DEF RestoredPiece
<1>2. TokenizerInv => RestoreInvertsAnonymize
  BY <1>1 DEF RestoreInvertsAnonymize
<1>. QED BY <1>2, TokenizerInvariant, PTL
==============================================================================
