-------------------------- MODULE TokenStore_proofs --------------------------
(***************************************************************************)
(* Facts about the token store for every set of systems, tokens, blobs and *)
(* calls, and every number of attempts: what its operators return, and     *)
(* that each of its operations preserves StoreInv.                         *)
(*                                                                         *)
(* They are preceded by what the proofs about the store and the tokenizers *)
(* rest on: facts about enumerations, folds and concatenations of lists,   *)
(* which are recursively defined functions, and what the crypto engine     *)
(* makes of its own blobs.  Induction over a number is stated for the set  *)
(* of the numbers that have the property at hand.                          *)
(***************************************************************************)
EXTENDS TokenStore, CryptoEngine, Enumeration, SequencesExt, SequenceTheorems, FiniteSetTheorems, TLAPS

-----------------------------------------------------------------------------
(* Induction and recursion over numbers. *)

LessThan == {ss \in Nat \X Nat : ss[1] < ss[2]}

\* A non-empty set of naturals has a least element.
LEMMA LeastNatural ==
    ASSUME NEW S \in SUBSET Nat, S # {}
    PROVE  \E n \in S : \A m \in S : n <= m
<1>1. IsWellFoundedOn(LessThan, Nat)
  BY NatLessThanWellFounded DEF LessThan, OpToRel
<1>2. PICK n \in S : \A m \in S : ~(<<m, n>> \in LessThan)
  BY <1>1, WFMin
<1>3. ASSUME NEW m \in S
      PROVE  n <= m
  <2>1. m \in Nat /\ n \in Nat
    OBVIOUS
  <2>2. ~(m < n)
    BY <1>2, <2>1 DEF LessThan
  <2>. QED BY <2>1, <2>2
<1>. QED BY <1>3

\* A set that has 0, and with a number below N the next one, has all up to N.
LEMMA UpTo ==
    ASSUME NEW N \in Nat, NEW S, 0 \in S, \A n \in 0..N : n < N /\ n \in S => n + 1 \in S
    PROVE  0..N \subseteq S
<1>. DEFINE Missing == {n \in 0..N : n \notin S}
<1>. SUFFICES ASSUME Missing # {} PROVE FALSE
  OBVIOUS
<1>1. PICK n \in Missing : \A m \in Missing : n <= m
  <2>1. Missing \in SUBSET Nat
    OBVIOUS
  <2>. HIDE DEF Missing
  <2>. QED BY <2>1, LeastNatural
<1>2. n # 0 /\ n - 1 \in 0..N /\ n - 1 < N /\ n - 1 \notin Missing
  BY <1>1
<1>3. n - 1 \in S
  BY <1>2
<1>4. (n - 1) + 1 \in S
  BY <1>2, <1>3
<1>. QED BY <1>1, <1>4

\* The values that the functions of a list give, applied one after the other.
AreFunctions(F, S, N) == F \in [1..N -> [S -> S]]

IsRun(g, F, S, base, N) ==
    /\ g \in [0..N -> S]
    /\ g[0] = base
    /\ \A n \in 1..N : g[n] = F[n][g[n - 1]]

LEMMA Recursion ==
    ASSUME NEW S, NEW base \in S, NEW N \in Nat, NEW F, AreFunctions(F, S, N)
    PROVE  \E g : IsRun(g, F, S, base, N)
<1>. USE DEF AreFunctions
<1>. DEFINE Good == {k \in 0..N : \E g \in [0..k -> S] :
                        g[0] = base /\ \A n \in 1..k : g[n] = F[n][g[n - 1]]}
<1>1. 0 \in Good
  <2>. DEFINE g == [k \in 0..0 |-> base]
  <2>1. g \in [0..0 -> S] /\ g[0] = base /\ \A n \in 1..0 : FALSE
    OBVIOUS
  <2>. HIDE DEF g
  <2>. QED BY <2>1
<1>2. ASSUME NEW k \in 0..N, k < N, k \in Good
      PROVE  k + 1 \in Good
  <2>1. PICK g \in [0..k -> S] : g[0] = base /\ \A n \in 1..k : g[n] = F[n][g[n - 1]]
    BY <1>2
  <2>. DEFINE h == [n \in 0..(k + 1) |-> IF n = k + 1 THEN F[k + 1][g[k]] ELSE g[n]]
  <2>2. F[k + 1][g[k]] \in S
    BY <1>2
  <2>3. h \in [0..(k + 1) -> S] /\ h[0] = base
    BY <2>1, <2>2, <1>2
  <2>4. ASSUME NEW n \in 1..(k + 1)
        PROVE  h[n] = F[n][h[n - 1]]
    <3>1. n - 1 \in 0..k /\ h[n - 1] = g[n - 1]
      BY <1>2
    <3>2. CASE n = k + 1
      BY <3>1, <3>2, <1>2
    <3>3. CASE n # k + 1
      BY <2>1, <3>1, <3>3, <1>2
    <3>. QED BY <3>2, <3>3
  <2>. HIDE DEF h
  <2>5. \E f \in [0..(k + 1) -> S] : f[0] = base /\ \A n \in 1..(k + 1) : f[n] = F[n][f[n - 1]]
    BY <2>3, <2>4, Zenon
  <2>6. k + 1 \in 0..N
    BY <1>2
  <2>. QED BY <2>5, <2>6, Zenon
<1>3. N \in Good
  <2>. HIDE DEF Good
  <2>1. 0..N \subseteq Good
    BY <1>1, <1>2, UpTo
  <2>. QED BY <2>1
<1>. QED BY <1>3 DEF IsRun

-----------------------------------------------------------------------------
(* Folds: FoldLeft picks the last place of a set of places each time. *)

\* The last place of the first n.
LEMMA LastPlace ==
    ASSUME NEW n \in Nat \ {0}
    PROVE  Max(1..n) = n /\ (1..n) \ {n} = 1..(n - 1) /\ 1..n # {}
<1>1. n \in 1..n /\ \A m \in 1..n : n >= m
  OBVIOUS
<1>2. \A x \in 1..n : (\A m \in 1..n : x >= m) => x = n
  OBVIOUS
<1>3. Max(1..n) = n
  BY <1>1, <1>2 DEF Max
<1>4. (1..n) \ {n} = 1..(n - 1)
  OBVIOUS
<1>. QED BY <1>1, <1>3, <1>4

\* A place that Max picks is one of the places.
LEMMA MaxIsMember ==
    ASSUME NEW N \in Nat, NEW s \in SUBSET (1..N), s # {}
    PROVE  Max(s) \in s
<1>. DEFINE Least == {N - n : n \in s}
<1>1. Least \in SUBSET Nat /\ Least # {}
  <2>1. \A n \in s : N - n \in Nat
    OBVIOUS
  <2>. QED BY <2>1
<1>2. PICK l \in Least : \A m \in Least : l <= m
  <2>. HIDE DEF Least
  <2>. QED BY <1>1, LeastNatural
<1>3. PICK n \in s : l = N - n
  OBVIOUS
<1>4. ASSUME NEW m \in s
      PROVE  n >= m
  <2>1. N - m \in Least /\ m \in Nat /\ n \in Nat
    OBVIOUS
  <2>. HIDE DEF Least
  <2>2. N - n <= N - m
    BY <1>2, <1>3, <2>1
  <2>. QED BY <2>1, <2>2
<1>. QED BY <1>4 DEF Max

\* The function a fold is defined by exists.
IsFold(h, F, S, base, N) ==
    /\ h \in [SUBSET (1..N) -> S]
    /\ \A s \in SUBSET (1..N) : h[s] = IF s = {} THEN base ELSE F[Max(s)][h[s \ {Max(s)}]]

LEMMA FoldExists ==
    ASSUME NEW S, NEW base \in S, NEW N \in Nat, NEW F, AreFunctions(F, S, N)
    PROVE  \E h : IsFold(h, F, S, base, N)
<1>. USE DEF AreFunctions
<1>. DEFINE Folds(h, k) ==
              \A s \in SUBSET (1..k) :
                 h[s] = IF s = {} THEN base ELSE F[Max(s)][h[s \ {Max(s)}]]
            Good == {k \in 0..N : \E h \in [SUBSET (1..k) -> S] : Folds(h, k)}
<1>1. 0 \in Good
  <2>. DEFINE h == [s \in SUBSET (1..0) |-> base]
  <2>1. h \in [SUBSET (1..0) -> S] /\ \A s \in SUBSET (1..0) : s = {} /\ h[s] = base
    OBVIOUS
  <2>2. Folds(h, 0)
    <3>. HIDE DEF h
    <3>. QED BY <2>1
  <2>3. 0 \in 0..N
    OBVIOUS
  <2>. HIDE DEF h, Folds
  <2>. QED BY <2>1, <2>2, <2>3
<1>2. ASSUME NEW k \in 0..N, k < N, k \in Good
      PROVE  k + 1 \in Good
  <2>1. PICK g \in [SUBSET (1..k) -> S] : Folds(g, k)
    BY <1>2
  <2>. DEFINE h == [s \in SUBSET (1..(k + 1)) |->
                       IF k + 1 \in s THEN F[k + 1][g[s \ {k + 1}]] ELSE g[s]]
  <2>2. ASSUME NEW s \in SUBSET (1..(k + 1)), k + 1 \in s
        PROVE  /\ s \ {k + 1} \in SUBSET (1..k)
               /\ Max(s) = k + 1
               /\ h[s] = F[k + 1][g[s \ {k + 1}]] /\ h[s] \in S
               /\ h[s \ {k + 1}] = g[s \ {k + 1}]
    <3>1. s \ {k + 1} \in SUBSET (1..k) /\ s \ {k + 1} \in SUBSET (1..(k + 1))
      BY <1>2
    <3>2. Max(s) = k + 1
      <4>1. \A m \in s : k + 1 >= m
        BY <1>2
      <4>2. \A x \in s : (\A m \in s : x >= m) => x = k + 1
        BY <1>2, <2>2
      <4>. QED BY <2>2, <4>1, <4>2 DEF Max
    <3>3. g[s \ {k + 1}] \in S /\ k + 1 \in 1..N
      BY <1>2, <3>1
    <3>. QED BY <2>2, <3>1, <3>2, <3>3
  <2>3. ASSUME NEW s \in SUBSET (1..(k + 1)), k + 1 \notin s
        PROVE  s \in SUBSET (1..k) /\ h[s] = g[s] /\ h[s] \in S
               /\ \A x : h[s \ {x}] = g[s \ {x}]
    <3>1. s \in SUBSET (1..k)
      BY <1>2, <2>3
    <3>. QED BY <2>3, <3>1
  <2>4. h \in [SUBSET (1..(k + 1)) -> S]
    <3>1. \A s \in SUBSET (1..(k + 1)) : h[s] \in S
      BY <2>2, <2>3
    <3>2. h = [s \in SUBSET (1..(k + 1)) |-> h[s]]
      OBVIOUS
    <3>. HIDE DEF h
    <3>. QED BY <3>1, <3>2
  <2>5. Folds(h, k + 1)
    <3>. SUFFICES ASSUME NEW s \in SUBSET (1..(k + 1))
                  PROVE  h[s] = IF s = {} THEN base ELSE F[Max(s)][h[s \ {Max(s)}]]
      OBVIOUS
    <3>. HIDE DEF h
    <3>1. CASE k + 1 \in s
      BY <2>2, <3>1
    <3>2. CASE k + 1 \notin s
      BY <2>1, <2>3, <3>2
    <3>. QED BY <3>1, <3>2
  <2>. HIDE DEF h, Folds
  <2>. QED BY <1>2, <2>4, <2>5
<1>3. N \in Good
  <2>. HIDE DEF Good
  <2>1. 0..N \subseteq Good
    BY <1>1, <1>2, UpTo
  <2>. QED BY <2>1
<1>. QED BY <1>3 DEF IsFold

\* A function that picks the last place each time ends with the last value of
\* a run, though nothing more is known of its values.
FollowsFold(h, F, S, base, N) ==
    \A s \in SUBSET (1..N) :
        IF s = {} THEN h[s] = base
        ELSE h[s \ {Max(s)}] \in S => h[s] = F[Max(s)][h[s \ {Max(s)}]]

LEMMA FoldIsRun ==
    ASSUME NEW S, NEW base \in S, NEW N \in Nat, NEW F, AreFunctions(F, S, N),
           NEW h, FollowsFold(h, F, S, base, N)
    PROVE  \E g : IsRun(g, F, S, base, N) /\ h[1..N] = g[N]
<1>1. PICK g : IsRun(g, F, S, base, N)
  BY Recursion
<1>. DEFINE Same == {n \in 0..N : h[1..n] = g[n]}
<1>2. 0 \in Same
  <2>1. 1..0 = {} /\ {} \in SUBSET (1..N) /\ 0 \in 0..N
    OBVIOUS
  <2>. QED BY <1>1, <2>1 DEF FollowsFold, IsRun
<1>3. ASSUME NEW n \in 0..N, n < N, n \in Same
      PROVE  n + 1 \in Same
  <2>1. n + 1 \in Nat \ {0} /\ n + 1 \in 1..N /\ n + 1 \in 0..N /\ (n + 1) - 1 = n
    BY <1>3
  <2>2. Max(1..(n + 1)) = n + 1 /\ (1..(n + 1)) \ {n + 1} = 1..n /\ 1..(n + 1) # {}
    <3>. DEFINE m == n + 1
    <3>1. m \in Nat \ {0} /\ m - 1 = n
      BY <2>1
    <3>. HIDE DEF m
    <3>2. Max(1..m) = m /\ (1..m) \ {m} = 1..(m - 1) /\ 1..m # {}
      BY <3>1, LastPlace
    <3>. QED BY <3>1, <3>2 DEF m
  <2>3. 1..(n + 1) \in SUBSET (1..N)
    BY <2>1
  <2>4. h[1..n] = g[n] /\ g[n] \in S
    BY <1>1, <1>3 DEF IsRun
  <2>5. h[1..(n + 1)] = F[n + 1][h[1..n]]
    BY <2>2, <2>3, <2>4 DEF FollowsFold
  <2>6. g[n + 1] = F[n + 1][g[n]]
    BY <1>1, <2>1 DEF IsRun
  <2>. QED BY <2>1, <2>4, <2>5, <2>6
<1>4. 0..N \subseteq Same
  <2>. HIDE DEF Same
  <2>. QED BY <1>2, <1>3, UpTo
<1>5. N \in Same
  BY <1>4
<1>. QED BY <1>1, <1>5

-----------------------------------------------------------------------------
(* Enumerations. *)

IsStrictOrder(S, order) ==
    /\ \A x \in S : <<x, x>> \notin order
    /\ \A x, y \in S : x # y => <<x, y>> \in order \/ <<y, x>> \in order
    /\ \A x, y, z \in S : <<x, y>> \in order /\ <<y, z>> \in order => <<x, z>> \in order

Rank(S, order, x) == Cardinality({y \in S : <<y, x>> \in order})

\* The number of the elements before an element tells it from every other one,
\* and every number below the size of the set is such a number.
LEMMA RanksAreAll ==
    ASSUME NEW S, IsFiniteSet(S), NEW order, IsStrictOrder(S, order)
    PROVE  /\ \A x \in S : Rank(S, order, x) \in 0..(Cardinality(S) - 1)
           /\ \A x, y \in S : <<x, y>> \in order => Rank(S, order, x) < Rank(S, order, y)
           /\ \A n \in 0..(Cardinality(S) - 1) : \E x \in S : Rank(S, order, x) = n
<1>. DEFINE Under(x) == {y \in S : <<y, x>> \in order}
            N == Cardinality(S)
            rank == [x \in S |-> Rank(S, order, x)]
<1>0. N \in Nat
  BY FS_CardinalityType
<1>1. ASSUME NEW x \in S
      PROVE  IsFiniteSet(Under(x)) /\ Rank(S, order, x) \in 0..(N - 1)
  <2>1. IsFiniteSet(Under(x)) /\ Cardinality(Under(x)) <= N
        /\ (Cardinality(Under(x)) = N => Under(x) = S)
    <3>1. Under(x) \in SUBSET S
      OBVIOUS
    <3>. HIDE DEF Under
    <3>. QED BY <3>1, FS_Subset
  <2>2. x \notin Under(x)
    BY DEF IsStrictOrder
  <2>3. Cardinality(Under(x)) \in Nat
    BY <2>1, FS_CardinalityType
  <2>. QED BY <1>0, <2>1, <2>2, <2>3 DEF Rank
<1>2. ASSUME NEW x \in S, NEW y \in S, <<x, y>> \in order
      PROVE  Rank(S, order, x) < Rank(S, order, y)
  <2>1. Under(x) \in SUBSET Under(y) /\ x \in Under(y) /\ x \notin Under(x)
    BY <1>2 DEF IsStrictOrder
  <2>2. IsFiniteSet(Under(y)) /\ IsFiniteSet(Under(x))
    BY <1>1
  <2>3. /\ Cardinality(Under(x)) <= Cardinality(Under(y))
        /\ Cardinality(Under(x)) # Cardinality(Under(y))
        /\ Cardinality(Under(x)) \in Nat /\ Cardinality(Under(y)) \in Nat
    <3>. HIDE DEF Under
    <3>. QED BY <2>1, <2>2, FS_Subset, FS_CardinalityType
  <2>. QED BY <2>3 DEF Rank
<1>3. rank \in Injection(S, 0..(N - 1))
  <2>1. rank \in [S -> 0..(N - 1)]
    BY <1>1
  <2>2. ASSUME NEW x \in S, NEW y \in S, rank[x] = rank[y]
        PROVE  x = y
    <3>1. Rank(S, order, x) = Rank(S, order, y)
      BY <2>2
    <3>2. Rank(S, order, x) \in Int
      <4>1. Rank(S, order, x) \in 0..(N - 1)
        BY <1>1
      <4>. HIDE DEF N
      <4>. QED BY <1>0, <4>1
    <3>3. ~(Rank(S, order, x) < Rank(S, order, y)) /\ ~(Rank(S, order, y) < Rank(S, order, x))
      BY <3>1, <3>2
    <3>4. <<x, y>> \notin order /\ <<y, x>> \notin order
      <4>1. <<x, y>> \in order => Rank(S, order, x) < Rank(S, order, y)
        BY <1>2
      <4>2. <<y, x>> \in order => Rank(S, order, y) < Rank(S, order, x)
        BY <1>2
      <4>. QED BY <3>3, <4>1, <4>2
    <3>. QED BY <3>4 DEF IsStrictOrder
  <2>. HIDE DEF rank
  <2>. QED BY <2>1, <2>2 DEF Injection, IsInjective
<1>4. IsFiniteSet(0..(N - 1)) /\ Cardinality(0..(N - 1)) = N
  BY <1>0, FS_Interval
<1>5. rank \in Surjection(S, 0..(N - 1))
  <2>. HIDE DEF rank, N
  <2>. QED BY <1>3, <1>4, FS_Injection DEF N
<1>6. \A n \in 0..(N - 1) : \E x \in S : rank[x] = n
  <2>. HIDE DEF rank, N
  <2>. QED BY <1>5 DEF Surjection
<1>. QED BY <1>1, <1>2, <1>6

\* A listing has every element of its set once, in the given order.
LEMMA ListingInOrder ==
    ASSUME NEW S, IsFiniteSet(S), NEW order, IsStrictOrder(S, order)
    PROVE  /\ Cardinality(S) \in Nat
           /\ Listed(S, order) \in [1..Cardinality(S) -> S]
           /\ \A x \in S : \E n \in 1..Cardinality(S) : Listed(S, order)[n] = x
           /\ \A m, n \in 1..Cardinality(S) :
                 m < n => <<Listed(S, order)[m], Listed(S, order)[n]>> \in order
<1>. DEFINE N == Cardinality(S)
            list == Listed(S, order)
<1>0. N \in Nat
  BY FS_CardinalityType
<1>1. DOMAIN list = 1..N
  BY DEF Listed
<1>2. ASSUME NEW n \in 1..N
      PROVE  list[n] \in S /\ Rank(S, order, list[n]) = n - 1
  <2>1. n - 1 \in 0..(N - 1)
    BY <1>0
  <2>2. \E x \in S : Cardinality({y \in S : <<y, x>> \in order}) = n - 1
    <3>1. \A k \in 0..(N - 1) : \E x \in S : Rank(S, order, x) = k
      BY RanksAreAll
    <3>. HIDE DEF N
    <3>2. \E x \in S : Rank(S, order, x) = n - 1
      BY <2>1, <3>1
    <3>. QED BY <3>2 DEF Rank
  <2>3. list[n] = CHOOSE x \in S : Cardinality({y \in S : <<y, x>> \in order}) = n - 1
    BY DEF Listed
  <2>. HIDE DEF list, N
  <2>. QED BY <2>2, <2>3 DEF Rank
<1>3. list \in [1..N -> S]
  <2>1. \E f : list = [n \in 1..N |-> f[n]]
    <3>1. list = [n \in 1..N |->
                    CHOOSE x \in S : Cardinality({y \in S : <<y, x>> \in order}) = n - 1]
      BY Zenon DEF Listed
    <3>2. list = [n \in 1..N |-> list[n]]
      BY <3>1
    <3>. QED BY <3>2, Zenon
  <2>. HIDE DEF list, N
  <2>. QED BY <1>2, <2>1
<1>4. ASSUME NEW x \in S
      PROVE  \E n \in 1..N : list[n] = x
  <2>1. Rank(S, order, x) \in 0..(N - 1)
    BY RanksAreAll
  <2>. DEFINE n == Rank(S, order, x) + 1
  <2>2. n \in 1..N /\ n - 1 = Rank(S, order, x)
    BY <1>0, <2>1
  <2>. HIDE DEF n, list, N
  <2>3. list[n] \in S /\ Rank(S, order, list[n]) = Rank(S, order, x)
    BY <1>2, <2>2
  <2>4. list[n] # x => <<list[n], x>> \in order \/ <<x, list[n]>> \in order
    BY <2>3 DEF IsStrictOrder
  <2>5. /\ <<list[n], x>> \in order => Rank(S, order, list[n]) < Rank(S, order, x)
        /\ <<x, list[n]>> \in order => Rank(S, order, x) < Rank(S, order, list[n])
    BY <2>3, RanksAreAll
  <2>6. Rank(S, order, x) \in Int
    BY <2>1
  <2>7. list[n] = x
    BY <2>3, <2>4, <2>5, <2>6
  <2>. QED BY <2>2, <2>7
<1>5. ASSUME NEW m \in 1..N, NEW n \in 1..N, m < n
      PROVE  <<list[m], list[n]>> \in order
  <2>1. /\ list[m] \in S /\ Rank(S, order, list[m]) = m - 1
        /\ list[n] \in S /\ Rank(S, order, list[n]) = n - 1
    BY <1>2
  <2>. HIDE DEF list, N
  <2>2. ~(Rank(S, order, list[n]) < Rank(S, order, list[m]))
        /\ list[m] # list[n]
    BY <2>1, <1>5
  <2>3. <<list[m], list[n]>> \in order \/ <<list[n], list[m]>> \in order
    BY <2>1, <2>2 DEF IsStrictOrder
  <2>4. <<list[n], list[m]>> \in order => Rank(S, order, list[n]) < Rank(S, order, list[m])
    BY <2>1, RanksAreAll
  <2>. QED BY <2>2, <2>3, <2>4
<1>. QED BY <1>0, <1>3, <1>4, <1>5

\* So has an ascending listing of numbers.
LEMMA AscendingInOrder ==
    ASSUME NEW S \in SUBSET Nat, IsFiniteSet(S)
    PROVE  /\ Cardinality(S) \in Nat
           /\ Ascending(S) \in [1..Cardinality(S) -> S]
           /\ \A x \in S : \E n \in 1..Cardinality(S) : Ascending(S)[n] = x
           /\ \A m, n \in 1..Cardinality(S) : m < n => Ascending(S)[m] < Ascending(S)[n]
<1>. DEFINE order == {p \in S \X S : p[1] < p[2]}
<1>1. \A x, y \in S : <<x, y>> \in order <=> x < y
  OBVIOUS
<1>2. IsStrictOrder(S, order)
  <2>. HIDE DEF order
  <2>. QED BY <1>1 DEF IsStrictOrder
<1>3. Ascending(S) = Listed(S, order)
  BY DEF Ascending
<1>. HIDE DEF order
<1>4. /\ Cardinality(S) \in Nat
      /\ Ascending(S) \in [1..Cardinality(S) -> S]
      /\ \A x \in S : \E n \in 1..Cardinality(S) : Ascending(S)[n] = x
      /\ \A m, n \in 1..Cardinality(S) : m < n => <<Ascending(S)[m], Ascending(S)[n]>> \in order
  BY <1>2, <1>3, ListingInOrder
<1>. QED BY <1>1, <1>4
-----------------------------------------------------------------------------
(* Concatenations. *)

\* Lists that start empty and grow by one member of seqs at a time end with
\* the concatenation of them all.
LEMMA FlattenUnique ==
    ASSUME NEW A, NEW seqs \in Seq(Seq(A)), NEW g \in [0..Len(seqs) -> Seq(A)],
           g[0] = <<>>, \A n \in 1..Len(seqs) : g[n] = g[n - 1] \o seqs[n]
    PROVE  FlattenSeq(seqs) = g[Len(seqs)]
<1>. DEFINE N == Len(seqs)
            IsFlatten(f) == f = [i \in 1..N |-> IF i = 1 THEN seqs[i] ELSE f[i - 1] \o seqs[i]]
            f == CHOOSE h : IsFlatten(h)
<1>0. N \in Nat
  BY LenProperties
<1>1. seqs \in [1..N -> Seq(A)] /\ DOMAIN seqs = 1..N
  BY LenProperties
<1>2. CASE N = 0
  <2>1. seqs = <<>>
    BY <1>0, <1>2, EmptySeq
  <2>. QED BY <1>2, <2>1 DEF FlattenSeq
<1>3. CASE N # 0
  <2>1. FlattenSeq(seqs) = f[N]
    BY <1>3 DEF FlattenSeq
  <2>2. \E h : IsFlatten(h)
    <3>. DEFINE h == [i \in 1..N |-> g[i]]
    <3>1. ASSUME NEW i \in 1..N
          PROVE  h[i] = IF i = 1 THEN seqs[i] ELSE h[i - 1] \o seqs[i]
      <4>1. seqs[i] \in Seq(A) /\ g[i] = g[i - 1] \o seqs[i]
        BY <1>1
      <4>2. CASE i = 1
        <5>1. g[1] = <<>> \o seqs[1] /\ seqs[1] \in Seq(A)
          <6>1. i - 1 = 0
            BY <4>2
          <6>. QED BY <4>1, <4>2, <6>1, Zenon
        <5>. DEFINE s1 == seqs[1]
        <5>2. <<>> \o s1 = s1
          <6>1. s1 \in Seq(A)
            BY <5>1
          <6>. HIDE DEF s1
          <6>. QED BY <6>1, ConcatEmptySeq
        <5>. QED BY <4>2, <5>1, <5>2
      <4>3. CASE i # 1
        <5>1. i - 1 \in 1..N
          BY <1>0, <4>3
        <5>. QED BY <4>1, <4>3, <5>1
      <4>. QED BY <4>2, <4>3
    <3>2. h = [i \in 1..N |-> h[i]]
      OBVIOUS
    <3>3. h = [i \in 1..N |-> IF i = 1 THEN seqs[i] ELSE h[i - 1] \o seqs[i]]
      <4>. HIDE DEF h
      <4>. QED BY <3>1, <3>2
    <3>. HIDE DEF h
    <3>. QED BY <3>3
  <2>3. IsFlatten(f)
    <3>. HIDE DEF IsFlatten
    <3>. QED BY <2>2
  <2>4. \A i \in 1..N : f[i] = IF i = 1 THEN seqs[i] ELSE f[i - 1] \o seqs[i]
    <3>. HIDE DEF f
    <3>. QED BY <2>3
  <2>. HIDE DEF f, N
  <2>. DEFINE Same == {n \in 0..N : n = 0 \/ f[n] = g[n]}
  <2>5. 0 \in Same
    BY <1>0
  <2>6. ASSUME NEW n \in 0..N, n < N, n \in Same
        PROVE  n + 1 \in Same
    <3>1. n + 1 \in 1..N /\ n + 1 \in 0..N /\ (n + 1) - 1 = n /\ n \in Nat
      BY <1>0, n < N
    <3>2. g[n + 1] = g[n] \o seqs[n + 1]
      BY <3>1 DEF N
    <3>3. CASE n = 0
      <4>. DEFINE s1 == seqs[1]
      <4>1. g[1] = <<>> \o s1 /\ 1 \in 1..N
        <5>1. n + 1 = 1
          BY <3>3
        <5>. QED BY <3>1, <3>2, <3>3, <5>1, Zenon
      <4>2. s1 \in Seq(A)
        BY <1>1, <4>1
      <4>3. <<>> \o s1 = s1
        <5>. HIDE DEF s1
        <5>. QED BY <4>2, ConcatEmptySeq
      <4>4. f[1] = seqs[1]
        BY <2>4, <4>1
      <4>. QED BY <3>1, <3>3, <4>1, <4>3, <4>4
    <3>4. CASE n # 0
      <4>1. f[n] = g[n]
        BY <2>6, <3>4
      <4>2. f[n + 1] = f[n] \o seqs[n + 1]
        <5>1. n + 1 # 1
          BY <3>1, <3>4
        <5>. QED BY <2>4, <3>1, <5>1
      <4>. QED BY <3>1, <3>2, <4>1, <4>2
    <3>. QED BY <3>3, <3>4
  <2>7. 0..N \subseteq Same
    <3>. HIDE DEF Same
    <3>. QED BY <1>0, <2>5, <2>6, UpTo
  <2>8. N \in Same
    BY <1>0, <2>7
  <2>. QED BY <1>3, <2>1, <2>8 DEF N
<1>. QED BY <1>2, <1>3

\* There are such lists.
LEMMA FlattenSteps ==
    ASSUME NEW A, NEW seqs \in Seq(Seq(A))
    PROVE  /\ Len(seqs) \in Nat
           /\ \E g \in [0..Len(seqs) -> Seq(A)] :
                 /\ g[0] = <<>>
                 /\ \A n \in 1..Len(seqs) : g[n] = g[n - 1] \o seqs[n] /\ seqs[n] \in Seq(A)
                 /\ FlattenSeq(seqs) = g[Len(seqs)]
<1>. DEFINE N == Len(seqs)
            F == [n \in 1..N |-> [s \in Seq(A) |-> s \o seqs[n]]]
<1>1. N \in Nat /\ \A n \in 1..N : seqs[n] \in Seq(A)
  BY LenProperties
<1>2. F \in [1..N -> [Seq(A) -> Seq(A)]]
  <2>. HIDE DEF N
  <2>1. \A n \in 1..N : \A s \in Seq(A) : s \o seqs[n] \in Seq(A)
    BY <1>1, ConcatProperties
  <2>. QED BY <2>1
<1>3. <<>> \in Seq(A)
  BY EmptySeq
<1>4. PICK g : IsRun(g, F, Seq(A), <<>>, N)
  <2>1. AreFunctions(F, Seq(A), N)
    BY <1>2 DEF AreFunctions
  <2>. HIDE DEF N, F
  <2>. QED BY <1>1, <1>3, <2>1, Recursion
<1>5. g \in [0..N -> Seq(A)] /\ g[0] = <<>> /\ \A n \in 1..N : g[n] = F[n][g[n - 1]]
  <2>. HIDE DEF N, F
  <2>. QED BY <1>4 DEF IsRun
<1>6. \A n \in 1..N : g[n] = g[n - 1] \o seqs[n]
  <2>. SUFFICES ASSUME NEW n \in 1..N
                PROVE  g[n] = g[n - 1] \o seqs[n]
    OBVIOUS
  <2>1. n - 1 \in 0..N
    BY <1>1
  <2>2. g[n - 1] \in Seq(A) /\ g[n] = F[n][g[n - 1]]
    BY <1>5, <2>1
  <2>. QED BY <2>2
<1>7. FlattenSeq(seqs) = g[N]
  BY <1>5, <1>6, FlattenUnique
<1>. QED BY <1>1, <1>5, <1>6, <1>7

LEMMA FlattenType ==
    ASSUME NEW A, NEW seqs \in Seq(Seq(A))
    PROVE  FlattenSeq(seqs) \in Seq(A)
<1>1. Len(seqs) \in 0..Len(seqs)
  BY LenProperties
<1>. DEFINE N == Len(seqs)
<1>2. \E g \in [0..N -> Seq(A)] : FlattenSeq(seqs) = g[N]
  BY FlattenSteps, Zenon
<1>. HIDE DEF N
<1>. QED BY <1>1, <1>2 DEF N

\* A concatenation can be made in two parts.
LEMMA FlattenConcat ==
    ASSUME NEW A, NEW s \in Seq(Seq(A)), NEW t \in Seq(Seq(A))
    PROVE  FlattenSeq(s \o t) = FlattenSeq(s) \o FlattenSeq(t)
<1>1. PICK g \in [0..Len(s) -> Seq(A)] :
         /\ g[0] = <<>>
         /\ \A n \in 1..Len(s) : g[n] = g[n - 1] \o s[n]
         /\ FlattenSeq(s) = g[Len(s)]
  BY FlattenSteps, ZenonT(40)
<1>2. PICK h \in [0..Len(t) -> Seq(A)] :
         /\ h[0] = <<>>
         /\ \A n \in 1..Len(t) : h[n] = h[n - 1] \o t[n] /\ t[n] \in Seq(A)
         /\ FlattenSeq(t) = h[Len(t)]
  BY FlattenSteps
<1>. DEFINE M == Len(s)
            N == Len(t)
            k == [n \in 0..(M + N) |-> IF n <= M THEN g[n] ELSE g[M] \o h[n - M]]
<1>3. /\ M \in Nat /\ N \in Nat
      /\ s \o t \in Seq(Seq(A)) /\ Len(s \o t) = M + N
      /\ \A n \in 1..(M + N) : (s \o t)[n] = IF n <= M THEN s[n] ELSE t[n - M]
  BY LenProperties, ConcatProperties
<1>4. g[M] \in Seq(A) /\ h[0] = <<>> /\ g[M] \o h[0] = g[M]
  BY <1>1, <1>2, <1>3, ConcatEmptySeq
<1>0. \A n \in 0..(M + N) : k[n] = IF n <= M THEN g[n] ELSE g[M] \o h[n - M]
  OBVIOUS
<1>. HIDE DEF M, N, k
<1>5. ASSUME NEW n \in M..(M + N)
      PROVE  k[n] = g[M] \o h[n - M] /\ k[n] \in Seq(A) /\ h[n - M] \in Seq(A)
  <2>1. n - M \in 0..N /\ n \in 0..(M + N)
    BY <1>3
  <2>2. h[n - M] \in Seq(A)
    BY <1>2, <2>1 DEF N
  <2>3. g[M] \o h[n - M] \in Seq(A)
    BY <1>4, <2>2, ConcatProperties
  <2>4. CASE n = M
    <3>1. k[n] = g[M] /\ n - M = 0
      BY <1>0, <1>3, <2>1, <2>4
    <3>. QED BY <1>4, <2>2, <2>3, <3>1
  <2>5. CASE n # M
    <3>1. ~(n <= M)
      BY <1>3, <2>5
    <3>2. k[n] = g[M] \o h[n - M]
      BY <1>0, <2>1, <3>1
    <3>. QED BY <2>2, <2>3, <3>2
  <2>. QED BY <2>4, <2>5
<1>6. ASSUME NEW n \in 0..M
      PROVE  k[n] = g[n] /\ k[n] \in Seq(A)
  <2>1. n \in 0..(M + N) /\ n <= M
    BY <1>3
  <2>2. g[n] \in Seq(A)
    BY <1>1 DEF M
  <2>. QED BY <1>0, <2>1, <2>2
<1>7. k \in [0..(M + N) -> Seq(A)] /\ k[0] = <<>>
  <2>1. k = [n \in 0..(M + N) |-> k[n]]
    BY DEF k
  <2>2. \A n \in 0..(M + N) : n \in 0..M \/ n \in M..(M + N)
    BY <1>3
  <2>3. 0 \in 0..M
    BY <1>3
  <2>. QED BY <1>1, <1>5, <1>6, <2>1, <2>2, <2>3
<1>8. ASSUME NEW n \in 1..(M + N)
      PROVE  k[n] = k[n - 1] \o (s \o t)[n]
  <2>1. CASE n <= M
    <3>1. n \in 0..M /\ n - 1 \in 0..M /\ n \in 1..M
      BY <1>3, <2>1
    <3>2. g[n] = g[n - 1] \o s[n]
      BY <1>1, <3>1 DEF M
    <3>. QED BY <1>3, <1>6, <2>1, <3>1, <3>2
  <2>2. CASE ~(n <= M)
    <3>1. n \in M..(M + N) /\ n - 1 \in M..(M + N) /\ n - M \in 1..N /\ (n - 1) - M = (n - M) - 1
      BY <1>3, <2>2
    <3>2. h[n - M] = h[(n - 1) - M] \o t[n - M] /\ t[n - M] \in Seq(A)
      BY <1>2, <3>1 DEF N
    <3>3. k[n] = g[M] \o h[n - M] /\ k[n - 1] = g[M] \o h[(n - 1) - M] /\ h[(n - 1) - M] \in Seq(A)
      BY <1>5, <3>1
    <3>. DEFINE start  == g[M]
                before == h[(n - 1) - M]
                piece  == t[n - M]
    <3>4. k[n] = start \o (before \o piece) /\ k[n - 1] = start \o before
          /\ start \in Seq(A) /\ before \in Seq(A) /\ piece \in Seq(A)
      BY <1>4, <3>2, <3>3
    <3>5. (s \o t)[n] = piece
      BY <1>3, <2>2
    <3>. HIDE DEF start, before, piece
    <3>6. start \o (before \o piece) = (start \o before) \o piece
      <4>1. start \in Seq(A)
        BY <3>4
      <4>2. before \in Seq(A)
        BY <3>4
      <4>3. piece \in Seq(A)
        BY <3>4
      <4>. QED BY ONLY <4>1, <4>2, <4>3, ConcatAssociative, SMTT(30)
    <3>. QED BY <3>4, <3>5, <3>6
  <2>. QED BY <2>1, <2>2
<1>9. FlattenSeq(s \o t) = k[M + N]
  <2>. QED BY <1>3, <1>7, <1>8, FlattenUnique, ZenonT(40)
<1>10. k[M + N] = g[M] \o h[N]
  <2>1. M + N \in M..(M + N) /\ (M + N) - M = N
    BY <1>3
  <2>. QED BY <1>5, <2>1
<1>. QED BY <1>1, <1>2, <1>9, <1>10 DEF M, N

\* The concatenation of one list and of none.
LEMMA FlattenFew ==
    ASSUME NEW A
    PROVE  FlattenSeq(<<>>) = <<>> /\ \A s \in Seq(A) : FlattenSeq(<<s>>) = s
<1>1. FlattenSeq(<<>>) = <<>>
  BY DEF FlattenSeq
<1>2. ASSUME NEW s \in Seq(A)
      PROVE  FlattenSeq(<<s>>) = s
  <2>. DEFINE seqs == <<s>>
  <2>1. seqs \in Seq(Seq(A)) /\ Len(seqs) = 1 /\ seqs[1] = s
    OBVIOUS
  <2>. HIDE DEF seqs
  <2>2. PICK g \in [0..Len(seqs) -> Seq(A)] :
           /\ g[0] = <<>>
           /\ \A n \in 1..Len(seqs) : g[n] = g[n - 1] \o seqs[n] /\ seqs[n] \in Seq(A)
           /\ FlattenSeq(seqs) = g[Len(seqs)]
    BY <2>1, FlattenSteps, Zenon
  <2>3. FlattenSeq(seqs) = <<>> \o s
    <3>1. 1 \in 1..Len(seqs) /\ 1 - 1 = 0
      BY <2>1
    <3>2. g[1] = g[1 - 1] \o seqs[1]
      BY <2>2, <3>1
    <3>. QED BY <2>1, <2>2, <3>1, <3>2
  <2>4. <<>> \o s = s
    BY ConcatEmptySeq
  <2>. QED BY <2>3, <2>4 DEF seqs
<1>. QED BY <1>1, <1>2

\* The elements of a concatenation are those of its parts.
LEMMA ConcatMembers ==
    ASSUME NEW A, NEW a \in Seq(A), NEW b \in Seq(A)
    PROVE  ToSet(a \o b) = ToSet(a) \cup ToSet(b)
<1>1. /\ Len(a) \in Nat /\ Len(b) \in Nat
      /\ DOMAIN a = 1..Len(a) /\ DOMAIN b = 1..Len(b)
      /\ DOMAIN (a \o b) = 1..(Len(a) + Len(b))
      /\ \A i \in 1..(Len(a) + Len(b)) : (a \o b)[i] =
             IF i <= Len(a) THEN a[i] ELSE b[i - Len(a)]
  BY LenProperties, ConcatProperties
<1>2. ASSUME NEW i \in 1..(Len(a) + Len(b))
      PROVE  (a \o b)[i] \in ToSet(a) \cup ToSet(b)
  <2>1. CASE i <= Len(a)
    <3>1. i \in DOMAIN a /\ (a \o b)[i] = a[i]
      BY <1>1, <2>1
    <3>. QED BY <3>1 DEF ToSet
  <2>2. CASE ~(i <= Len(a))
    <3>1. i - Len(a) \in DOMAIN b /\ (a \o b)[i] = b[i - Len(a)]
      BY <1>1, <2>2
    <3>. QED BY <3>1 DEF ToSet
  <2>. QED BY <2>1, <2>2
<1>3. ASSUME NEW i \in DOMAIN a
      PROVE  a[i] \in ToSet(a \o b)
  <2>1. i \in DOMAIN (a \o b) /\ (a \o b)[i] = a[i]
    BY <1>1
  <2>. QED BY <2>1 DEF ToSet
<1>4. ASSUME NEW i \in DOMAIN b
      PROVE  b[i] \in ToSet(a \o b)
  <2>1. i + Len(a) \in 1..(Len(a) + Len(b)) /\ ~(i + Len(a) <= Len(a)) /\ (i + Len(a)) - Len(a) = i
    BY <1>1
  <2>2. (a \o b)[i + Len(a)] = b[i]
    BY <1>1, <2>1
  <2>. QED BY <1>1, <2>1, <2>2 DEF ToSet
<1>5. \A x \in ToSet(a \o b) : x \in ToSet(a) \cup ToSet(b)
  BY <1>1, <1>2 DEF ToSet
<1>6. \A x \in ToSet(a) \cup ToSet(b) : x \in ToSet(a \o b)
  BY <1>3, <1>4 DEF ToSet
<1>. QED BY <1>5, <1>6

\* An element of a concatenation of many is one of a list it is made of.
LEMMA FlattenMembers ==
    ASSUME NEW A, NEW seqs \in Seq(Seq(A)), NEW x \in ToSet(FlattenSeq(seqs))
    PROVE  \E i \in DOMAIN seqs : x \in ToSet(seqs[i])
<1>. DEFINE N == Len(seqs)
<1>1. PICK g \in [0..N -> Seq(A)] :
         /\ g[0] = <<>>
         /\ \A n \in 1..N : g[n] = g[n - 1] \o seqs[n] /\ seqs[n] \in Seq(A)
         /\ FlattenSeq(seqs) = g[N]
  BY FlattenSteps
<1>2. N \in Nat /\ DOMAIN seqs = 1..N
  BY LenProperties
<1>. HIDE DEF N
<1>. DEFINE Found == {n \in 0..N : \A y \in ToSet(g[n]) : \E i \in 1..N : y \in ToSet(seqs[i])}
<1>3. 0 \in Found
  <2>1. ToSet(g[0]) = {}
    BY <1>1 DEF ToSet
  <2>. QED BY <1>2, <2>1
<1>4. ASSUME NEW n \in 0..N, n < N, n \in Found
      PROVE  n + 1 \in Found
  <2>1. n + 1 \in 1..N /\ n + 1 \in 0..N /\ (n + 1) - 1 = n
    BY <1>2, <1>4
  <2>. DEFINE before == g[n]
              piece  == seqs[n + 1]
  <2>2. g[n + 1] = before \o piece /\ before \in Seq(A) /\ piece \in Seq(A)
    BY <1>1, <2>1
  <2>3. ToSet(g[n + 1]) = ToSet(before) \cup ToSet(piece)
    <3>. HIDE DEF before, piece
    <3>. QED BY <2>2, ConcatMembers
  <2>4. \A y \in ToSet(g[n]) : \E i \in 1..N : y \in ToSet(seqs[i])
    BY <1>4
  <2>. QED BY <2>1, <2>3, <2>4
<1>5. 0..N \subseteq Found
  <2>. HIDE DEF Found
  <2>. QED BY <1>2, <1>3, <1>4, UpTo
<1>6. N \in Found
  BY <1>2, <1>5
<1>. QED BY <1>1, <1>2, <1>6

\* Where the elements of a concatenation of lists of at most one element are
\* from: no two are from the same list.
AreOrigins(o, seqs, n, list) ==
    /\ o \in [1..Len(list) -> 1..n]
    /\ \A a, b \in 1..Len(list) : a # b => o[a] # o[b]
    /\ \A a \in 1..Len(list) : seqs[o[a]] = <<list[a]>>

LEMMA FlattenOrigins ==
    ASSUME NEW A, NEW seqs \in Seq(Seq(A)),
           \A i \in 1..Len(seqs) : seqs[i] = <<>> \/ \E x \in A : seqs[i] = <<x>>
    PROVE  \E o : AreOrigins(o, seqs, Len(seqs), FlattenSeq(seqs))
<1>. DEFINE N == Len(seqs)
<1>1. PICK g \in [0..N -> Seq(A)] :
         /\ g[0] = <<>>
         /\ \A n \in 1..N : g[n] = g[n - 1] \o seqs[n] /\ seqs[n] \in Seq(A)
         /\ FlattenSeq(seqs) = g[N]
  BY FlattenSteps
<1>2. N \in Nat
  BY LenProperties
<1>. DEFINE Good == {n \in 0..N : \E o : AreOrigins(o, seqs, n, g[n])}
<1>3. 0 \in Good
  <2>. DEFINE list == g[0]
              o == [a \in 1..Len(list) |-> 0]
  <2>1. list = <<>> /\ Len(list) = 0
    BY <1>1
  <2>2. 1..Len(list) = {}
    BY <2>1
  <2>3. AreOrigins(o, seqs, 0, list)
    BY <2>2 DEF AreOrigins
  <2>. HIDE DEF o, list, N
  <2>. QED BY <1>2, <2>3 DEF list
<1>4. ASSUME NEW n \in 0..N, n < N, n \in Good
      PROVE  n + 1 \in Good
  <2>. DEFINE next == n + 1
              old == g[n]
              new == g[next]
              L == Len(old)
  <2>1. next \in 1..N /\ next \in 0..N /\ next - 1 = n /\ n \in Nat
    BY <1>2, <1>4
  <2>2. old \in Seq(A) /\ L \in Nat
    BY LenProperties
  <2>3. new = old \o seqs[next] /\ seqs[next] \in Seq(A)
    <3>. HIDE DEF next
    <3>. QED BY <1>1, <2>1
  <2>4. PICK o : AreOrigins(o, seqs, n, old)
    BY <1>4
  <2>. HIDE DEF L, old, new
  <2>5. /\ o \in [1..L -> 1..n]
        /\ \A a, b \in 1..L : a # b => o[a] # o[b]
        /\ \A a \in 1..L : seqs[o[a]] = <<old[a]>>
    BY <2>4 DEF AreOrigins, L
  <2>6. \A a \in 1..L : o[a] \in 1..next /\ o[a] # next
    <3>1. \A i \in 1..n : i \in 1..next /\ i # next
      BY <2>1
    <3>2. \A a \in 1..L : o[a] \in 1..n
      BY <2>5
    <3>. HIDE DEF next
    <3>. QED BY <3>1, <3>2
  <2>7. ASSUME NEW x \in A, seqs[next] = <<x>>
        PROVE  \E p : AreOrigins(p, seqs, next, new)
    <3>. DEFINE one == <<x>>
                p == [a \in 1..(L + 1) |-> IF a <= L THEN o[a] ELSE next]
    <3>1. one \in Seq(A) /\ Len(one) = 1 /\ one[1] = x
      OBVIOUS
    <3>2. new = old \o one
      BY <2>3, <2>7
    <3>3. /\ Len(new) = L + 1
          /\ \A a \in 1..(L + 1) : new[a] = IF a <= L THEN old[a] ELSE x
      <4>. HIDE DEF one
      <4>1. /\ Len(old \o one) = Len(old) + Len(one)
            /\ \A a \in 1..(Len(old) + Len(one)) :
                  (old \o one)[a] = IF a <= Len(old) THEN old[a] ELSE one[a - Len(old)]
        BY <2>2, <3>1, ConcatProperties
      <4>2. \A a \in 1..(L + 1) : ~(a <= L) => a - L = 1
        BY <2>2
      <4>3. Len(old) + Len(one) = L + 1 /\ Len(old) = L
        BY <3>1 DEF L
      <4>. QED BY <3>1, <3>2, <4>1, <4>2, <4>3
    <3>4. \A a \in 1..(L + 1) : a <= L => a \in 1..L
      BY <2>2
    <3>5. \A a \in 1..(L + 1) : ~(a <= L) => a = L + 1
      BY <2>2
    <3>6. /\ p \in [1..(L + 1) -> 1..next]
          /\ \A a \in 1..(L + 1) : p[a] = IF a <= L THEN o[a] ELSE next
      <4>. HIDE DEF next
      <4>. QED BY <2>1, <2>6, <3>4
    <3>. HIDE DEF p, next
    <3>7. \A a, b \in 1..(L + 1) : a # b => p[a] # p[b]
      BY <2>5, <2>6, <3>4, <3>5, <3>6
    <3>8. ASSUME NEW a \in 1..(L + 1)
          PROVE  seqs[p[a]] = <<new[a]>>
      <4>1. CASE a <= L
        BY <2>5, <3>3, <3>4, <3>6, <4>1
      <4>2. CASE ~(a <= L)
        BY <2>7, <3>3, <3>6, <4>2
      <4>. QED BY <4>1, <4>2
    <3>9. AreOrigins(p, seqs, next, new)
      BY <3>3, <3>6, <3>7, <3>8 DEF AreOrigins
    <3>. QED BY <3>9
  <2>8. next \in 1..Len(seqs)
    BY <2>1
  <2>9. \E p : AreOrigins(p, seqs, next, new)
    <3>1. seqs[next] = <<>> \/ \E x \in A : seqs[next] = <<x>>
      <4>. HIDE DEF next
      <4>. QED BY <2>8
    <3>2. CASE seqs[next] = <<>>
      <4>1. new = old
        BY <2>2, <2>3, <3>2, ConcatEmptySeq
      <4>2. o \in [1..L -> 1..next]
        <5>. HIDE DEF next
        <5>. QED BY <2>5, <2>6
      <4>3. AreOrigins(o, seqs, next, new)
        <5>. HIDE DEF next
        <5>. QED BY <2>5, <4>1, <4>2 DEF AreOrigins, L
      <4>. QED BY <4>3
    <3>. HIDE DEF next
    <3>. QED BY <2>7, <3>1, <3>2
  <2>. HIDE DEF N
  <2>. QED BY <2>1, <2>9 DEF new
<1>5. N \in Good
  <2>. HIDE DEF Good, N
  <2>1. 0..N \subseteq Good
    BY <1>2, <1>3, <1>4, UpTo
  <2>. QED BY <1>2, <2>1
<1>. QED BY <1>1, <1>5

\* What the lists from one place to another are joined to.
Joined(seqs, m, n) == FlattenSeq(SubSeq(seqs, m, n))

LEMMA PartOfLists ==
    ASSUME NEW A, NEW seqs \in Seq(A), NEW m \in 1..(Len(seqs) + 1), NEW n \in (m - 1)..Len(seqs)
    PROVE  /\ SubSeq(seqs, m, n) \in Seq(A)
           /\ Len(SubSeq(seqs, m, n)) = (n - m) + 1
           /\ \A i \in 1..((n - m) + 1) : SubSeq(seqs, m, n)[i] = seqs[(m + i) - 1]
<1>1. /\ Len(seqs) \in Nat
      /\ \A i \in 1..Len(seqs) : seqs[i] \in A
  BY LenProperties
<1>2. m \in Int /\ n \in Int /\ \A i \in m..n : i \in 1..Len(seqs)
  BY <1>1
<1>3. \A i \in m..n : seqs[i] \in A
  BY <1>1, <1>2
<1>. QED BY <1>2, <1>3, SubSeqProperties

LEMMA JoinedAdjacent ==
    ASSUME NEW A, NEW seqs \in Seq(Seq(A)), NEW m \in 1..(Len(seqs) + 1),
           NEW k \in (m - 1)..Len(seqs), NEW n \in k..Len(seqs)
    PROVE  /\ Joined(seqs, m, n) = Joined(seqs, m, k) \o Joined(seqs, k + 1, n)
           /\ Joined(seqs, m, n) \in Seq(A)
           /\ Joined(seqs, m, k) \in Seq(A)
           /\ Joined(seqs, k + 1, n) \in Seq(A)
<1>1. Len(seqs) \in Nat
  BY LenProperties
<1>2. k + 1 \in 1..(Len(seqs) + 1) /\ n \in ((k + 1) - 1)..Len(seqs) /\ n \in (m - 1)..Len(seqs)
  BY <1>1
<1>. DEFINE a == SubSeq(seqs, m, k)
            b == SubSeq(seqs, k + 1, n)
            ab == SubSeq(seqs, m, n)
<1>3. a \in Seq(Seq(A)) /\ ab \in Seq(Seq(A))
  BY <1>2, PartOfLists
<1>4. b \in Seq(Seq(A))
  BY <1>2, PartOfLists
<1>5. a \o b = ab
  BY ConcatAdjacentSubSeq
<1>. HIDE DEF a, b, ab
<1>6. FlattenSeq(a \o b) = FlattenSeq(a) \o FlattenSeq(b)
  BY <1>3, <1>4, FlattenConcat
<1>7. FlattenSeq(a) \in Seq(A) /\ FlattenSeq(b) \in Seq(A) /\ FlattenSeq(ab) \in Seq(A)
  BY <1>3, <1>4, FlattenType
<1>. QED BY <1>5, <1>6, <1>7 DEF Joined, a, b, ab

\* Joining one list, and none.
LEMMA JoinedFew ==
    ASSUME NEW A, NEW seqs \in Seq(Seq(A)), NEW n \in 1..Len(seqs)
    PROVE  /\ Joined(seqs, n, n) = seqs[n]
           /\ seqs[n] \in Seq(A)
<1>1. SubSeq(seqs, n, n) = <<seqs[n]>>
  <2>1. n \in n..Len(seqs) /\ n \in Int /\ n - 1 \in Int /\ n - 1 < n
    BY LenProperties
  <2>2. SubSeq(seqs, n, n) = SubSeq(seqs, n, n - 1) \o <<seqs[n]>>
    BY <2>1, SubSeqRecursiveSecond
  <2>3. SubSeq(seqs, n, n - 1) = <<>>
    BY <2>1, SubSeqEmpty
  <2>. DEFINE one == <<seqs[n]>>
  <2>4. one \in Seq(Seq(A))
    BY LenProperties
  <2>. HIDE DEF one
  <2>5. <<>> \o one = one
    BY <2>4, ConcatEmptySeq
  <2>. QED BY <2>2, <2>3, <2>5 DEF one
<1>2. seqs[n] \in Seq(A)
  BY LenProperties
<1>. QED BY <1>1, <1>2, FlattenFew DEF Joined

LEMMA JoinedNothing ==
    ASSUME NEW seqs, NEW n \in Int
    PROVE  Joined(seqs, n + 1, n) = <<>>
<1>1. SubSeq(seqs, n + 1, n) = <<>>
  BY SubSeqEmpty
<1>. QED BY <1>1, FlattenFew DEF Joined

\* Empty lists join to the empty list.
LEMMA JoinedEmpties ==
    ASSUME NEW A, NEW seqs \in Seq(Seq(A)), NEW m \in 1..(Len(seqs) + 1),
           NEW n \in (m - 1)..Len(seqs), \A i \in m..n : seqs[i] = <<>>
    PROVE  Joined(seqs, m, n) = <<>>
<1>. DEFINE None == {d \in 0..((n - m) + 1) : Joined(seqs, m, (m - 1) + d) = <<>>}
<1>1. Len(seqs) \in Nat /\ m \in Nat /\ n \in Int /\ (n - m) + 1 \in Nat
  BY LenProperties
<1>2. 0 \in None
  <2>1. (m - 1) + 0 = m - 1 /\ m - 1 \in Int /\ (m - 1) + 1 = m
    BY <1>1
  <2>2. Joined(seqs, (m - 1) + 1, m - 1) = <<>>
    BY <2>1, JoinedNothing
  <2>. QED BY <1>1, <2>1, <2>2
<1>3. ASSUME NEW d \in 0..((n - m) + 1), d < (n - m) + 1, d \in None
      PROVE  d + 1 \in None
  <2>. DEFINE k == (m - 1) + d
  <2>1. /\ k \in (m - 1)..Len(seqs) /\ k + 1 \in k..Len(seqs) /\ k + 1 \in 1..Len(seqs)
        /\ k + 1 \in m..n /\ (m - 1) + (d + 1) = k + 1 /\ d + 1 \in 0..((n - m) + 1)
    BY <1>1, <1>3
  <2>2. Joined(seqs, m, k) = <<>>
    BY <1>3
  <2>. HIDE DEF k
  <2>. DEFINE next == k + 1
  <2>3. Joined(seqs, m, next) = Joined(seqs, m, k) \o Joined(seqs, k + 1, next)
    <3>1. k \in (m - 1)..Len(seqs) /\ next \in k..Len(seqs)
      BY <2>1
    <3>. HIDE DEF next
    <3>. QED BY <3>1, JoinedAdjacent
  <2>4. Joined(seqs, k + 1, k + 1) = <<>>
    BY <2>1, JoinedFew
  <2>5. <<>> \o <<>> = <<>>
    OBVIOUS
  <2>. QED BY <2>1, <2>2, <2>3, <2>4, <2>5
<1>4. 0..((n - m) + 1) \subseteq None
  <2>. DEFINE D == (n - m) + 1
  <2>1. D \in Nat
    BY <1>1
  <2>. HIDE DEF D, None
  <2>2. 0..D \subseteq None
    BY <1>2, <1>3, <2>1, UpTo DEF D
  <2>. QED BY <2>2 DEF D
<1>5. (m - 1) + ((n - m) + 1) = n
  BY <1>1
<1>6. (n - m) + 1 \in None
  <2>1. (n - m) + 1 \in 0..((n - m) + 1)
    BY <1>1
  <2>. HIDE DEF None
  <2>. QED BY <1>4, <2>1
<1>. QED BY <1>5, <1>6

\* Lists of one element join to the list of these.
LEMMA JoinedSingles ==
    ASSUME NEW A, NEW text \in Seq(A), NEW seqs \in Seq(Seq(A)), Len(seqs) = Len(text),
           NEW m \in 1..(Len(seqs) + 1), NEW n \in (m - 1)..Len(seqs),
           \A i \in m..n : seqs[i] = <<text[i]>>
    PROVE  Joined(seqs, m, n) = SubSeq(text, m, n)
<1>. DEFINE Same == {d \in 0..((n - m) + 1) : Joined(seqs, m, (m - 1) + d) = SubSeq(text, m, (m - 1) + d)}
<1>1. Len(seqs) \in Nat /\ m \in Nat /\ n \in Int /\ (n - m) + 1 \in Nat
  BY LenProperties
<1>2. 0 \in Same
  <2>1. (m - 1) + 0 = m - 1 /\ m - 1 \in Int /\ (m - 1) + 1 = m /\ m - 1 < m /\ m \in Int
    BY <1>1
  <2>2. Joined(seqs, (m - 1) + 1, m - 1) = <<>>
    BY <2>1, JoinedNothing
  <2>3. SubSeq(text, m, m - 1) = <<>>
    BY <2>1, SubSeqEmpty
  <2>4. Joined(seqs, m, (m - 1) + 0) = SubSeq(text, m, (m - 1) + 0)
    BY <2>1, <2>2, <2>3
  <2>5. 0 \in 0..((n - m) + 1)
    BY <1>1
  <2>. QED BY <2>4, <2>5, Zenon
<1>3. ASSUME NEW d \in 0..((n - m) + 1), d < (n - m) + 1, d \in Same
      PROVE  d + 1 \in Same
  <2>. DEFINE k == (m - 1) + d
  <2>1. /\ k \in (m - 1)..Len(seqs) /\ k + 1 \in k..Len(seqs) /\ k + 1 \in 1..Len(seqs)
        /\ k + 1 \in m..n /\ (m - 1) + (d + 1) = k + 1 /\ d + 1 \in 0..((n - m) + 1)
        /\ m \in 1..Len(text) /\ k + 1 \in m..Len(text) /\ (k + 1) - 1 = k
    BY <1>1, <1>3
  <2>2. Joined(seqs, m, k) = SubSeq(text, m, k)
    BY <1>3
  <2>. HIDE DEF k
  <2>. DEFINE next == k + 1
  <2>3. Joined(seqs, m, next) = Joined(seqs, m, k) \o Joined(seqs, k + 1, next)
    <3>1. k \in (m - 1)..Len(seqs) /\ next \in k..Len(seqs)
      BY <2>1
    <3>. HIDE DEF next
    <3>. QED BY <3>1, JoinedAdjacent, ZenonT(40)
  <2>4. Joined(seqs, k + 1, k + 1) = <<text[k + 1]>>
    BY <2>1, JoinedFew
  <2>5. SubSeq(text, m, k + 1) = SubSeq(text, m, (k + 1) - 1) \o <<text[k + 1]>>
    BY <2>1, SubSeqRecursiveSecond
  <2>. QED BY <2>1, <2>2, <2>3, <2>4, <2>5
<1>4. 0..((n - m) + 1) \subseteq Same
  <2>. DEFINE D == (n - m) + 1
  <2>1. D \in Nat
    BY <1>1
  <2>. HIDE DEF D, Same
  <2>2. 0..D \subseteq Same
    BY <1>2, <1>3, <2>1, UpTo DEF D
  <2>. QED BY <2>2 DEF D
<1>5. (m - 1) + ((n - m) + 1) = n
  BY <1>1
<1>6. (n - m) + 1 \in Same
  <2>1. (n - m) + 1 \in 0..((n - m) + 1)
    BY <1>1
  <2>. HIDE DEF Same
  <2>. QED BY <1>4, <2>1
<1>. QED BY <1>5, <1>6

\* The first places of a concatenation, and those from some place on.
LEMMA ConcatSplit ==
    ASSUME NEW A, NEW a \in Seq(A), NEW b \in Seq(A), NEW n \in 0..Len(a)
    PROVE  /\ SubSeq(a \o b, 1, n) = SubSeq(a, 1, n)
           /\ SubSeq(a \o b, n + 1, Len(a \o b)) = SubSeq(a, n + 1, Len(a)) \o b
<1>1. /\ Len(a) \in Nat /\ Len(b) \in Nat
      /\ a \o b \in Seq(A) /\ Len(a \o b) = Len(a) + Len(b)
      /\ \A i \in 1..(Len(a) + Len(b)) : (a \o b)[i] = IF i <= Len(a) THEN a[i] ELSE b[i - Len(a)]
  BY LenProperties, ConcatProperties
<1>. DEFINE ab == a \o b
            l == Len(a)
            r == Len(b)
            first == SubSeq(ab, 1, n)
            rest == SubSeq(ab, n + 1, l + r)
            head == SubSeq(a, 1, n)
            tail == SubSeq(a, n + 1, l)
<1>2. l \in Nat /\ r \in Nat /\ ab \in Seq(A) /\ Len(ab) = l + r /\ n \in 0..l
      /\ \A i \in 1..(l + r) : ab[i] = IF i <= l THEN a[i] ELSE b[i - l]
  BY <1>1
<1>. HIDE DEF ab
<1>3. first \in Seq(A) /\ Len(first) = n /\ \A i \in 1..n : first[i] = ab[i]
  <2>1. 1 \in 1..(Len(ab) + 1) /\ n \in (1 - 1)..Len(ab) /\ (n - 1) + 1 = n
        /\ \A i \in 1..n : (1 + i) - 1 = i
    BY <1>2
  <2>. QED BY <1>2, <2>1, PartOfLists
<1>4. head \in Seq(A) /\ Len(head) = n /\ \A i \in 1..n : head[i] = a[i]
  <2>1. 1 \in 1..(Len(a) + 1) /\ n \in (1 - 1)..Len(a) /\ (n - 1) + 1 = n
        /\ \A i \in 1..n : (1 + i) - 1 = i
    BY <1>2
  <2>. QED BY <2>1, PartOfLists
<1>5. rest \in Seq(A) /\ Len(rest) = (l + r) - n /\ \A i \in 1..((l + r) - n) : rest[i] = ab[n + i]
  <2>1. n + 1 \in 1..(Len(ab) + 1) /\ l + r \in ((n + 1) - 1)..Len(ab)
        /\ ((l + r) - (n + 1)) + 1 = (l + r) - n
        /\ \A i \in 1..((l + r) - n) : ((n + 1) + i) - 1 = n + i
    BY <1>2
  <2>. QED BY <1>2, <2>1, PartOfLists
<1>6. tail \in Seq(A) /\ Len(tail) = l - n /\ \A i \in 1..(l - n) : tail[i] = a[n + i]
  <2>1. n + 1 \in 1..(l + 1) /\ l \in ((n + 1) - 1)..l
        /\ (l - (n + 1)) + 1 = l - n
        /\ \A i \in 1..(l - n) : ((n + 1) + i) - 1 = n + i
    BY <1>2
  <2>. DEFINE k == n + 1
  <2>2. k \in 1..(Len(a) + 1) /\ l \in (k - 1)..Len(a)
    BY <2>1
  <2>. HIDE DEF k, l
  <2>3. /\ SubSeq(a, k, l) \in Seq(A)
        /\ Len(SubSeq(a, k, l)) = (l - k) + 1
        /\ \A i \in 1..((l - k) + 1) : SubSeq(a, k, l)[i] = a[(k + i) - 1]
    BY <2>2, PartOfLists
  <2>4. tail = SubSeq(a, k, l)
    BY DEF k, l
  <2>. HIDE DEF tail
  <2>. QED BY <2>1, <2>3, <2>4 DEF k
<1>. HIDE DEF first, rest, head, tail, l, r
<1>7. first = head
  <2>1. \A i \in 1..Len(first) : first[i] = head[i]
    BY <1>2, <1>3, <1>4
  <2>. QED BY <1>3, <1>4, <2>1, SeqEqual
<1>8. /\ tail \o b \in Seq(A) /\ Len(tail \o b) = (l - n) + r
      /\ \A i \in 1..((l - n) + r) : (tail \o b)[i] = IF i <= l - n THEN tail[i] ELSE b[i - (l - n)]
  <2>1. tail \in Seq(A) /\ Len(tail) = l - n
    BY <1>6
  <2>2. Len(b) = r
    BY DEF r
  <2>3. /\ tail \o b \in Seq(A) /\ Len(tail \o b) = Len(tail) + Len(b)
        /\ \A i \in 1..(Len(tail) + Len(b)) :
              (tail \o b)[i] = IF i <= Len(tail) THEN tail[i] ELSE b[i - Len(tail)]
    BY <2>1, ConcatProperties
  <2>. QED BY <2>1, <2>2, <2>3
<1>9. rest = tail \o b
  <2>. DEFINE t == tail \o b
  <2>1. ASSUME NEW i \in 1..Len(rest)
        PROVE  rest[i] = t[i]
    <3>1. /\ i \in 1..((l - n) + r) /\ i \in 1..((l + r) - n) /\ n + i \in 1..(l + r)
          /\ (i <= l - n <=> n + i <= l) /\ (n + i) - l = i - (l - n)
          /\ (i <= l - n => i \in 1..(l - n))
      BY <1>2, <1>5
    <3>2. rest[i] = IF n + i <= l THEN a[n + i] ELSE b[(n + i) - l]
      BY <1>2, <1>5, <3>1
    <3>3. t[i] = IF i <= l - n THEN a[n + i] ELSE b[i - (l - n)]
      BY <1>6, <1>8, <3>1
    <3>. QED BY <3>1, <3>2, <3>3
  <2>2. t \in Seq(A) /\ Len(rest) = Len(t)
    BY <1>2, <1>5, <1>8
  <2>. HIDE DEF t
  <2>3. rest = t
    BY <1>5, <2>1, <2>2, SeqEqual
  <2>. QED BY <2>3 DEF t
<1>. QED BY <1>1, <1>7, <1>9 DEF ab, first, rest, head, tail, l, r

\* A part of the first places of a list is the same part of the list.
LEMMA PartOfBeginning ==
    ASSUME NEW A, NEW seq \in Seq(A), NEW b \in 0..Len(seq), NEW m \in 1..(b + 1), NEW n \in (m - 1)..b
    PROVE  SubSeq(SubSeq(seq, 1, b), m, n) = SubSeq(seq, m, n)
<1>1. Len(seq) \in Nat
  BY LenProperties
<1>. DEFINE first == SubSeq(seq, 1, b)
            inner == SubSeq(first, m, n)
            part  == SubSeq(seq, m, n)
<1>2. first \in Seq(A) /\ Len(first) = b /\ \A i \in 1..b : first[i] = seq[i]
  <2>1. 1 \in 1..(Len(seq) + 1) /\ b \in (1 - 1)..Len(seq) /\ (b - 1) + 1 = b
        /\ \A i \in 1..b : (1 + i) - 1 = i
    BY <1>1
  <2>. QED BY <2>1, PartOfLists
<1>. HIDE DEF first
<1>3. inner \in Seq(A) /\ Len(inner) = (n - m) + 1
      /\ \A i \in 1..((n - m) + 1) : inner[i] = first[(m + i) - 1]
  BY <1>2, PartOfLists
<1>4. part \in Seq(A) /\ Len(part) = (n - m) + 1
      /\ \A i \in 1..((n - m) + 1) : part[i] = seq[(m + i) - 1]
  <2>1. m \in 1..(Len(seq) + 1) /\ n \in (m - 1)..Len(seq)
    BY <1>1
  <2>. QED BY <2>1, PartOfLists
<1>. HIDE DEF inner, part
<1>5. \A i \in 1..((n - m) + 1) : (m + i) - 1 \in 1..b
  BY <1>1
<1>6. \A i \in 1..Len(inner) : inner[i] = part[i]
  BY <1>2, <1>3, <1>4, <1>5
<1>7. inner = part
  BY <1>3, <1>4, <1>6, SeqEqual
<1>. QED BY <1>7 DEF inner, part, first

-----------------------------------------------------------------------------
(* What decrypt makes of the blobs encrypt and its predecessor wrote, for  *)
(* every key and text: texts have any length, the empty one included.      *)

\* A blob of this release is never shorter than MinLength, so decrypt never
\* takes it for the legacy format (crypto_engine.py:157-158).
LEMMA EncryptedIsLong ==
    ASSUME NEW text \in Text, NEW key, NEW type
    PROVE  ~(Encrypt(text, key, type).size < MinLength)
<1>1. TextLength[text] \in Nat
  BY TextLengthAssumption
<1>. QED BY <1>1 DEF Encrypt, MinLength, NonceSize, TagSize

\* encrypt makes a blob of the blob type.
LEMMA EncryptType ==
    ASSUME NEW text \in Text, NEW key \in EncKey, NEW type
    PROVE  Encrypt(text, key, type) \in SealedBlob
<1>1. TextLength[text] \in Nat
  BY TextLengthAssumption
<1>. QED BY <1>1 DEF Encrypt, SealedBlob, TypeName, NonceSize, TagSize

\* decrypt gives back what encrypt was given, the empty text included; a type
\* without a type byte comes back as "str" (crypto_engine.py:105, 181-201).
THEOREM DecryptInvertsEncrypt ==
    ASSUME NEW text \in Text, NEW key \in EncKey, NEW type
    PROVE  Decrypt(Encrypt(text, key, type), key) =
               Plain(text, IF type \in TypeName THEN type ELSE "str")
<1>1. ~(Encrypt(text, key, type).size < MinLength)
  BY EncryptedIsLong
<1>. QED BY <1>1 DEF Decrypt, Encrypt

\* A blob never decrypts under another key, whatever its length and layout
\* (crypto_engine.py:171-174, 202-206).
THEOREM WrongKeyIsCorrupted ==
    ASSUME NEW blob \in SealedBlob, NEW key \in EncKey, key # blob.key
    PROVE  Decrypt(blob, key) = Corrupted
BY DEF Decrypt

\* Of the blobs without a type byte, which decrypt means to read ("backwards
\* compatibility", crypto_engine.py:159), it reads those of the empty text
\* only: every other one has MinLength bytes and is taken for a typed one.
THEOREM LegacyReadableIffEmpty ==
    ASSUME NEW text \in Text, NEW key \in EncKey
    PROVE  Decrypt(LegacyEncrypt(text, key), key) =
               IF TextLength[text] = 0 THEN Plain(text, "str") ELSE Corrupted
<1>1. TextLength[text] \in Nat
  BY TextLengthAssumption
<1>2. CASE TextLength[text] = 0
  <2>1. LegacyEncrypt(text, key).size < MinLength
    BY <1>2 DEF LegacyEncrypt, MinLength, NonceSize, TagSize
  <2>2. LegacyEncrypt(text, key).size >= NonceSize + TagSize
    BY <1>2 DEF LegacyEncrypt, NonceSize, TagSize
  <2>. QED BY <1>2, <2>1, <2>2 DEF Decrypt, LegacyEncrypt
<1>3. CASE TextLength[text] # 0
  <2>1. ~(LegacyEncrypt(text, key).size < MinLength)
    BY <1>1, <1>3 DEF LegacyEncrypt, MinLength, NonceSize, TagSize
  <2>. QED BY <1>3, <2>1 DEF Decrypt, LegacyEncrypt
<1>. QED BY <1>2, <1>3
-----------------------------------------------------------------------------
(* Positions: a set of them has a first and, being finite, a last element. *)

\* The first of some positions, which NextTtl chooses.
LEMMA FirstPosition ==
    ASSUME NEW P \in SUBSET Position, P # {}
    PROVE  \E p \in P : \A q \in P : ~Precedes(q, p)
<1>. DEFINE Records == {p[1] : p \in P}
<1>1. Records \in SUBSET Nat /\ Records # {}
  BY IndexAssumption DEF Position
<1>2. PICK r \in Records : \A s \in Records : r <= s
  BY <1>1, LeastNatural, Zenon
<1>. DEFINE Fields == {p[2] : p \in {q \in P : q[1] = r}}
<1>3. Fields \in SUBSET Nat /\ Fields # {}
  BY <1>2, IndexAssumption DEF Position
<1>4. PICK f \in Fields : \A g \in Fields : f <= g
  BY <1>3, LeastNatural, Zenon
<1>5. PICK p \in P : p[1] = r /\ p[2] = f
  BY <1>4
<1>6. \A q \in P : /\ q[1] \in Nat /\ q[2] \in Nat
                   /\ p[1] \in Nat /\ p[2] \in Nat
  BY IndexAssumption DEF Position
<1>7. \A q \in P : p[1] <= q[1] /\ (q[1] = p[1] => p[2] <= q[2])
  BY <1>2, <1>4, <1>5
<1>8. \A q \in P : ~Precedes(q, p)
  BY <1>6, <1>7 DEF Precedes
<1>. QED BY <1>8

\* The last of some positions, which LastOf chooses.
LEMMA LastPosition ==
    ASSUME NEW P \in SUBSET Position, P # {}
    PROVE  \E p \in P : \A q \in P : ~Precedes(p, q)
<1>. DEFINE Above(p) == {q \in P : Precedes(p, q)}
            Uppers == {Above(p) : p \in P}
<1>1. IsFiniteSet(P)
  BY IndexAssumption, FS_Product, FS_Subset DEF Position
<1>2. Uppers \subseteq FiniteSubsetsOf(P) /\ Uppers # {}
  <2>1. \A p \in P : Above(p) \in SUBSET P /\ IsFiniteSet(Above(p))
    BY <1>1, FS_Subset
  <2>. QED BY <2>1 DEF FiniteSubsetsOf
<1>3. PICK A \in Uppers : \A B \in Uppers : ~(<<B, A>> \in StrictSubsetOrdering(P))
  <2>. HIDE DEF Uppers
  <2>. QED BY <1>2, FS_StrictSubsetOrderingWellFounded, WFMin
<1>4. PICK p \in P : A = Above(p)
  OBVIOUS
<1>5. ASSUME NEW q \in P, Precedes(p, q)
      PROVE  FALSE
  <2>1. /\ p[1] \in Nat /\ p[2] \in Nat
        /\ q[1] \in Nat /\ q[2] \in Nat
        /\ \A r \in P : r[1] \in Nat /\ r[2] \in Nat
    BY IndexAssumption DEF Position
  <2>2. \A r \in P : Precedes(q, r) => Precedes(p, r)
    BY <1>5, <2>1 DEF Precedes
  <2>3. ~Precedes(q, q)
    BY <2>1 DEF Precedes
  <2>4. Above(q) \subseteq A /\ Above(q) # A
    BY <1>4, <1>5, <2>2, <2>3
  <2>5. <<Above(q), A>> \in StrictSubsetOrdering(P)
    BY <1>1, <1>4, <2>4, FS_Subset DEF StrictSubsetOrdering
  <2>. QED BY <1>3, <2>5
<1>. QED BY <1>5

-----------------------------------------------------------------------------
(* The operators on batches. *)

\* The next group is one that is not written yet.
LEMMA NextTtlIsNext ==
    ASSUME NEW b, IsBatch(b), NEW done, ~(Ttls(b) \subseteq done)
    PROVE  NextTtl(b, done) \in Ttls(b) \ done /\ NextTtl(b, done) \in Nat
<1>. DEFINE P == {p \in DOMAIN b : b[p].ttl \notin done}
            First(p) == /\ b[p].ttl \notin done
                        /\ \A q \in DOMAIN b : Precedes(q, p) => b[q].ttl \in done
<1>1. P \in SUBSET Position /\ P # {}
  BY DEF IsBatch, Ttls
<1>2. PICK p \in P : \A q \in P : ~Precedes(q, p)
  <2>. HIDE DEF P
  <2>. QED BY <1>1, FirstPosition
<1>3. \E q \in DOMAIN b : First(q)
  BY <1>2
<1>4. PICK q \in DOMAIN b : First(q) /\ NextTtl(b, done) = b[q].ttl
  BY <1>3 DEF NextTtl
<1>5. b[q].ttl \in Nat
  BY DEF IsBatch, Mapping
<1>. QED BY <1>4, <1>5 DEF Ttls

\* LastOf is a mapping of the group with the key.
LEMMA LastOfIsOfKey ==
    ASSUME NEW b, IsBatch(b), NEW G \in SUBSET DOMAIN b, NEW k,
           \E p \in G : KeyOf(b[p]) = k
    PROVE  LastOf(b, G, k) \in G /\ KeyOf(b[LastOf(b, G, k)]) = k
<1>. DEFINE P == {p \in G : KeyOf(b[p]) = k}
            IsLast(p) == /\ KeyOf(b[p]) = k
                         /\ \A q \in G : KeyOf(b[q]) = k => ~Precedes(p, q)
<1>1. P \in SUBSET Position /\ P # {}
  BY DEF IsBatch
<1>2. PICK p \in P : \A q \in P : ~Precedes(p, q)
  <2>. HIDE DEF P
  <2>. QED BY <1>1, LastPosition
<1>3. \E q \in G : IsLast(q)
  BY <1>2
<1>. QED BY <1>3 DEF LastOf

\* A batch's keys are keys of the store.
LEMMA KeyOfType ==
    ASSUME NEW b, IsBatch(b), NEW p \in DOMAIN b
    PROVE  KeyOf(b[p]) \in StoreKey /\ b[p].ttl \in Nat /\ b[p].blob \in Blob
BY DEF IsBatch, Mapping, KeyOf, BuildKey, StoreKey

\* The keys of a group, and what its command puts under one of them.
GroupKeys(b, ttl) == {KeyOf(b[p]) : p \in Group(b, ttl)}

IsWritten(b, ttl, k, entry) ==
    \E p \in DOMAIN b : /\ b[p].ttl = ttl /\ KeyOf(b[p]) = k
                        /\ entry = [blob |-> b[p].blob, ttl |-> ttl]

\* A group command leaves every other key alone and puts under each of the
\* group's keys the blob of a mapping of the group with that key.
LEMMA WriteGroupEffect ==
    ASSUME NEW b, IsBatch(b), NEW ttl
    PROVE  /\ DOMAIN WriteGroup(b, ttl) = DOMAIN db \cup GroupKeys(b, ttl)
           /\ \A k \in DOMAIN db \cup GroupKeys(b, ttl) :
                 \/ IsWritten(b, ttl, k, WriteGroup(b, ttl)[k])
                 \/ k \in DOMAIN db /\ WriteGroup(b, ttl)[k] = db[k]
<1>. DEFINE G == Group(b, ttl)
            Keys == {KeyOf(b[p]) : p \in G}
            W == [k \in DOMAIN db \cup Keys |->
                     IF k \in Keys THEN [blob |-> b[LastOf(b, G, k)].blob, ttl |-> ttl]
                                   ELSE db[k]]
<1>1. WriteGroup(b, ttl) = W
  BY DEF WriteGroup
<1>2. DOMAIN W = DOMAIN db \cup GroupKeys(b, ttl)
  BY DEF GroupKeys
<1>3. ASSUME NEW k \in DOMAIN W, k \in Keys
      PROVE  IsWritten(b, ttl, k, W[k])
  <2>. DEFINE p == LastOf(b, G, k)
  <2>1. G \in SUBSET DOMAIN b /\ \E q \in G : KeyOf(b[q]) = k
    BY <1>3 DEF Group
  <2>2. p \in G /\ KeyOf(b[p]) = k
    <3>. HIDE DEF G
    <3>. QED BY <2>1, LastOfIsOfKey
  <2>3. p \in DOMAIN b /\ b[p].ttl = ttl
    BY <2>2 DEF Group
  <2>4. W[k] = [blob |-> b[p].blob, ttl |-> ttl]
    <3>. HIDE DEF G, Keys
    <3>. QED BY <1>3
  <2>. HIDE DEF W, p
  <2>. QED BY <2>2, <2>3, <2>4 DEF IsWritten
<1>4. ASSUME NEW k \in DOMAIN W, k \notin Keys
      PROVE  k \in DOMAIN db /\ W[k] = db[k]
  BY <1>4
<1>. HIDE DEF W
<1>. QED BY <1>1, <1>2, <1>3, <1>4

-----------------------------------------------------------------------------
(* The inductive invariant of the store.                                   *)

\* What the control state of a call says of its batch and its replies.
CallsInOrder ==
    \A c \in Call :
        /\ status[c] = "idle" =>
              DOMAIN batch[c] = {} /\ DOMAIN got[c] = {} /\ ~acked[c] /\ written[c] = {}
        /\ status[c] = "reading" => DOMAIN batch[c] = {}
        /\ status[c] = "writing" => ~(Ttls(batch[c]) \subseteq written[c])
        /\ status[c] = "done" => Ttls(batch[c]) \subseteq written[c]

\* The groups a call counts as written are in the server, or were.
WrittenGroupsPersist ==
    \A c \in Call : \A p \in DOMAIN batch[c] :
        batch[c][p].ttl \in written[c] => KeyOf(batch[c][p]) \in DOMAIN db \cup expired

\* So is the group whose reply is on its way: a reply to an earlier attempt,
\* or to another group's command, is never taken for it.
RepliedGroupPersists ==
    \A c \in Call : status[c] = "writing" /\ acked[c] =>
        \A p \in DOMAIN batch[c] :
            batch[c][p].ttl = CurrentTtl(c) => KeyOf(batch[c][p]) \in DOMAIN db \cup expired

StoreInv ==
    /\ StoreTypeOK
    /\ CallsInOrder
    /\ WrittenGroupsPersist
    /\ RepliedGroupPersists
    /\ EntriesComeFromBatches

\* The invariant gives the store's safety property.
LEMMA StoreInvImpliesPersistence == StoreInv => AcknowledgedWritesPersist
BY DEF StoreInv, CallsInOrder, WrittenGroupsPersist, AcknowledgedWritesPersist, Ttls

\* A fresh store satisfies the invariant.
LEMMA StoreInitInv == StoreInit => StoreInv
<1>. SUFFICES ASSUME StoreInit PROVE StoreInv
  OBVIOUS
<1>1. StoreTypeOK
  BY MaxAttemptsAssumption
     DEF StoreInit, StoreTypeOK, Nothing, IsBatch, IsQuery, Entry, StoreKey
<1>2. CallsInOrder /\ WrittenGroupsPersist /\ RepliedGroupPersists
  BY DEF StoreInit, CallsInOrder, WrittenGroupsPersist, RepliedGroupPersists, Nothing
<1>3. EntriesComeFromBatches
  BY DEF StoreInit, EntriesComeFromBatches, Nothing
<1>. QED BY <1>1, <1>2, <1>3 DEF StoreInv

-----------------------------------------------------------------------------
(* Every operation preserves it. *)

\* A step that writes nothing and starts no second batch in a call keeps the
\* origins of the entries.
LEMMA EntriesKept ==
    ASSUME EntriesComeFromBatches,
           \A k \in DOMAIN db' : k \in DOMAIN db /\ db'[k] = db[k],
           \A c \in Call : DOMAIN batch[c] = {} \/ batch'[c] = batch[c]
    PROVE  EntriesComeFromBatches'
<1>. SUFFICES ASSUME NEW k \in DOMAIN db'
              PROVE  \E c \in Call : \E p \in DOMAIN batch'[c] :
                         /\ KeyOf(batch'[c][p]) = k
                         /\ db'[k] = [blob |-> batch'[c][p].blob, ttl |-> batch'[c][p].ttl]
  BY DEF EntriesComeFromBatches
<1>1. PICK c \in Call : \E p \in DOMAIN batch[c] :
         /\ KeyOf(batch[c][p]) = k
         /\ db[k] = [blob |-> batch[c][p].blob, ttl |-> batch[c][p].ttl]
  BY DEF EntriesComeFromBatches
<1>2. batch'[c] = batch[c] /\ db'[k] = db[k]
  BY <1>1
<1>. QED BY <1>1, <1>2

\* store_batch starts.
LEMMA StoreBatchInv ==
    ASSUME StoreInv, NEW c \in Call, NEW b, IsBatch(b), StoreBatch(c, b)
    PROVE  StoreInv'
<1>. USE DEF StoreInv
<1>1. CASE DOMAIN b = {}
  <2>1. /\ batch' = [batch EXCEPT ![c] = b]
        /\ status' = [status EXCEPT ![c] = "done"]
        /\ status[c] = "idle"
        /\ UNCHANGED <<db, expired, wire, written, attempt, acked, query, got>>
    BY <1>1 DEF StoreBatch
  <2>2. StoreTypeOK'
    BY <2>1 DEF StoreTypeOK
  <2>3. CallsInOrder'
    BY <1>1, <2>1 DEF StoreTypeOK, CallsInOrder, Ttls
  <2>4. WrittenGroupsPersist'
    BY <1>1, <2>1 DEF StoreTypeOK, WrittenGroupsPersist
  <2>5. RepliedGroupPersists'
    BY <2>1 DEF StoreTypeOK, RepliedGroupPersists, CurrentTtl
  <2>6. EntriesComeFromBatches'
    BY <2>1, EntriesKept DEF StoreTypeOK, CallsInOrder
  <2>. QED BY <2>2, <2>3, <2>4, <2>5, <2>6
<1>2. CASE DOMAIN b # {}
  <2>1. /\ batch' = [batch EXCEPT ![c] = b]
        /\ status' = [status EXCEPT ![c] = "writing"]
        /\ wire' = wire \cup {<<c, NextTtl(b, {}), 1>>}
        /\ attempt' = [attempt EXCEPT ![c] = 1]
        /\ status[c] = "idle"
        /\ UNCHANGED <<db, expired, written, acked, query, got>>
    BY <1>2 DEF StoreBatch
  <2>2. ~(Ttls(b) \subseteq {})
    BY <1>2 DEF Ttls
  <2>3. NextTtl(b, {}) \in Nat
    BY <2>2, NextTtlIsNext
  <2>4. StoreTypeOK'
    BY <2>1, <2>3, MaxAttemptsAssumption DEF StoreTypeOK
  <2>5. CallsInOrder'
    BY <2>1, <2>2 DEF StoreTypeOK, CallsInOrder
  <2>6. WrittenGroupsPersist'
    BY <2>1 DEF StoreTypeOK, CallsInOrder, WrittenGroupsPersist
  <2>7. RepliedGroupPersists'
    BY <2>1 DEF StoreTypeOK, CallsInOrder, RepliedGroupPersists, CurrentTtl
  <2>8. EntriesComeFromBatches'
    BY <2>1, EntriesKept DEF StoreTypeOK, CallsInOrder
  <2>. QED BY <2>4, <2>5, <2>6, <2>7, <2>8
<1>. QED BY <1>1, <1>2

\* retrieve_batch starts.
LEMMA RetrieveBatchInv ==
    ASSUME StoreInv, NEW c \in Call, NEW q, IsQuery(q), RetrieveBatch(c, q)
    PROVE  StoreInv'
<1>. USE DEF StoreInv
<1>1. /\ status[c] = "idle"
      /\ query' = [query EXCEPT ![c] = q]
      /\ status' = [status EXCEPT ![c] = IF DOMAIN q = {} THEN "done" ELSE "reading"]
      /\ attempt' = [attempt EXCEPT ![c] = 1] \/ attempt' = attempt
      /\ UNCHANGED <<db, expired, wire, batch, written, acked, got>>
  BY DEF RetrieveBatch
<1>2. StoreTypeOK'
  <2>1. \A a \in Call : /\ IsQuery(query'[a])
                        /\ DOMAIN got[a] \subseteq DOMAIN query'[a]
    BY <1>1 DEF StoreTypeOK, CallsInOrder
  <2>2. attempt' \in [Call -> 0..MaxAttempts]
    BY <1>1, MaxAttemptsAssumption DEF StoreTypeOK
  <2>3. /\ DOMAIN query' = Call
        /\ status' \in [Call -> {"idle", "writing", "reading", "done", "failed"}]
    BY <1>1 DEF StoreTypeOK
  <2>. QED BY <1>1, <2>1, <2>2, <2>3 DEF StoreTypeOK
<1>3. CallsInOrder'
  BY <1>1 DEF StoreTypeOK, CallsInOrder, Ttls
<1>4. WrittenGroupsPersist'
  BY <1>1 DEF WrittenGroupsPersist
<1>5. RepliedGroupPersists'
  BY <1>1 DEF StoreTypeOK, RepliedGroupPersists, CurrentTtl
<1>6. EntriesComeFromBatches'
  BY <1>1 DEF EntriesComeFromBatches
<1>. QED BY <1>2, <1>3, <1>4, <1>5, <1>6

\* The server executes a command, late or not.
LEMMA ExecuteInv ==
    ASSUME StoreInv, NEW m \in wire, Execute(m)
    PROVE  StoreInv'
<1>. USE DEF StoreInv
<1>. DEFINE c == m[1]
            b == batch[c]
<1>1. /\ c \in Call /\ m[2] \in Nat /\ IsBatch(b)
      /\ wire' \subseteq wire
      /\ db' = WriteGroup(b, m[2])
      /\ acked' = [acked EXCEPT ![c] = @ \/ IsCurrent(m)]
      /\ UNCHANGED <<expired, status, batch, written, attempt, query, got>>
  BY DEF Execute, StoreTypeOK
<1>2. /\ DOMAIN db' = DOMAIN db \cup GroupKeys(b, m[2])
      /\ \A k \in DOMAIN db' : \/ IsWritten(b, m[2], k, db'[k])
                               \/ k \in DOMAIN db /\ db'[k] = db[k]
  <2>. DEFINE ttl == m[2]
  <2>1. IsBatch(b) /\ db' = WriteGroup(b, ttl)
    BY <1>1
  <2>. HIDE DEF b, ttl
  <2>2. /\ DOMAIN db' = DOMAIN db \cup GroupKeys(b, ttl)
        /\ \A k \in DOMAIN db' : \/ IsWritten(b, ttl, k, db'[k])
                                 \/ k \in DOMAIN db /\ db'[k] = db[k]
    BY ONLY <2>1, WriteGroupEffect
  <2>. QED BY <2>2 DEF ttl
<1>3. StoreTypeOK'
  <2>1. \A p \in DOMAIN b : KeyOf(b[p]) \in StoreKey /\ b[p].blob \in Blob
    BY <1>1, KeyOfType
  <2>2. DOMAIN db' \subseteq StoreKey
    BY <1>2, <2>1 DEF StoreTypeOK, GroupKeys, Group
  <2>3. ASSUME NEW k \in DOMAIN db'
        PROVE  db'[k] \in Entry
    <3>1. CASE IsWritten(b, m[2], k, db'[k])
      BY <1>1, <2>1, <3>1 DEF Entry, IsWritten
    <3>2. CASE k \in DOMAIN db /\ db'[k] = db[k]
      BY <3>2 DEF StoreTypeOK
    <3>. QED BY <1>2, <3>1, <3>2
  <2>4. db' = [k \in DOMAIN db' |-> db'[k]]
    BY <1>1 DEF WriteGroup
  <2>. HIDE DEF b
  <2>5. db' \in [DOMAIN db' -> Entry]
    BY <2>3, <2>4
  <2>6. acked' \in [Call -> BOOLEAN]
    BY <1>1 DEF StoreTypeOK, IsCurrent
  <2>. QED BY <1>1, <2>2, <2>5, <2>6 DEF StoreTypeOK
<1>4. CallsInOrder'
  BY <1>1 DEF StoreTypeOK, CallsInOrder, IsCurrent
<1>5. WrittenGroupsPersist'
  BY <1>1, <1>2 DEF WrittenGroupsPersist
<1>6. RepliedGroupPersists'
  <2>1. SUFFICES ASSUME NEW a \in Call, status[a] = "writing", acked'[a],
                        NEW p \in DOMAIN batch[a], batch[a][p].ttl = CurrentTtl(a)
                 PROVE  KeyOf(batch[a][p]) \in DOMAIN db' \cup expired
    BY <1>1 DEF RepliedGroupPersists, CurrentTtl
  <2>2. CASE acked[a]
    BY <1>2, <2>1, <2>2 DEF RepliedGroupPersists
  <2>3. CASE ~acked[a]
    <3>1. a = c /\ IsCurrent(m)
      BY <1>1, <2>1, <2>3 DEF StoreTypeOK
    <3>2. p \in Group(b, m[2])
      BY <2>1, <3>1 DEF IsCurrent, Group
    <3>. QED BY <1>2, <3>1, <3>2 DEF GroupKeys
  <2>. QED BY <2>2, <2>3
<1>7. EntriesComeFromBatches'
  <2>1. SUFFICES ASSUME NEW k \in DOMAIN db'
                 PROVE  \E a \in Call : \E p \in DOMAIN batch[a] :
                           /\ KeyOf(batch[a][p]) = k
                           /\ db'[k] = [blob |-> batch[a][p].blob, ttl |-> batch[a][p].ttl]
    BY <1>1 DEF EntriesComeFromBatches
  <2>2. CASE IsWritten(b, m[2], k, db'[k])
    BY <1>1, <2>2 DEF IsWritten
  <2>3. CASE k \in DOMAIN db /\ db'[k] = db[k]
    BY <2>3 DEF EntriesComeFromBatches
  <2>. QED BY <1>2, <2>2, <2>3
<1>. QED BY <1>3, <1>4, <1>5, <1>6, <1>7

\* The server refuses a command.
LEMMA RefuseInv ==
    ASSUME StoreInv, NEW m \in wire, Refuse(m)
    PROVE  StoreInv'
<1>. USE DEF StoreInv
<1>1. /\ m[1] \in Call /\ status[m[1]] = "writing"
      /\ wire' \subseteq wire
      /\ status' = [status EXCEPT ![m[1]] = "failed"]
      /\ UNCHANGED <<db, expired, batch, written, attempt, acked, query, got>>
  BY DEF Refuse, IsCurrent, StoreTypeOK
<1>2. StoreTypeOK'
  BY <1>1 DEF StoreTypeOK
<1>3. CallsInOrder'
  BY <1>1 DEF StoreTypeOK, CallsInOrder
<1>4. WrittenGroupsPersist'
  BY <1>1 DEF WrittenGroupsPersist
<1>5. RepliedGroupPersists'
  BY <1>1 DEF StoreTypeOK, RepliedGroupPersists, CurrentTtl
<1>6. EntriesComeFromBatches'
  BY <1>1, EntriesKept
<1>. QED BY <1>2, <1>3, <1>4, <1>5, <1>6

\* A reply arrives; another group follows, or store_batch returns.
LEMMA AcknowledgeInv ==
    ASSUME StoreInv, NEW c \in Call, Acknowledge(c)
    PROVE  StoreInv'
<1>. USE DEF StoreInv
<1>. DEFINE ttl == CurrentTtl(c)
            done == written[c] \cup {ttl}
<1>1. /\ status[c] = "writing" /\ acked[c]
      /\ IsBatch(batch[c])
      /\ written' = [written EXCEPT ![c] = done]
      /\ UNCHANGED <<db, expired, batch, query, got>>
  BY DEF Acknowledge, StoreTypeOK
<1>2. ttl \in Ttls(batch[c]) \ written[c] /\ ttl \in Nat
  BY <1>1, NextTtlIsNext DEF CallsInOrder, CurrentTtl
<1>3. WrittenGroupsPersist'
  <2>. HIDE DEF ttl
  <2>1. \A p \in DOMAIN batch[c] :
           batch[c][p].ttl = ttl => KeyOf(batch[c][p]) \in DOMAIN db \cup expired
    BY <1>1 DEF RepliedGroupPersists, ttl
  <2>2. written' = [written EXCEPT ![c] = written[c] \cup {ttl}]
    BY <1>1
  <2>. QED BY <1>1, <2>1, <2>2 DEF StoreTypeOK, WrittenGroupsPersist
<1>4. EntriesComeFromBatches'
  BY <1>1, EntriesKept
<1>5. CASE Ttls(batch[c]) \subseteq done
  <2>1. /\ status' = [status EXCEPT ![c] = "done"]
        /\ UNCHANGED <<wire, attempt, acked>>
    BY <1>5 DEF Acknowledge
  <2>2. StoreTypeOK'
    BY <1>1, <1>2, <2>1 DEF StoreTypeOK
  <2>3. CallsInOrder'
    BY <1>1, <1>5, <2>1 DEF StoreTypeOK, CallsInOrder
  <2>4. RepliedGroupPersists'
    BY <1>1, <2>1 DEF StoreTypeOK, RepliedGroupPersists, CurrentTtl
  <2>. QED BY <1>3, <1>4, <2>2, <2>3, <2>4
<1>6. CASE ~(Ttls(batch[c]) \subseteq done)
  <2>1. /\ wire' = wire \cup {<<c, NextTtl(batch[c], done), 1>>}
        /\ attempt' = [attempt EXCEPT ![c] = 1]
        /\ acked' = [acked EXCEPT ![c] = FALSE]
        /\ status' = status
    BY <1>6 DEF Acknowledge
  <2>2. NextTtl(batch[c], done) \in Nat
    <3>. HIDE DEF done
    <3>. QED BY <1>1, <1>6, NextTtlIsNext
  <2>3. StoreTypeOK'
    <3>. HIDE DEF ttl
    <3>1. written' \in [Call -> SUBSET Nat]
      BY <1>1, <1>2 DEF StoreTypeOK
    <3>. QED BY <1>1, <2>1, <2>2, <3>1, MaxAttemptsAssumption DEF StoreTypeOK
  <2>4. CallsInOrder'
    BY <1>1, <1>6, <2>1 DEF StoreTypeOK, CallsInOrder
  <2>5. RepliedGroupPersists'
    BY <1>1, <2>1 DEF StoreTypeOK, RepliedGroupPersists, CurrentTtl
  <2>. QED BY <1>3, <1>4, <2>3, <2>4, <2>5
<1>. QED BY <1>5, <1>6

\* The next GET of a pipeline is answered.
LEMMA ReadNextInv ==
    ASSUME StoreInv, NEW c \in Call, ReadNext(c)
    PROVE  StoreInv'
<1>. USE DEF StoreInv
<1>1. /\ status[c] = "reading"
      /\ UNCHANGED <<db, expired, wire, status, batch, written, attempt, acked, query>>
  BY DEF ReadNext
<1>2. PICK p \in DOMAIN query[c] \ DOMAIN got[c] :
         got' = [got EXCEPT ![c] =
                    [q \in DOMAIN got[c] \cup {p} |->
                        IF q = p THEN Lookup(query[c][p]) ELSE got[c][q]]]
  BY DEF ReadNext
<1>3. StoreTypeOK'
  <2>. DEFINE answers == [q \in DOMAIN got[c] \cup {p} |->
                             IF q = p THEN Lookup(query[c][p]) ELSE got[c][q]]
  <2>1. Lookup(query[c][p]) \in Blob \cup {NotFound}
    BY DEF StoreTypeOK, Lookup, Entry
  <2>2. /\ DOMAIN answers \subseteq DOMAIN query[c]
        /\ answers \in [DOMAIN answers -> Blob \cup {NotFound}]
    BY <2>1 DEF StoreTypeOK
  <2>. HIDE DEF answers
  <2>3. got' = [got EXCEPT ![c] = answers]
    BY <1>2 DEF answers
  <2>. QED BY <1>1, <2>2, <2>3 DEF StoreTypeOK
<1>4. CallsInOrder'
  BY <1>1, <1>2 DEF StoreTypeOK, CallsInOrder
<1>5. WrittenGroupsPersist'
  BY <1>1 DEF WrittenGroupsPersist
<1>6. RepliedGroupPersists'
  BY <1>1 DEF RepliedGroupPersists, CurrentTtl
<1>7. EntriesComeFromBatches'
  BY <1>1, EntriesKept
<1>. QED BY <1>3, <1>4, <1>5, <1>6, <1>7

\* retrieve_batch returns.
LEMMA ReturnReadInv ==
    ASSUME StoreInv, NEW c \in Call, ReturnRead(c)
    PROVE  StoreInv'
<1>. USE DEF StoreInv
<1>1. /\ status[c] = "reading"
      /\ status' = [status EXCEPT ![c] = "done"]
      /\ UNCHANGED <<db, expired, wire, batch, written, attempt, acked, query, got>>
  BY DEF ReturnRead
<1>2. StoreTypeOK'
  BY <1>1 DEF StoreTypeOK
<1>3. CallsInOrder'
  BY <1>1 DEF StoreTypeOK, CallsInOrder, Ttls
<1>4. WrittenGroupsPersist'
  BY <1>1 DEF WrittenGroupsPersist
<1>5. RepliedGroupPersists'
  BY <1>1 DEF StoreTypeOK, RepliedGroupPersists, CurrentTtl
<1>6. EntriesComeFromBatches'
  BY <1>1, EntriesKept
<1>. QED BY <1>2, <1>3, <1>4, <1>5, <1>6

\* An attempt times out: the client tries again or gives up.
LEMMA TimeOutInv ==
    ASSUME StoreInv, NEW c \in Call, TimeOut(c)
    PROVE  StoreInv'
<1>. USE DEF StoreInv
<1>1. /\ status[c] \in {"writing", "reading"}
      /\ UNCHANGED <<db, expired, batch, written, query>>
  BY DEF TimeOut
<1>2. WrittenGroupsPersist'
  BY <1>1 DEF WrittenGroupsPersist
<1>3. EntriesComeFromBatches'
  BY <1>1, EntriesKept
<1>4. CASE attempt[c] < MaxAttempts
  <2>1. /\ attempt' = [attempt EXCEPT ![c] = @ + 1]
        /\ acked' = [acked EXCEPT ![c] = FALSE]
        /\ got' = [got EXCEPT ![c] = Nothing]
        /\ status' = status
    BY <1>4 DEF TimeOut
  <2>2. attempt[c] + 1 \in 1..MaxAttempts
    BY <1>4, MaxAttemptsAssumption DEF StoreTypeOK
  <2>3. wire' \subseteq Call \X Nat \X (1..MaxAttempts)
    <3>1. CASE status[c] = "writing"
      <4>1. CurrentTtl(c) \in Nat
        BY <3>1, NextTtlIsNext DEF CallsInOrder, StoreTypeOK, CurrentTtl
      <4>2. wire' = wire \cup {<<c, CurrentTtl(c), attempt[c] + 1>>}
        BY <1>4, <3>1 DEF TimeOut
      <4>. QED BY <2>2, <4>1, <4>2 DEF StoreTypeOK
    <3>2. CASE status[c] = "reading"
      BY <1>4, <3>2 DEF TimeOut, StoreTypeOK
    <3>. QED BY <1>1, <3>1, <3>2
  <2>4. /\ DOMAIN Nothing = {}
        /\ Nothing \in [{} -> Blob \cup {NotFound}]
    BY DEF Nothing
  <2>5. StoreTypeOK'
    BY <1>1, <2>1, <2>2, <2>3, <2>4 DEF StoreTypeOK
  <2>6. CallsInOrder'
    BY <1>1, <2>1, <2>4 DEF StoreTypeOK, CallsInOrder
  <2>7. RepliedGroupPersists'
    BY <1>1, <2>1 DEF StoreTypeOK, RepliedGroupPersists, CurrentTtl
  <2>. QED BY <1>2, <1>3, <2>5, <2>6, <2>7
<1>5. CASE ~(attempt[c] < MaxAttempts)
  <2>1. /\ status' = [status EXCEPT ![c] = "failed"]
        /\ UNCHANGED <<wire, attempt, acked, got>>
    BY <1>5 DEF TimeOut
  <2>2. StoreTypeOK'
    BY <1>1, <2>1 DEF StoreTypeOK
  <2>3. CallsInOrder'
    BY <1>1, <2>1 DEF StoreTypeOK, CallsInOrder
  <2>4. RepliedGroupPersists'
    BY <1>1, <2>1 DEF StoreTypeOK, RepliedGroupPersists, CurrentTtl
  <2>. QED BY <1>2, <1>3, <2>2, <2>3, <2>4
<1>. QED BY <1>4, <1>5

\* The caller of a call is cancelled.
LEMMA AbandonInv ==
    ASSUME StoreInv, NEW c \in Call, Abandon(c)
    PROVE  StoreInv'
<1>. USE DEF StoreInv
<1>1. /\ status' = [status EXCEPT ![c] = "failed"]
      /\ UNCHANGED <<db, expired, wire, batch, written, attempt, acked, query, got>>
  BY DEF Abandon
<1>2. StoreTypeOK'
  BY <1>1 DEF StoreTypeOK
<1>3. CallsInOrder'
  BY <1>1 DEF StoreTypeOK, CallsInOrder, Abandon
<1>4. WrittenGroupsPersist'
  BY <1>1 DEF WrittenGroupsPersist
<1>5. RepliedGroupPersists'
  BY <1>1 DEF StoreTypeOK, RepliedGroupPersists, CurrentTtl
<1>6. EntriesComeFromBatches'
  BY <1>1, EntriesKept
<1>. QED BY <1>2, <1>3, <1>4, <1>5, <1>6

\* A key expires: it is no longer in the server, but among the expired.
LEMMA ExpireInv ==
    ASSUME StoreInv, NEW k \in DOMAIN db, Expire(k)
    PROVE  StoreInv'
<1>. USE DEF StoreInv
<1>1. /\ db' = [j \in DOMAIN db \ {k} |-> db[j]]
      /\ expired' = expired \cup {k}
      /\ UNCHANGED <<wire, status, batch, written, attempt, acked, query, got>>
  BY DEF Expire
<1>2. /\ DOMAIN db' \subseteq DOMAIN db
      /\ \A j \in DOMAIN db' : db'[j] = db[j]
      /\ DOMAIN db' \cup expired' = DOMAIN db \cup expired
  BY <1>1
<1>3. StoreTypeOK'
  BY <1>1 DEF StoreTypeOK
<1>4. CallsInOrder'
  BY <1>1 DEF CallsInOrder
<1>5. WrittenGroupsPersist'
  BY <1>1, <1>2 DEF WrittenGroupsPersist
<1>6. RepliedGroupPersists'
  BY <1>1, <1>2 DEF RepliedGroupPersists, CurrentTtl
<1>7. EntriesComeFromBatches'
  BY <1>1, <1>2, EntriesKept
<1>. QED BY <1>3, <1>4, <1>5, <1>6, <1>7

\* Any step of the calls in progress and of the server preserves the invariant:
\* what a client of the store needs beside the two operations that start calls.
THEOREM StoreStepInv == StoreInv /\ StoreStep => StoreInv'
<1>. SUFFICES ASSUME StoreInv, StoreStep PROVE StoreInv'
  OBVIOUS
<1>1. CASE \E m \in wire : Execute(m)
  BY <1>1, ExecuteInv
<1>2. CASE \E m \in wire : Refuse(m)
  BY <1>2, RefuseInv
<1>3. CASE \E c \in Call : Acknowledge(c)
  BY <1>3, AcknowledgeInv
<1>4. CASE \E c \in Call : ReadNext(c)
  BY <1>4, ReadNextInv
<1>5. CASE \E c \in Call : ReturnRead(c)
  BY <1>5, ReturnReadInv
<1>6. CASE \E c \in Call : TimeOut(c)
  BY <1>6, TimeOutInv
<1>7. CASE \E c \in Call : Abandon(c)
  BY <1>7, AbandonInv
<1>8. CASE \E k \in DOMAIN db : Expire(k)
  BY <1>8, ExpireInv
<1>. QED BY <1>1, <1>2, <1>3, <1>4, <1>5, <1>6, <1>7, <1>8 DEF StoreStep, StoreProgress

\* A step that leaves the store alone preserves it.
LEMMA StoreStutterInv == StoreInv /\ UNCHANGED storeVars => StoreInv'
<1>. SUFFICES ASSUME StoreInv, UNCHANGED storeVars PROVE StoreInv'
  OBVIOUS
<1>. USE DEF StoreInv, storeVars
<1>1. StoreTypeOK'
  BY DEF StoreTypeOK
<1>2. CallsInOrder'
  BY DEF CallsInOrder
<1>3. WrittenGroupsPersist' /\ RepliedGroupPersists'
  BY DEF WrittenGroupsPersist, RepliedGroupPersists, CurrentTtl
<1>4. EntriesComeFromBatches'
  BY DEF EntriesComeFromBatches
<1>. QED BY <1>1, <1>2, <1>3, <1>4

-----------------------------------------------------------------------------
(* What a step of the store's calls in progress and of the server changes. *)

\* No such step starts a call or changes what a call asked for; a call that
\* completes a read has read all it asked for; an answer is what was read
\* before, or what the server holds now; and only entries expire.
StoreStepEffect ==
    /\ UNCHANGED <<batch, query>>
    /\ \A c \in Call :
          /\ status'[c] = "idle" <=> status[c] = "idle"
          /\ status[c] = "done" => status'[c] = "done"
          /\ status'[c] = "done" /\ DOMAIN batch[c] = {} =>
                DOMAIN got'[c] = DOMAIN query[c] \/ (status[c] = "done" /\ got'[c] = got[c])
          /\ \A f \in DOMAIN got'[c] :
                \/ f \in DOMAIN got[c] /\ got'[c][f] = got[c][f]
                \/ f \in DOMAIN query[c] /\ got'[c][f] = Lookup(query[c][f])
    /\ expired' \subseteq expired \cup DOMAIN db

\* Every such step has that effect.
LEMMA StoreStepHasEffect == StoreInv /\ StoreStep => StoreStepEffect
<1>. SUFFICES ASSUME StoreInv, StoreStep PROVE StoreStepEffect
  OBVIOUS
<1>. USE DEF StoreInv, StoreStepEffect
<1>1. CASE \E m \in wire : Execute(m)
  BY <1>1 DEF Execute
<1>2. CASE \E m \in wire : Refuse(m)
  <2>. PICK m \in wire : Refuse(m)
    BY <1>2
  <2>1. m[1] \in Call /\ status[m[1]] = "writing"
    BY DEF Refuse, IsCurrent, StoreTypeOK
  <2>. QED BY <2>1 DEF Refuse, StoreTypeOK
<1>3. CASE \E a \in Call : Acknowledge(a)
  <2>. PICK a \in Call : Acknowledge(a)
    BY <1>3
  <2>1. DOMAIN batch[a] # {}
    BY DEF Acknowledge, CallsInOrder, Ttls
  <2>2. status[a] = "writing" /\ status' \in {status, [status EXCEPT ![a] = "done"]}
    BY DEF Acknowledge
  <2>3. UNCHANGED <<batch, query, got, expired>>
    BY DEF Acknowledge
  <2>. QED BY <2>1, <2>2, <2>3 DEF StoreTypeOK
<1>4. CASE \E a \in Call : ReadNext(a)
  <2>. PICK a \in Call : ReadNext(a)
    BY <1>4
  <2>1. PICK p \in DOMAIN query[a] :
           got' = [got EXCEPT ![a] =
                      [q \in DOMAIN got[a] \cup {p} |->
                          IF q = p THEN Lookup(query[a][p]) ELSE got[a][q]]]
    BY DEF ReadNext
  <2>2. /\ UNCHANGED <<batch, query, status, expired>>
        /\ status[a] = "reading"
    BY DEF ReadNext
  <2>. QED BY <2>1, <2>2 DEF StoreTypeOK
<1>5. CASE \E a \in Call : ReturnRead(a)
  BY <1>5 DEF ReturnRead, StoreTypeOK
<1>6. CASE \E a \in Call : TimeOut(a)
  <2>. PICK a \in Call : TimeOut(a)
    BY <1>6
  <2>1. /\ UNCHANGED <<batch, query, expired>>
        /\ status[a] \in {"writing", "reading"}
        /\ status' \in {status, [status EXCEPT ![a] = "failed"]}
        /\ got' \in {got, [got EXCEPT ![a] = Nothing]}
    BY DEF TimeOut
  <2>2. DOMAIN Nothing = {}
    BY DEF Nothing
  <2>. QED BY <2>1, <2>2 DEF StoreTypeOK
<1>7. CASE \E a \in Call : Abandon(a)
  BY <1>7 DEF Abandon, StoreTypeOK
<1>8. CASE \E k \in DOMAIN db : Expire(k)
  BY <1>8 DEF Expire
<1>. QED BY <1>1, <1>2, <1>3, <1>4, <1>5, <1>6, <1>7, <1>8 DEF StoreStep, StoreProgress

\* A step in which a pipeline reads one more key: a GET misses an acknowledged
\* key only if it has expired.
ReadSeesWrites ==
    \A c \in Call : \A p \in DOMAIN got'[c] \ DOMAIN got[c] :
        got'[c][p] = NotFound =>
            \A w \in Call : status[w] = "done" =>
                \A o \in DOMAIN batch[w] :
                    KeyOf(batch[w][o]) = query[c][p] => query[c][p] \in expired

\* Every read step sees the acknowledged writes.
LEMMA StoreStepReads == StoreInv /\ StoreStep => ReadSeesWrites
<1>. SUFFICES ASSUME StoreInv, StoreStep,
                     NEW c \in Call, NEW p \in DOMAIN got'[c] \ DOMAIN got[c],
                     got'[c][p] = NotFound,
                     NEW w \in Call, status[w] = "done",
                     NEW o \in DOMAIN batch[w],
                     KeyOf(batch[w][o]) = query[c][p]
              PROVE  query[c][p] \in expired
  BY DEF ReadSeesWrites
<1>1. Lookup(query[c][p]) = NotFound
  BY StoreStepHasEffect DEF StoreStepEffect
<1>2. query[c][p] \in DOMAIN db \cup expired
  BY StoreInvImpliesPersistence DEF AcknowledgedWritesPersist
<1>3. query[c][p] \notin DOMAIN db
  <2>1. SUFFICES ASSUME query[c][p] \in DOMAIN db PROVE FALSE
    OBVIOUS
  <2>2. Lookup(query[c][p]) \in Blob
    BY <2>1 DEF Lookup, StoreInv, StoreTypeOK, Entry
  <2>. QED BY <1>1, <2>2, NotFoundAssumption
<1>. QED BY <1>2, <1>3

-----------------------------------------------------------------------------
(* What has been read was stored. *)

\* Some call was given blob under key k.
Stored(k, blob) ==
    \E c \in Call : \E p \in DOMAIN batch[c] : KeyOf(batch[c][p]) = k /\ batch[c][p].blob = blob

\* What a pipeline has read was stored by some call under the key it asked
\* for, and so was every key that has expired.
ReadsOriginate ==
    /\ \A d \in Call : \A f \in DOMAIN got[d] :
          got[d][f] # NotFound => Stored(query[d][f], got[d][f])
    /\ \A k \in expired : \E c \in Call : \E p \in DOMAIN batch[c] : KeyOf(batch[c][p]) = k

\* What an idle call has stored is nothing, so filling its batch hides nothing.
LEMMA ReadsOriginateKept ==
    ASSUME ReadsOriginate, UNCHANGED <<got, expired>>,
           \A c \in Call : DOMAIN batch[c] = {} \/ batch'[c] = batch[c],
           \A d \in Call : DOMAIN got[d] = {} \/ query'[d] = query[d]
    PROVE  ReadsOriginate'
<1>1. ASSUME NEW d \in Call, NEW f \in DOMAIN got'[d], got'[d][f] # NotFound
      PROVE  \E c \in Call : \E p \in DOMAIN batch'[c] :
                KeyOf(batch'[c][p]) = query'[d][f] /\ batch'[c][p].blob = got'[d][f]
  <2>1. PICK c \in Call : \E p \in DOMAIN batch[c] :
                KeyOf(batch[c][p]) = query[d][f] /\ batch[c][p].blob = got[d][f]
    BY <1>1 DEF ReadsOriginate, Stored
  <2>2. batch'[c] = batch[c] /\ query'[d] = query[d]
    BY <1>1, <2>1
  <2>. QED BY <2>1, <2>2
<1>2. \A k \in expired' : \E c \in Call : \E p \in DOMAIN batch'[c] : KeyOf(batch'[c][p]) = k
  BY DEF ReadsOriginate
<1>. QED BY <1>1, <1>2 DEF ReadsOriginate, Stored

\* What the server holds under a key was stored under it.
LEMMA LookupFindsStored ==
    ASSUME EntriesComeFromBatches, NEW k, Lookup(k) # NotFound
    PROVE  Stored(k, Lookup(k))
BY DEF Lookup, EntriesComeFromBatches, Stored

\* The steps of the store keep the origins of what has been read.
LEMMA StoreStepOrigins ==
    ASSUME StoreInv, StoreStep, ReadsOriginate
    PROVE  ReadsOriginate'
<1>1. StoreStepEffect
  BY StoreStepHasEffect
<1>2. UNCHANGED <<batch, query>>
  BY <1>1 DEF StoreStepEffect
<1>3. ASSUME NEW d \in Call, NEW f \in DOMAIN got'[d], got'[d][f] # NotFound
      PROVE  Stored(query[d][f], got'[d][f])
  <2>1. CASE f \in DOMAIN got[d] /\ got'[d][f] = got[d][f]
    BY <1>3, <2>1 DEF ReadsOriginate
  <2>2. CASE got'[d][f] = Lookup(query[d][f])
    BY <1>3, <2>2, LookupFindsStored DEF StoreInv
  <2>. QED BY <1>1, <2>1, <2>2 DEF StoreStepEffect
<1>4. \A k \in expired' : \E c \in Call : \E p \in DOMAIN batch[c] : KeyOf(batch[c][p]) = k
  <2>1. \A k \in DOMAIN db : \E c \in Call : \E p \in DOMAIN batch[c] : KeyOf(batch[c][p]) = k
    BY DEF StoreInv, EntriesComeFromBatches
  <2>. QED BY <1>1, <2>1 DEF StoreStepEffect, ReadsOriginate
<1>. QED BY <1>2, <1>3, <1>4 DEF ReadsOriginate, Stored

\* The answer for a looked-up key is one that was read under that key.
LEMMA AnswerWasRead ==
    ASSUME NEW d, IsQuery(query[d]), NEW f \in DOMAIN query[d]
    PROVE  \E p \in DOMAIN query[d] :
              query[d][p] = query[d][f] /\ Answer(d, query[d][f]) = got[d][p]
<1>. DEFINE k == query[d][f]
            S == {p \in DOMAIN query[d] : query[d][p] = k}
            P == {<<p, p>> : p \in S}
<1>1. S \subseteq Index /\ f \in S
  BY DEF IsQuery
<1>2. P \in SUBSET Position /\ P # {}
  <2>. HIDE DEF S
  <2>1. \A p \in S : <<p, p>> \in Position
    BY <1>1 DEF Position
  <2>2. <<f, f>> \in P
    BY <1>1
  <2>. QED BY <2>1, <2>2
<1>3. PICK last \in P : \A q \in P : ~Precedes(last, q)
  <2>. HIDE DEF P
  <2>. QED BY <1>2, LastPosition
<1>4. PICK p \in S : last = <<p, p>>
  OBVIOUS
<1>5. \A q \in S : q <= p
  <2>. SUFFICES ASSUME NEW q \in S PROVE q <= p
    OBVIOUS
  <2>1. ~Precedes(<<p, p>>, <<q, q>>)
    BY <1>3, <1>4
  <2>2. p \in Nat /\ q \in Nat
    BY <1>1, IndexAssumption
  <2>. QED BY <2>1, <2>2 DEF Precedes
<1>. DEFINE IsLast(a) == /\ query[d][a] = k
                         /\ \A q \in DOMAIN query[d] : query[d][q] = k => q <= a
            a == CHOOSE b \in DOMAIN query[d] : IsLast(b)
<1>6. \E b \in DOMAIN query[d] : IsLast(b)
  BY <1>5
<1>7. a \in DOMAIN query[d] /\ IsLast(a)
  <2>. HIDE DEF IsLast
  <2>. QED BY <1>6
<1>8. Answer(d, k) = got[d][a]
  BY DEF Answer
<1>. HIDE DEF a
<1>. QED BY <1>7, <1>8
==============================================================================
