----------------------------- MODULE Enumeration -----------------------------
(***************************************************************************)
(* sorted() and list comprehensions with a condition: the elements of a    *)
(* finite set in a strict total order, each at the place that the number   *)
(* of the elements before it gives.  (SetToSortSeq and SelectSeq of the    *)
(* libraries do the same, but the proof system knows no definition of      *)
(* SortSeq and SelectSeq.)                                                 *)
(***************************************************************************)
EXTENDS Naturals, FiniteSets

\* The order is given as the set of the pairs in it.
Listed(S, order) ==
    [n \in 1..Cardinality(S) |->
        CHOOSE x \in S : Cardinality({y \in S : <<y, x>> \in order}) = n - 1]

Ascending(S) == Listed(S, {p \in S \X S : p[1] < p[2]})
=============================================================================
