------------------------------ MODULE StableSort ------------------------------
(***************************************************************************)
(* Python's sort by a key: ascending, and what has equal keys stays in     *)
(* the order it was in.  (A reversed sort keeps that order too: its keys   *)
(* are negated.)                                                           *)
(***************************************************************************)
EXTENDS Integers, FiniteSets

Precedes(key, i, j) == key[i] < key[j] \/ (key[i] = key[j] /\ i <= j)

\* The place of position i among the positions I.
Rank(I, key, i) == Cardinality({j \in I : Precedes(key, j, i)})

InOrder(I, key) == [n \in 1..Cardinality(I) |-> CHOOSE i \in I : Rank(I, key, i) = n]

\* The elements of s at the positions I, sorted.
SortedBy(s, I, key) == [n \in 1..Cardinality(I) |-> s[InOrder(I, key)[n]]]

=============================================================================
