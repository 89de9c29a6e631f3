------------------------------ MODULE FreeList ------------------------------
(***************************************************************************)
(* The lowest-index-first free lists of PagedKvPool.  The code keeps each  *)
(* list as a std::vector ordered as a min-heap (std::greater) and only     *)
(* ever takes its front or pushes one index, so what a list determines is  *)
(* the SET of the indices on it and the ASCENDING order they leave in.     *)
(* The operators are closed formulas over the rank of an index, not loops. *)
(***************************************************************************)
EXTENDS Integers, Sequences, FiniteSets, SequencesExt

(* How many indices of the list S leave it before x does. *)
Rank(x, S) == Cardinality({y \in S : y < x})

(* refill: the list that holds every index of a pool of `count`. *)
refill(count) == 0 .. count - 1

(* The k indices that k successive take_lowest calls remove from S. *)
Lowest(S, k) == {x \in S : Rank(x, S) < k}

(* S in the order successive take_lowest calls would return it. *)
Ascending(S) ==
  [i \in 1 .. Cardinality(S) |-> CHOOSE x \in S : Rank(x, S) = i - 1]

(* What is left of a vector when the elements at the positions S are erased. *)
Without(s, S) ==
  [k \in 1 .. Cardinality(DOMAIN s \ S) |-> s[Ascending(DOMAIN s \ S)[k]]]

=============================================================================
