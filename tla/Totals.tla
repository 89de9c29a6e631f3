-------------------------------- MODULE Totals --------------------------------
(***************************************************************************)
(* Sums over a set, as the loops of the code add them up: blocks over the  *)
(* slots, bytes over the entries of an index.                              *)
(***************************************************************************)
EXTENDS Integers, FiniteSets

(* The sum of f over S: how many units f counts, each named by its owner   *)
(* and its place.                                                          *)
Units(f, S) == UNION {{p} \X (1 .. f[p]) : p \in S}
Total(f, S) == Cardinality(Units(f, S))

=============================================================================
