-------------------------------- MODULE Ranks ---------------------------------
(***************************************************************************)
(* The values of a function with a finite domain, in ascending order: what *)
(* sorted and statistics.median make of them.                              *)
(***************************************************************************)
EXTENDS Integers, FiniteSets

\* The k-th smallest, a value counted as often as it occurs.
Kth(value, k) ==
  CHOOSE v \in {value[j] : j \in DOMAIN value} :
    /\ Cardinality({j \in DOMAIN value : value[j] < v}) < k
    /\ Cardinality({j \in DOMAIN value : value[j] <= v}) >= k

Sorted(value) == [k \in 1..Cardinality(DOMAIN value) |-> Kth(value, k)]
===============================================================================
