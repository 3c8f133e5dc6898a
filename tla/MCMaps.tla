------------------------------- MODULE MCMaps -------------------------------
(***************************************************************************)
(* Instances of MapIterator and PtrMap for TLC.  The arena begins with one *)
(* entry, so that three keys make it double twice.  k1 and k2 have the     *)
(* same hash code; k3, which has that of a free entry, meets them in 5     *)
(* buckets only; k4 is on the chain of k1 in 2, in 5 and in 11 buckets.    *)
(***************************************************************************)
EXTENDS MapIterator, TLC

CONSTANTS k1, k2, k3, k4

MCHashCode == [k \in Key |-> CASE k = k3 -> 117 [] k = k4 -> 112 [] OTHER -> 2]

MCKeysOf ==
  [x \in Spi |-> IF x \in {"OO", "ON"} THEN {k1, k2, k3} ELSE {k1, k3, k4}]

\* Values are only compared.
MCSymmetry == Permutations(Value)
=============================================================================
