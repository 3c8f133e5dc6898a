------------------------------ MODULE MCDictMap ------------------------------
(***************************************************************************)
(* Six keys for DictMap: k2, k3 and k6 are long and begin with the same 8  *)
(* bytes, k5 is long too, k1 and k4 are short.  The order of strcmpr       *)
(* is not that of ukey, as it is between names of different length in the  *)
(* case-insensitive order.                                                 *)
(***************************************************************************)
EXTENDS DictMap, TLC

CONSTANTS k1, k2, k3, k4, k5, k6

MCUkey == [k \in Key |-> CASE k = k1 -> 1 [] k \in {k2, k3, k6} -> 2
                           [] k = k4 -> 3 [] OTHER -> 4]
MCRank == [k \in Key |-> CASE k = k1 -> 5 [] k = k2 -> 1 [] k = k3 -> 2
                           [] k = k4 -> 3 [] k = k5 -> 4 [] OTHER -> 6]
MCShort == {k1, k4} \cap Key

\* Values are only stored.
MCSymmetry == Permutations(Value)
=============================================================================
