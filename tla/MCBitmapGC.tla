----------------------------- MODULE MCBitmapGC -----------------------------
(***************************************************************************)
(* Small heaps for the model checker.  The classes "wide" and "short" have *)
(* two words per segment; the level 1 of "wide" covers both, that of       *)
(* "short" the first only, as the 512 and 1024 byte classes do.  "flat"    *)
(* and "flat2" have one word and no level 1, as the 2048 and 4096 byte     *)
(* classes do.                                                             *)
(***************************************************************************)
EXTENDS BitmapGC, TLC

CONSTANTS wide, short, flat, flat2

MCWords == [k \in Klass |-> IF k \in {wide, short} THEN 2 ELSE 1]
MCMaxWords == IF Klass \cap {wide, short} # {} THEN 2 ELSE 1
MCL1Limit == [k \in Klass |-> CASE k = wide -> 2 [] k = short -> 1 [] OTHER -> 0]

SegmentSymmetry == Permutations(Segment)
=============================================================================
