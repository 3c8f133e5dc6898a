--------------------------- MODULE MCConstantPool ---------------------------
(***************************************************************************)
(* One size class of two segments, and two constants that may be boxed.    *)
(***************************************************************************)
EXTENDS ConstantPool, TLC

CONSTANTS ints

MCWords == [k \in Klass |-> 1]
MCL1Limit == [k \in Klass |-> 0]

MCSymmetry == Permutations(Segment) \cup Permutations(Constant)
=============================================================================
