---------------------------- MODULE MCExceptions ----------------------------
(***************************************************************************)
(* A stack of a few slots for the model checker.                           *)
(***************************************************************************)
EXTENDS Exceptions, TLC

CONSTANTS h1, h2, a1, a2

(* No property speaks of what happens once a handler has been set anew     *)
(* while its try was open.                                                 *)
UntilShared == ~shared

(* The parent and the place of a handler are read while it is in a slot,   *)
(* and set before it is in one again.                                      *)
Seen ==
  LET set == Handlers \cap Range(stack)
  IN <<blocks, stack, ehdr, [h \in set |-> <<parent[h], at[h]>>], stacklist,
       throwing, checkedIn, loose, shared, status>>

Symmetry == Permutations(Handler) \cup Permutations(Assurance)
=============================================================================
