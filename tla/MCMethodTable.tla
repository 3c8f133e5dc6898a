---------------------------- MODULE MCMethodTable ----------------------------
(* Three classes in a row, as C, D and E in ac/lang/dynamicbinding.k, two    *)
(* names, and a cache with fewer entries than pairs of them.                 *)
EXTENDS MethodTable, FiniteSets, TLC

CONSTANTS C, D, E, f, g, s1, MaxMethods

Chain == (C :> {C}) @@ (D :> {C, D}) @@ (E :> {C, D, E})

\* f of C and of E share an entry, and so do f and g of D.
Hashes == [p \in {C, D, E} \X {f, g} |-> IF p[1] = D \/ p[2] = g THEN 2 ELSE 1]

Defined == UNION {{c} \X DOMAIN methods[c] : c \in Class}

\* No more than MaxMethods methods, of which only C's may have the name g; a
\* call of g is the last.
Bound ==
  /\ Cardinality(Defined) <= MaxMethods
  /\ \A m \in Defined : Mn(m) = g => Cid(m) = C
  /\ \A c \in Class : <<c, g>> \notin called
=============================================================================
