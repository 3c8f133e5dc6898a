------------------------------ MODULE ClassTree ------------------------------
(***************************************************************************)
(* The classes of a program and the chain of superclasses of each, which a *)
(* class statement fixes once for all (ClassTBL_inherit sets supTBL).      *)
(***************************************************************************)

CONSTANTS
  Class,    \* the classes of the program
  Above     \* Above[c]: c and the classes supTBL leads to from c

Below(c) == {d \in Class : c \in Above[d]}

\* The member of S from which all others are reached upwards.
Lowest(S) == CHOOSE a \in S : \A b \in S : b \in Above[a]

\* Two classes that are above each other are the same, above is transitive,
\* and the classes above a class are a list.
TreeAssumption ==
  /\ Above \in [Class -> SUBSET Class]
  /\ \A c \in Class : c \in Above[c]
  /\ \A c, d \in Class : c \in Above[d] /\ d \in Above[c] => c = d
  /\ \A c, d \in Class : d \in Above[c] => Above[d] \subseteq Above[c]
  /\ \A c \in Class : \A S \in SUBSET Above[c] :
       S # {} => \E a \in S : \A b \in S : b \in Above[a]
=============================================================================
