---------------------------- MODULE KeyValueMap ----------------------------
(***************************************************************************)
(* What Map.set and Map.remove promise a Konoha program, what Map.get      *)
(* reads and Map.getSize counts: a table from keys to values.              *)
(***************************************************************************)
EXTENDS FiniteSets

CONSTANTS
  Key, Value,
  NoValue       \* stands for the null value a map answers for an absent key

VARIABLE table

Set(k, v) == table' = [table EXCEPT ![k] = v]
Remove(k) == table' = [table EXCEPT ![k] = NoValue]

Present == {k \in Key : table[k] # NoValue}
Size    == Cardinality(Present)

Init == table = [k \in Key |-> NoValue]
=============================================================================
