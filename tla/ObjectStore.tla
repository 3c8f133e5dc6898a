---------------------------- MODULE ObjectStore ----------------------------
(***************************************************************************)
(* What a Konoha program may assume of the memory manager: a store of      *)
(* objects that refer to each other and of which some are roots.  Nothing  *)
(* the program can still reach ever changes by itself; in particular a new *)
(* object is never placed on one that is reachable.                        *)
(***************************************************************************)
EXTENDS Naturals

CONSTANTS
  Block      \* the places of objects

VARIABLES roots, fields

storeVars == <<roots, fields>>

\* The least set that holds the roots and what its members refer to.
Reachable ==
  {b \in Block : \A S \in SUBSET Block :
     (roots \subseteq S /\ \A c \in S : fields[c] \subseteq S) => b \in S}

New(b) ==
  /\ b \notin Reachable
  /\ roots' = roots \cup {b}
  /\ fields' = [fields EXCEPT ![b] = {}]

Store(b, c) ==
  /\ b \in roots /\ c \in roots
  /\ fields' = [fields EXCEPT ![b] = @ \cup {c}]
  /\ UNCHANGED roots

Erase(b, c) ==
  /\ b \in roots
  /\ fields' = [fields EXCEPT ![b] = @ \ {c}]
  /\ UNCHANGED roots

Load(b, c) ==
  /\ b \in roots /\ c \in fields[b]
  /\ roots' = roots \cup {c}
  /\ UNCHANGED fields

Drop(b) ==
  /\ roots' = roots \ {b}
  /\ UNCHANGED fields

Close ==
  /\ roots' = {}
  /\ UNCHANGED fields

Init ==
  /\ roots = {}
  /\ fields = [b \in Block |-> {}]

Next ==
  \/ \E b \in Block : New(b) \/ Drop(b)
  \/ \E b, c \in Block : Store(b, c) \/ Erase(b, c) \/ Load(b, c)
  \/ Close

Spec == Init /\ [][Next]_storeVars
=============================================================================
