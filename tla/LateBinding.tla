----------------------------- MODULE LateBinding -----------------------------
(***************************************************************************)
(* What a script may expect of a method call: the method of the lowest     *)
(* class above the receiver's that has one of the name, at the moment of   *)
(* the call.  The scripts of ac/lang (dynamicbinding, methodaddition)      *)
(* count on it.  The promise has a limit: it ends when a class gets a name *)
(* of its own that has already been called on it, or on which a class      *)
(* below it has been declared.  After that a call answers a method of the  *)
(* name of some class above the receiver's.                                *)
(***************************************************************************)
EXTENDS ClassTree

CONSTANTS Name, None

VARIABLES
  declared,  \* the classes declared
  own,       \* own[c]: the names class c defines itself
  called,    \* the pairs of a class and a name that have been called
  late,      \* the names of which a definition came too late
  answer     \* the call that has just been made: receiver, name, class

bindingVars == <<declared, own, called, late, answer>>

Providers(d, n) == {a \in Above[d] : n \in own[a]}

Init ==
  /\ declared = {}
  /\ own = [c \in Class |-> {}]
  /\ called = {}
  /\ late = {}
  /\ answer = None

Declare(c) ==
  /\ c \notin declared
  /\ Above[c] \ {c} \subseteq declared
  /\ declared' = declared \cup {c}
  /\ answer' = None
  /\ UNCHANGED <<own, called, late>>

TooLate(c, n) ==
  \/ <<c, n>> \in called
  \/ \E d \in declared : d # c /\ c \in Above[d]

Define(c, n) ==
  /\ c \in declared
  /\ n \notin own[c]
  /\ own' = [own EXCEPT ![c] = @ \cup {n}]
  /\ late' = late \cup {k \in {n} : TooLate(c, n)}
  /\ answer' = None
  /\ UNCHANGED <<declared, called>>

Call(d, n) ==
  /\ d \in declared
  /\ Providers(d, n) # {}
  /\ \E a \in Providers(d, n) :
       /\ n \in late \/ a = Lowest(Providers(d, n))
       /\ answer' = <<d, n, a>>
  /\ called' = called \cup {<<d, n>>}
  /\ UNCHANGED <<declared, own, late>>

\* Anything else a program does.
Other == answer' = None /\ UNCHANGED <<declared, own, called, late>>

Next ==
  \/ Other
  \/ \E c \in Class : Declare(c)
  \/ \E c \in Class, n \in Name : Define(c, n) \/ Call(c, n)

Spec == Init /\ [][Next]_bindingVars
=============================================================================
