----------------------------- MODULE MethodTable -----------------------------
(***************************************************************************)
(* Finding the method of a call.  Every class has an array of its own      *)
(* methods (ClassTBL.methods).  A name is looked up in the arrays of the   *)
(* class and of the classes above it, through the context's mtdcache, one  *)
(* entry per hash value of class and name; and an instruction LDMTD keeps  *)
(* the last class it has seen with the method found for it.  A call of a   *)
(* method that is not @Virtual, which no class may override, is compiled   *)
(* to that method without any lookup.  No definition empties a cache.      *)
(*                                                                         *)
(* src/main/class.c:1286-1463, src/lang/typing.c:4192-4355 (METHOD_typing),*)
(* src/lang/asm.c:844-869, 1364-1396.  A method is the pair of its class   *)
(* and its index in the array.  Its body is not modelled: rewriting it     *)
(* leaves the method where it is.                                          *)
(***************************************************************************)
EXTENDS ClassTree, Naturals, Sequences

CONSTANTS
  Name,    \* names of instance methods: no operators, accessors of fields
           \* or constructors
  None,    \* NULL
  Slot,    \* the entries of mtdcache
  Hash,    \* hashcode_mtd, the entry of a class and a name
  Site     \* the calls in the program's code

ASSUME ClassesAreTree == TreeAssumption
ASSUME HashAssumption == Hash \in [Class \X Name -> Slot]
ASSUME NoneAssumption ==
  None \notin Class \cup (Class \X Nat) \cup (Class \X Name \X (Class \X Nat))

VARIABLES
  declared,  \* classes with a ClassTBL
  methods,   \* methods[c]: the array of c
  mtdcache,  \* the context's cache
  code,      \* code[s]: the call s, None until it is compiled
  called,    \* history: the pairs of a class and a name called
  late,      \* history: names that got a definition too late to be seen
  answer     \* the call just made: receiver, name, method

tableVars == <<declared, methods>>
historyVars == <<called, late>>
vars == <<declared, methods, mtdcache, code, called, late, answer>>

-----------------------------------------------------------------------------
(* Lookup.                                                                 *)

Method == Class \X (Nat \ {0})
Cid(m) == m[1]
Mn(m) == methods[m[1]][m[2]].mn
IsVirtual(m) == methods[m[1]][m[2]].virtual

\* The places of n in the array of c, and the first of them.
Places(c, n) == {i \in 1 .. Len(methods[c]) : methods[c][i].mn = n}
Least(I) == CHOOSE i \in I : \A j \in I : i <= j
First(c, n) == Least(Places(c, n))

Providers(c, n) == {a \in Above[c] : Places(a, n) # {}}

\* The scan of the arrays from c upwards.
Scan(c, n) ==
  IF Providers(c, n) = {} THEN None
  ELSE LET a == Lowest(Providers(c, n)) IN <<a, First(a, n)>>

Entry(c, n, m) == [cid |-> c, mn |-> n, mtd |-> m]

\* mutant of Hit: only the class is compared
HitClass(c, n) ==
  LET e == mtdcache[Hash[<<c, n>>]] IN e # None /\ e.cid = c

Hit(c, n) ==
  LET e == mtdcache[Hash[<<c, n>>]] IN e # None /\ e.cid = c /\ e.mn = n

\* knh_ClassTBL_findMethodNULL: its result, and the cache it leaves.
Found(c, n) == IF Hit(c, n) THEN mtdcache[Hash[<<c, n>>]].mtd ELSE Scan(c, n)
Looked(c, n) ==
  IF Hit(c, n) \/ Scan(c, n) = None THEN mtdcache
  ELSE [mtdcache EXCEPT ![Hash[<<c, n>>]] = Entry(c, n, Scan(c, n))]

-----------------------------------------------------------------------------
(* Definitions.                                                            *)

\* A class statement.
Declare(c) ==
  /\ c \notin declared
  /\ Above[c] \ {c} \subseteq declared
  /\ declared' = declared \cup {c}
  /\ answer' = None
  /\ UNCHANGED <<methods, mtdcache, code, called, late>>

TooLate(c, n) ==
  \/ <<c, n>> \in called
  \/ \E d \in declared : d # c /\ c \in Above[d]

\* mutants of AddMethod: the entry of the cache is left as it is, or gets the
\* method that was the last before
AddMethodOnly(c, n, v) ==
  /\ methods' = [methods EXCEPT ![c] = Append(@, [mn |-> n, virtual |-> v])]
  /\ mtdcache' = Looked(c, n)
  /\ late' = late \cup {k \in {n} : TooLate(c, n)}
  /\ answer' = None
  /\ UNCHANGED <<declared, code, called>>

AddMethodEarly(c, n, v) ==
  /\ methods' = [methods EXCEPT ![c] = Append(@, [mn |-> n, virtual |-> v])]
  /\ mtdcache' = [Looked(c, n) EXCEPT ![Hash[<<c, n>>]] =
                    Entry(c, n, <<c, Len(methods[c])>>)]
  /\ late' = late \cup {k \in {n} : TooLate(c, n)}
  /\ answer' = None
  /\ UNCHANGED <<declared, code, called>>

\* knh_ClassTBL_addMethod: to the end of the array, and into the cache.
AddMethod(c, n, v) ==
  /\ methods' = [methods EXCEPT ![c] = Append(@, [mn |-> n, virtual |-> v])]
  /\ mtdcache' = [Looked(c, n) EXCEPT ![Hash[<<c, n>>]] =
                    Entry(c, n, <<c, Len(methods[c]) + 1>>)]
  /\ late' = late \cup {k \in {n} : TooLate(c, n)}
  /\ answer' = None
  /\ UNCHANGED <<declared, code, called>>

\* METHOD_typing finds no method of the name, one of a class above that may
\* be overridden, ...
DefineNew(c, n, v) ==
  /\ c \in declared
  /\ Found(c, n) = None
  /\ AddMethod(c, n, v)

\* mutant of DefineOverride: a final method does not stop it
OverrideAny(c, n, v) ==
  /\ c \in declared
  /\ LET m == Found(c, n) IN m # None /\ Cid(m) # c
  /\ AddMethod(c, n, v)

DefineOverride(c, n, v) ==
  /\ c \in declared
  /\ LET m == Found(c, n) IN m # None /\ Cid(m) # c /\ IsVirtual(m)
  /\ AddMethod(c, n, v)

\* ... one that is final, ...
DefineRefused(c, n) ==
  /\ c \in declared
  /\ LET m == Found(c, n) IN m # None /\ Cid(m) # c /\ ~ IsVirtual(m)
  /\ mtdcache' = Looked(c, n)
  /\ answer' = None
  /\ UNCHANGED <<declared, methods, code, called, late>>

\* ... or the class's own, which gets the new body and keeps its flags.  A
\* definition that differs in its parameters ends after the same lookup.
DefineAgain(c, n) ==
  /\ c \in declared
  /\ LET m == Found(c, n) IN m # None /\ Cid(m) = c
  /\ mtdcache' = Looked(c, n)
  /\ answer' = None
  /\ UNCHANGED <<declared, methods, code, called, late>>

-----------------------------------------------------------------------------
(* Calls.                                                                  *)

\* A compiled call: whether it goes to a method without a lookup, the class
\* of its expression, and the class, name and method of its instruction.
Compiled(f, t, c, n, m) ==
  [fixed |-> f, type |-> t, cid |-> c, mn |-> n, mtd |-> m]

\* mutant of CallOf: every call goes to the method the compiler has found
CallOfFixed(c, n, m) == Compiled(TRUE, c, Cid(m), n, m)

\* What ASM_CALL emits for method m: SCALL or VCALL of m, or LDMTD and CALL.
CallOf(c, n, m) == Compiled(~ IsVirtual(m), c, Cid(m), n, m)

\* A call of n on an expression of class c, typed and compiled.
CompileCall(s, c, n) ==
  /\ code[s] = None
  /\ c \in declared
  /\ Found(c, n) # None
  /\ code' = [code EXCEPT ![s] = CallOf(c, n, Found(c, n))]
  /\ mtdcache' = Looked(c, n)
  /\ answer' = None
  /\ UNCHANGED <<declared, methods, called, late>>

\* A call of n on an expression of unknown class: LDMTD with _DYNMTD.
CompileDynamic(s, n) ==
  /\ code[s] = None
  /\ code' = [code EXCEPT ![s] = Compiled(FALSE, None, None, n, None)]
  /\ answer' = None
  /\ UNCHANGED <<declared, methods, mtdcache, called, late>>

Receives(s, d) ==
  /\ code[s] # None
  /\ d \in declared
  /\ code[s].type = None \/ code[s].type \in Above[d]

Answer(d, n, m) ==
  /\ answer' = <<d, n, m>>
  /\ called' = called \cup {<<d, n>>}
  /\ UNCHANGED <<declared, methods, late>>

\* The call s on an object of class d: the method is in the instruction, ...
CallFixed(s, d) ==
  /\ Receives(s, d)
  /\ code[s].fixed
  /\ Answer(d, code[s].mn, code[s].mtd)
  /\ UNCHANGED <<mtdcache, code>>

\* ... the instruction has seen the class last time, ...
CallKnown(s, d) ==
  /\ Receives(s, d)
  /\ ~ code[s].fixed /\ code[s].cid = d
  /\ Answer(d, code[s].mn, code[s].mtd)
  /\ UNCHANGED <<mtdcache, code>>

\* mutant of CallLookup: the instruction takes the class and keeps the method
LookupKeepsMethod(s, d) ==
  /\ Receives(s, d)
  /\ ~ code[s].fixed /\ code[s].cid # d
  /\ LET m == Found(d, code[s].mn) IN
       /\ m # None
       /\ Answer(d, code[s].mn, m)
       /\ code' = [code EXCEPT ![s] =
                     Compiled(FALSE, @.type, d, @.mn, @.mtd)]
  /\ mtdcache' = Looked(d, code[s].mn)

\* ... or it looks the method up (_LOOKUPMTD, _DYNMTD) and remembers it.
CallLookup(s, d) ==
  /\ Receives(s, d)
  /\ ~ code[s].fixed /\ code[s].cid # d
  /\ LET m == Found(d, code[s].mn) IN
       /\ m # None
       /\ Answer(d, code[s].mn, m)
       /\ code' = [code EXCEPT ![s] = Compiled(FALSE, @.type, d, @.mn, m)]
  /\ mtdcache' = Looked(d, code[s].mn)

\* Every other lookup of the compiler and the libraries.
Resolve(c, n) ==
  /\ c \in declared
  /\ mtdcache' = Looked(c, n)
  /\ answer' = None
  /\ UNCHANGED <<declared, methods, code, called, late>>

-----------------------------------------------------------------------------
Init ==
  /\ declared = {}
  /\ methods = [c \in Class |-> <<>>]
  /\ mtdcache = [h \in Slot |-> None]
  /\ code = [s \in Site |-> None]
  /\ called = {}
  /\ late = {}
  /\ answer = None

Definition(c, n) ==
  \/ \E v \in BOOLEAN : DefineNew(c, n, v) \/ DefineOverride(c, n, v)
  \/ DefineRefused(c, n)
  \/ DefineAgain(c, n)
  \/ Resolve(c, n)

Compile(s, n) ==
  \/ CompileDynamic(s, n)
  \/ \E c \in Class : CompileCall(s, c, n)

Call(s, d) == CallFixed(s, d) \/ CallKnown(s, d) \/ CallLookup(s, d)

Next ==
  \/ \E c \in Class : Declare(c)
  \/ \E c \in Class, n \in Name : Definition(c, n)
  \/ \E s \in Site, n \in Name : Compile(s, n)
  \/ \E s \in Site, d \in Class : Call(s, d)

Spec == Init /\ [][Next]_vars

-----------------------------------------------------------------------------
(* Properties.                                                             *)

Own == [c \in Class |-> {n \in Name : Places(c, n) # {}}]

MethodsOf == {m \in Method : m[2] <= Len(methods[m[1]])}

CacheEntry == [cid : Class, mn : Name, mtd : MethodsOf]
CallCode == [fixed : BOOLEAN, type : Class \cup {None},
             cid : Class \cup {None},
             mn : Name, mtd : MethodsOf \cup {None}]

\* Every method a cache or an instruction holds is in the array of its class
\* and has the name it is kept for; an entry of the cache is at its hash
\* value.
TypeOK ==
  /\ declared \subseteq Class
  /\ methods \in [Class -> Seq([mn : Name, virtual : BOOLEAN])]
  /\ mtdcache \in [Slot -> CacheEntry \cup {None}]
  /\ code \in [Site -> CallCode \cup {None}]
  /\ called \subseteq Class \X Name
  /\ late \subseteq Name
  /\ \A h \in Slot : mtdcache[h] # None =>
       /\ Mn(mtdcache[h].mtd) = mtdcache[h].mn
       /\ Hash[<<mtdcache[h].cid, mtdcache[h].mn>>] = h
  /\ \A s \in Site : code[s] # None /\ code[s].mtd # None =>
       Mn(code[s].mtd) = code[s].mn

\* A class never gets a second method of a name: METHOD_typing rewrites the
\* one it has, even when the lookup that should show it went through caches.
OneMethodPerName ==
  \A c \in Class, n \in Name : \A i, j \in Places(c, n) : i = j

\* As long as no definition of the name came too late, an entry of the
\* cache is what a scan of the arrays would find.
CacheCoherent ==
  \A h \in Slot : mtdcache[h] # None =>
    LET e == mtdcache[h] IN e.mn \in late \/ e.mtd = Scan(e.cid, e.mn)

\* Likewise for the class and the method in an LDMTD; and a call compiled to
\* a method calls the right one for every object the expression can have as
\* its value, also of a class declared later.
SitesCoherent ==
  \A s \in Site : code[s] # None =>
    LET k == code[s] IN
    \/ k.mn \in late
    \/ IF k.fixed THEN \A d \in Below(k.type) : Scan(d, k.mn) = k.mtd
       ELSE k.cid # None => k.mtd = Scan(k.cid, k.mn)

\* "%C.%M is final": below the class of a final method no class has another
\* method of the name.
FinalsKept ==
  \A a, b \in Class, n \in Name :
    b \in Above[a] /\ a # b /\ Places(a, n) # {} /\ Places(b, n) # {} =>
      n \in late \/ methods[b][First(b, n)].virtual

LB == INSTANCE LateBinding WITH
  own <- Own,
  answer <- IF answer = None THEN None
            ELSE <<answer[1], answer[2], Cid(answer[3])>>

\* Whatever the caches hold, the calls of a program are those of late
\* binding.
ImplementsLateBinding == LB!Spec
=============================================================================
