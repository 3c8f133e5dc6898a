----------------------------- MODULE Exceptions -----------------------------
(***************************************************************************)
(* try, throw, catch, finally, assure, call, return and launch: the part   *)
(* of the virtual machine that unwinds its stack.                          *)
(*                                                                         *)
(* A context has a stack of slots, the exception that is being thrown      *)
(* (ctx->e) and the innermost handler (ctx->ehdrNC).  A try puts a handler *)
(* into a slot of its method and makes it the innermost one.  knh_throw    *)
(* walks the slots downwards until one holds the innermost handler, checks *)
(* out what the handler's stacklist holds, and jumps to where the handler  *)
(* was set.  knh_VirtualMachine_launch wraps a method into a try of its    *)
(* own, the only one that the compiler closes with TRYEND.                 *)
(*                                                                         *)
(* blocks is the program's side: the blocks entered and not left, from the *)
(* oldest launch to the innermost block, each with one slot.  Block i has  *)
(* slot i, and the slots above the last block keep what earlier blocks     *)
(* left in them, since nothing clears a slot when its block is left.       *)
(***************************************************************************)
EXTENDS Integers, Sequences, FiniteSets, SequencesExt

CONSTANTS
  Handler,      \* the objects of class ExceptionHandler but the next one
  NullHandler,  \* the default object of that class, KNH_TNULL(ExceptionHandler)
  Assurance,    \* the objects that assure statements check in and out
  Null,         \* any other content of a slot, and no handler
  MaxSlot,      \* bound: the size of the stack
  MaxCheckIns   \* bound: how often an object is checked in at a time

ASSUME BoundsAssumption == MaxSlot \in Nat \ {0, 1} /\ MaxCheckIns \in Nat
ASSUME ObjectsAssumption == Null \notin Handler \cup {NullHandler}

VARIABLES
  blocks,     \* the blocks of the program that are open, outermost first
  stack,      \* ctx->stack[i].o
  ehdr,       \* ctx->ehdrNC
  parent,     \* parentNC of every handler
  at,         \* the slot where a handler was set: its pc, sfpidx, espidx and jmpbuf
  stacklist,  \* stacklist of every handler
  throwing,   \* is ctx->e an exception?
  checkedIn,  \* how often an object is checked in and not yet checked out
  loose,      \* launches in which a try or an assure was left by the way
  shared,     \* has a handler been set anew while its try was open?
  status      \* "running", or how the process came to its end

vars == <<blocks, stack, ehdr, parent, at, stacklist, throwing, checkedIn,
          loose, shared, status>>

Handlers == Handler \cup {NullHandler}
Slot == 1..MaxSlot
Esp == Len(blocks)

(* Blocks of a method in which its own code runs. *)
Code == {"method", "try", "catch", "finally", "assure"}
Top == IF blocks = <<>> THEN "none" ELSE Last(blocks)
Push(b) == blocks' = Append(blocks, b)
PopTo(n) == SubSeq(blocks, 1, n)

Highest(S) == CHOOSE i \in S : \A j \in S : j <= i
Running == status = "running"

(* The slot where the frame of the running method begins. *)
Frame == Highest({i \in 1..Esp : blocks[i] = "method"})
(* The launch the program is in. *)
CurrentLaunch == Highest({i \in 1..Esp : blocks[i] = "launch"})

(* The code runs inside the body of a try of its own method: the compiler  *)
(* knows it from finallyStmt, and refuses a try there.                     *)
InTry == \E i \in Frame..Esp : blocks[i] = "try"

TypeOK ==
  /\ blocks \in Seq(Code \cup {"launch"}) /\ Esp <= MaxSlot
  /\ stack \in [Slot -> Handlers \cup Assurance \cup {Null}]
  /\ ehdr \in Handlers \cup {Null}
  /\ parent \in [Handlers -> Handlers \cup {Null}]
  /\ at \in [Handlers -> 0..MaxSlot]
  /\ stacklist \in [Handlers -> Seq(Assurance)]
  /\ throwing \in BOOLEAN /\ shared \in BOOLEAN
  /\ checkedIn \in [Assurance -> Int]
  /\ loose \subseteq {i \in 1..Esp : blocks[i] = "launch"}
  /\ status \in {"running", "assertion", "exit", "lost"}

Init ==
  /\ blocks = <<>> /\ stack = [i \in Slot |-> Null]
  /\ ehdr = Null /\ throwing = FALSE
  /\ parent = [h \in Handlers |-> Null] /\ at = [h \in Handlers |-> 0]
  /\ stacklist = [h \in Handlers |-> <<>>]
  /\ checkedIn = [a \in Assurance |-> 0]
  /\ loose = {} /\ shared = FALSE /\ status = "running"

-----------------------------------------------------------------------------
(***************************************************************************)
(* try.  KLR_TRY keeps a handler that is in the slot, whatever set it      *)
(* there, and makes one otherwise.                                         *)
(***************************************************************************)
(* A handler that is in no slot may be collected, since neither ehdrNC nor *)
(* parentNC keeps it, and its block taken for a new one.                   *)
Fresh == Handler \ Range(stack)

OpenAt(h) == {i \in 1..Esp : stack[i] = h /\ blocks[i] \in {"launch", "try"}}

SetHandler(h, i) ==
  /\ \/ h = stack[i] /\ h \in Handlers /\ UNCHANGED stacklist
     \/ stack[i] \notin Handlers /\ h \in Fresh
        /\ stacklist' = [stacklist EXCEPT ![h] = <<>>]
  /\ stack' = [stack EXCEPT ![i] = h]
  /\ parent' = [parent EXCEPT ![h] = ehdr]
  /\ at' = [at EXCEPT ![h] = i]
  /\ ehdr' = h
  /\ shared' = (shared \/ OpenAt(h) # {})

(* A try in a catch or a finally block is a block of its own; one in the   *)
(* body of a try is an error of compilation.                               *)
Try ==
  /\ Running /\ Top \in Code /\ ~InTry /\ Esp < MaxSlot
  /\ \E h \in Handlers : SetHandler(h, Esp + 1)
  /\ Push("try")
  /\ UNCHANGED <<throwing, checkedIn, loose, status>>

(* The program leaves blocks without passing their ends or a throw. *)
Loosen(left) == IF left \cap {"try", "assure"} = {} THEN loose
                ELSE loose \cup {CurrentLaunch}

(* The body of a try ends: TRY_asm jumps to the finally block. *)
TryEnds ==
  /\ Running /\ Top = "try"
  /\ blocks' = [blocks EXCEPT ![Esp] = "finally"]
  /\ loose' = Loosen({"try"})
  /\ UNCHANGED <<stack, ehdr, parent, at, stacklist, throwing, checkedIn, shared, status>>

CatchEnds ==
  /\ Running /\ Top = "catch"
  /\ blocks' = [blocks EXCEPT ![Esp] = "finally"]
  /\ UNCHANGED <<stack, ehdr, parent, at, stacklist, throwing, checkedIn, loose, shared, status>>

-----------------------------------------------------------------------------
(***************************************************************************)
(* throw.                                                                  *)
(***************************************************************************)
Stop(how) ==
  /\ status' = how
  /\ UNCHANGED <<blocks, stack, ehdr, parent, at, loose, shared>>

(* The jump makes the handler outside of h the innermost one. *)
OuterHandlerKept(h) == ehdr
OuterHandler(h) == parent[h]

(* What becomes of the program after the jump to where h was set: a launch *)
(* prints the exception and ends; a catch clause takes it, or none does    *)
(* and it stays until the end of the finally block.  A jump to a block     *)
(* that is gone resumes a dead frame.                                      *)
Land(h) ==
  LET i == at[h] IN
  IF i > Esp \/ stack[i] # h \/ blocks[i] \in {"method", "assure"}
  THEN Stop("lost") /\ UNCHANGED throwing
  ELSE /\ \/ /\ blocks[i] = "launch"
             /\ blocks' = PopTo(i - 1) /\ throwing' = TRUE
          \/ /\ blocks[i] # "launch"
             /\ \/ blocks' = Append(PopTo(i - 1), "catch") /\ throwing' = FALSE
                \/ blocks' = Append(PopTo(i - 1), "finally") /\ throwing' = TRUE
       /\ loose' = loose \cap 1..Len(blocks')
       /\ ehdr' = OuterHandler(h)
       /\ UNCHANGED <<stack, parent, at, shared, status>>

HandlerSlots(sp) == {i \in 1..sp : stack[i] = ehdr}

(* The list is emptied after the loop over it. *)
KeepList(h) == UNCHANGED stacklist
TrimList(h) == stacklist' = [stacklist EXCEPT ![h] = <<>>]

Occurrences(a, s) == Cardinality({k \in DOMAIN s : s[k] = a})

(* knh_throw, for a walk that begins at slot sp. *)
Unwind(sp) ==
  IF ehdr = Null \/ HandlerSlots(sp) = {}
  THEN Stop("exit") /\ UNCHANGED <<throwing, stacklist, checkedIn>>
  ELSE /\ checkedIn' = [a \in Assurance |->
                          checkedIn[a] - Occurrences(a, stacklist[ehdr])]
       /\ TrimList(ehdr)
       /\ Land(ehdr)

(* Where the walk begins: THROW and a native method that throws begin with *)
(* the frame, in the body of a try with the slot of the exception.         *)
FrameStart == Frame
ThrowStart == IF InTry THEN Esp ELSE Frame

Throw ==
  /\ Running /\ Top \in Code
  /\ Unwind(ThrowStart)

(* A failed assert looks at the free slot above the locals too. *)
AssertFails ==
  /\ Running /\ Top \in Code /\ Esp < MaxSlot
  /\ Unwind(Esp + 1)

(* The THROW at the end of a finally block throws what is being thrown, if *)
(* anything is.                                                            *)
FinallyEnds ==
  /\ Running /\ Top = "finally"
  /\ \/ throwing /\ Unwind(Esp - 1)
     \/ /\ ~throwing
        /\ blocks' = PopTo(Esp - 1)
        /\ UNCHANGED <<stack, ehdr, parent, at, stacklist, throwing, checkedIn, loose, shared, status>>

-----------------------------------------------------------------------------
(***************************************************************************)
(* Calls, returns and jumps.                                               *)
(***************************************************************************)
(* A call overwrites the slots of its arguments; the slot of its result    *)
(* keeps what is in it.                                                    *)
UncheckedCall ==
  /\ Running /\ Top \in Code
  /\ Push("method") /\ UNCHANGED stack
  /\ UNCHANGED <<ehdr, parent, at, stacklist, throwing, checkedIn, loose, shared, status>>
Call ==
  /\ Running /\ Top \in Code /\ Esp < MaxSlot
  /\ Push("method")
  /\ \/ stack' = [stack EXCEPT ![Esp + 1] = Null]
     \/ UNCHANGED stack
  /\ UNCHANGED <<ehdr, parent, at, stacklist, throwing, checkedIn, loose, shared, status>>

(* return from any block of the method.  Nothing is checked out or ended   *)
(* on the way.  The finally block that is compiled in front of a return in *)
(* the body of a try is code of that body: it may call and throw, and a    *)
(* try in it is refused there.                                             *)
Return ==
  /\ Running /\ Top \in Code
  /\ blocks' = PopTo(Frame - 1)
  /\ loose' = Loosen({blocks[i] : i \in Frame..Esp})
  /\ UNCHANGED <<stack, ehdr, parent, at, stacklist, throwing, checkedIn, shared, status>>

(* break and continue leave a block of a loop's body. *)
Break ==
  /\ Running /\ Top \in Code \ {"method"}
  /\ blocks' = PopTo(Esp - 1)
  /\ loose' = Loosen({Top})
  /\ UNCHANGED <<stack, ehdr, parent, at, stacklist, throwing, checkedIn, shared, status>>

-----------------------------------------------------------------------------
(***************************************************************************)
(* assure.                                                                 *)
(***************************************************************************)
CheckIn(a) ==
  /\ Running /\ Top \in Code /\ Esp < MaxSlot /\ checkedIn[a] < MaxCheckIns
  /\ Push("assure")
  /\ stack' = [stack EXCEPT ![Esp + 1] = a]
  /\ checkedIn' = [checkedIn EXCEPT ![a] = @ + 1]
  /\ stacklist' = [stacklist EXCEPT ![ehdr] = Append(@, a)]
  /\ UNCHANGED <<ehdr, parent, at, throwing, loose, shared, status>>

(* Context_pop, its assertion, and the assertion that it answers the       *)
(* object of this assure.                                                  *)
CheckOut ==
  /\ Running /\ Top = "assure"
  /\ LET list == stacklist[ehdr] IN
     IF list = <<>> \/ Last(list) # stack[Esp]
     THEN Stop("assertion") /\ UNCHANGED <<throwing, stacklist, checkedIn>>
     ELSE /\ stacklist' = [stacklist EXCEPT ![ehdr] = Front(@)]
          /\ checkedIn' = [checkedIn EXCEPT ![Last(list)] = @ - 1]
          /\ blocks' = PopTo(Esp - 1)
          /\ UNCHANGED <<stack, ehdr, parent, at, throwing, loose, shared, status>>

-----------------------------------------------------------------------------
(***************************************************************************)
(* Launches: the main method, each statement of a script, and each         *)
(* statement of a script that a running method evaluates.                  *)
(***************************************************************************)
(* TRY and ENTER.  System.eval forgets the exception before its first      *)
(* statement, not before the others.                                       *)
Launch ==
  /\ Running /\ Top # "launch" /\ Esp + 2 <= MaxSlot
  /\ \E h \in Handlers : SetHandler(h, Esp + 1)
  /\ blocks' = blocks \o <<"launch", "method">>
  /\ throwing' \in {throwing, FALSE}
  /\ UNCHANGED <<checkedIn, loose, status>>

(* TRYEND and EXIT, once the method has returned. *)
LaunchEnds ==
  /\ Running /\ Top = "launch"
  /\ blocks' = PopTo(Esp - 1)
  /\ ehdr' = parent[stack[Esp]]
  /\ stack' = [stack EXCEPT ![Esp] = NullHandler]
  /\ loose' = loose \ {Esp}
  /\ UNCHANGED <<parent, at, stacklist, throwing, checkedIn, shared, status>>

(* knh_stack_clear, after a script has been loaded. *)
ClearStack ==
  /\ Running /\ blocks = <<>>
  /\ stack' = [i \in Slot |-> Null]
  /\ UNCHANGED <<blocks, ehdr, parent, at, stacklist, throwing, checkedIn, loose, shared, status>>

Next ==
  \/ Try \/ TryEnds \/ CatchEnds \/ FinallyEnds
  \/ Throw \/ AssertFails
  \/ Call \/ Return \/ Break
  \/ \E a \in Assurance : CheckIn(a)
  \/ CheckOut
  \/ Launch \/ LaunchEnds \/ ClearStack

Spec == Init /\ [][Next]_vars

-----------------------------------------------------------------------------
(***************************************************************************)
(* Properties.                                                             *)
(***************************************************************************)
(* The slots below i of tries and launches that are open, and the handler  *)
(* of the innermost of them.                                               *)
OpenBelow(i) == {j \in 1..(i - 1) : blocks[j] \in {"launch", "try"}}
Outer(i) == IF OpenBelow(i) = {} THEN Null ELSE stack[Highest(OpenBelow(i))]

(* The first launch in which a try or an assure was left by the way.       *)
Cut == IF loose = {} THEN Esp
       ELSE CHOOSE i \in loose : \A j \in loose : i <= j

(* The handlers are chained as the tries that are open are nested, outside *)
(* in: what a launched script does to the chain ends with its launch       *)
(* (TRY, THROW and TRYEND of konoha_vm.h, around knh_throw).               *)
ChainIsNesting ==
  ~shared =>
    /\ \A i \in OpenBelow(Cut + 1) : /\ stack[i] \in Handlers
                                     /\ parent[stack[i]] = Outer(i)
                                     /\ at[stack[i]] = i
    /\ loose = {} => ehdr = Outer(Esp + 1)

(* The open assures, and those above k in the same try.                    *)
Assures == {k \in 1..Esp : blocks[k] = "assure"}
Above(k) == {j \in Assures : j > k /\ OpenBelow(j) = OpenBelow(k)}

(* The objects that open assures have checked in end the list of the       *)
(* handler that will check them out if the block fails, in the order of    *)
(* the blocks, and stay checked in as often as they have open blocks.      *)
(* Before them a reused handler may still list what a launch left by the   *)
(* way (CHKIN, CHKOUT, the loop of knh_throw).                             *)
AssuredAreListed ==
  ~shared /\ loose = {} =>
    /\ \A k \in Assures :
         LET list == stacklist[Outer(k)]
             place == Len(list) - Cardinality(Above(k))
         IN place \in DOMAIN list /\ list[place] = stack[k]
    /\ \A a \in Assurance :
         checkedIn[a] >= Cardinality({k \in Assures : stack[k] = a})

(* As long as a launched script leaves its tries by exceptions and its     *)
(* assures at their ends, an exception finds a live handler and an assure  *)
(* its object: the process neither exits nor resumes a dead frame, however *)
(* the scripts around it behave.                                           *)
UnwindsInside ==
  status # "running" => shared \/ CurrentLaunch \in loose

(* "DBG_ASSERT(o_ == Ro_(on))": an assure checks out its own object.       *)
ChecksOutItsOwn == status # "assertion"

=============================================================================
