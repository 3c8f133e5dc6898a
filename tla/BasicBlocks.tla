------------------------------ MODULE BasicBlocks ------------------------------
(* The back end of the code generator, src/lang/asm.c:108-649.  A method's     *)
(* statements have become a graph of basic blocks, each with its instructions, *)
(* a next block it falls into and a block its last instruction jumps to.       *)
(* GammaBuilder_compile then runs five recursive passes over the graph; all of *)
(* them walk it from the entry and communicate through three fields of a       *)
(* block: visited (set by one pass, cleared by the next), incoming (how many   *)
(* edges enter the block) and code (where its instructions were put).          *)
(*                                                                             *)
(* The recursion of the C functions is a stack of frames, a block and the      *)
(* label the function has reached in it; one action is the code between two    *)
(* labels.  A block is its number in blk (id in the code), 0 is NULL.          *)
EXTENDS Integers, Sequences, SequencesExt, FiniteSets

VARIABLES
    blk,        \* the blocks, knh_BasicBlockEX_t
    entry, ret, \* lbINIT, and the block that holds the method's RET
    pass,       \* which function is running
    stack,      \* its activations
    prev,       \* prev[0] of BasicBlock_copy
    codesize,   \* instructions KonohaCode allocates room for
    text        \* the instructions laid out so far, with their jumppc

vars == <<blk, entry, ret, pass, stack, prev, codesize, text>>

\* new_BasicBlockLABEL
LABEL == [ops |-> <<>>, next |-> 0, jump |-> 0, incoming |-> 0, visited |-> FALSE,
          checked |-> FALSE, code |-> 0, opjmp |-> 0]

Block == DOMAIN blk
Opcode(op) == op[1]
\* BasicBlock_opcode: the first instruction, OPCODE_NOP when there is none
BasicBlock_opcode(b) == IF blk[b].ops = <<>> THEN "NOP" ELSE Opcode(blk[b].ops[1])

hasjump == {"JMP", "JMP_", "JMPF", "iJEQ", "iJEQC"}

-------------------------------------------------------------------------------
(* The stack of activations.                                                   *)

Frame(b, l) == [b |-> b, at |-> l]
Top == stack[Len(stack)]
At(p, l) == pass = p /\ stack # <<>> /\ Top.at = l
Goto(b, l) == stack' = Append(Front(stack), Frame(b, l))
Return == stack' = Front(stack)
\* call the function on c; on return the activation of b continues at l
Call(b, l, c, m) == stack' = Front(stack) \o <<Frame(b, l), Frame(c, m)>>
Pass(p, q, l) == /\ pass = p /\ stack = <<>>
                 /\ pass' = q /\ stack' = <<Frame(entry, l)>>

-------------------------------------------------------------------------------
(* BasicBlock_strip0: follow empty blocks, and turn a jump to a block nothing  *)
(* else enters into a fall-through.                                            *)

\* where an empty block leads, 0 if it is not one
Through(b) ==
    CASE blk[b].ops # <<>> -> 0
      [] blk[b].jump # 0 /\ blk[b].next = 0 -> blk[b].jump
      [] blk[b].jump = 0 /\ blk[b].next # 0 -> blk[b].next
      [] OTHER -> 0

\* mutant of Redirect: the block the edge now enters is not told
RedirectUncounted(c, t) == [blk EXCEPT ![c].incoming = @ - 1]

\* the edge that entered c enters t
Redirect(c, t) ==
    [b \in Block |-> [blk[b] EXCEPT !.incoming =
                         @ - (IF b = c THEN 1 ELSE 0) + (IF b = t THEN 1 ELSE 0)]]

Strip0Tail ==
    /\ At("strip0", "TAIL")
    /\ LET b == Top.b IN
       IF blk[b].visited
       THEN Return /\ UNCHANGED blk
       ELSE /\ blk' = [blk EXCEPT ![b].visited = TRUE]
            /\ Goto(b, IF blk[b].jump # 0 THEN "JUMP" ELSE "NEXT")
    /\ UNCHANGED <<entry, ret, pass, prev, codesize, text>>

Strip0Jump ==
    /\ At("strip0", "JUMP")
    /\ LET b == Top.b
           bbJ == blk[b].jump
           t == Through(bbJ)
       IN \/ /\ t # 0
             /\ blk' = [Redirect(bbJ, t) EXCEPT ![b].jump = t]
             /\ UNCHANGED stack
          \/ /\ t = 0 /\ blk[b].next = 0 /\ blk[bbJ].incoming = 1
             /\ blk' = [blk EXCEPT ![b].next = bbJ, ![b].jump = 0]
             /\ Goto(b, "NEXT")
          \/ /\ t = 0 /\ ~(blk[b].next = 0 /\ blk[bbJ].incoming = 1)
             /\ Call(b, "BOTH", bbJ, "TAIL")
             /\ UNCHANGED blk
    /\ UNCHANGED <<entry, ret, pass, prev, codesize, text>>

\* mutant of Strip0Both: the walk does not come back for the next block
Strip0JumpOnly ==
    /\ At("strip0", "BOTH")
    /\ LET b == Top.b IN
       IF blk[b].jump # 0 /\ blk[b].next # 0 THEN Return ELSE Goto(b, "NEXT")
    /\ UNCHANGED <<blk, entry, ret, pass, prev, codesize, text>>

Strip0Both ==
    /\ At("strip0", "BOTH")
    /\ LET b == Top.b IN
       IF blk[b].jump # 0 /\ blk[b].next # 0 THEN Goto(blk[b].next, "TAIL") ELSE Goto(b, "NEXT")
    /\ UNCHANGED <<blk, entry, ret, pass, prev, codesize, text>>

Strip0Next ==
    /\ At("strip0", "NEXT")
    /\ LET b == Top.b
           bbN == blk[b].next
           t == Through(bbN)
       IN \/ bbN = 0 /\ Return /\ UNCHANGED blk
          \/ /\ bbN # 0 /\ t # 0 /\ blk[bbN].next # 0
             /\ blk' = [Redirect(bbN, t) EXCEPT ![b].next = t]
             /\ UNCHANGED stack
          \/ /\ bbN # 0 /\ t # 0 /\ blk[bbN].next = 0
             /\ blk' = [Redirect(bbN, t) EXCEPT ![b].next = 0, ![b].jump = t]
             /\ Goto(b, "JUMP")
          \/ bbN # 0 /\ t = 0 /\ Goto(bbN, "TAIL") /\ UNCHANGED blk
    /\ UNCHANGED <<entry, ret, pass, prev, codesize, text>>

Strip0 == Strip0Tail \/ Strip0Jump \/ Strip0Both \/ Strip0Next

-------------------------------------------------------------------------------
(* BasicBlock_strip1: append a block to the one that falls into it when        *)
(* nothing else enters it.                                                     *)

Strip1Tail ==
    /\ At("strip1", "TAIL")
    /\ LET b == Top.b
           j == blk[b].jump
           n == blk[b].next
           joins == j = 0 /\ n # 0 /\ blk[n].incoming = 1 /\ BasicBlock_opcode(n) # "RET"
       IN IF ~blk[b].visited
          THEN Return /\ UNCHANGED blk
          ELSE /\ blk' = IF joins  \* BasicBlock_join; b stays visited and is entered again
                         THEN [blk EXCEPT ![b].next = blk[n].next, ![b].jump = blk[n].jump,
                                          ![b].ops = @ \o blk[n].ops, ![n].ops = <<>>]
                         ELSE [blk EXCEPT ![b].visited = FALSE]
               /\ CASE joins -> UNCHANGED stack
                    [] ~joins /\ j # 0 /\ n # 0 -> Call(n, "TAIL", j, "TAIL")
                    [] ~joins /\ j # 0 /\ n = 0 -> Goto(j, "TAIL")
                    [] ~joins /\ j = 0 /\ n # 0 -> Goto(n, "TAIL")
                    [] OTHER -> Return
    /\ UNCHANGED <<entry, ret, pass, prev, codesize, text>>

-------------------------------------------------------------------------------
(* BasicBlock_size: every fall-through gets a block of its own with a jump;    *)
(* BasicBlock_copy takes the jump away again where it is not needed.  The test *)
(* BasicBlock_isVisited(bb) asks about bb, which has just been marked.         *)

\* mutant of needsJump: asks about the next block, as the name of the test suggests
nextVisited(bb, b) == bb[bb[b].next].visited \/ BasicBlock_opcode(bb[b].next) = "RET"

needsJump(bb, b) == bb[b].visited \/ BasicBlock_opcode(bb[b].next) = "RET"

\* BasicBlock_peephole, as far as it removes instructions of this model, which is
\* never the first: a pair that it merges into one instruction is still a pair.
\* The n-th of those that stay has n of them up to its place
Peephole(ops) ==
    LET stay == {i \in DOMAIN ops : ~(i > 1 /\ Opcode(ops[i]) = "NMOV" /\ ops[i][2] = ops[i][3])}
    IN [n \in 1..Cardinality(stay) |->
            ops[CHOOSE i \in stay : Cardinality({k \in stay : k <= i}) = n]]

\* b marked as visited, a block of its own for the jump to the next block
Split(b) ==
    LET marked == [blk EXCEPT ![b].visited = TRUE] IN
    IF blk[b].next # 0 /\ needsJump(marked, b)
    THEN Append([marked EXCEPT ![b].next = Len(blk) + 1], [LABEL EXCEPT !.jump = blk[b].next])
    ELSE marked

\* the jump instruction of a block that only jumps
JMP(b) == IF BasicBlock_opcode(b) = "RET" THEN <<"JMP_">> ELSE <<"JMP">>

SizeTail ==
    /\ At("size", "TAIL")
    /\ LET b == Top.b
           split == Split(b)
           n == split[b].next
           j == split[b].jump
           ops == Peephole(split[b].ops \o (IF j # 0 /\ n = 0 THEN <<JMP(j)>> ELSE <<>>))
       IN IF b = 0 \/ (b # 0 /\ blk[b].visited)
          THEN Return /\ UNCHANGED <<blk, codesize>>
          ELSE /\ blk' = [split EXCEPT ![b].ops = ops]
               /\ codesize' = codesize + Len(ops)
               /\ IF j # 0 /\ n # 0 THEN Call(j, "TAIL", n, "TAIL")
                  ELSE Goto(IF j # 0 THEN j ELSE n, "TAIL")
    /\ UNCHANGED <<entry, ret, pass, prev, text>>

-------------------------------------------------------------------------------
(* BasicBlock_copy: lay the blocks out, each followed by the block it falls    *)
(* into.  The method's RET is held back (its code is a dummy) and comes last.  *)

AtCopy(l) == At("copy", l) \/ At("copyret", l)

\* the jump of the block just laid out is not needed, for b comes next
Removes(b) == prev # 0 /\ blk[prev].next = 0 /\ blk[prev].jump = b

\* once a call of this block has looked at the stack limit, the next ones do not
Unchecked(ops, checked) ==
    [i \in DOMAIN ops |->
        IF Opcode(ops[i]) = "VCALL" /\ (checked \/ \E k \in 1..(i-1) : Opcode(ops[k]) = "VCALL")
        THEN <<"VCALL_", ops[i][2]>> ELSE ops[i]]

CopyBlock ==
    /\ AtCopy("COPY")
    /\ LET b == Top.b
           ops == blk[b].ops
           base == IF Removes(b) THEN Front(text) ELSE text
           linked == IF Removes(b)
                     THEN [blk EXCEPT ![prev].jump = 0, ![prev].next = b] ELSE blk
       IN IF blk[b].code # 0
          THEN /\ blk' = [blk EXCEPT ![b].visited = FALSE]
               /\ Return
               /\ UNCHANGED <<text, prev>>
          ELSE /\ text' = base \o [i \in DOMAIN ops |->
                             [op |-> Unchecked(ops, blk[b].checked)[i], to |-> 0]]
               /\ blk' = [linked EXCEPT
                             ![b].visited = FALSE,
                             ![b].code = Len(base) + 1,
                             ![b].opjmp = IF ops # <<>> /\ blk[b].jump # 0
                                          THEN Len(base) + Len(ops) ELSE @,
                             ![b].checked = @ \/ \E i \in DOMAIN ops : Opcode(ops[i]) = "VCALL",
                             ![b].ops = <<>>]
               /\ prev' = IF ops # <<>> THEN b ELSE prev
               /\ Goto(b, "NEXT")
    /\ UNCHANGED <<entry, ret, pass, codesize>>

\* mutant of Inherit: whoever else enters c
InheritAlways(b, c) == [blk EXCEPT ![c].checked = @ \/ blk[b].checked]

\* setStackChecked on the one successor that is entered from b only
Inherit(b, c) ==
    [blk EXCEPT ![c].checked = @ \/ (blk[b].checked /\ blk[c].incoming = 1)]

CopyNext ==
    /\ AtCopy("NEXT")
    /\ LET b == Top.b
           n == blk[b].next
       IN IF n # 0 THEN blk' = Inherit(b, n) /\ Call(b, "JUMP", n, "COPY")
          ELSE Goto(b, "JUMP") /\ UNCHANGED blk
    /\ UNCHANGED <<entry, ret, pass, prev, codesize, text>>

CopyJump ==
    /\ AtCopy("JUMP")
    /\ LET b == Top.b
           j == blk[b].jump
       IN IF j # 0 THEN blk' = Inherit(b, j) /\ Goto(j, "COPY")
          ELSE Return /\ UNCHANGED blk
    /\ UNCHANGED <<entry, ret, pass, prev, codesize, text>>

Copy == CopyBlock \/ CopyNext \/ CopyJump

-------------------------------------------------------------------------------
(* BasicBlock_setjump: now that every block has its place, fill in the jumps.  *)

Setjump ==
    /\ At("setjump", "LOOP")
    /\ LET b == Top.b
           j == blk[b].jump
           n == blk[b].next
           marked == [blk EXCEPT ![b].visited = TRUE]
       IN IF b = 0 THEN Return /\ UNCHANGED <<blk, text>>
          ELSE IF j = 0 THEN blk' = marked /\ Goto(n, "LOOP") /\ UNCHANGED text
          ELSE /\ text' = [text EXCEPT ![blk[b].opjmp].to = blk[j].code]
               /\ blk' = [marked EXCEPT ![b].jump = 0, ![j].visited = TRUE]
               /\ IF marked[j].visited THEN Goto(n, "LOOP") ELSE Call(n, "LOOP", j, "LOOP")
    /\ UNCHANGED <<entry, ret, pass, prev, codesize>>

-------------------------------------------------------------------------------
(* GammaBuilder_compile and BasicBlock_link: the passes one after the other.   *)

Link ==
    \/ Pass("asm", "strip0", "TAIL") /\ UNCHANGED blk
    \/ Pass("strip0", "strip1", "TAIL") /\ UNCHANGED blk
    \/ Pass("strip1", "size", "TAIL") /\ UNCHANGED blk
    \/ Pass("size", "copy", "COPY") /\ blk' = [blk EXCEPT ![ret].code = 1]
    \/ /\ pass = "copy" /\ stack = <<>>
       /\ pass' = "copyret" /\ stack' = <<Frame(ret, "COPY")>>
       /\ blk' = [blk EXCEPT ![ret].code = 0]
    \/ Pass("copyret", "setjump", "LOOP") /\ UNCHANGED blk
    \/ pass = "setjump" /\ stack = <<>> /\ pass' = "done" /\ UNCHANGED <<blk, stack>>

Compile == \/ Strip0 \/ Strip1Tail \/ SizeTail \/ Copy \/ Setjump
           \/ Link /\ UNCHANGED <<entry, ret, prev, codesize, text>>

-------------------------------------------------------------------------------
(* Properties.                                                                 *)

Succ(b) == {blk[b].next, blk[b].jump} \ {0}

\* the blocks reached from the entry
Reached ==
    LET R[n \in 0..Len(blk)] ==
            IF n = 0 THEN {entry} ELSE LET r == R[n-1] IN r \cup UNION {Succ(b) : b \in r}
    IN R[Len(blk)]

IsSeq(s) == s \in Seq({s[i] : i \in DOMAIN s})

\* how many edges of these blocks enter b
Entering(b, R) == Cardinality({c \in R : blk[c].next = b}) + Cardinality({c \in R : blk[c].jump = b})

\* What the generator hands over: a block was told of all edges that enter it, only
\* the block of RET has no successor, and no edge goes back to the entry.
Built ==
    /\ IsSeq(blk)
    /\ {entry, ret} \subseteq Block /\ entry # ret
    /\ blk[ret].ops = <<<<"RET">>>>
    /\ \A b \in Block :
        /\ DOMAIN blk[b] = DOMAIN LABEL
        /\ IsSeq(blk[b].ops)
        /\ Succ(b) \subseteq Block \ {entry}
        /\ Succ(b) = {} <=> b = ret
        /\ blk[b].incoming \in Nat /\ blk[b].incoming >= Entering(b, Block)
        /\ blk[b].visited = FALSE /\ blk[b].checked = FALSE /\ blk[b].code = 0

\* GammaBuilder_compile of any such graph
BlocksSpec ==
    /\ pass = "asm" /\ stack = <<>> /\ Built
    /\ prev = 0 /\ codesize = 0 /\ text = <<>>
    /\ [][Compile]_vars

\* incoming is only ever compared with 1: to fall through instead of jumping, to
\* append a block to the one before it, to skip a stack check.  A block counted
\* once must not be entered twice, whatever the edges strip0 redirected on the
\* way and the dead blocks whose edges still count.
SinglePredecessor ==
    pass \in {"strip0", "strip1", "size", "copy"} =>
        LET R == Reached IN \A b \in R : blk[b].incoming = 1 => Entering(b, R) <= 1

\* strip1 skips a block that strip0 did not mark, size skips one strip1 left
\* marked (its code would not fit), setjump one that copy left marked (its jump
\* would lead nowhere): each pass leaves the flag as the next one expects it.
FlagsHandedOver ==
    stack = <<>> => \A b \in Reached :
        /\ pass \in {"strip0", "size"} => blk[b].visited
        /\ pass \in {"strip1", "copy", "copyret"} => ~blk[b].visited

\* KNH_MALLOC makes room for the instructions BasicBlock_size counted; it does not
\* count the RET of a method that never ends, and a jump into a fall-through
\* that copy removes must pay for it.
CodeFits == Len(text) <= codesize

\* KLR_VCALL_ does not look at the stack limit: on every path from the first
\* instruction to it, a KLR_VCALL of the same activation has done so.  (A call
\* without arguments is compiled to VCALL_ in the first place.)
CallsChecked ==
    LET on(i) == CASE Opcode(text[i].op) = "VCALL" -> {}
                   [] Opcode(text[i].op) \in {"RET", "JMP_"} -> {}
                   [] Opcode(text[i].op) = "JMP" -> {text[i].to}
                   [] Opcode(text[i].op) \in hasjump \ {"JMP", "JMP_"} -> {i + 1, text[i].to}
                   [] OTHER -> {i + 1}
        U[n \in 0..Len(text)] ==
            IF n = 0 THEN {1} ELSE LET u == U[n-1] IN u \cup UNION {on(i) : i \in u \cap DOMAIN text}
    IN pass = "done" => \A i \in U[Len(text)] \cap DOMAIN text : text[i].op # <<"VCALL_", "args">>

\* The passes end: no walk runs round a loop of the method for ever.
PassesEnd == (pass = "asm") ~> (pass = "done")
===============================================================================
