---------------------------- MODULE MethodCompiler ----------------------------
(* From the statements of a method to its instructions.  src/lang/typing.c     *)
(* drops what cannot be reached and folds constant conditions, src/lang/asm.c  *)
(* turns the rest into basic blocks, BasicBlocks links them.  The model        *)
(* compiles the methods of a set and compares, after each pass, what the       *)
(* instructions do with what the statements say.                               *)
(*                                                                             *)
(* A statement and an expression are tuples that start with their kind, a      *)
(* block is a sequence of statements.  Values are Booleans: the type of a      *)
(* condition, and enough of the integers to compare two of them.               *)
EXTENDS BasicBlocks, TLC

CONSTANTS
    Var,        \* the method's variables
    Methods,    \* the methods to compile, each a block
    LoopFuel,   \* bound: iterations after which a method counts as endless
    StepFuel    \* bound: its code does after 2^StepFuel instructions

VARIABLES
    method,     \* the block that is compiled
    crashed     \* an instruction was generated with no current block

allvars == <<vars, method, crashed>>

\* K_RTNIDX, and the registers from espidx on
T(k) == <<"t1", "t2", "t3">>[k]
Reg == Var \cup {"rtn", "t1", "t2", "t3"}

isTerm(e) == e[1] \in {"var", "const"}
isTRUE(e) == e = <<"const", TRUE>>
isFALSE(e) == e = <<"const", FALSE>>

-------------------------------------------------------------------------------
(* typing.c: StmtITR_typing keeps the statements up to the first one that does *)
(* not come back (STOPITR); a condition that is constant chooses a branch.     *)

\* AND_typing, OR_typing
TypeCond(e) ==
    CASE e[1] = "and" /\ (\E i \in DOMAIN e[2] : isFALSE(e[2][i])) -> <<"const", FALSE>>
      [] e[1] = "or" /\ (\E i \in DOMAIN e[2] : isTRUE(e[2][i])) -> <<"const", TRUE>>
      [] OTHER -> e

RECURSIVE StmtITR_typing(_), Stmt_typing(_)

\* the block that is left, and whether it never reaches its end
StmtITR_typing(b) ==
    IF b = <<>> THEN [b |-> <<>>, stop |-> FALSE]
    ELSE LET h == Stmt_typing(Head(b))
             t == StmtITR_typing(Tail(b))
         IN IF h.stop THEN h ELSE [b |-> h.b \o t.b, stop |-> t.stop]

IF_typing(c, b, d) ==
    CASE isTRUE(c) -> b
      [] isFALSE(c) -> d
      [] OTHER -> [b |-> <<<<"if", c, b.b, d.b>>>>, stop |-> b.stop /\ d.stop]

\* a switch whose every case returns does not come back, with or without default
SWITCH_typing(v, cases) ==
    LET typed == [i \in DOMAIN cases |-> StmtITR_typing(cases[i][3])]
    IN IF cases = <<>> THEN [b |-> <<>>, stop |-> FALSE]
       ELSE [b |-> <<<<"switch", v, [i \in DOMAIN cases |->
                          <<cases[i][1], cases[i][2], typed[i].b>>]>>>>,
             stop |-> \A i \in DOMAIN cases : typed[i].stop]

\* mutant of stops: STOPITR is not set
noStops == {}

\* RETURN_typing sets STOPITR
stops == {"return"}

Stmt_typing(s) ==
    LET one(x) == [b |-> <<x>>, stop |-> FALSE]
        none == [b |-> <<>>, stop |-> FALSE]
    IN CASE s[1] = "if" -> IF_typing(TypeCond(s[2]), StmtITR_typing(s[3]), StmtITR_typing(s[4]))
         [] s[1] = "switch" -> SWITCH_typing(s[2], s[3])
         [] s[1] = "while" -> IF isFALSE(TypeCond(s[2])) THEN none
                              ELSE one(<<"while", TypeCond(s[2]), StmtITR_typing(s[3]).b>>)
         [] s[1] = "do" -> one(<<"do", StmtITR_typing(s[2]).b, TypeCond(s[3])>>)
         [] s[1] = "for" -> one(<<"for", StmtITR_typing(s[2]).b, TypeCond(s[3]),
                                  StmtITR_typing(s[4]).b, StmtITR_typing(s[5]).b>>)
         [] s[1] = "assert" -> IF isTRUE(TypeCond(s[2])) THEN none ELSE one(s)
         [] OTHER -> [b |-> <<s>>, stop |-> s[1] \in stops]

-------------------------------------------------------------------------------
(* The code under construction g: the blocks, the current block bbNC (0 after  *)
(* a jump), the stack of labels of the loops around, and whether an            *)
(* instruction had no block to go to (bbNC is dereferenced).                   *)

New(g, n) == [g EXCEPT !.blk = @ \o [i \in 1..n |-> LABEL]]
Enter(g, l) == [g.blk EXCEPT ![l].incoming = @ + 1]

\* ASM_LABEL and ASM_JMP
ASM_LABEL(g, l) ==
    [g EXCEPT !.bb = l,
              !.blk = IF g.bb = 0 THEN @
                      ELSE [Enter(g, l) EXCEPT ![g.bb].next = l, ![g.bb].jump = 0]]
ASM_JMP(g, l) ==
    [g EXCEPT !.bb = 0,
              !.blk = IF g.bb = 0 THEN @
                      ELSE [Enter(g, l) EXCEPT ![g.bb].next = 0, ![g.bb].jump = l]]

Ops(g) == g.blk[g.bb].ops
PutOps(g, ops) == [g EXCEPT !.blk[g.bb].ops = ops]

\* opcodes above OPCODE_TR are never taken for a repetition
repeatable(op) == Opcode(op) \notin hasjump \cup {"SAFEPOINT"}

\* GammaBuilder_asm; an instruction like the one before it is not added
ASM(g, op) ==
    CASE g.bb = 0 -> [g EXCEPT !.crashed = TRUE]
      [] g.bb # 0 /\ Ops(g) # <<>> /\ Last(Ops(g)) = op /\ repeatable(op) -> g
      [] OTHER -> PutOps(g, Append(Ops(g), op))

\* mutant of asmJMPF: the negation goes, its effect on the branches is forgotten
asmJMPFunswapped(ops, v, swap) ==
    IF ops # <<>> /\ Opcode(Last(ops)) = "bNOT"
    THEN [ops |-> Append(Front(ops), <<"JMPF", Last(ops)[3]>>), swap |-> swap]
    ELSE [ops |-> Append(ops, <<"JMPF", v>>), swap |-> swap]

\* GammaBuilder_asmJMPF: negations and a comparison at the end of the block
\* become part of the conditional jump on v
RECURSIVE asmJMPF(_, _, _)
asmJMPF(ops, v, swap) ==
    CASE ops # <<>> /\ Opcode(Last(ops)) = "bNOT" -> asmJMPF(Front(ops), Last(ops)[3], ~swap)
      [] ops # <<>> /\ Opcode(Last(ops)) = "iEQ" ->
            [ops |-> Append(Front(ops), <<"iJEQ", Last(ops)[3], Last(ops)[4]>>), swap |-> swap]
      [] ops # <<>> /\ Opcode(Last(ops)) = "iEQC" ->
            [ops |-> Append(Front(ops), <<"iJEQC", Last(ops)[3], Last(ops)[4]>>), swap |-> swap]
      [] OTHER -> [ops |-> Append(ops, <<"JMPF", v>>), swap |-> swap]

\* ASM_JMPF: to lbJUMP if v is false
ASM_JMPF(g, v, lbJUMP) ==
    LET h == New(g, 1)
        lbNEXT == Len(h.blk)
        f == asmJMPF(Ops(g), v, FALSE)
        counted == [h.blk EXCEPT ![lbJUMP].incoming = @ + 1, ![lbNEXT].incoming = @ + 1]
    IN IF g.bb = 0 THEN [g EXCEPT !.crashed = TRUE]
       ELSE [h EXCEPT !.bb = lbNEXT,
                      !.blk = [counted EXCEPT
                                  ![g.bb].ops = f.ops,
                                  ![g.bb].jump = IF f.swap THEN lbNEXT ELSE lbJUMP,
                                  ![g.bb].next = IF f.swap THEN lbJUMP ELSE lbNEXT]]

\* mutant of ASM_SAFEPOINT: a loop without one
noSafepoint(g) == g

\* one SAFEPOINT per block
ASM_SAFEPOINT(g) ==
    IF g.bb # 0 /\ (\E i \in DOMAIN Ops(g) : Opcode(Ops(g)[i]) = "SAFEPOINT") THEN g
    ELSE ASM(g, <<"SAFEPOINT">>)

\* ASM_SMOV: a constant or a variable into register a
ASM_SMOV(g, a, e) == ASM(g, <<IF e[1] = "const" THEN "NSET" ELSE "NMOV", a, e[2]>>)

\* ASM_PMOV: move b to a, or have the last instruction put its result there
ASM_PMOV(g, a, b) ==
    LET op == Last(Ops(g)) IN
    IF g.bb # 0 /\ Ops(g) # <<>> /\ Opcode(op) \in {"NSET", "bNOT", "iEQ", "iEQC"} /\ op[2] = b
    THEN PutOps(g, Append(Front(Ops(g)), [op EXCEPT ![2] = a]))
    ELSE ASM(g, <<"NMOV", a, b>>)

-------------------------------------------------------------------------------
(* Expressions: the value goes to register T(k).                               *)

RECURSIVE Tn_asm(_, _, _), Tn_JMPIF(_, _, _, _, _), JMPIFs(_, _, _, _, _)

\* Tn_JMPIF: to the label if e has the value is
Tn_JMPIF(g, e, is, label, k) ==
    LET negate(h, v) == IF is THEN ASM(h, <<"bNOT", v, v>>) ELSE h IN
    CASE e[1] = "const" -> LET h == ASM_SMOV(g, T(k), e)
                           IN IF is = e[2] THEN ASM_JMP(h, label) ELSE h
      [] e[1] = "var" -> ASM_JMPF(negate(g, e[2]), e[2], label)
      [] OTHER -> ASM_JMPF(negate(Tn_asm(g, e, k), T(k)), T(k), label)

JMPIFs(g, es, is, label, k) ==
    IF es = <<>> THEN g
    ELSE JMPIFs(Tn_JMPIF(g, Head(es), is, label, k), Tail(es), is, label, k)

\* AND_asm and OR_asm: is tells which value of an operand decides
Shortcut(g, es, is, k) ==
    LET h == New(g, 2)
        decided == Len(g.blk) + 1
        end == Len(g.blk) + 2
        all == ASM_JMP(ASM(JMPIFs(h, es, is, decided, k), <<"NSET", T(k), ~is>>), end)
    IN ASM_LABEL(ASM(ASM_LABEL(all, decided), <<"NSET", T(k), is>>), end)

\* TRI_asm
TRI_asm(g, e, k) ==
    LET lbelse == Len(g.blk) + 1
        lbend == Len(g.blk) + 2
        then == ASM_JMP(Tn_asm(Tn_JMPIF(New(g, 2), e[2], FALSE, lbelse, k), e[3], k), lbend)
    IN ASM_LABEL(Tn_asm(ASM_LABEL(then, lbelse), e[4], k), lbend)

\* Tn_put: an operand that is a variable stays where it is
Tn_put(g, e, k) == IF e[1] = "var" THEN g ELSE Tn_asm(g, e, k)
Put(e, k) == IF e[1] = "var" THEN e[2] ELSE T(k)

Tn_asm(g, e, k) ==
    CASE isTerm(e) -> ASM_SMOV(g, T(k), e)
      [] e[1] = "not" -> ASM(Tn_put(g, e[2], k + 1), <<"bNOT", T(k), Put(e[2], k + 1)>>)
      [] e[1] = "eq" -> ASM(g, <<"iEQ", T(k), e[2], e[3]>>)
      [] e[1] = "eqc" -> ASM(g, <<"iEQC", T(k), e[2], e[3]>>)
      [] e[1] = "and" -> Shortcut(g, e[2], FALSE, k)
      [] e[1] = "or" -> Shortcut(g, e[2], TRUE, k)
      [] e[1] = "tri" -> TRI_asm(g, e, k)

-------------------------------------------------------------------------------
(* Statements.                                                                 *)

\* GammaBuilder_pushLABEL and popLABEL; the label stack starts with the method's
Push(g, c, b) == [g EXCEPT !.labels = Append(@, [continue |-> c, break |-> b])]
Pop(g) == [g EXCEPT !.labels = Front(@)]

LET_asm(g, v, e) == IF isTerm(e) THEN ASM_SMOV(g, v, e) ELSE ASM_PMOV(Tn_asm(g, e, 1), v, T(1))

\* PRINT_asm of a variable, or of a literal
PRINT_asm(g, m) ==
    IF m \in Var THEN ASM(ASM_SMOV(g, T(1), <<"var", m>>), <<"P", m, T(1)>>)
    ELSE ASM(g, <<"P", m>>)

\* CALL_asm of a method in bytecode with or without an argument
CALL_asm(g, args) ==
    IF args = <<>> THEN ASM(g, <<"VCALL_", "noargs">>)
    ELSE ASM(Tn_asm(g, args[1], 2), <<"VCALL", "args">>)

\* RETURN_asm
RETURN_asm(g, s) ==
    ASM_JMP(IF Len(s) = 1 THEN g ELSE ASM_PMOV(Tn_asm(g, s[2], 1), "rtn", T(1)), g.labels[1].break)

ASSERT_asm(g, e) ==
    LET lbskip == Len(g.blk) + 1
    IN ASM_LABEL(ASM(Tn_JMPIF(New(g, 1), e, TRUE, lbskip, 1), <<"ASSERT">>), lbskip)

RECURSIVE BLOCK_asm(_, _), Stmt_asm(_, _), CASE_asm(_, _, _, _)

IF_asm(g, c, b, d) ==
    LET lbELSE == Len(g.blk) + 1
        lbEND == Len(g.blk) + 2
        then == BLOCK_asm(Tn_JMPIF(New(g, 2), c, FALSE, lbELSE, 1), b)
    IN ASM_LABEL(BLOCK_asm(ASM_LABEL(ASM_JMP(then, lbEND), lbELSE), d), lbEND)

\* the loop statements start with their two labels
Loop(g) == LET n == Len(g.blk) IN Push(New(g, 2), n + 1, n + 2)
lbCONTINUE(g) == Last(g.labels).continue
lbBREAK(g) == Last(g.labels).break
Leave(g) == Pop(ASM_LABEL(g, lbBREAK(g)))

WHILE_asm(g, c, b) ==
    LET h == Loop(g)
        head == ASM_SAFEPOINT(ASM_LABEL(h, lbCONTINUE(h)))
        test == IF isTRUE(c) THEN head ELSE Tn_JMPIF(head, c, FALSE, lbBREAK(h), 1)
    IN Leave(ASM_JMP(BLOCK_asm(test, b), lbCONTINUE(h)))

DO_asm(g, b, c) ==
    LET h == Loop(g)
        body == BLOCK_asm(ASM_SAFEPOINT(ASM_LABEL(h, lbCONTINUE(h))), b)
    IN Leave(ASM_JMP(Tn_JMPIF(body, c, FALSE, lbBREAK(h), 1), lbCONTINUE(h)))

FOR_asm(g, init, c, step, b) ==
    LET h == New(Loop(g), 1)
        lbREDO == Len(h.blk)
        first == ASM_JMP(BLOCK_asm(h, init), lbREDO)
        next == BLOCK_asm(ASM_SAFEPOINT(ASM_LABEL(first, lbCONTINUE(h))), step)
        redo == ASM_LABEL(next, lbREDO)
        test == IF isTRUE(c) THEN redo ELSE Tn_JMPIF(redo, c, FALSE, lbBREAK(h), 1)
    IN Leave(ASM_JMP(BLOCK_asm(test, b), lbCONTINUE(h)))

\* the cases with a value; lbNEXT is where the block of the case before goes on
CASE_asm(g, v, cases, lbNEXT) ==
    IF cases = <<>> THEN IF lbNEXT = 0 THEN g ELSE ASM_LABEL(g, lbNEXT)
    ELSE LET h == New(g, 1)
             lbEND == Len(h.blk)
             test == Tn_JMPIF(h, <<"eqc", v, Head(cases)[2]>>, FALSE, lbEND, 1)
             body == New(BLOCK_asm(IF lbNEXT = 0 THEN test ELSE ASM_LABEL(test, lbNEXT),
                                   Head(cases)[3]), 1)
         IN CASE_asm(ASM_LABEL(ASM_JMP(body, Len(body.blk)), lbEND), v, Tail(cases), Len(body.blk))

\* the value of a local variable is tested where it is (tkIT is the variable);
\* the default comes last, wherever it stands
SWITCH_asm(g, v, cases) ==
    LET h == Loop(g)
        head == ASM_SMOV(ASM_LABEL(h, lbCONTINUE(h)), v, <<"var", v>>)
        of(kind) == SelectSeq(cases, LAMBDA c : c[1] = kind)
        tested == CASE_asm(head, v, of("case"), 0)
        default == of("default")
    IN Leave(IF default = <<>> THEN tested ELSE BLOCK_asm(tested, default[1][3]))

Stmt_asm(g, s) ==
    CASE s[1] = "let" -> LET_asm(g, s[2], s[3])
      [] s[1] = "print" -> PRINT_asm(g, s[2])
      [] s[1] = "call" -> CALL_asm(g, s[2])
      [] s[1] = "assert" -> ASSERT_asm(g, s[2])
      [] s[1] = "return" -> RETURN_asm(g, s)
      [] s[1] = "break" -> ASM_JMP(g, lbBREAK(g))
      [] s[1] = "continue" -> ASM_JMP(g, lbCONTINUE(g))
      [] s[1] = "if" -> IF_asm(g, s[2], s[3], s[4])
      [] s[1] = "while" -> WHILE_asm(g, s[2], s[3])
      [] s[1] = "do" -> DO_asm(g, s[2], s[3])
      [] s[1] = "for" -> FOR_asm(g, s[2], s[3], s[4], s[5])
      [] s[1] = "switch" -> SWITCH_asm(g, s[2], s[3])

BLOCK_asm(g, b) == IF b = <<>> THEN g ELSE BLOCK_asm(Stmt_asm(g, Head(b)), Tail(b))

\* Method_compile: lbINIT, lbBEGIN and lbEND are blocks 1, 2 and 3.  The variables
\* are the method's parameters, so that there is no local to clear at the beginning.
Method_asm(b) ==
    LET g == [blk |-> [i \in 1..3 |-> LABEL], bb |-> 1, labels |-> <<>>, crashed |-> FALSE]
        begin == ASM_LABEL(ASM(Push(g, 2, 3), <<"THCODE">>), 2)
    IN ASM(ASM_LABEL(BLOCK_asm(begin, b), 3), <<"RET">>)

-------------------------------------------------------------------------------

Init ==
    /\ method \in Methods /\ crashed = FALSE
    /\ blk = <<>> /\ entry = 1 /\ ret = 3 /\ prev = 0 /\ codesize = 0 /\ text = <<>>
    /\ pass = "source" /\ stack = <<>>

Method_compile ==
    /\ pass = "source" /\ pass' = "asm"
    /\ LET g == Method_asm(StmtITR_typing(method).b) IN blk' = g.blk /\ crashed' = g.crashed
    /\ UNCHANGED <<entry, ret, prev, codesize, text, stack, method>>

\* GammaBuilder_compile, unless the process has died
Compiling == ~crashed /\ Compile /\ UNCHANGED <<method, crashed>>

\* the method is compiled
Finished == pass = "done" /\ UNCHANGED allvars

Next == Method_compile \/ Compiling \/ Finished

\* the passes are one function that runs to its end
Spec == Init /\ [][Next]_allvars /\ WF_allvars(Compiling)

-------------------------------------------------------------------------------
(* What the statements say.  A run of a method is the values of its variables, *)
(* what it printed and called, and how it goes on.                             *)

RECURSIVE Value(_, _)
Value(e, env) ==
    CASE e[1] = "var" -> env[e[2]]
      [] e[1] = "const" -> e[2]
      [] e[1] = "not" -> ~Value(e[2], env)
      [] e[1] = "eq" -> env[e[2]] = env[e[3]]
      [] e[1] = "eqc" -> env[e[2]] = e[3]
      [] e[1] = "and" -> \A i \in DOMAIN e[2] : Value(e[2][i], env)
      [] e[1] = "or" -> \E i \in DOMAIN e[2] : Value(e[2][i], env)
      [] e[1] = "tri" -> IF Value(e[2], env) THEN Value(e[3], env) ELSE Value(e[4], env)

RECURSIVE Exec(_, _), ExecStmt(_, _), While(_, _, _, _)

Exec(b, r) == IF b = <<>> \/ r.how # "next" THEN r ELSE Exec(Tail(b), ExecStmt(Head(b), r))

\* leave a loop or a switch
After(r, left) == IF r.how \in left THEN [r EXCEPT !.how = "next"] ELSE r

\* while(c) b, with step after each round
While(c, b, step, r) ==
    IF r.fuel = 0 THEN [r EXCEPT !.how = "endless"]
    ELSE IF ~Value(c, r.env) THEN r
    ELSE LET t == After(Exec(b, [r EXCEPT !.fuel = @ - 1]), {"continue"})
             u == Exec(step, t)
         IN IF u.how = "next" THEN While(c, b, step, u) ELSE After(u, {"break"})

Switch(v, cases, r) ==
    LET of(kind) == SelectSeq(cases, LAMBDA c : c[1] = kind)
        all == of("case") \o of("default")
        hit == {i \in DOMAIN all : all[i][1] = "default" \/ all[i][2] = r.env[v]}
        from == IF hit = {} THEN Len(all) + 1 ELSE CHOOSE i \in hit : \A j \in hit : i <= j
        body == FlattenSeq([i \in 1..Len(all) + 1 - from |-> all[from + i - 1][3]])
    IN After(Exec(body, r), {"break"})

ExecStmt(s, r) ==
    LET out(x) == [r EXCEPT !.out = Append(@, x)] IN
    CASE s[1] = "let" -> [r EXCEPT !.env[s[2]] = Value(s[3], r.env)]
      [] s[1] = "print" -> out(<<s[2], IF s[2] \in Var THEN r.env[s[2]] ELSE TRUE>>)
      [] s[1] = "call" -> out(<<"call", IF s[2] = <<>> THEN TRUE ELSE Value(s[2][1], r.env)>>)
      [] s[1] = "assert" -> IF Value(s[2], r.env) THEN r ELSE [r EXCEPT !.how = "raised"]
      [] s[1] = "return" -> [r EXCEPT !.how = "return",
                                      !.env.rtn = IF Len(s) = 1 THEN @ ELSE Value(s[2], r.env)]
      [] s[1] \in {"break", "continue"} -> [r EXCEPT !.how = s[1]]
      [] s[1] = "if" -> Exec(IF Value(s[2], r.env) THEN s[3] ELSE s[4], r)
      [] s[1] = "while" -> While(s[2], s[3], <<>>, r)
      [] s[1] = "do" -> LET t == After(Exec(s[2], r), {"continue"})
                        IN IF t.how = "next" THEN While(s[3], s[2], <<>>, t)
                           ELSE After(t, {"break"})
      [] s[1] = "for" -> While(s[3], s[5], s[4], Exec(s[2], r))
      [] s[1] = "switch" -> Switch(s[2], s[3], r)

Start(env, fuel) == [env |-> env, out |-> <<>>, fuel |-> fuel, how |-> "next"]

Meaning(b, env) ==
    LET r == Exec(b, Start(env, LoopFuel)) IN [r EXCEPT !.how = IF @ = "next" THEN "return" ELSE @]

-------------------------------------------------------------------------------
(* What the instructions do (konoha_vm.h).                                     *)

\* an instruction that does not jump
Do(op, r) ==
    LET set(v) == [r EXCEPT !.env[op[2]] = v]
        out(x) == [r EXCEPT !.out = Append(@, x)]
    IN CASE op[1] = "NSET" -> set(op[3])
         [] op[1] = "NMOV" -> set(r.env[op[3]])
         [] op[1] = "bNOT" -> set(~r.env[op[3]])
         [] op[1] = "iEQ" -> set(r.env[op[3]] = r.env[op[4]])
         [] op[1] = "iEQC" -> set(r.env[op[3]] = op[4])
         [] op[1] = "P" -> out(<<op[2], IF op[2] \in Var THEN r.env[op[3]] ELSE TRUE>>)
         [] op[1] \in {"VCALL", "VCALL_"} ->
                out(<<"call", IF op[2] = "noargs" THEN TRUE ELSE r.env["t2"]>>)
         [] op[1] = "ASSERT" -> [r EXCEPT !.how = "raised"]
         [] op[1] \in {"RET", "JMP_"} -> [r EXCEPT !.how = "return"]
         [] OTHER -> r

\* whether an instruction with a jump takes it
Jumps(op, env) ==
    CASE op[1] = "JMP" -> TRUE
      [] op[1] = "JMPF" -> ~env[op[2]]
      [] op[1] = "iJEQ" -> env[op[2]] # env[op[3]]
      [] op[1] = "iJEQC" -> env[op[2]] # op[3]
      [] OTHER -> FALSE

\* one instruction of the blocks; after the last one a block jumps or falls
StepBlocks(r) ==
    LET c == blk[r.b]
        tests == c.ops # <<>> /\ Opcode(Last(c.ops)) \in hasjump
        jumps == c.jump # 0 /\ (IF tests THEN Jumps(Last(c.ops), r.env) ELSE c.next = 0)
    IN CASE r.b = 0 -> [r EXCEPT !.how = "lost"]
         [] r.b # 0 /\ r.i \in DOMAIN c.ops -> [Do(c.ops[r.i], r) EXCEPT !.i = @ + 1]
         [] OTHER -> [r EXCEPT !.b = IF jumps THEN c.jump ELSE c.next, !.i = 1]

\* one of the instructions as they were laid out
StepText(r) ==
    IF r.i \notin DOMAIN text THEN [r EXCEPT !.how = "lost"]
    ELSE [Do(text[r.i].op, r) EXCEPT
              !.i = IF Jumps(text[r.i].op, r.env) THEN text[r.i].to ELSE @ + 1]

\* 2^k steps
RECURSIVE RunBlocks(_, _), RunText(_, _)
RunBlocks(k, r) ==
    CASE r.how # "next" -> r
      [] r.how = "next" /\ k = 0 -> StepBlocks(r)
      [] OTHER -> RunBlocks(k - 1, RunBlocks(k - 1, r))
RunText(k, r) ==
    CASE r.how # "next" -> r
      [] r.how = "next" /\ k = 0 -> StepText(r)
      [] OTHER -> RunText(k - 1, RunText(k - 1, r))

At1(r, b) == r @@ [b |-> b, i |-> 1]

-------------------------------------------------------------------------------
(* Properties.                                                                 *)

Envs == {[v \in Reg |-> IF v \in Var THEN f[v] ELSE FALSE] : f \in [Var -> BOOLEAN]}

\* m the meaning, r the run; a run that is still under way is an endless one
Same(m, r) ==
    IF r.how = "next" THEN m.how = "endless" /\ (IsPrefix(m.out, r.out) \/ IsPrefix(r.out, m.out))
    ELSE m.how = r.how /\ m.out = r.out /\ m.env.rtn = r.env.rtn

\* The method does what its statements say: after every pass the blocks, and in
\* the end the instructions, print and call the same in the same order, return
\* the same value, fail or run for ever alike, whatever the variables hold.
KeepsMeaning ==
    stack = <<>> /\ ~crashed => \A env \in Envs :
        LET start == At1(Start(env, 0), entry) IN
        /\ pass \in {"asm", "strip0", "strip1", "size"} =>
               Same(Meaning(method, env), RunBlocks(StepFuel, start))
        /\ pass = "done" => Same(Meaning(method, env), RunText(StepFuel, start))

\* No instruction is generated behind a jump, where bbNC is NULL: the type
\* checker has dropped what follows a statement that does not come back.  And the
\* blocks of the method are as the passes, and the theorems about them, need
\* them: each knows of the edges that enter it, and leads on unless it is the last.
GraphIsBuilt ==
    pass = "asm" => ~crashed /\ Built /\ codesize = 0 /\ prev = 0 /\ text = <<>>
=============================================================================
