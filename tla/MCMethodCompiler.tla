-------------------------- MODULE MCMethodCompiler --------------------------
(* All methods of up to three of the statements below (Blocks), and larger   *)
(* ones.  A switch whose cases all return has a default: without one the     *)
(* compiler drops what is behind it (SWITCH_typing).                         *)
EXTENDS MethodCompiler

x == <<"var", "x">>
y == <<"var", "y">>
yes == <<"const", TRUE>>
no == <<"const", FALSE>>

MCVar == {"x", "y"}

Leaf == {<<"let", "x", no>>, <<"let", "x", y>>, <<"call", <<x>>>>, <<"assert", x>>, <<"return", x>>}
Cond == {x, <<"not", y>>, <<"and", <<x, y>>>>}

RECURSIVE Blocks(_, _), Stmts(_, _)

\* all blocks of n statements; exits, break and continue, are the last of a block
\* in a loop, and not of the body of a do
Blocks(n, exits) ==
    IF n = 0 THEN {<<>>}
    ELSE UNION {{<<s>> \o b : s \in {t \in Stmts(k, exits) : k = n \/ t[1] \notin {"break", "continue"}},
                              b \in Blocks(n - k, exits)} : k \in 1..n}

comesBack(b) == \A i \in DOMAIN b : b[i][1] \notin {"return", "break", "continue"}

\* the statements with n statements in them, themselves included
Stmts(n, exits) ==
    IF n = 1 THEN Leaf \cup {<<e>> : e \in exits}
    ELSE LET two(in) == UNION {Blocks(k, in) \X Blocks(n - 1 - k, in) : k \in 0..n-1}
             loop == {"break", "continue"}
         IN {<<"if", c, p[1], p[2]>> : c \in Cond, p \in two(exits)}
            \cup {<<"while", c, b>> : c \in {x, yes}, b \in Blocks(n - 1, loop)}
            \cup {<<"for", <<<<"let", "x", no>>>>, c, <<<<"let", "x", y>>>>, b>> :
                     c \in {<<"not", x>>, yes}, b \in Blocks(n - 1, loop)}
            \cup {<<"do", b, c>> : c \in {no, <<"or", <<x, y>>>>},
                                   b \in {d \in Blocks(n - 1, {"break"}) : comesBack(d)}}
            \cup {<<"switch", "x", <<<<"case", FALSE, p[1]>>, <<"default", FALSE, p[2]>>>>>> :
                     p \in two({"break"})}

\* statements of the larger methods
calls(e) == <<"call", <<e>>>>
returns == <<"return">>
when(c, b) == <<"if", c, b, <<>>>>
prints(m) == <<"print", m>>
notx == <<"not", x>>

Larger == {
    \* a loop in a loop, with calls on every path
    <<<<"while", x,
        <<<<"for", <<<<"let", "y", no>>>>, <<"not", y>>, <<<<"let", "y", x>>>>,
            <<calls(x), when(<<"and", <<x, y>>>>, <<<<"continue">>>>), calls(y)>>>>,
          when(notx, <<<<"break">>>>), calls(x), <<"let", "x", <<"tri", y, no, yes>>>>>>>>,
      calls(<<"or", <<x, notx>>>>)>>,
    \* cases that run on into the next one, a default that is not the last
    <<<<"switch", "x", <<<<"case", TRUE, <<prints("a")>>>>, <<"default", FALSE, <<prints("b")>>>>,
                         <<"case", FALSE, <<prints("c"), <<"break">>>>>>>>>>,
      prints("x"), <<"return", notx>>>>,
    <<<<"switch", "y", <<<<"case", TRUE, <<calls(x)>>>>, <<"case", FALSE, <<calls(y)>>>>>>>>, calls(x)>>,
    <<<<"switch", "y", <<<<"default", FALSE, <<returns>>>>>>>>, prints("a")>>,
    \* conditions in conditions
    <<when(<<"not", notx>>, <<prints("a"), <<"call", <<>>>>>>), calls(<<"eq", "x", "y">>),
      <<"while", <<"or", <<notx, <<"and", <<x, <<"eq", "x", "y">>>>>>>>>>,
        <<<<"let", "x", <<"and", <<notx, y>>>>>>, <<"call", <<>>>>, calls(x)>>>>>>,
    <<<<"if", <<"tri", x, <<"not", y>>, <<"eqc", "y", TRUE>>>>, <<returns>>, <<<<"return", y>>>>>>,
      prints("a")>>,
    \* constant conditions
    <<when(<<"and", <<x, no>>>>, <<prints("a")>>), <<"assert", <<"or", <<y, yes>>>>>>,
      <<"while", <<"and", <<y, no>>>>, <<calls(x)>>>>, when(yes, <<prints("b"), returns>>), calls(y)>>,
    <<<<"do", <<calls(x), when(y, <<<<"while", yes, <<calls(y), when(x, <<returns>>)>>>>>>)>>, notx>>>>
}

SmallMethods == UNION {Blocks(n, {}) : n \in 0..3}
MCMethods == SmallMethods \cup Larger
=============================================================================
