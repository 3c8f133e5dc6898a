----------------------------- MODULE MCStreams -----------------------------
(* Lines in up to two pieces and more, with and without CR, an empty one,  *)
(* and bytes above 127, 255 among them; scripts of up to three bytes of    *)
(* those that readchunk tells apart, and longer ones with a blank line in  *)
(* a block, a comment, a quoted text and between two chunks, and with a    *)
(* line that is a quoted text.                                             *)
EXTENDS Streams

MCxFF == "xFF"
MCHigh == {MCxFF, "xE9"}

MCTexts == {<<>>, <<"x", NL>>, <<"x", CR>>, <<"x", MCxFF, "xE9">>}

Chars == {"x", NL, CR, "'", "\\", "/", "*", "{", "}"}

MCScripts == UNION {[1 .. n -> Chars] : n \in 0 .. 3} \cup {
  <<"x", NL, NL, "y">>,
  <<"x", CR, NL, CR, NL, "y", NL, NL>>,
  <<NL, NL, NL, NL, "x", NL>>,
  <<"{", "x", NL, NL, "}", NL, NL, "y">>,
  <<"/", "*", NL, NL, "/", "*", "*", "/", NL, "*", "/", NL, NL, "x">>,
  <<"'", "x", NL, NL, "\\", "'", NL, "'", NL, NL, "y">>,
  <<"x", NL, "'", "y", "'", NL, "x">>}
=============================================================================
