----------------------------- MODULE FileBytes -----------------------------
(* The file behind a stream: what write(2) has put into it, which others   *)
(* may read while it grows.                                                *)
EXTENDS Naturals, Sequences, SequencesExt

CONSTANTS
  High,    \* the bytes above 127, which are negative numbers as a char
  xFF      \* the one that is -1 then, and -1 is EOF
ASSUME HighAssumption == xFF \in High

VARIABLE file    \* the bytes in the file, only ever appended to

NL == "\n"
CR == "\r"

Bytes(from, to) == SubSeq(file, from + 1, to)
HasNL(s) == NL \in Range(s)
=============================================================================
