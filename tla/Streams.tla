------------------------------ MODULE Streams ------------------------------
(***************************************************************************)
(* One file and its streams: a program that writes it through an output    *)
(* stream, and one that reads it meanwhile through an input stream; or a   *)
(* script that is loaded, in which case nobody writes.  The two streams    *)
(* share nothing but the file.                                             *)
(***************************************************************************)
EXTENDS ScriptLoader, OutputStream

CONSTANTS
  Texts,       \* what the program writes, and what the file may hold before
  MaxWritten,  \* bound: how much of it in all
  Scripts      \* the scripts that may be loaded, in UTF-8

\* The bytes there are; "null" is what a call answers when there is none.
\* A script has no byte 255, as no text in UTF-8 has: after a refill io2_getc
\* would take it for the end.
Byte == {NL} \cup UNION {Range(t) : t \in Texts \cup Scripts}

ASSUME TextsAssumption ==
  /\ Texts \cup Scripts \subseteq Seq(Byte)
  /\ "null" \notin Byte
  /\ \A s \in Scripts : xFF \notin Range(s)
  /\ MaxWritten \in Nat

vars == <<file, inVars, loadVars, outVars>>

Loading == load.at # "none"

\* A file or a buffer that a program reads, or a script.
Opened ==
  \/ /\ file \in Texts
     /\ in \in {Reader(open) : open \in BOOLEAN}
     /\ load = LoaderOf(FALSE)
  \/ /\ file \in Scripts
     /\ in = Reader(TRUE)
     /\ load = LoaderOf(TRUE)

Init ==
  /\ Opened
  /\ call = Idle
  /\ ret = [op |-> "none", value |-> Null, from |-> 0, to |-> 0]
  /\ rd = Fresh(1)
  /\ given = <<>>
  /\ out \in {Writer(size, flush) : size \in OutSizes, flush \in BOOLEAN}
  /\ Loading => out.bufsiz = 0
  /\ out.bufsiz = 0 => ~ out.autoflush
  /\ written = file
  /\ whole = TRUE

Fits(s) == Len(written) + Len(s) <= MaxWritten

Produce ==
  /\ ~ Loading
  /\ \/ \E s \in Texts : Fits(s) /\ print(s)
     \/ \E s \in Texts : Fits(Append(s, NL)) /\ println(s)
     \/ FlushOutput
     \/ CloseOutput
     \/ FreeOutput
  /\ UNCHANGED <<inVars, loadVars>>

\* The stream has not been closed twice.
Defined == in.closes < 2

Consume ==
  /\ Defined
  /\ \/ ReadStep
     \/ ~ Loading /\ (BeginRead \/ CloseInput)
  /\ UNCHANGED <<loadVars, outVars>>

Load == LoadStep /\ UNCHANGED outVars

Next == Produce \/ Consume \/ Load

\* A call goes on until it returns: it is a loop in one thread, and fread
\* of a file returns.
Fairness ==
  /\ WF_vars(ReadStep /\ UNCHANGED <<loadVars, outVars>>)
  /\ WF_vars(Load)

Spec == Init /\ [][Next]_vars /\ Fairness

-----------------------------------------------------------------------------
(* A call that has begun returns, and a script that is loaded is loaded:   *)
(* every turn of their loops takes bytes out of the file or closes it.     *)
ReadsEnd ==
  /\ (call # Idle) ~> (call = Idle)
  /\ (load.at = "next") ~> (load.at = "done")
=============================================================================
