---------------------------- MODULE ScriptLoader ---------------------------
(***************************************************************************)
(* knh_InputStream_load (src/lang/script.c): a script is read byte by byte *)
(* through an input stream, cut into chunks at the blank lines that are    *)
(* not inside a comment, a quoted text or a block, and behind a line of    *)
(* quoted texts alone; and every chunk is evaluated, with the number of    *)
(* its first line, before the next one is read.                            *)
(***************************************************************************)
EXTENDS InputStream, FiniteSets

VARIABLES
  load,    \* where the loader is, its status and the line of the chunk
  rd,      \* readchunk's locals and those of the helper it is in
  given    \* history: the chunks, each with its line

loadVars == <<load, rd, given>>

QUOTES == {"'", "\"", "backquote"}
Space == {NL, CR, " "}

\* The helper, the previous byte outside and inside of it, the quote or the
\* level of comments; the chunk so far and the line reached.
Fresh(line) ==
  [in |-> "code", prev |-> "0", last |-> "0", quote |-> "0", level |-> 0,
   isBLOCK |-> FALSE, ba |-> <<>>, line |-> line]

LoaderOf(script) ==
  [at |-> IF script THEN "next" ELSE "none", status |-> "break", uline |-> 1]

-----------------------------------------------------------------------------
(* readchunk.                                                              *)

\* io2_getc answers ch, when there is one.
Getc(ch) ==
  /\ Reading("getc")
  /\ ~ Empty
  /\ ch = Head(in.unread)
  /\ in' = Take(1)
  /\ UNCHANGED <<file, ret, given>>

\* mutant of Put: the lines of comments and quoted texts are not counted
PutUncounted(ch) == [rd EXCEPT !.ba = Append(@, ch), !.last = ch,
  !.line = @ + (IF ch = NL /\ rd.in = "code" THEN 1 ELSE 0)]

Put(ch) == [rd EXCEPT !.ba = Append(@, ch), !.last = ch,
                      !.line = @ + (IF ch = NL THEN 1 ELSE 0)]

Goes(r) == rd' = r /\ UNCHANGED <<call, load>>

SkipCR ==
  /\ Getc(CR)
  /\ UNCHANGED <<call, load, rd>>

OpensComment(ch) == rd.prev = "/" /\ ch = "*"
BlankLine(ch) == ~ rd.isBLOCK /\ rd.prev = NL /\ ch = NL

OpenComment ==
  /\ rd.in = "code"
  /\ \E ch \in {"*"} : Getc(ch) /\ OpensComment(ch) /\
       Goes([Put(ch) EXCEPT !.in = "comment", !.level = 1, !.last = "0"])

OpenQuote ==
  /\ rd.in = "code"
  /\ \E ch \in QUOTES : Getc(ch) /\
       Goes([Put(ch) EXCEPT !.in = "quote", !.quote = ch])

EndChunk ==
  /\ rd.in = "code"
  /\ BlankLine(NL)
  /\ Getc(NL)
  /\ rd' = Put(NL)
  /\ call' = Idle
  /\ load' = [load EXCEPT !.at = "eval"]

InCode ==
  /\ rd.in = "code"
  /\ \E ch \in Range(file) \ (QUOTES \cup {CR}) :
       /\ Getc(ch)
       /\ ~ OpensComment(ch) /\ ~ BlankLine(ch)
       /\ Goes([Put(ch) EXCEPT !.prev = ch,
                  !.isBLOCK = /\ @ \/ rd.prev = "{"
                              /\ ~ (rd.prev = NL /\ ch = "}")])

\* Bytes_addQUOTE
InQuote ==
  /\ rd.in = "quote"
  /\ \E ch \in Range(file) \ {CR} :
       /\ Getc(ch)
       /\ LET ends == ch = rd.quote /\ rd.last # "\\"
          IN Goes([Put(ch) EXCEPT !.in = IF ends THEN "code" ELSE @])

\* Bytes_addCOMMENT: comments nest.
InComment ==
  /\ rd.in = "comment"
  /\ \E ch \in Range(file) \ {CR} :
       /\ Getc(ch)
       /\ LET level == rd.level + (IF rd.last = "/" /\ ch = "*" THEN 1 ELSE 0)
                                - (IF rd.last = "*" /\ ch = "/" THEN 1 ELSE 0)
          IN Goes([Put(ch) EXCEPT !.level = level,
                     !.in = IF level = 0 THEN "code" ELSE @])

\* io2_getc answers EOF, to the helper and then to readchunk.
EndOfScript ==
  /\ Reading("getc")
  /\ Empty /\ ~ in.running
  /\ call' = Idle
  /\ load' = [load EXCEPT !.at = "eval"]
  /\ UNCHANGED <<file, in, ret, rd, given>>

-----------------------------------------------------------------------------
(* The loop over the chunks.                                               *)

IsClosed == ~ in.running /\ Empty

NextChunk ==
  /\ load.at = "next"
  /\ rd' = Fresh(rd.line)
  /\ IF IsClosed
     THEN call' = call /\ load' = [load EXCEPT !.at = "done"]
     ELSE /\ call' = Call("getc", <<>>, At)
          /\ load' = [at |-> "read", status |-> "continue", uline |-> rd.line]
  /\ UNCHANGED <<file, in, ret, given>>

Blank == Range(rd.ba) \subseteq Space

\* knh_beval of a chunk that is not blank, which may fail, and what is done
\* then.
Eval ==
  /\ load.at = "eval"
  /\ \E status \in {"continue", "break"} :
       LET again == rd.ba # <<>> /\ status = "continue" IN
       /\ Blank => status = load.status
       /\ load' = [load EXCEPT !.status = status,
                               !.at = IF again THEN "next" ELSE "done"]
  /\ given' = Append(given, [text |-> rd.ba, uline |-> load.uline])
  /\ UNCHANGED <<file, in, call, ret, rd>>

LoadStep ==
  \/ SkipCR
  \/ OpenComment
  \/ OpenQuote
  \/ EndChunk
  \/ InCode
  \/ InQuote
  \/ InComment
  \/ EndOfScript
  \/ NextChunk
  \/ Eval

-----------------------------------------------------------------------------
(* Properties.                                                             *)

Text(chunks) == FlattenSeq([i \in 1 .. Len(chunks) |-> chunks[i].text])
NoCR(s) == FlattenSeq([i \in 1 .. Len(s) |-> IF s[i] = CR THEN <<>> ELSE <<s[i]>>])
Lines(s) == Cardinality({i \in 1 .. Len(s) : s[i] = NL})

\* s ends with a line that is blank, or that is quoted texts alone: after
\* a text, prev is still the byte before it.
EndsLine(s) ==
  /\ Len(s) >= 2
  /\ s[Len(s)] = NL /\ s[Len(s) - 1] \in {NL} \cup QUOTES

\* What has been read of the chunk that is not evaluated yet.
Current == IF load.at \in {"read", "eval"} THEN rd.ba ELSE <<>>

\* The chunks, one after the other, are the script as far as it has been
\* read, whatever the refills were, and each is given the number of the
\* line it begins at.  Only the last one may end within a line, or with a
\* line that is not one of the two that end a chunk; and when the loader
\* is done and no chunk has failed, the script has been read to its end.
ChunksInOrder ==
  load.at # "none" =>
    /\ NoCR(Bytes(0, At)) = Text(given) \o Current
    /\ \A i \in 1 .. Len(given) :
         given[i].uline = 1 + Lines(Text(SubSeq(given, 1, i - 1)))
    /\ \A i \in 1 .. Len(given) - 1 : EndsLine(given[i].text)
    /\ load.at = "done" /\ load.status = "continue" => IsClosed
=============================================================================
