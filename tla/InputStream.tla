---------------------------- MODULE InputStream ----------------------------
(***************************************************************************)
(* A kio_t that reads a FILE through a buffer (src/main/stream.c).         *)
(* readLine, readAll and getByte are loops that refill the buffer when it  *)
(* is used up; a refill returns as many bytes as there are by then, so a   *)
(* line may come in any number of pieces.  A refill that returns none,     *)
(* because of the end of the file or of an error, closes the stream.       *)
(*                                                                         *)
(* A stream without a file (new_io2ReadBuffer) is one that is closed from  *)
(* the start, with all its bytes in the buffer: readAll, whose loop runs   *)
(* while the stream does, finds nothing there.  No decoder is set, and     *)
(* io2_read is left out: it is defined only when the buffer holds just     *)
(* what is asked for.                                                      *)
(***************************************************************************)
EXTENDS FileBytes

CONSTANT BufSize      \* bufsiz
ASSUME BufSizeAssumption == BufSize \in Nat \ {0}

VARIABLES
  in,      \* the kio_t: unread is what is between top and tail, filled says
           \* that tail > 0, pos how far the file has been read, closes how
           \* often the FILE has been closed
  call,    \* the call that runs, the bytes it has put into its CWB, and where
           \* in the file it began
  ret      \* the last call's result, and the bytes of the file it used up

inVars == <<in, call, ret>>

Call(op, cwb, from) == [op |-> op, cwb |-> cwb, from |-> from]
Idle == Call("none", <<>>, 0)
Null == <<"null">>

Reading(op) == call.op = op
\* getByte, once it has refilled the buffer
Refilled == Reading("getByte refilled")
At == in.pos - Len(in.unread)    \* the byte of the file that is next
Empty == in.unread = <<>>

Stream(running, unread, filled, pos, closes) ==
  [running |-> running, unread |-> unread, filled |-> filled, pos |-> pos,
   closes |-> closes]
Take(n) ==
  Stream(in.running, SubSeq(in.unread, n + 1, Len(in.unread)), in.filled,
         in.pos, in.closes)
TakeAll == Stream(in.running, <<>>, FALSE, in.pos, in.closes)

Reader(open) ==    \* new_FILE, or new_io2ReadBuffer of the file's bytes
  IF open THEN Stream(TRUE, <<>>, FALSE, 0, 0)
  ELSE Stream(FALSE, file, file # <<>>, Len(file), 0)

-----------------------------------------------------------------------------
(* _read, which every call does when it finds the buffer used up.          *)

MustRead == call.op # "none" /\ in.running /\ Empty

Refill ==
  /\ MustRead
  /\ \E k \in 1 .. BufSize :
       /\ in.pos + k <= Len(file)
       /\ in' = Stream(in.running, Bytes(in.pos, in.pos + k), TRUE, in.pos + k,
                      in.closes)
  /\ call' = IF Reading("getByte") THEN Call("getByte refilled", <<>>, At) ELSE call
  /\ UNCHANGED <<file, ret>>

\* mutant of NothingRead: at the end of the file the stream stays open
NothingReadOpen ==
  /\ MustRead
  /\ in' = in
  /\ UNCHANGED <<file, call, ret>>

\* fread returns 0, at the end or because of an error: io2_closeFILE.
NothingRead ==
  /\ MustRead
  /\ in' = Stream(FALSE, in.unread, in.filled, in.pos, in.closes + 1)
  /\ UNCHANGED <<file, call, ret>>

-----------------------------------------------------------------------------
(* The calls.                                                              *)

Begin(op) ==
  /\ call = Idle
  /\ call' = Call(op, <<>>, At)
  /\ UNCHANGED <<file, in, ret>>

\* The call returns value and leaves the stream as after.
Return(value, after) ==
  /\ in' = after
  /\ call' = Idle
  /\ ret' = [op |-> call.op, value |-> value, from |-> call.from,
             to |-> after.pos - Len(after.unread)]
  /\ UNCHANGED file

\* CWB_newLine: without the CR before the NL.
NewLine(s) == IF s # <<>> /\ Last(s) = CR THEN Front(s) ELSE s

LineFound ==
  /\ Reading("readLine") /\ in.running
  /\ \E i \in 1 .. Len(in.unread) :
       /\ in.unread[i] = NL
       /\ ~ HasNL(SubSeq(in.unread, 1, i - 1))
       /\ Return(NewLine(call.cwb \o SubSeq(in.unread, 1, i - 1)), Take(i))

\* mutant of LineGoesOn: the line begins with the buffer it ends in
LineForgotten ==
  /\ Reading("readLine") /\ in.running
  /\ ~ Empty /\ ~ HasNL(in.unread)
  /\ call' = Call(call.op, in.unread, call.from)
  /\ in' = Take(Len(in.unread))
  /\ UNCHANGED <<file, ret>>

LineGoesOn ==
  /\ Reading("readLine") /\ in.running
  /\ ~ Empty /\ ~ HasNL(in.unread)
  /\ call' = Call(call.op, call.cwb \o in.unread, call.from)
  /\ in' = Take(Len(in.unread))
  /\ UNCHANGED <<file, ret>>

\* All that a read buffer holds is one line; the bytes of a line that the
\* file does not end are dropped.
LastLine ==
  /\ Reading("readLine") /\ ~ in.running
  /\ IF Empty THEN Return(Null, in)
     ELSE Return(NewLine(call.cwb \o in.unread), TakeAll)

ReadMore ==
  /\ Reading("readAll") /\ in.running
  /\ ~ Empty
  /\ call' = Call(call.op, call.cwb \o in.unread, call.from)
  /\ in' = TakeAll
  /\ UNCHANGED <<file, ret>>

AllRead ==
  /\ Reading("readAll") /\ ~ in.running
  /\ Return(call.cwb, in)

\* io2_getc.  EOF, or a byte that was in the buffer, as a kchar_t.
GetByte ==
  /\ Reading("getByte")
  /\ \/ ~ Empty /\ Return(<<Head(in.unread)>>, Take(1))
     \/ Empty /\ ~ in.running /\ Return(Null, in)

\* The answer for a byte that is converted from char to int, where char is
\* signed: another number than the byte if it is above 127.
AsChar(ch) ==
  IF ch = xFF THEN Null
  ELSE IF ch \in High THEN <<"negative", ch>>
  ELSE <<ch>>

\* The first byte of a refill is not cast to kchar_t.
GetByteRefilled ==
  Refilled /\ ~ Empty /\ Return(AsChar(Head(in.unread)), Take(1))

\* io2_close.  io2_flush takes what was read for something to be written:
\* writing to a FILE opened for reading fails and closes it, and then it is
\* closed again, which is undefined.
CloseInput ==
  /\ call = Idle
  /\ in.running
  /\ in' = Stream(FALSE, <<>>, FALSE, in.pos,
                  in.closes + (IF in.filled THEN 2 ELSE 1))
  /\ UNCHANGED <<file, call, ret>>

ReadStep ==
  \/ Refill
  \/ NothingRead
  \/ LineFound
  \/ LineGoesOn
  \/ LastLine
  \/ ReadMore
  \/ AllRead
  \/ GetByte
  \/ GetByteRefilled

BeginRead == \E op \in {"readLine", "readAll", "getByte"} : Begin(op)

-----------------------------------------------------------------------------
(* Properties.                                                             *)

\* What a call returns is what the file has where the last call ended, in
\* however many pieces it came: a whole line, the rest, or a byte; and no
\* line goes past its end.  A line or byte that is refused, and the end of
\* readAll, mean that the stream is closed and its buffer used up, with two
\* exceptions.  getByte answers the first byte of a refill as a char, so
\* that 255, alone of all bytes, reads like the end; and of a stream
\* over bytes readAll takes nothing at all, whatever is there.
ReadsAreRight ==
  LET used == Bytes(ret.from, ret.to) IN
  CASE ret.op = "readLine" /\ ret.value # Null ->
         \/ used # <<>> /\ Last(used) = NL /\ ~ HasNL(Front(used))
              /\ ret.value = NewLine(Front(used))
         \/ ~ in.running /\ in.closes = 0 /\ ret.value = NewLine(used)
    [] ret.op = "readLine" /\ ret.value = Null ->
         ~ in.running /\ ~ HasNL(used) /\ Empty
    [] ret.op = "readAll" ->
         /\ ~ in.running /\ ret.value = used
         /\ IF in.closes = 0 THEN used = <<>> ELSE Empty
    [] ret.op = "getByte" ->
         IF ret.value = Null THEN used = <<>> /\ ~ in.running /\ Empty
         ELSE Len(used) = 1 /\ ret.value = used
    [] ret.op = "getByte refilled" ->
         Len(used) = 1 /\ ret.value = AsChar(Head(used))
    [] OTHER -> TRUE
=============================================================================
