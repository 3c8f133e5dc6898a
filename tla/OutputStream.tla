---------------------------- MODULE OutputStream ---------------------------
(***************************************************************************)
(* A kio_t that writes a FILE through a buffer (src/main/stream.c).  A     *)
(* write that does not fit first writes the buffer out; println flushes    *)
(* when the stream is set to (OutputStream_setAutoFlush).                  *)
(*                                                                         *)
(* fwrite and fflush may write less than they are told, which nobody looks *)
(* at; what they leave in the FILE counts as lost.  If fwrite takes        *)
(* nothing at all the stream is closed, although its buffer goes on being  *)
(* filled.  Writing to a closed FILE, or closing it again, is undefined:   *)
(* nothing follows.                                                        *)
(***************************************************************************)
EXTENDS FileBytes

CONSTANT OutSizes    \* the sizes of buffers, 0 for a stream without one
ASSUME OutSizesAssumption == OutSizes \subseteq Nat

VARIABLES
  out,         \* the kio_t: is it running, its buffer up to tail and its size,
               \* is it flushed at every line, and whether what it has done is
               \* undefined
  written,     \* history: what the program has written to the open stream
  whole        \* history: nothing has fallen short, failed or been dropped

outVars == <<out, written, whole>>

Out(running, buf, o, undefined) ==    \* with the settings of o
  [running |-> running, buf |-> buf, bufsiz |-> o.bufsiz,
   autoflush |-> o.autoflush, undefined |-> undefined]

Writer(size, flush) ==
  Out(TRUE, <<>>, [bufsiz |-> size, autoflush |-> flush], FALSE)

-----------------------------------------------------------------------------
(* The functions of stream.c take a stream, its file and whether it is     *)
(* whole, and answer what may have become of them.                         *)

Io(o, f, w) == [out |-> o, file |-> f, whole |-> w]
State == Io(out, file, whole)

Broken(o) == Io(Out(o.out.running, o.out.buf, o.out, TRUE), o.file, o.whole)
Stopped(o, w) == Io(Out(FALSE, o.out.buf, o.out, o.out.undefined), o.file, w)
Buffered(o, s) ==
  Io(Out(o.out.running, s, o.out, o.out.undefined), o.file, o.whole)

\* io2_writeFILE: some of the bytes or all are written, or there is an error
\* that closes the FILE.
WriteFILE(o, s) ==
  IF ~ o.out.running THEN {Broken(o)}
  ELSE IF s = <<>> THEN {o}
  ELSE {Io(o.out, o.file \o SubSeq(s, 1, k), o.whole /\ k = Len(s)) :
          k \in 0 .. Len(s)}
       \cup {Stopped(o, FALSE)}

Room(o, s) == Len(o.out.buf) + Len(s) < o.out.bufsiz

WriteOut(o) == {Buffered(w, <<>>) : w \in WriteFILE(o, o.out.buf)}

\* mutant of Write: what does not fit is written before what is in the buffer
WritePast(o, s) ==
  IF o.out.bufsiz = 0 THEN WriteFILE(o, s)
  ELSE IF Room(o, s) THEN {Buffered(o, o.out.buf \o s)}
  ELSE IF Len(s) < o.out.bufsiz THEN {Buffered(w, s) : w \in WriteOut(o)}
  ELSE WriteFILE(o, s)

Write(o, s) ==
  IF o.out.bufsiz = 0 THEN WriteFILE(o, s)
  ELSE IF Room(o, s) THEN {Buffered(o, o.out.buf \o s)}
  ELSE IF Len(s) < o.out.bufsiz THEN {Buffered(w, s) : w \in WriteOut(o)}
  ELSE UNION {WriteFILE(w, s) : w \in WriteOut(o)}

Flush(o) == IF o.out.buf = <<>> THEN {o} ELSE WriteOut(o)

CloseFILE(o) == IF o.out.running THEN Stopped(o, o.whole) ELSE Broken(o)

WriteEOL(o) ==
  IF o.out.autoflush THEN UNION {Flush(w) : w \in Write(o, <<NL>>)}
  ELSE Write(o, <<NL>>)

-----------------------------------------------------------------------------
(* The methods.                                                            *)

Becomes(o) == out' = o.out /\ file' = o.file /\ whole' = o.whole

Writes(s) == written' = IF out.running THEN written \o s ELSE written

\* OutputStream.print and write
print(s) ==
  /\ ~ out.undefined
  /\ \E o \in Write(State, s) : Becomes(o)
  /\ Writes(s)

\* OutputStream.println
println(s) ==
  /\ ~ out.undefined
  /\ \E w \in Write(State, s) : \E o \in WriteEOL(w) : Becomes(o)
  /\ Writes(Append(s, NL))

\* OutputStream.flush
FlushOutput ==
  /\ ~ out.undefined
  /\ \E o \in Flush(State) : Becomes(o)
  /\ UNCHANGED written

\* OutputStream.close
CloseOutput ==
  /\ ~ out.undefined
  /\ out.running
  /\ \E o \in Flush(State) : Becomes(CloseFILE(o))
  /\ UNCHANGED written

\* The collector finalizes the stream: io2_free closes it, without a flush.
FreeOutput ==
  /\ ~ out.undefined
  /\ out' = Out(FALSE, <<>>, out, TRUE)
  /\ whole' = (whole /\ out.buf = <<>>)
  /\ UNCHANGED <<file, written>>

-----------------------------------------------------------------------------
(* Properties.                                                             *)

\* Everything written is in the file, and behind it in the buffer, in the
\* order it was written, until a write has fallen short or failed or the
\* stream was dropped with bytes in its buffer; and in the file alone once
\* the stream is closed.
OutputInOrder ==
  whole => written = file \o (IF out.running THEN out.buf ELSE <<>>)
=============================================================================
