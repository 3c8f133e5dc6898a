--------------------------- MODULE Streams_proofs ---------------------------
(***************************************************************************)
(* The streams of one file, for all texts, scripts and sizes of buffers:   *)
(* what is written arrives in order, what is read is what is there, and a  *)
(* script is cut into chunks that are the script.                          *)
(***************************************************************************)
EXTENDS Streams, SequenceTheorems, FiniteSetTheorems, WellFoundedInduction, TLAPS

-----------------------------------------------------------------------------
(* Bytes of the file.                                                      *)

LEMMA NLIsByte == NL \in Byte
BY DEF Byte

LEMMA JoinsAssociate ==
  \A s, t, u \in Seq(Byte) : (s \o t) \o u = s \o (t \o u)
BY ConcatAssociative

LEMMA EmptyBytes ==
  ASSUME file \in Seq(Byte), NEW a \in Nat
  PROVE  Bytes(a, a) = <<>>
BY SubSeqEmpty DEF Bytes

LEMMA BytesType ==
  ASSUME file \in Seq(Byte), NEW a \in Nat, NEW b \in Nat, a <= b, b <= Len(file)
  PROVE  /\ Bytes(a, b) \in Seq(Byte)
         /\ Len(Bytes(a, b)) = b - a
         /\ \A i \in 1 .. (b - a) : Bytes(a, b)[i] = file[a + i]
BY SubSeqProperties DEF Bytes

LEMMA BytesJoin ==
  ASSUME file \in Seq(Byte), NEW a \in Nat, NEW b \in Nat, NEW c \in Nat,
         a <= b, b <= c, c <= Len(file)
  PROVE  Bytes(a, b) \o Bytes(b, c) = Bytes(a, c)
BY ConcatAdjacentSubSeq DEF Bytes

-----------------------------------------------------------------------------
(* The functions that write.                                               *)

\* A stream without a buffer has nothing in it.
OutType ==
  {o \in [running : BOOLEAN, buf : Seq(Byte), bufsiz : Nat,
          autoflush : BOOLEAN, undefined : BOOLEAN] :
     o.bufsiz = 0 => o.buf = <<>>}

IoType == [out : OutType, file : Seq(Byte), whole : BOOLEAN]

\* What has been written and not lost: the file, and behind it the buffer.
Content(o) == o.file \o (IF o.out.running THEN o.out.buf ELSE <<>>)

\* From o to w, s has been written: the file has only grown; and if nothing
\* was lost, s is behind what was there.
Delivers(o, s, w) ==
  /\ w \in IoType
  /\ \E t \in Seq(Byte) : w.file = o.file \o t
  /\ w.whole => /\ o.whole
                /\ w.out.running = o.out.running
                /\ Content(w) = IF o.out.running THEN Content(o) \o s
                                ELSE Content(o)

LEMMA IoParts ==
  ASSUME NEW o \in IoType
  PROVE  /\ o.out \in OutType
         /\ o.out.running \in BOOLEAN /\ o.out.undefined \in BOOLEAN
         /\ o.out.buf \in Seq(Byte) /\ o.out.bufsiz \in Nat
         /\ o.out.bufsiz = 0 => o.out.buf = <<>>
         /\ o.file \in Seq(Byte)
         /\ o.whole \in BOOLEAN
BY DEF IoType, OutType

\* What becomes of the stream when it is used after its end, stopped, or
\* given another buffer.
LEMMA BrokenOut ==
  ASSUME NEW o \in IoType
  PROVE  /\ Broken(o) \in IoType
         /\ Broken(o).out.running = o.out.running
         /\ Broken(o).out.buf = o.out.buf
         /\ Broken(o).out.bufsiz = o.out.bufsiz
         /\ Broken(o).out.autoflush = o.out.autoflush
         /\ Broken(o).file = o.file
         /\ Broken(o).whole = o.whole
BY DEF Broken, Out, Io, OutType, IoType

LEMMA StoppedOut ==
  ASSUME NEW o \in IoType, NEW w \in BOOLEAN
  PROVE  /\ Stopped(o, w) \in IoType
         /\ Stopped(o, w).out.running = FALSE
         /\ Stopped(o, w).out.buf = o.out.buf
         /\ Stopped(o, w).out.bufsiz = o.out.bufsiz
         /\ Stopped(o, w).out.autoflush = o.out.autoflush
         /\ Stopped(o, w).file = o.file
         /\ Stopped(o, w).whole = w
BY DEF Stopped, Out, Io, OutType, IoType

LEMMA BufferedOut ==
  ASSUME NEW o \in IoType, NEW s \in Seq(Byte), o.out.bufsiz = 0 => s = <<>>
  PROVE  /\ Buffered(o, s) \in IoType
         /\ Buffered(o, s).out.running = o.out.running
         /\ Buffered(o, s).out.buf = s
         /\ Buffered(o, s).out.bufsiz = o.out.bufsiz
         /\ Buffered(o, s).out.autoflush = o.out.autoflush
         /\ Buffered(o, s).file = o.file
         /\ Buffered(o, s).whole = o.whole
BY DEF Buffered, Out, Io, OutType, IoType

LEMMA DeliversType ==
  ASSUME NEW o \in IoType, NEW s, NEW w, Delivers(o, s, w)
  PROVE  w \in IoType
BY DEF Delivers

\* One piece after the other.
LEMMA DeliversBoth ==
  ASSUME NEW o \in IoType, NEW s \in Seq(Byte), NEW v, Delivers(o, s, v),
         NEW t \in Seq(Byte), NEW w, Delivers(v, t, w)
  PROVE  Delivers(o, s \o t, w)
<1>1. w \in IoType /\ v \in IoType
  BY DEF Delivers
<1>2. \E x \in Seq(Byte) : w.file = o.file \o x
  <2>1. PICK x \in Seq(Byte) : v.file = o.file \o x
    BY DEF Delivers
  <2>2. PICK y \in Seq(Byte) : w.file = v.file \o y
    BY DEF Delivers
  <2>3. w.file = o.file \o (x \o y) /\ x \o y \in Seq(Byte)
    <3>1. o.file \in Seq(Byte)
      BY IoParts
    <3>2. (o.file \o x) \o y = o.file \o (x \o y)
      BY <3>1, JoinsAssociate
    <3> QED BY <2>1, <2>2, <3>2, ConcatProperties
  <2> QED BY <2>3
<1>3. Content(o) \in Seq(Byte)
  BY IoParts, ConcatProperties, EmptySeq DEF Content
<1>4. (Content(o) \o s) \o t = Content(o) \o (s \o t)
  BY <1>3, ConcatAssociative
<1> QED BY <1>1, <1>2, <1>4 DEF Delivers

LEMMA DeliversNothing ==
  ASSUME NEW o \in IoType
  PROVE  Delivers(o, <<>>, o)
<1>1. <<>> \in Seq(Byte) /\ o.file = o.file \o <<>>
  BY IoParts, ConcatEmptySeq, EmptySeq
<1>2. Content(o) \in Seq(Byte)
  BY IoParts, ConcatProperties, EmptySeq DEF Content
<1>3. Content(o) = Content(o) \o <<>>
  BY <1>2, ConcatEmptySeq
<1> QED BY <1>1, <1>3 DEF Delivers

LEMMA WriteFILEDelivers ==
  ASSUME NEW o \in IoType, NEW s \in Seq(Byte), NEW w \in WriteFILE(o, s)
  PROVE  /\ w \in IoType
         /\ w.out.buf = o.out.buf /\ w.out.bufsiz = o.out.bufsiz
         /\ w.out.autoflush = o.out.autoflush
         /\ \E t \in Seq(Byte) : w.file = o.file \o t
         /\ w.whole => /\ o.whole
                       /\ w.out.running = o.out.running
                       /\ w.file = IF o.out.running THEN o.file \o s
                                   ELSE o.file
<1>1. /\ <<>> \in Seq(Byte)
      /\ o.file = o.file \o <<>>
  BY IoParts, ConcatEmptySeq, EmptySeq
<1>2. CASE ~ o.out.running
  <2>1. w = Broken(o)
    BY <1>2 DEF WriteFILE
  <2> QED BY <1>1, <1>2, <2>1, BrokenOut
<1>3. CASE o.out.running /\ s = <<>>
  <2>1. w = o
    BY <1>3 DEF WriteFILE
  <2> QED BY <1>1, <1>3, <2>1, IoParts
<1>4. CASE o.out.running /\ s # <<>>
  <2>1. CASE w = Stopped(o, FALSE)
    BY <1>1, <2>1, StoppedOut
  <2>2. ASSUME NEW k \in 0 .. Len(s),
               w = Io(o.out, o.file \o SubSeq(s, 1, k), o.whole /\ k = Len(s))
        PROVE  /\ w \in IoType
               /\ w.out = o.out
               /\ \E t \in Seq(Byte) : w.file = o.file \o t
               /\ w.whole => o.whole /\ w.file = o.file \o s
    <3>1. SubSeq(s, 1, k) \in Seq(Byte)
      BY SubSeqProperties, LenProperties
    <3>2. k = Len(s) => SubSeq(s, 1, k) = s
      BY SubSeqFull
    <3>3. o.file \o SubSeq(s, 1, k) \in Seq(Byte)
      BY <3>1, IoParts, ConcatProperties
    <3>4. (o.whole /\ k = Len(s)) \in BOOLEAN
      OBVIOUS
    <3>5. /\ w \in IoType /\ w.out = o.out
          /\ w.file = o.file \o SubSeq(s, 1, k)
          /\ w.whole = (o.whole /\ k = Len(s))
      BY <2>2, <3>3, <3>4, IoParts DEF Io, IoType
    <3> QED BY <3>1, <3>2, <3>5
  <2>3. \/ w = Stopped(o, FALSE)
        \/ \E k \in 0 .. Len(s) :
             w = Io(o.out, o.file \o SubSeq(s, 1, k), o.whole /\ k = Len(s))
    BY <1>4 DEF WriteFILE
  <2> QED BY <1>4, <2>1, <2>2, <2>3
<1> QED BY <1>2, <1>3, <1>4, IoParts

\* Writing the buffer out loses nothing and leaves it empty.
LEMMA WriteOutDelivers ==
  ASSUME NEW o \in IoType, NEW w \in WriteOut(o)
  PROVE  /\ Delivers(o, <<>>, w)
         /\ w.out.buf = <<>>
         /\ w.out.bufsiz = o.out.bufsiz
         /\ w.out.autoflush = o.out.autoflush
<1>1. PICK v \in WriteFILE(o, o.out.buf) : w = Buffered(v, <<>>)
  BY DEF WriteOut
<1>2. o.out.buf \in Seq(Byte) /\ <<>> \in Seq(Byte)
  BY IoParts, EmptySeq
<1>3. /\ v \in IoType
      /\ v.out.buf = o.out.buf /\ v.out.bufsiz = o.out.bufsiz
      /\ v.out.autoflush = o.out.autoflush
      /\ \E t \in Seq(Byte) : v.file = o.file \o t
      /\ v.whole => /\ o.whole
                    /\ v.out.running = o.out.running
                    /\ v.file = IF o.out.running THEN o.file \o o.out.buf
                                ELSE o.file
  BY <1>1, <1>2, WriteFILEDelivers
<1>4. /\ w \in IoType
      /\ w.out.running = v.out.running /\ w.out.buf = <<>>
      /\ w.out.bufsiz = v.out.bufsiz /\ w.out.autoflush = v.out.autoflush
      /\ w.file = v.file /\ w.whole = v.whole
  BY <1>1, <1>2, <1>3, BufferedOut
<1>5. Content(o) \in Seq(Byte) /\ w.file \in Seq(Byte)
  BY <1>4, IoParts, ConcatProperties, EmptySeq DEF Content
<1>6. Content(o) \o <<>> = Content(o) /\ w.file \o <<>> = w.file
  BY <1>5, ConcatEmptySeq
<1>7. o.file \o <<>> = o.file
  BY IoParts, ConcatEmptySeq
<1>8. w.whole => Content(w) = Content(o)
  BY <1>3, <1>4, <1>6, <1>7 DEF Content
<1> QED BY <1>3, <1>4, <1>6, <1>8 DEF Delivers

\* Bytes that go to the FILE with nothing in the buffer before them.
LEMMA DirectDelivers ==
  ASSUME NEW o \in IoType, o.out.buf = <<>>, NEW s \in Seq(Byte),
         NEW w \in WriteFILE(o, s)
  PROVE  /\ Delivers(o, s, w)
         /\ w.out.bufsiz = o.out.bufsiz
         /\ w.out.autoflush = o.out.autoflush
<1>1. /\ w \in IoType
      /\ w.out.buf = <<>> /\ w.out.bufsiz = o.out.bufsiz
      /\ w.out.autoflush = o.out.autoflush
      /\ \E t \in Seq(Byte) : w.file = o.file \o t
      /\ w.whole => /\ o.whole
                    /\ w.out.running = o.out.running
                    /\ w.file = IF o.out.running THEN o.file \o s ELSE o.file
  BY WriteFILEDelivers
<1>2. w.file \o <<>> = w.file /\ o.file \o <<>> = o.file
  BY <1>1, IoParts, ConcatEmptySeq
<1>3. Content(w) = w.file /\ Content(o) = o.file
  BY <1>1, <1>2 DEF Content
<1> QED BY <1>1, <1>3 DEF Delivers

\* Bytes that go to the buffer.
LEMMA BufferingDelivers ==
  ASSUME NEW o \in IoType, NEW s \in Seq(Byte), o.out.bufsiz # 0
  PROVE  /\ Delivers(o, s, Buffered(o, o.out.buf \o s))
         /\ Buffered(o, o.out.buf \o s).out.bufsiz = o.out.bufsiz
         /\ Buffered(o, o.out.buf \o s).out.autoflush = o.out.autoflush
<1>1. /\ o.out.buf \in Seq(Byte) /\ o.file \in Seq(Byte)
      /\ <<>> \in Seq(Byte)
  BY IoParts, EmptySeq
<1>2. PICK b \in Seq(Byte) : b = o.out.buf \o s
  BY <1>1, ConcatProperties
<1>3. PICK w \in IoType : w = Buffered(o, b)
  BY BufferedOut
<1>4. /\ w.out.running = o.out.running /\ w.out.buf = b
      /\ w.out.bufsiz = o.out.bufsiz /\ w.out.autoflush = o.out.autoflush
      /\ w.file = o.file /\ w.whole = o.whole
  BY <1>3, BufferedOut
<1>5. o.file \o b = (o.file \o o.out.buf) \o s
  BY <1>1, <1>2, JoinsAssociate, ZenonT(40)
<1>6. Content(w) = IF o.out.running THEN Content(o) \o s ELSE Content(o)
  BY <1>4, <1>5 DEF Content
<1>7. \E t \in Seq(Byte) : w.file = o.file \o t
  BY <1>1, <1>4, ConcatEmptySeq
<1>8. Delivers(o, s, w)
  BY <1>4, <1>6, <1>7 DEF Delivers
<1> QED BY <1>2, <1>3, <1>4, <1>8

\* io2_write.
LEMMA WriteDelivers ==
  ASSUME NEW o \in IoType, NEW s \in Seq(Byte), NEW w \in Write(o, s)
  PROVE  /\ Delivers(o, s, w)
         /\ w.out.autoflush = o.out.autoflush
<1>1. CASE o.out.bufsiz = 0
  <2>1. o.out.buf = <<>> /\ w \in WriteFILE(o, s)
    BY <1>1, IoParts DEF Write
  <2> QED BY <2>1, DirectDelivers
<1>2. CASE o.out.bufsiz # 0 /\ Room(o, s)
  <2>1. w = Buffered(o, o.out.buf \o s)
    BY <1>2 DEF Write
  <2> QED BY <1>2, <2>1, BufferingDelivers
<1>3. <<>> \in Seq(Byte) /\ <<>> \o s = s
  BY EmptySeq, ConcatEmptySeq
<1>4. CASE /\ o.out.bufsiz # 0 /\ ~ Room(o, s)
           /\ Len(s) < o.out.bufsiz
  <2>1. PICK v \in WriteOut(o) : w = Buffered(v, s)
    BY <1>4 DEF Write
  <2>2. /\ Delivers(o, <<>>, v) /\ v \in IoType
        /\ v.out.buf = <<>> /\ v.out.bufsiz # 0
        /\ v.out.autoflush = o.out.autoflush
    BY <1>4, <2>1, WriteOutDelivers, DeliversType
  <2>3. /\ Delivers(v, s, Buffered(v, v.out.buf \o s))
        /\ Buffered(v, v.out.buf \o s).out.autoflush = v.out.autoflush
    BY <2>2, BufferingDelivers
  <2>4. v.out.buf \o s = s
    BY <1>3, <2>2
  <2>5. Delivers(v, s, w) /\ w.out.autoflush = o.out.autoflush
    BY <2>1, <2>2, <2>3, <2>4
  <2>6. Delivers(o, <<>> \o s, w)
    BY <1>3, <2>2, <2>5, DeliversBoth
  <2> QED BY <1>3, <2>5, <2>6
<1>5. CASE /\ o.out.bufsiz # 0 /\ ~ Room(o, s)
           /\ ~ (Len(s) < o.out.bufsiz)
  <2>1. PICK v \in WriteOut(o) : w \in WriteFILE(v, s)
    BY <1>5 DEF Write
  <2>2. /\ Delivers(o, <<>>, v) /\ v \in IoType /\ v.out.buf = <<>>
        /\ v.out.autoflush = o.out.autoflush
    BY <2>1, WriteOutDelivers, DeliversType
  <2>3. Delivers(v, s, w) /\ w.out.autoflush = o.out.autoflush
    BY <2>1, <2>2, DirectDelivers
  <2>4. Delivers(o, <<>> \o s, w)
    BY <1>3, <2>2, <2>3, DeliversBoth
  <2> QED BY <1>3, <2>3, <2>4
<1> QED BY <1>1, <1>2, <1>4, <1>5

\* io2_flush: what is in the buffer of a running stream is then in the file.
LEMMA FlushDelivers ==
  ASSUME NEW o \in IoType, NEW w \in Flush(o)
  PROVE  Delivers(o, <<>>, w) /\ w.out.buf = <<>>
<1>1. CASE o.out.buf = <<>>
  <2>1. w = o
    BY <1>1 DEF Flush
  <2> QED BY <1>1, <2>1, DeliversNothing
<1>2. CASE o.out.buf # <<>>
  BY <1>2, WriteOutDelivers DEF Flush
<1> QED BY <1>1, <1>2

\* knh_write_EOL.
LEMMA WriteEOLDelivers ==
  ASSUME NEW o \in IoType, NEW w \in WriteEOL(o)
  PROVE  Delivers(o, <<NL>>, w)
<1>1. <<NL>> \in Seq(Byte) /\ <<>> \in Seq(Byte) /\ <<NL>> \o <<>> = <<NL>>
  BY NLIsByte, EmptySeq, ConcatEmptySeq
<1>2. CASE ~ o.out.autoflush
  BY <1>1, <1>2, WriteDelivers DEF WriteEOL
<1>3. CASE o.out.autoflush
  <2>1. PICK v \in Write(o, <<NL>>) : w \in Flush(v)
    BY <1>3 DEF WriteEOL
  <2>2. Delivers(o, <<NL>>, v) /\ v \in IoType
    BY <1>1, <2>1, WriteDelivers, DeliversType
  <2>3. Delivers(v, <<>>, w)
    BY <2>1, <2>2, FlushDelivers
  <2>4. Delivers(o, <<NL>> \o <<>>, w)
    BY <1>1, <2>2, <2>3, DeliversBoth
  <2> QED BY <1>1, <2>4
<1> QED BY <1>2, <1>3

-----------------------------------------------------------------------------
(* What the program has written is in the file, in order.                  *)

OutInv == State \in IoType /\ written \in Seq(Byte) /\ OutputInOrder

LEMMA StateParts ==
  /\ State.out = out /\ State.file = file /\ State.whole = whole
  /\ (State \in IoType) = (out \in OutType /\ file \in Seq(Byte)
                             /\ whole \in BOOLEAN)
  /\ OutputInOrder = (whole => written = Content(State))
BY DEF State, Io, IoType, OutputInOrder, Content

\* The file has grown by some bytes, or none.
Grows == \E t \in Seq(Byte) : file' = file \o t

LEMMA Delivered ==
  ASSUME OutInv, NEW s \in Seq(Byte), NEW w, Delivers(State, s, w),
         Becomes(w), Writes(s)
  PROVE  OutInv' /\ Grows
<1>1. State \in IoType /\ w \in IoType
  BY DEF OutInv, Delivers
<1>2. /\ out \in OutType /\ file \in Seq(Byte) /\ whole \in BOOLEAN
      /\ State.out = out /\ State.file = file /\ State.whole = whole
      /\ whole => written = Content(State)
      /\ written \in Seq(Byte)
  BY <1>1, StateParts DEF OutInv
<1>3. out' = w.out /\ file' = w.file /\ whole' = w.whole
  BY DEF Becomes
<1>4. State' = w
  BY <1>1, <1>3 DEF State, Io, IoType
<1>5. written' \in Seq(Byte)
  BY <1>2, ConcatProperties DEF Writes
<1>6. Grows
  BY <1>2, <1>3 DEF Grows, Delivers
<1>7. whole' => written' = Content(w)
  BY <1>2, <1>3 DEF Delivers, Writes
<1>8. OutputInOrder'
  BY <1>3, <1>7 DEF OutputInOrder, Content
<1> QED BY <1>1, <1>4, <1>5, <1>6, <1>8 DEF OutInv

LEMMA TextIsBytes ==
  /\ \A s \in Texts \cup Scripts : s \in Seq(Byte)
  /\ "null" \notin Byte
BY TextsAssumption

\* Every method of the output stream.
LEMMA ProduceDelivers ==
  ASSUME OutInv, Produce
  PROVE  OutInv' /\ Grows
<1>1. State \in IoType
  BY DEF OutInv
<1>2. <<>> \in Seq(Byte) /\ <<NL>> \in Seq(Byte)
  BY NLIsByte, EmptySeq
<1>3. ASSUME UNCHANGED written
      PROVE  Writes(<<>>)
  BY <1>3, ConcatEmptySeq DEF Writes, OutInv
<1>4. ASSUME NEW s \in Texts, print(s)
      PROVE  OutInv' /\ Grows
  <2>1. s \in Seq(Byte)
    BY TextIsBytes
  <2>2. PICK w \in Write(State, s) : Becomes(w)
    BY <1>4 DEF print
  <2>3. Delivers(State, s, w)
    BY <1>1, <2>1, <2>2, WriteDelivers
  <2>4. Writes(s)
    BY <1>4 DEF print
  <2> QED BY <2>1, <2>2, <2>3, <2>4, Delivered
<1>5. ASSUME NEW s \in Texts, println(s)
      PROVE  OutInv' /\ Grows
  <2>1. s \in Seq(Byte)
    BY TextIsBytes
  <2>2. PICK v \in Write(State, s) : \E o \in WriteEOL(v) : Becomes(o)
    BY <1>5 DEF println
  <2>3. PICK w \in WriteEOL(v) : Becomes(w)
    BY <2>2
  <2>4. Delivers(State, s, v) /\ v \in IoType
    BY <1>1, <2>1, <2>2, WriteDelivers, DeliversType
  <2>5. Delivers(v, <<NL>>, w)
    BY <2>3, <2>4, WriteEOLDelivers
  <2>6. Delivers(State, s \o <<NL>>, w)
    BY <1>1, <1>2, <2>1, <2>4, <2>5, DeliversBoth
  <2>7. Append(s, NL) = s \o <<NL>>
    BY <2>1, NLIsByte, AppendIsConcat
  <2>8. PICK t \in Seq(Byte) : t = s \o <<NL>>
    BY <1>2, <2>1, ConcatProperties
  <2>9. Delivers(State, t, w) /\ Writes(t)
    BY <1>5, <2>6, <2>7, <2>8 DEF println
  <2> QED BY <2>3, <2>9, Delivered
<1>6. CASE FlushOutput
  <2>1. PICK w \in Flush(State) : Becomes(w)
    BY <1>6 DEF FlushOutput
  <2>2. Delivers(State, <<>>, w)
    BY <1>1, <2>1, FlushDelivers
  <2>3. Writes(<<>>)
    BY <1>3, <1>6 DEF FlushOutput
  <2> QED BY <1>2, <2>1, <2>2, <2>3, Delivered
<1>7. CASE CloseOutput
  <2>1. PICK v \in Flush(State) : Becomes(CloseFILE(v))
    BY <1>7 DEF CloseOutput
  <2>2. Delivers(State, <<>>, v) /\ v.out.buf = <<>> /\ v \in IoType
    BY <1>1, <2>1, FlushDelivers, DeliversType
  <2>3. PICK w : w = CloseFILE(v)
    OBVIOUS
  <2>4. /\ w \in IoType /\ w.out.buf = <<>>
        /\ w.file = v.file /\ w.whole = v.whole
    <3>1. PICK b \in BOOLEAN : b = v.whole
      BY <2>2, IoParts
    <3>2. CASE v.out.running
      <4>1. w = Stopped(v, b)
        BY <2>3, <3>1, <3>2 DEF CloseFILE
      <4> QED BY <2>2, <3>1, <4>1, StoppedOut
    <3>3. CASE ~ v.out.running
      <4>1. w = Broken(v)
        BY <2>3, <3>3 DEF CloseFILE
      <4> QED BY <2>2, <4>1, BrokenOut
    <3> QED BY <3>2, <3>3
  <2>5. v.file \in Seq(Byte) /\ v.file \o <<>> = v.file
    BY <2>2, IoParts, ConcatEmptySeq
  <2>6. Content(w) = v.file /\ Content(v) = v.file
    BY <2>2, <2>4, <2>5 DEF Content
  <2>7. out' = w.out /\ file' = w.file /\ whole' = w.whole
    BY <2>1, <2>3 DEF Becomes
  <2>8. out \in OutType /\ file \in Seq(Byte) /\ State.file = file
        /\ State.out = out /\ State.whole = whole
        /\ (whole => written = Content(State)) /\ written \in Seq(Byte)
    BY <1>1, StateParts DEF OutInv
  <2>9. State' = w
    BY <2>4, <2>7 DEF State, Io, IoType
  <2>10. Content(State) \o <<>> = Content(State)
    <3>1. Content(State) \in Seq(Byte)
      BY <1>1, IoParts, ConcatProperties, EmptySeq DEF Content
    <3> QED BY <3>1, ConcatEmptySeq
  <2>11. whole' => written = Content(w)
    BY <2>2, <2>4, <2>6, <2>7, <2>8, <2>10 DEF Delivers
  <2>12. written' = written
    BY <1>7 DEF CloseOutput
  <2>13. OutputInOrder'
    BY <2>7, <2>11, <2>12 DEF OutputInOrder, Content
  <2>14. Grows
    BY <2>2, <2>4, <2>7, <2>8 DEF Grows, Delivers
  <2> QED BY <2>4, <2>8, <2>9, <2>12, <2>13, <2>14 DEF OutInv
<1>8. CASE FreeOutput
  <2>1. /\ out' = Out(FALSE, <<>>, out, TRUE)
        /\ whole' = (whole /\ out.buf = <<>>)
        /\ file' = file /\ written' = written
    BY <1>8 DEF FreeOutput
  <2>2. out \in OutType /\ file \in Seq(Byte) /\ whole \in BOOLEAN
    BY <1>1, StateParts
  <2>3. /\ out' \in OutType
        /\ out'.running = FALSE
    BY <1>2, <2>1, <2>2 DEF Out, OutType
  <2>4. file \o <<>> = file
    BY <2>2, ConcatEmptySeq
  <2>5. State' \in IoType
    BY <2>1, <2>2, <2>3 DEF State, Io, IoType
  <2>6. OutputInOrder'
    BY <2>1, <2>3, <2>4 DEF OutputInOrder, OutInv
  <2>7. Grows
    BY <1>2, <2>1, <2>4 DEF Grows
  <2> QED BY <2>1, <2>5, <2>6, <2>7 DEF OutInv
<1> QED BY <1>4, <1>5, <1>6, <1>7, <1>8 DEF Produce

-----------------------------------------------------------------------------
(* Lemmas on pieces of the file.                                           *)

LEMMA SliceOfGrown ==
  ASSUME NEW f \in Seq(Byte), NEW t \in Seq(Byte), NEW a \in Nat, NEW b \in Nat,
         a <= b, b <= Len(f)
  PROVE  /\ SubSeq(f \o t, a + 1, b) = SubSeq(f, a + 1, b)
         /\ Len(f) <= Len(f \o t)
<1>1. /\ f \o t \in Seq(Byte) /\ Len(f \o t) = Len(f) + Len(t)
      /\ Len(f) \in Nat /\ Len(t) \in Nat
  BY ConcatProperties, LenProperties
<1>2. CASE a = b
  <2>1. b < a + 1
    BY <1>2
  <2>2. SubSeq(f \o t, a + 1, b) = <<>> /\ SubSeq(f, a + 1, b) = <<>>
    BY <2>1, SubSeqEmpty
  <2> QED BY <1>1, <2>2
<1>3. CASE a < b
  <2>1. PICK m \in 1 .. Len(f) : m = a + 1
    BY <1>1, <1>3
  <2>2. b \in 1 .. Len(f)
    BY <1>1, <1>3
  <2>3. SubSeq(f \o t, m, b) = SubSeq(f, m, b)
    BY <2>1, <2>2, SubSeqOfConcat1
  <2> QED BY <1>1, <2>1, <2>3
<1> QED BY <1>2, <1>3

\* What has been read stays what it was while the file grows.
LEMMA BytesKept ==
  ASSUME file \in Seq(Byte), Grows, NEW a \in Nat, NEW b \in Nat,
         a <= b, b <= Len(file)
  PROVE  /\ SubSeq(file', a + 1, b) = Bytes(a, b)
         /\ Len(file) <= Len(file')
<1>1. PICK t \in Seq(Byte) : file' = file \o t
  BY DEF Grows
<1> QED BY <1>1, SliceOfGrown DEF Bytes

LEMMA HasNLIndex ==
  ASSUME NEW s \in Seq(Byte)
  PROVE  HasNL(s) <=> \E i \in 1 .. Len(s) : s[i] = NL
BY LenProperties DEF HasNL, Range

LEMMA HasNLJoined ==
  ASSUME NEW s \in Seq(Byte), NEW t \in Seq(Byte), ~ HasNL(s), ~ HasNL(t)
  PROVE  ~ HasNL(s \o t)
<1>1. /\ s \o t \in Seq(Byte)
      /\ Len(s \o t) = Len(s) + Len(t)
      /\ \A i \in 1 .. Len(s) + Len(t) :
           (s \o t)[i] = IF i <= Len(s) THEN s[i] ELSE t[i - Len(s)]
      /\ Len(s) \in Nat /\ Len(t) \in Nat
  BY ConcatProperties, LenProperties
<1>2. PICK u \in Seq(Byte) : u = s \o t
  BY <1>1
<1>3. SUFFICES ASSUME NEW i \in 1 .. Len(u), u[i] = NL
               PROVE  FALSE
  BY <1>2, HasNLIndex
<1>4. CASE i <= Len(s)
  <2>1. s[i] = NL /\ i \in 1 .. Len(s)
    BY <1>1, <1>2, <1>3, <1>4
  <2> QED BY <2>1, HasNLIndex
<1>5. CASE ~ (i <= Len(s))
  <2>1. t[i - Len(s)] = NL /\ i - Len(s) \in 1 .. Len(t)
    BY <1>1, <1>2, <1>3, <1>5
  <2> QED BY <2>1, HasNLIndex
<1> QED BY <1>4, <1>5

LEMMA BytesLast ==
  ASSUME file \in Seq(Byte), NEW a \in Nat, NEW b \in Nat, a < b, b <= Len(file)
  PROVE  /\ Bytes(a, b) # <<>>
         /\ Last(Bytes(a, b)) = file[b]
         /\ Front(Bytes(a, b)) = Bytes(a, b - 1)
<1>1. /\ Bytes(a, b) \in Seq(Byte)
      /\ Len(Bytes(a, b)) = b - a
      /\ \A i \in 1 .. (b - a) : Bytes(a, b)[i] = file[a + i]
  <2>1. a <= b /\ b <= Len(file)
    OBVIOUS
  <2> QED BY <2>1, BytesType
<1>2. PICK c \in Nat : c = b - 1 /\ a <= c /\ c <= Len(file)
  BY LenProperties
<1>3. /\ Bytes(a, c) \in Seq(Byte)
      /\ Len(Bytes(a, c)) = c - a
      /\ \A i \in 1 .. (c - a) : Bytes(a, c)[i] = file[a + i]
  BY <1>2, BytesType
<1>4. PICK u \in Seq(Byte) : u = Bytes(a, b)
  BY <1>1
<1>5. \A i \in 1 .. Len(u) - 1 : u[i] \in Byte
  BY <1>1, <1>4, ElementOfSeq
<1>6. /\ SubSeq(u, 1, Len(u) - 1) \in Seq(Byte)
      /\ Len(SubSeq(u, 1, Len(u) - 1)) = c - a
      /\ \A i \in 1 .. (c - a) : SubSeq(u, 1, Len(u) - 1)[i] = u[i]
  <2>1. PICK n \in Int : n = Len(u) - 1
    BY LenProperties
  <2>2. /\ SubSeq(u, 1, n) \in Seq(Byte)
        /\ Len(SubSeq(u, 1, n)) = IF 1 <= n THEN n - 1 + 1 ELSE 0
        /\ \A i \in 1 .. n - 1 + 1 : SubSeq(u, 1, n)[i] = u[1 + i - 1]
    BY <1>5, <2>1, SubSeqProperties
  <2> QED BY <1>1, <1>2, <1>4, <2>1, <2>2
<1>7. SubSeq(u, 1, Len(u) - 1) = Bytes(a, c)
  <2>1. \A i \in 1 .. (c - a) : u[i] = file[a + i]
    BY <1>1, <1>2, <1>4
  <2>2. PICK x \in Seq(Byte) : x = SubSeq(u, 1, Len(u) - 1)
    BY <1>6
  <2>3. PICK y \in Seq(Byte) : y = Bytes(a, c)
    BY <1>3
  <2>4. Len(x) = Len(y) /\ \A i \in 1 .. Len(x) : x[i] = y[i]
    BY <1>3, <1>6, <2>1, <2>2, <2>3
  <2> QED BY <2>2, <2>3, <2>4, SeqEqual
<1>8. u # <<>> /\ u[Len(u)] = file[b]
  BY <1>1, <1>4, EmptySeq
<1> QED BY <1>2, <1>4, <1>7, <1>8 DEF Last, Front

-----------------------------------------------------------------------------
(* What is read is what is there.                                          *)

InType == [running : BOOLEAN, unread : Seq(Byte), filled : BOOLEAN, pos : Nat,
           closes : Nat]

AtOf(i) == i.pos - Len(i.unread)

\* The buffer of a stream is the last of what it has read of a file; and a
\* closed stream that still has some has never been open.
Positioned(i, f) ==
  /\ i \in InType
  /\ i.pos <= Len(f)
  /\ Len(i.unread) <= i.pos
  /\ i.unread = SubSeq(f, AtOf(i) + 1, i.pos)
  /\ ~ i.running /\ i.unread # <<>> => i.closes = 0

Reads == {"readLine", "readAll", "getByte", "getByte refilled"}

\* What the call that runs has in its CWB is what it has taken so far;
\* readAll takes nothing of a stream that has never been open.
CallRight ==
  call.op \in Reads =>
    /\ call.from \in Nat /\ call.from <= At
    /\ call.cwb = Bytes(call.from, At)
    /\ call.op = "readLine" => ~ HasNL(call.cwb)
    /\ call.op \in {"getByte", "getByte refilled"} => call.cwb = <<>>
    /\ call.op = "readAll" /\ ~ in.running /\ in.closes = 0 => call.cwb = <<>>

\* ReadsAreRight of an operation, its value, what it used up, and the stream.
RightReturn(op, value, used, i) ==
  CASE op = "readLine" /\ value # Null ->
         \/ used # <<>> /\ Last(used) = NL /\ ~ HasNL(Front(used))
              /\ value = NewLine(Front(used))
         \/ ~ i.running /\ i.closes = 0 /\ value = NewLine(used)
    [] op = "readLine" /\ value = Null ->
         ~ i.running /\ ~ HasNL(used) /\ i.unread = <<>>
    [] op = "readAll" ->
         /\ ~ i.running /\ value = used
         /\ IF i.closes = 0 THEN used = <<>> ELSE i.unread = <<>>
    [] op = "getByte" ->
         IF value = Null THEN used = <<>> /\ ~ i.running /\ i.unread = <<>>
         ELSE Len(used) = 1 /\ value = used
    [] op = "getByte refilled" ->
         Len(used) = 1 /\ value = AsChar(Head(used))
    [] OTHER -> TRUE

ReadInv ==
  /\ file \in Seq(Byte)
  /\ Positioned(in, file)
  /\ CallRight
  /\ ret.from \in Nat /\ ret.to \in Nat
  /\ ret.from <= ret.to /\ ret.to <= Len(file)
  /\ ReadsAreRight

LEMMA RightIsRight ==
  ReadsAreRight <=> RightReturn(ret.op, ret.value, Bytes(ret.from, ret.to), in)
BY DEF ReadsAreRight, RightReturn, Empty

LEMMA PositionedParts ==
  ASSUME NEW f \in Seq(Byte), NEW i, Positioned(i, f)
  PROVE  /\ i \in InType
         /\ i.running \in BOOLEAN /\ i.unread \in Seq(Byte)
         /\ i.filled \in BOOLEAN /\ i.pos \in Nat /\ i.closes \in Nat
         /\ Len(i.unread) \in Nat /\ Len(f) \in Nat
         /\ AtOf(i) \in Nat /\ AtOf(i) <= i.pos /\ i.pos <= Len(f)
         /\ AtOf(i) + Len(i.unread) = i.pos
         /\ ~ i.running /\ i.unread # <<>> => i.closes = 0
         /\ i.unread = <<>> <=> Len(i.unread) = 0
<1>1. /\ i \in InType /\ i.pos <= Len(f) /\ Len(i.unread) <= i.pos
      /\ ~ i.running /\ i.unread # <<>> => i.closes = 0
  BY DEF Positioned
<1>2. /\ i.running \in BOOLEAN /\ i.unread \in Seq(Byte)
      /\ i.filled \in BOOLEAN /\ i.pos \in Nat /\ i.closes \in Nat
  BY <1>1 DEF InType
<1>3. Len(i.unread) \in Nat /\ Len(f) \in Nat
  BY <1>2, LenProperties
<1>4. i.unread = <<>> <=> Len(i.unread) = 0
  BY <1>2, EmptySeq
<1> QED BY <1>1, <1>2, <1>3, <1>4 DEF AtOf

\* The file may grow.
LEMMA PositionedKept ==
  ASSUME NEW f \in Seq(Byte), NEW t \in Seq(Byte), NEW i, Positioned(i, f)
  PROVE  Positioned(i, f \o t)
<1>1. PICK a \in Nat : a = AtOf(i)
  BY PositionedParts
<1>2. PICK b \in Nat : b = i.pos
  BY PositionedParts
<1>3. a <= b /\ b <= Len(f)
  BY <1>1, <1>2, PositionedParts
<1>4. /\ SubSeq(f \o t, a + 1, b) = SubSeq(f, a + 1, b)
      /\ Len(f) <= Len(f \o t)
  BY <1>3, SliceOfGrown
<1>5. Len(f \o t) \in Nat
  BY ConcatProperties, LenProperties
<1>6. Len(f) \in Nat
  BY LenProperties
<1>7. i.pos <= Len(f \o t)
  BY <1>2, <1>3, <1>4, <1>5, <1>6
<1>8. i.unread = SubSeq(f \o t, AtOf(i) + 1, i.pos)
  BY <1>1, <1>2, <1>4 DEF Positioned
<1> QED BY <1>7, <1>8 DEF Positioned

\* A stream that closes stays closed and empty.
LEMMA RightKept ==
  ASSUME NEW op, NEW value, NEW used, NEW i, NEW j,
         RightReturn(op, value, used, i),
         ~ i.running => /\ ~ j.running /\ j.closes = i.closes
                        /\ i.unread = <<>> => j.unread = <<>>
  PROVE  RightReturn(op, value, used, j)
BY DEF RightReturn

\* The first n bytes of the buffer, and the rest.
LEMMA TakeParts ==
  ASSUME file \in Seq(Byte), Positioned(in, file), NEW n \in Nat,
         n <= Len(in.unread)
  PROVE  /\ Positioned(Take(n), file)
         /\ AtOf(Take(n)) = At + n
         /\ SubSeq(in.unread, 1, n) \in Seq(Byte)
         /\ SubSeq(in.unread, 1, n) = Bytes(At, At + n)
         /\ Take(n).running = in.running
         /\ Take(n).closes = in.closes
         /\ in.unread = <<>> => Take(n).unread = <<>>
<1>1. /\ in \in InType
      /\ in.running \in BOOLEAN /\ in.unread \in Seq(Byte)
      /\ in.filled \in BOOLEAN /\ in.pos \in Nat /\ in.closes \in Nat
      /\ Len(in.unread) \in Nat /\ Len(file) \in Nat
      /\ AtOf(in) \in Nat /\ AtOf(in) <= in.pos /\ in.pos <= Len(file)
      /\ AtOf(in) + Len(in.unread) = in.pos
      /\ ~ in.running /\ in.unread # <<>> => in.closes = 0
  BY PositionedParts
<1>2. PICK a \in Nat : a = AtOf(in) /\ a = At
  BY <1>1 DEF At, AtOf
<1>3. PICK b \in Nat : b = in.pos
  BY <1>1
<1>4. PICK u \in Seq(Byte) : u = in.unread
  BY <1>1
<1>5. PICK m \in Nat : m = a + n
  OBVIOUS
<1>6. a <= b /\ b <= Len(file) /\ m <= b /\ a <= m /\ Len(u) = b - a
      /\ m <= Len(file)
  BY <1>1, <1>2, <1>3, <1>4, <1>5
<1>7. u = Bytes(a, b)
  BY <1>2, <1>3, <1>4 DEF Positioned, Bytes
<1>8. \A i \in 1 .. (b - a) : u[i] = file[a + i] /\ u[i] \in Byte
  BY <1>4, <1>6, <1>7, BytesType, ElementOfSeq
<1>9. /\ SubSeq(u, 1, n) \in Seq(Byte)
      /\ SubSeq(u, 1, n) = Bytes(a, m)
  <2>1. /\ SubSeq(u, 1, n) \in Seq(Byte)
        /\ Len(SubSeq(u, 1, n)) = IF 1 <= n THEN n - 1 + 1 ELSE 0
        /\ \A i \in 1 .. n - 1 + 1 : SubSeq(u, 1, n)[i] = u[1 + i - 1]
    <3>1. \A i \in 1 .. n : u[i] \in Byte
      BY <1>4, <1>6, <1>8
    <3> QED BY <3>1, SubSeqProperties
  <2>2. /\ Bytes(a, m) \in Seq(Byte)
        /\ Len(Bytes(a, m)) = m - a
        /\ \A i \in 1 .. (m - a) : Bytes(a, m)[i] = file[a + i]
    BY <1>6, BytesType
  <2>3. PICK x \in Seq(Byte) : x = SubSeq(u, 1, n)
    BY <2>1
  <2>4. PICK y \in Seq(Byte) : y = Bytes(a, m)
    BY <2>2
  <2>5. Len(x) = Len(y) /\ \A i \in 1 .. Len(x) : x[i] = y[i]
    BY <1>4, <1>5, <1>6, <1>8, <2>1, <2>2, <2>3, <2>4
  <2> QED BY <2>1, <2>3, <2>4, <2>5, SeqEqual
<1>10. /\ SubSeq(u, n + 1, Len(u)) \in Seq(Byte)
       /\ Len(SubSeq(u, n + 1, Len(u))) = Len(u) - n
       /\ SubSeq(u, n + 1, Len(u)) = Bytes(m, b)
  <2>1. PICK k \in Nat : k = n + 1
    OBVIOUS
  <2>2. PICK l \in Nat : l = Len(u) /\ n <= l
    BY <1>4, LenProperties
  <2>3. /\ SubSeq(u, k, l) \in Seq(Byte)
        /\ Len(SubSeq(u, k, l)) = IF k <= l THEN l - k + 1 ELSE 0
        /\ \A i \in 1 .. l - k + 1 : SubSeq(u, k, l)[i] = u[k + i - 1]
    <3>1. \A i \in k .. l : u[i] \in Byte
      BY <1>6, <1>8, <2>1, <2>2
    <3> QED BY <3>1, SubSeqProperties
  <2>4. /\ Bytes(m, b) \in Seq(Byte)
        /\ Len(Bytes(m, b)) = b - m
        /\ \A i \in 1 .. (b - m) : Bytes(m, b)[i] = file[m + i]
    BY <1>6, BytesType
  <2>5. PICK x \in Seq(Byte) : x = SubSeq(u, k, l)
    BY <2>3
  <2>6. PICK y \in Seq(Byte) : y = Bytes(m, b)
    BY <2>4
  <2>7. Len(x) = l - n /\ Len(y) = l - n
    BY <1>5, <1>6, <2>1, <2>2, <2>3, <2>4, <2>5, <2>6, SMTT(30)
  <2>8. ASSUME NEW i \in 1 .. Len(x)
        PROVE  x[i] = y[i]
    <3>1. x[i] = u[n + i]
      <4>1. i \in 1 .. l - k + 1 /\ k + i - 1 = n + i
        BY <2>1, <2>2, <2>7
      <4>2. x[i] = u[k + i - 1]
        BY <2>3, <2>5, <4>1
      <4> QED BY <4>1, <4>2
    <3>2. u[n + i] = file[a + (n + i)]
      BY <1>6, <1>8, <2>2, <2>7
    <3>3. y[i] = file[m + i]
      BY <1>5, <1>6, <2>2, <2>4, <2>6, <2>7
    <3> QED BY <1>5, <3>1, <3>2, <3>3
  <2>9. x = y
    BY <2>7, <2>8, SeqEqual
  <2> QED BY <2>1, <2>2, <2>5, <2>6, <2>7, <2>9
<1>11. PICK t : t = Take(n)
  OBVIOUS
<1>a. PICK v \in Seq(Byte) : v = SubSeq(u, n + 1, Len(u))
  BY <1>10
<1>b. Len(v) = Len(u) - n /\ v = Bytes(m, b)
  BY <1>10, <1>a
<1>12. /\ t.unread = v /\ t.pos = b
       /\ t.running = in.running /\ t.closes = in.closes
       /\ t \in InType
  BY <1>1, <1>3, <1>4, <1>a, <1>11 DEF Take, Stream, InType
<1>13. AtOf(t) = m
  BY <1>5, <1>6, <1>b, <1>12 DEF AtOf
<1>14. u = <<>> => t.unread = <<>>
  <2>1. u = <<>> => Len(u) = 0
    BY EmptySeq
  <2>2. u = <<>> => Len(t.unread) = 0
    BY <1>6, <1>b, <1>4, <1>12, <2>1
  <2> QED BY <1>a, <1>12, <2>2, EmptySeq
<1>15. Positioned(t, file)
  <2>1. Len(t.unread) <= t.pos
    BY <1>5, <1>6, <1>b, <1>12
  <2>2. t.unread = SubSeq(file, AtOf(t) + 1, t.pos)
    BY <1>b, <1>12, <1>13 DEF Bytes
  <2> QED BY <1>1, <1>4, <1>6, <1>12, <1>14, <2>1, <2>2 DEF Positioned
<1> QED BY <1>2, <1>4, <1>5, <1>9, <1>11, <1>12, <1>13, <1>14, <1>15

\* What stays right when no call returns: the stream may be read or closed,
\* the file may grow.
LEMMA RetStaysRight ==
  ASSUME ReadInv, Grows, ret' = ret,
         ~ in.running => /\ ~ in'.running /\ in'.closes = in.closes
                         /\ in.unread = <<>> => in'.unread = <<>>
  PROVE  /\ ReadsAreRight'
         /\ ret'.from \in Nat /\ ret'.to \in Nat
         /\ ret'.from <= ret'.to /\ ret'.to <= Len(file')
<1>1. PICK a \in Nat : a = ret.from
  BY DEF ReadInv
<1>2. PICK b \in Nat : b = ret.to /\ a <= b /\ b <= Len(file)
  BY <1>1 DEF ReadInv
<1>3. /\ SubSeq(file', a + 1, b) = Bytes(a, b)
      /\ Len(file) <= Len(file')
  BY <1>2, BytesKept DEF ReadInv
<1>4. file' \in Seq(Byte)
  BY ConcatProperties DEF Grows, ReadInv
<1>5. Len(file') \in Nat /\ Len(file) \in Nat
  BY <1>4, LenProperties DEF ReadInv
<1>6. PICK u : u = Bytes(a, b)
  OBVIOUS
<1>7. RightReturn(ret.op, ret.value, u, in)
  BY <1>1, <1>2, <1>6, RightIsRight DEF ReadInv
<1>8. RightReturn(ret.op, ret.value, u, in')
  <2>1. PICK op, value : op = ret.op /\ value = ret.value
    OBVIOUS
  <2>2. RightReturn(op, value, u, in)
    BY <1>7, <2>1
  <2>3. RightReturn(op, value, u, in')
    BY <2>2, RightKept
  <2> QED BY <2>1, <2>3
<1>9. (Bytes(ret.from, ret.to))' = u
  BY <1>1, <1>2, <1>3, <1>6 DEF Bytes
<1>10. ReadsAreRight'
  BY <1>8, <1>9, RightIsRight DEF ReadsAreRight, RightReturn, Empty
<1> QED BY <1>1, <1>2, <1>3, <1>5, <1>10

LEMMA FileKept ==
  ASSUME file \in Seq(Byte), file' = file
  PROVE  Grows
BY EmptySeq, ConcatEmptySeq DEF Grows

\* A call that goes on and has taken nothing.
LEMMA CallKept ==
  ASSUME ReadInv, Grows, call' = call, AtOf(in') = At,
         ~ in'.running /\ in'.closes = 0 => ~ in.running /\ in.closes = 0
  PROVE  CallRight'
<1>1. SUFFICES ASSUME call.op \in Reads
               PROVE  /\ call'.from \in Nat /\ call'.from <= At'
                      /\ call'.cwb = SubSeq(file', call'.from + 1, At')
                      /\ call'.op = "readLine" => ~ HasNL(call'.cwb)
                      /\ call'.op \in {"getByte", "getByte refilled"} =>
                           call'.cwb = <<>>
                      /\ call'.op = "readAll" /\ ~ in'.running
                           /\ in'.closes = 0 => call'.cwb = <<>>
  BY DEF CallRight, Bytes, HasNL, Reads
<1>2. file \in Seq(Byte) /\ Positioned(in, file) /\ CallRight
  BY DEF ReadInv
<1>3. PICK a \in Nat : a = call.from /\ a <= At
  BY <1>1, <1>2 DEF CallRight
<1>4. PICK b \in Nat : b = At /\ b = AtOf(in) /\ b <= Len(file)
  BY <1>2, PositionedParts DEF At, AtOf
<1>5. SubSeq(file', a + 1, b) = Bytes(a, b)
  BY <1>2, <1>3, <1>4, BytesKept
<1>6. At' = b
  BY <1>4 DEF At, AtOf
<1> QED BY <1>1, <1>2, <1>3, <1>4, <1>5, <1>6 DEF CallRight

\* A call that has put what it took into its CWB.
LEMMA CallGoesOn ==
  ASSUME ReadInv, file' = file, call.op \in {"readLine", "readAll"},
         call.op = "readLine" => ~ HasNL(in.unread),
         call.op = "readAll" => in'.running,
         call' = Call(call.op, call.cwb \o in.unread, call.from),
         AtOf(in') = in.pos
  PROVE  CallRight'
<1>1. file \in Seq(Byte) /\ Positioned(in, file) /\ CallRight
  BY DEF ReadInv
<1>2. PICK a \in Nat : a = call.from /\ a <= At
  BY <1>1 DEF CallRight, Reads
<1>3. PICK b \in Nat : b = At /\ b = AtOf(in) /\ b <= Len(file)
  BY <1>1, PositionedParts DEF At, AtOf
<1>4. PICK c \in Nat : c = in.pos /\ b <= c /\ c <= Len(file)
  BY <1>1, <1>3, PositionedParts
<1>5. PICK cwb \in Seq(Byte) : cwb = call.cwb /\ cwb = Bytes(a, b)
  <2>1. Bytes(a, b) \in Seq(Byte)
    BY <1>1, <1>2, <1>3, BytesType
  <2>2. call.cwb = Bytes(a, b)
    BY <1>1, <1>2, <1>3 DEF CallRight, Reads
  <2> QED BY <2>1, <2>2
<1>6. PICK u \in Seq(Byte) : u = in.unread /\ u = Bytes(b, c)
  BY <1>1, <1>3, <1>4, PositionedParts DEF Positioned, Bytes
<1>7. cwb \o u = Bytes(a, c)
  <2>1. a <= b /\ b <= c /\ c <= Len(file)
    BY <1>2, <1>3, <1>4
  <2>2. Bytes(a, b) \o Bytes(b, c) = Bytes(a, c)
    BY <1>1, <2>1, BytesJoin
  <2> QED BY <1>5, <1>6, <2>2
<1>8. call.op = "readLine" => ~ HasNL(cwb \o u)
  BY <1>1, <1>5, <1>6, HasNLJoined DEF CallRight, Reads
<1>9. PICK l \in Seq(Byte) : l = cwb \o u
  BY ConcatProperties
<1>10. call'.op = call.op /\ call'.cwb = l /\ call'.from = a
  BY <1>2, <1>5, <1>6, <1>9 DEF Call
<1>11. At' = c
  BY <1>4 DEF At, AtOf
<1>12. SubSeq(file', a + 1, c) = l
  BY <1>7, <1>9 DEF Bytes
<1>13. a <= c
  BY <1>2, <1>3, <1>4
<1>14. call'.op = "readLine" => ~ HasNL(l)
  BY <1>8, <1>9, <1>10
<1> QED BY <1>10, <1>11, <1>12, <1>13, <1>14 DEF CallRight, Bytes, HasNL

\* A stream with nothing in its buffer.
LEMMA EmptyStream ==
  ASSUME file \in Seq(Byte), Positioned(in, file), NEW running \in BOOLEAN,
         NEW filled \in BOOLEAN, NEW closes \in Nat
  PROVE  LET t == Stream(running, <<>>, filled, in.pos, closes)
         IN  /\ Positioned(t, file)
             /\ AtOf(t) = in.pos
             /\ t.running = running /\ t.closes = closes /\ t.unread = <<>>
<1>1. PICK b \in Nat : b = in.pos /\ b <= Len(file)
  BY PositionedParts
<1>2. PICK t : t = Stream(running, <<>>, filled, in.pos, closes)
  OBVIOUS
<1>3. <<>> \in Seq(Byte) /\ Len(<<>>) = 0
  BY EmptySeq
<1>4. /\ t.running = running /\ t.closes = closes /\ t.unread = <<>>
      /\ t.pos = b /\ t \in InType
  BY <1>1, <1>2, <1>3 DEF Stream, InType
<1>5. AtOf(t) = b
  BY <1>3, <1>4 DEF AtOf
<1>6. SubSeq(file, b + 1, b) = <<>>
  BY SubSeqEmpty
<1>7. Positioned(t, file)
  BY <1>1, <1>3, <1>4, <1>5, <1>6 DEF Positioned
<1> QED BY <1>1, <1>2, <1>4, <1>5, <1>7

\* A call returns.
LEMMA ReturnStays ==
  ASSUME ReadInv, NEW value, NEW after, Return(value, after),
         Positioned(after, file),
         NEW a \in Nat, a = call.from, NEW b \in Nat, b = AtOf(after), a <= b,
         RightReturn(call.op, value, Bytes(a, b), after)
  PROVE  ReadInv'
<1>1. /\ in' = after /\ call' = Idle /\ file' = file
      /\ ret' = [op |-> call.op, value |-> value, from |-> call.from,
                 to |-> after.pos - Len(after.unread)]
  BY DEF Return
<1>2. /\ ret'.op = call.op /\ ret'.value = value /\ ret'.from = a
      /\ ret'.to = b
  BY <1>1 DEF AtOf
<1>3. file \in Seq(Byte) /\ b <= Len(file)
  <2>1. file \in Seq(Byte)
    BY DEF ReadInv
  <2>2. AtOf(after) \in Nat /\ AtOf(after) <= after.pos /\ after.pos <= Len(file)
        /\ after.pos \in Nat /\ Len(file) \in Nat
    BY <2>1, PositionedParts
  <2> QED BY <2>1, <2>2
<1>4. CallRight'
  BY <1>1 DEF CallRight, Idle, Call, Reads
<1>5. (Bytes(ret.from, ret.to))' = Bytes(a, b)
  BY <1>1, <1>2 DEF Bytes
<1>6. RightReturn(ret'.op, ret'.value, (Bytes(ret.from, ret.to))', in')
  BY <1>1, <1>2, <1>5
<1>7. ReadsAreRight'
  BY <1>6 DEF ReadsAreRight, RightReturn, Empty
<1> QED BY <1>1, <1>2, <1>3, <1>4, <1>7 DEF ReadInv

LEMMA NotNull ==
  ASSUME NEW s \in Seq(Byte)
  PROVE  s # Null /\ NewLine(s) # Null
<1>1. ASSUME NEW t \in Seq(Byte), t = <<"null">>
      PROVE  FALSE
  <2>1. Len(t) = 1 /\ t[1] = "null"
    BY <1>1
  <2>2. t[1] \in Byte
    BY <2>1, ElementOfSeq
  <2> QED BY <2>1, <2>2, TextIsBytes
<1>2. s # <<>> => SubSeq(s, 1, Len(s) - 1) \in Seq(Byte)
  <2>1. PICK n \in Int : n = Len(s) - 1 /\ n < Len(s)
    <3>1. Len(s) \in Nat
      BY LenProperties
    <3>2. Len(s) - 1 \in Int /\ Len(s) - 1 < Len(s)
      BY <3>1
    <3> QED BY <3>2
  <2>2. \A i \in 1 .. n : s[i] \in Byte
    BY <2>1, LenProperties, ElementOfSeq
  <2> QED BY <2>1, <2>2, SubSeqProperties
<1>3. NewLine(s) \in Seq(Byte)
  BY <1>2 DEF NewLine, Front
<1> QED BY <1>1, <1>3 DEF Null

LEMMA CallParts ==
  ASSUME ReadInv, call.op \in Reads
  PROVE  /\ file \in Seq(Byte) /\ Positioned(in, file)
         /\ call.from \in Nat /\ At \in Nat /\ At = AtOf(in)
         /\ call.from <= At /\ At <= in.pos /\ in.pos \in Nat
         /\ in.pos <= Len(file)
         /\ call.cwb = Bytes(call.from, At) /\ call.cwb \in Seq(Byte)
         /\ call.op = "readLine" => ~ HasNL(call.cwb)
         /\ call.op \in {"getByte", "getByte refilled"} => call.cwb = <<>>
         /\ call.op = "readAll" /\ ~ in.running /\ in.closes = 0 =>
              call.cwb = <<>>
         /\ in.unread \in Seq(Byte) /\ in.unread = Bytes(At, in.pos)
         /\ At + Len(in.unread) = in.pos /\ Len(in.unread) \in Nat
         /\ ~ in.running /\ in.unread # <<>> => in.closes = 0
<1>1. file \in Seq(Byte) /\ Positioned(in, file) /\ CallRight
  BY DEF ReadInv
<1>2. PICK a \in Nat : a = call.from /\ a <= At
  BY <1>1 DEF CallRight
<1>3. PICK b \in Nat : b = At /\ b = AtOf(in) /\ b <= in.pos /\ in.pos <= Len(file)
  BY <1>1, PositionedParts DEF At, AtOf
<1>4. b <= Len(file)
  BY <1>1, <1>3, PositionedParts
<1>5. Bytes(a, b) \in Seq(Byte)
  BY <1>1, <1>2, <1>3, <1>4, BytesType
<1>6. in.unread = Bytes(At, in.pos)
  BY <1>1, <1>3 DEF Positioned, Bytes
<1> QED BY <1>1, <1>2, <1>3, <1>5, <1>6, PositionedParts DEF CallRight

LEMMA RefillReads ==
  ASSUME ReadInv, Refill
  PROVE  ReadInv'
<1>1. file \in Seq(Byte) /\ Positioned(in, file)
  BY DEF ReadInv
<1>2. PICK k \in 1 .. BufSize :
        /\ in.pos + k <= Len(file)
        /\ in' = Stream(in.running, Bytes(in.pos, in.pos + k), TRUE, in.pos + k,
                        in.closes)
  BY DEF Refill
<1>3. PICK b \in Nat : b = in.pos /\ in.running \in BOOLEAN /\ in.closes \in Nat
  BY <1>1, PositionedParts
<1>4. PICK c \in Nat : c = b + k /\ b <= c /\ c <= Len(file)
  BY <1>2, <1>3
<1>5. PICK u \in Seq(Byte) : u = Bytes(b, c) /\ Len(u) = c - b
  BY <1>1, <1>4, BytesType
<1>6. /\ in'.running = in.running /\ in'.unread = u /\ in'.pos = c
      /\ in'.closes = in.closes /\ in' \in InType
  BY <1>2, <1>3, <1>4, <1>5 DEF Stream, InType
<1>7. AtOf(in') = b
  BY <1>4, <1>5, <1>6 DEF AtOf
<1>8. in.running /\ file' = file /\ ret' = ret /\ in.unread = <<>>
  BY DEF Refill, MustRead, Empty
<1>9. Positioned(in', file)
  BY <1>4, <1>5, <1>6, <1>7, <1>8 DEF Positioned, Bytes
<1>10. Grows
  BY <1>1, <1>8, FileKept
<1>11. At = b
  BY <1>3, <1>8, EmptySeq DEF At
<1>12. CallRight'
  <2>1. CASE call.op = "getByte"
    <3>1. call' = Call("getByte refilled", <<>>, At)
      BY <2>1 DEF Refill, Reading
    <3>2. Bytes(b, b) = <<>>
      BY <1>1, EmptyBytes
    <3>3. /\ At' = b /\ SubSeq(file', b + 1, b) = <<>>
          /\ call'.op = "getByte refilled" /\ call'.from = b
          /\ call'.cwb = <<>>
      BY <1>7, <1>8, <1>11, <3>1, <3>2 DEF At, AtOf, Bytes, Call
    <3>4. call'.op # "readLine" /\ call'.op # "readAll"
      BY <3>3
    <3>5. b <= b
      OBVIOUS
    <3>6. call'.from \in Nat /\ call'.from <= At'
      BY <3>3, <3>5, Zenon
    <3>7. call'.cwb = SubSeq(file', call'.from + 1, At')
      BY <3>3, Zenon
    <3> QED BY ONLY <3>3, <3>4, <3>6, <3>7 DEF CallRight, Bytes, HasNL
  <2>2. CASE call.op # "getByte"
    <3>1. call' = call
      BY <2>2 DEF Refill, Reading
    <3>2. AtOf(in') = At
      BY <1>7, <1>11
    <3>3. ~ in'.running /\ in'.closes = 0 => ~ in.running /\ in.closes = 0
      BY <1>6
    <3> QED BY <1>10, <3>1, <3>2, <3>3, CallKept
  <2> QED BY <2>1, <2>2
<1> QED BY <1>1, <1>6, <1>8, <1>9, <1>10, <1>12, RetStaysRight DEF ReadInv

LEMMA NothingReads ==
  ASSUME ReadInv, NothingRead
  PROVE  ReadInv'
<1>1. file \in Seq(Byte) /\ Positioned(in, file)
  BY DEF ReadInv
<1>2. /\ in.running /\ file' = file /\ call' = call /\ ret' = ret
      /\ in.unread = <<>>
      /\ in' = Stream(FALSE, in.unread, in.filled, in.pos, in.closes + 1)
  BY DEF NothingRead, MustRead, Empty
<1>3. PICK n \in Nat : n = in.closes + 1
  BY <1>1, PositionedParts
<1>4. PICK f \in BOOLEAN : f = in.filled
  BY <1>1, PositionedParts
<1>5. in' = Stream(FALSE, <<>>, f, in.pos, n)
  BY <1>2, <1>3, <1>4
<1>6. Positioned(in', file) /\ AtOf(in') = in.pos
  BY <1>1, <1>5, EmptyStream
<1>7. At = in.pos
  BY <1>1, <1>2, EmptySeq, PositionedParts DEF At
<1>8. Grows
  BY <1>1, <1>2, FileKept
<1>9. in'.closes # 0
  <2>1. in.closes \in Nat
    BY <1>1, PositionedParts
  <2>2. in'.closes = in.closes + 1
    BY <1>2 DEF Stream
  <2> QED BY <2>1, <2>2
<1>10. CallRight'
  BY <1>2, <1>6, <1>7, <1>8, <1>9, CallKept
<1> QED BY <1>1, <1>2, <1>6, <1>8, <1>10, RetStaysRight DEF ReadInv

LEMMA LineFoundReads ==
  ASSUME ReadInv, LineFound
  PROVE  ReadInv'
<1>1. PICK i \in 1 .. Len(in.unread) :
        /\ in.unread[i] = NL
        /\ ~ HasNL(SubSeq(in.unread, 1, i - 1))
        /\ Return(NewLine(call.cwb \o SubSeq(in.unread, 1, i - 1)), Take(i))
  BY DEF LineFound
<1>2. call.op = "readLine" /\ in.running
  BY DEF LineFound, Reading
<1>3. /\ file \in Seq(Byte) /\ Positioned(in, file)
      /\ call.from \in Nat /\ At \in Nat /\ call.from <= At
      /\ At <= in.pos /\ in.pos \in Nat /\ in.pos <= Len(file)
      /\ call.cwb = Bytes(call.from, At) /\ call.cwb \in Seq(Byte)
      /\ ~ HasNL(call.cwb)
      /\ in.unread \in Seq(Byte) /\ in.unread = Bytes(At, in.pos)
      /\ At + Len(in.unread) = in.pos /\ Len(in.unread) \in Nat
  BY <1>2, CallParts DEF Reads
<1>4. PICK a \in Nat : a = call.from
  BY <1>3
<1>5. PICK b \in Nat : b = At
  BY <1>3
<1>6. PICK c \in Nat : c = in.pos
  BY <1>3
<1>7. PICK m \in Nat : m = i - 1
  BY <1>3
<1>8. PICK e \in Nat : e = b + i
  BY <1>3
<1>9. PICK d \in Nat : d = b + m
  OBVIOUS
<1>10. /\ a <= b /\ b <= d /\ d <= c /\ c <= Len(file) /\ d = e - 1
       /\ e <= c /\ a < e /\ e <= Len(file) /\ i \in Nat /\ c - b = Len(in.unread)
       /\ b <= Len(file) /\ d <= Len(file) /\ Len(file) \in Nat
       /\ m <= Len(in.unread) /\ i <= Len(in.unread) /\ b <= c /\ a <= d /\ a <= e
  <2>1. Len(file) \in Nat
    BY <1>3, LenProperties
  <2>2. PICK n \in Nat : n = Len(in.unread)
    BY <1>3
  <2>3. PICK l \in Nat : l = Len(file)
    BY <2>1
  <2>4. i \in 1 .. n /\ b + n = c /\ a <= b /\ c <= l
    BY <1>3, <1>4, <1>5, <1>6, <2>2, <2>3
  <2>5. /\ a <= b /\ b <= d /\ d <= c /\ c <= l /\ d = e - 1
        /\ e <= c /\ a < e /\ e <= l /\ i \in Nat /\ c - b = n
        /\ b <= l /\ d <= l /\ m <= n /\ i <= n /\ b <= c /\ a <= d /\ a <= e
    BY <1>7, <1>8, <1>9, <2>4
  <2> QED BY <2>2, <2>3, <2>5
<1>11. /\ Positioned(Take(i), file) /\ AtOf(Take(i)) = e
  BY <1>3, <1>5, <1>8, <1>10, TakeParts
<1>12. /\ SubSeq(in.unread, 1, m) \in Seq(Byte)
       /\ SubSeq(in.unread, 1, m) = Bytes(b, d)
  BY <1>3, <1>5, <1>9, <1>10, TakeParts
<1>13. PICK v \in Seq(Byte) : v = Bytes(b, d)
  BY <1>12
<1>14. PICK l \in Seq(Byte) : l = Bytes(a, d)
  BY <1>3, <1>10, BytesType
<1>15. PICK cwb \in Seq(Byte) : cwb = call.cwb /\ cwb = Bytes(a, b)
  BY <1>3, <1>4, <1>5
<1>16. cwb \o v = l
  <2>1. Bytes(a, b) \o Bytes(b, d) = Bytes(a, d)
    <3>1. a <= b /\ b <= d /\ d <= Len(file) /\ file \in Seq(Byte)
      BY <1>3, <1>10
    <3> QED BY <3>1, BytesJoin
  <2> QED BY <1>13, <1>14, <1>15, <2>1
<1>17. ~ HasNL(l)
  <2>1. ~ HasNL(cwb) /\ ~ HasNL(v)
    BY <1>1, <1>3, <1>7, <1>12, <1>13, <1>15
  <2> QED BY <1>16, <2>1, HasNLJoined
<1>18. PICK used : used = Bytes(a, e)
  OBVIOUS
<1>19. used # <<>> /\ Last(used) = file[e] /\ Front(used) = l
  <2>1. Bytes(a, e) # <<>> /\ Last(Bytes(a, e)) = file[e]
        /\ Front(Bytes(a, e)) = Bytes(a, e - 1)
    BY <1>3, <1>10, BytesLast
  <2> QED BY <1>10, <1>14, <1>18, <2>1
<1>20. file[e] = NL
  <2>1. \A k \in 1 .. (c - b) : Bytes(b, c)[k] = file[b + k]
    BY <1>3, <1>10, BytesType
  <2>2. in.unread[i] = file[b + i]
    BY <1>3, <1>5, <1>6, <1>10, <2>1
  <2> QED BY <1>1, <1>8, <2>2
<1>21. PICK value : value = NewLine(l)
  OBVIOUS
<1>22. value # Null
  BY <1>21, NotNull
<1>23. PICK after : after = Take(i)
  OBVIOUS
<1>24. RightReturn(call.op, value, used, after)
  BY <1>2, <1>17, <1>19, <1>20, <1>21, <1>22 DEF RightReturn
<1>25. Return(value, after)
  BY <1>1, <1>7, <1>12, <1>13, <1>15, <1>16, <1>21, <1>23
<1> QED BY <1>4, <1>10, <1>11, <1>18, <1>23, <1>24, <1>25, ReturnStays

\* All of the buffer goes into the CWB.
LEMMA TakeAllOf ==
  ASSUME file \in Seq(Byte), Positioned(in, file)
  PROVE  /\ Positioned(Take(Len(in.unread)), file)
         /\ AtOf(Take(Len(in.unread))) = in.pos
         /\ Take(Len(in.unread)).running = in.running
         /\ Take(Len(in.unread)).closes = in.closes
<1>1. PICK n \in Nat : n = Len(in.unread) /\ n <= Len(in.unread)
  BY PositionedParts
<1>2. /\ Positioned(Take(n), file)
      /\ AtOf(Take(n)) = At + n
      /\ Take(n).running = in.running
      /\ Take(n).closes = in.closes
  BY <1>1, TakeParts
<1>3. At + n = in.pos
  BY <1>1, PositionedParts DEF At, AtOf
<1> QED BY <1>1, <1>2, <1>3

LEMMA LineGoesOnReads ==
  ASSUME ReadInv, LineGoesOn
  PROVE  ReadInv'
<1>1. file \in Seq(Byte) /\ Positioned(in, file)
  BY DEF ReadInv
<1>2. /\ call.op = "readLine" /\ in.running /\ ~ HasNL(in.unread)
      /\ call' = Call(call.op, call.cwb \o in.unread, call.from)
      /\ in' = Take(Len(in.unread)) /\ file' = file /\ ret' = ret
  BY DEF LineGoesOn, Reading
<1>3. Positioned(in', file) /\ AtOf(in') = in.pos /\ in'.running = in.running
  BY <1>1, <1>2, TakeAllOf
<1>4. CallRight'
  BY <1>2, <1>3, CallGoesOn
<1>5. Grows
  BY <1>1, <1>2, FileKept
<1> QED BY <1>1, <1>2, <1>3, <1>4, <1>5, RetStaysRight DEF ReadInv

LEMMA ReadMoreReads ==
  ASSUME ReadInv, ReadMore
  PROVE  ReadInv'
<1>1. file \in Seq(Byte) /\ Positioned(in, file)
  BY DEF ReadInv
<1>2. /\ call.op = "readAll" /\ in.running
      /\ call' = Call(call.op, call.cwb \o in.unread, call.from)
      /\ in' = TakeAll /\ file' = file /\ ret' = ret
  BY DEF ReadMore, Reading
<1>3. PICK n \in Nat : n = in.closes
  BY <1>1, PositionedParts
<1>4. in' = Stream(TRUE, <<>>, FALSE, in.pos, n)
  BY <1>1, <1>2, <1>3, PositionedParts DEF TakeAll
<1>5. Positioned(in', file) /\ AtOf(in') = in.pos /\ in'.running
  BY <1>1, <1>4, EmptyStream
<1>6. CallRight'
  BY <1>2, <1>5, CallGoesOn
<1>7. Grows
  BY <1>1, <1>2, FileKept
<1> QED BY <1>1, <1>2, <1>5, <1>6, <1>7, RetStaysRight DEF ReadInv

LEMMA LastLineReads ==
  ASSUME ReadInv, LastLine
  PROVE  ReadInv'
<1>1. call.op = "readLine" /\ ~ in.running
  BY DEF LastLine, Reading
<1>2. /\ file \in Seq(Byte) /\ Positioned(in, file)
      /\ call.from \in Nat /\ At \in Nat /\ At = AtOf(in)
      /\ call.from <= At /\ At <= in.pos /\ in.pos \in Nat
      /\ in.pos <= Len(file)
      /\ call.cwb = Bytes(call.from, At) /\ call.cwb \in Seq(Byte)
      /\ ~ HasNL(call.cwb)
      /\ in.unread \in Seq(Byte) /\ in.unread = Bytes(At, in.pos)
      /\ At + Len(in.unread) = in.pos
      /\ in.unread # <<>> => in.closes = 0
  BY <1>1, CallParts DEF Reads
<1>3. PICK a \in Nat : a = call.from
  BY <1>2
<1>4. PICK b \in Nat : b = At /\ b = AtOf(in) /\ a <= b
  BY <1>2, <1>3
<1>5. PICK c \in Nat : c = in.pos /\ b <= c /\ c <= Len(file) /\ a <= c
  BY <1>2, <1>4
<1>6. CASE in.unread = <<>>
  <2>1. Return(Null, in)
    BY <1>6 DEF LastLine, Empty
  <2>2. ~ HasNL(Bytes(a, b))
    BY <1>2, <1>3, <1>4
  <2>3. PICK used : used = Bytes(a, b)
    OBVIOUS
  <2>4. RightReturn(call.op, Null, used, in)
    BY <1>1, <1>6, <2>2, <2>3 DEF RightReturn
  <2> QED BY <1>2, <1>3, <1>4, <2>1, <2>3, <2>4, ReturnStays
<1>7. CASE in.unread # <<>>
  <2>1. Return(NewLine(call.cwb \o in.unread), TakeAll)
    BY <1>7 DEF LastLine, Empty
  <2>2. PICK u \in Seq(Byte) : u = in.unread /\ u = Bytes(b, c)
    BY <1>2, <1>4, <1>5
  <2>3. PICK cwb \in Seq(Byte) : cwb = call.cwb /\ cwb = Bytes(a, b)
    BY <1>2, <1>3, <1>4
  <2>4. PICK l \in Seq(Byte) : l = Bytes(a, c)
    BY <1>2, <1>5, BytesType
  <2>5. cwb \o u = l
    <3>1. Bytes(a, b) \o Bytes(b, c) = Bytes(a, c)
      BY <1>2, <1>4, <1>5, BytesJoin, ZenonT(40)
    <3> QED BY <2>2, <2>3, <2>4, <3>1
  <2>6. PICK value : value = NewLine(l)
    OBVIOUS
  <2>7. value # Null
    BY <2>6, NotNull
  <2>8. PICK after : after = TakeAll
    OBVIOUS
  <2>9. PICK n \in Nat : n = in.closes
    BY <1>2, PositionedParts
  <2>10. after = Stream(FALSE, <<>>, FALSE, in.pos, n)
    BY <1>1, <1>2, <2>8, <2>9, PositionedParts DEF TakeAll
  <2>11. /\ Positioned(after, file) /\ AtOf(after) = c
         /\ after.running = FALSE /\ after.closes = 0
    BY <1>2, <1>5, <1>7, <2>9, <2>10, EmptyStream
  <2>12. RightReturn(call.op, value, l, after)
    BY <1>1, <2>6, <2>7, <2>11 DEF RightReturn
  <2>13. Return(value, after)
    BY <2>1, <2>2, <2>3, <2>5, <2>6, <2>8
  <2>14. RightReturn(call.op, value, Bytes(a, c), after)
    BY <2>4, <2>12
  <2> QED BY <1>3, <1>5, <2>11, <2>13, <2>14, ReturnStays
<1> QED BY <1>6, <1>7

LEMMA AllReadReads ==
  ASSUME ReadInv, AllRead
  PROVE  ReadInv'
<1>1. call.op = "readAll" /\ ~ in.running
  BY DEF AllRead, Reading
<1>2. /\ file \in Seq(Byte) /\ Positioned(in, file)
      /\ call.from \in Nat /\ At \in Nat /\ At = AtOf(in)
      /\ call.from <= At
      /\ call.cwb = Bytes(call.from, At)
      /\ in.closes = 0 => call.cwb = <<>>
      /\ in.unread # <<>> => in.closes = 0
  BY <1>1, CallParts DEF Reads
<1>3. PICK a \in Nat : a = call.from
  BY <1>2
<1>4. PICK b \in Nat : b = At /\ b = AtOf(in) /\ a <= b
  BY <1>2, <1>3
<1>5. PICK value : value = call.cwb /\ value = Bytes(a, b)
  BY <1>2, <1>3, <1>4
<1>6. Return(value, in)
  BY <1>5 DEF AllRead
<1>7. RightReturn(call.op, value, Bytes(a, b), in)
  BY <1>1, <1>2, <1>5 DEF RightReturn
<1> QED BY <1>2, <1>3, <1>4, <1>6, <1>7, ReturnStays

\* getByte from b to d, the byte after b.
FirstByte(b, d) ==
  /\ b = call.from /\ b <= d
  /\ Positioned(Take(1), file) /\ AtOf(Take(1)) = d
  /\ Head(in.unread) \in Byte
  /\ Bytes(b, d) = <<Head(in.unread)>>

ByteThere == call.op \in {"getByte", "getByte refilled"} /\ in.unread # <<>>

LEMMA FirstByteTaken ==
  ASSUME ReadInv, ByteThere
  PROVE  \E b, d \in Nat : FirstByte(b, d)
<1>1. /\ file \in Seq(Byte) /\ Positioned(in, file)
      /\ call.from \in Nat /\ At \in Nat /\ At = AtOf(in)
      /\ call.from <= At /\ At <= in.pos /\ in.pos \in Nat
      /\ in.pos <= Len(file)
      /\ call.cwb = Bytes(call.from, At) /\ call.cwb = <<>>
      /\ in.unread \in Seq(Byte) /\ in.unread = Bytes(At, in.pos)
      /\ At + Len(in.unread) = in.pos /\ Len(in.unread) \in Nat
      /\ in.unread # <<>>
  BY CallParts DEF ByteThere, Reads
<1>2. PICK a \in Nat : a = call.from
  BY <1>1
<1>3. PICK b \in Nat : b = At /\ b = AtOf(in) /\ a <= b /\ b <= Len(file)
  BY <1>1, <1>2, LenProperties
<1>4. PICK n \in Nat : n = Len(in.unread) /\ 1 <= n
  BY <1>1, EmptySeq
<1>5. PICK d \in Nat : d = b + 1 /\ d <= Len(file) /\ b <= d
  BY <1>1, <1>3, <1>4, LenProperties
<1>6. Positioned(Take(1), file) /\ AtOf(Take(1)) = d
  BY <1>1, <1>3, <1>4, <1>5, TakeParts
<1>7. a = b
  <2>1. Len(Bytes(a, b)) = b - a
    BY <1>1, <1>3, BytesType
  <2>2. Len(Bytes(a, b)) = 0
    BY <1>1, <1>2, <1>3, EmptySeq
  <2> QED BY <2>1, <2>2
<1>8. PICK x \in Byte : x = Head(in.unread)
  BY <1>1, HeadTailProperties
<1>9. x = file[b + 1]
  <2>1. PICK c \in Nat : c = in.pos /\ b <= c /\ c <= Len(file) /\ c - b = n
    BY <1>1, <1>3, <1>4
  <2>2. \A k \in 1 .. (c - b) : Bytes(b, c)[k] = file[b + k]
    BY <1>1, <2>1, BytesType
  <2>3. in.unread[1] = file[b + 1]
    BY <1>1, <1>3, <1>4, <2>1, <2>2, SMTT(30)
  <2>4. Head(in.unread) = in.unread[1]
    OBVIOUS
  <2> QED BY <1>8, <2>3, <2>4
<1>10. PICK v \in Seq(Byte) : v = Bytes(b, d)
  BY <1>1, <1>5, BytesType
<1>11. Len(v) = 1 /\ v[1] = file[b + 1]
  <2>1. /\ Len(Bytes(b, d)) = d - b
        /\ \A k \in 1 .. (d - b) : Bytes(b, d)[k] = file[b + k]
    BY <1>1, <1>5, BytesType
  <2>2. d - b = 1 /\ 1 \in 1 .. (d - b)
    BY <1>5
  <2>3. Len(v) = d - b /\ v[1] = file[b + 1]
    BY <1>10, <2>1, <2>2
  <2> QED BY <2>2, <2>3
<1>12. v = <<x>>
  <2>1. <<x>> \in Seq(Byte) /\ Len(<<x>>) = 1 /\ <<x>>[1] = x
    OBVIOUS
  <2> QED BY <1>9, <1>11, <2>1, SeqEqual
<1>13. FirstByte(b, d)
  BY <1>2, <1>5, <1>6, <1>7, <1>8, <1>10, <1>12 DEF FirstByte
<1> QED BY <1>13

LEMMA GetByteReads ==
  ASSUME ReadInv, GetByte
  PROVE  ReadInv'
<1>1. call.op = "getByte"
  BY DEF GetByte, Reading
<1>2. CASE in.unread = <<>> /\ ~ in.running /\ Return(Null, in)
  <2>1. /\ Positioned(in, file) /\ call.from \in Nat
        /\ At \in Nat /\ At = AtOf(in) /\ call.from <= At
        /\ call.cwb = Bytes(call.from, At) /\ call.cwb = <<>>
    BY <1>1, CallParts DEF Reads
  <2>2. PICK a \in Nat : a = call.from
    BY <2>1
  <2>3. PICK b \in Nat : b = AtOf(in) /\ b = At /\ a <= b
    BY <2>1, <2>2
  <2>4. PICK used : used = Bytes(a, b) /\ used = <<>>
    BY <2>1, <2>2, <2>3
  <2>5. RightReturn(call.op, Null, used, in)
    BY <1>1, <1>2, <2>4 DEF RightReturn
  <2> QED BY <1>2, <2>1, <2>2, <2>3, <2>4, <2>5, ReturnStays
<1>3. CASE in.unread # <<>> /\ Return(<<Head(in.unread)>>, Take(1))
  <2>1. PICK b, d \in Nat : FirstByte(b, d)
    BY <1>1, <1>3, FirstByteTaken DEF ByteThere
  <2>2. PICK x \in Byte : x = Head(in.unread)
    BY <2>1 DEF FirstByte
  <2>3. PICK value : value = <<x>>
    OBVIOUS
  <2>4. value = Bytes(b, d)
    BY <2>1, <2>2, <2>3 DEF FirstByte
  <2>5. value # Null
    BY <2>3, TextIsBytes DEF Null
  <2>6. Len(value) = 1
    BY <2>3
  <2>7. PICK after : after = Take(1)
    OBVIOUS
  <2>8. RightReturn(call.op, value, Bytes(b, d), after)
    BY <1>1, <2>4, <2>5, <2>6 DEF RightReturn
  <2>9. Return(value, after)
    BY <1>3, <2>2, <2>3, <2>7
  <2>10. /\ Positioned(after, file) /\ AtOf(after) = d
         /\ b = call.from /\ b <= d
    BY <2>1, <2>7 DEF FirstByte
  <2> QED BY <2>8, <2>9, <2>10, ReturnStays
<1> QED BY <1>2, <1>3 DEF GetByte, Empty

LEMMA GetByteRefilledReads ==
  ASSUME ReadInv, GetByteRefilled
  PROVE  ReadInv'
<1>1. /\ call.op = "getByte refilled" /\ in.unread # <<>>
      /\ Return(AsChar(Head(in.unread)), Take(1))
  BY DEF GetByteRefilled, Refilled, Reading, Empty
<1>2. PICK b, d \in Nat : FirstByte(b, d)
  BY <1>1, FirstByteTaken DEF ByteThere
<1>3. PICK x \in Byte : x = Head(in.unread)
  BY <1>2 DEF FirstByte
<1>4. PICK used : used = <<x>>
  OBVIOUS
<1>5. used = Bytes(b, d)
  BY <1>2, <1>3, <1>4 DEF FirstByte
<1>6. Len(used) = 1 /\ Head(used) = x
  BY <1>4
<1>7. PICK value : value = AsChar(x)
  OBVIOUS
<1>8. PICK after : after = Take(1)
  OBVIOUS
<1>9. RightReturn(call.op, value, used, after)
  BY <1>1, <1>6, <1>7 DEF RightReturn
<1>10. Return(value, after)
  BY <1>1, <1>3, <1>7, <1>8
<1>11. /\ Positioned(after, file) /\ AtOf(after) = d
       /\ b = call.from /\ b <= d
  BY <1>2, <1>8 DEF FirstByte
<1> QED BY <1>5, <1>9, <1>10, <1>11, ReturnStays

LEMMA BeginReads ==
  ASSUME ReadInv, NEW op, Begin(op)
  PROVE  ReadInv'
<1>1. file \in Seq(Byte) /\ Positioned(in, file)
  BY DEF ReadInv
<1>2. /\ call' = Call(op, <<>>, At) /\ in' = in /\ file' = file /\ ret' = ret
  BY DEF Begin
<1>3. PICK b \in Nat : b = At /\ b = AtOf(in)
  BY <1>1, PositionedParts DEF At, AtOf
<1>4. Bytes(b, b) = <<>>
  BY <1>1, EmptyBytes
<1>5. /\ At' = b /\ SubSeq(file', b + 1, b) = <<>>
      /\ call'.from = b /\ call'.cwb = <<>>
  BY <1>2, <1>3, <1>4 DEF At, Bytes, Call
<1>6. ~ HasNL(<<>>)
  <2>1. PICK e \in Seq(Byte) : e = <<>> /\ Len(e) = 0
    BY EmptySeq
  <2>2. ~ \E i \in 1 .. Len(e) : e[i] = NL
    BY <2>1
  <2>3. ~ HasNL(e)
    BY <2>2, HasNLIndex
  <2> QED BY <2>1, <2>3
<1>7. CallRight'
  BY <1>5, <1>6 DEF CallRight, Bytes, HasNL
<1>8. Grows
  BY <1>1, <1>2, FileKept
<1> QED BY <1>1, <1>2, <1>7, <1>8, RetStaysRight DEF ReadInv

LEMMA CloseInputReads ==
  ASSUME ReadInv, CloseInput
  PROVE  ReadInv'
<1>1. file \in Seq(Byte) /\ Positioned(in, file)
  BY DEF ReadInv
<1>2. /\ in.running /\ call = Idle
      /\ in' = Stream(FALSE, <<>>, FALSE, in.pos,
                      in.closes + (IF in.filled THEN 2 ELSE 1))
      /\ call' = call /\ file' = file /\ ret' = ret
  BY DEF CloseInput
<1>3. PICK n \in Nat : n = in.closes + (IF in.filled THEN 2 ELSE 1)
  BY <1>1, PositionedParts
<1>4. in' = Stream(FALSE, <<>>, FALSE, in.pos, n)
  BY <1>2, <1>3
<1>5. Positioned(in', file)
  BY <1>1, <1>4, EmptyStream
<1>6. CallRight'
  BY <1>2 DEF CallRight, Idle, Call, Reads
<1>7. Grows
  BY <1>1, <1>2, FileKept
<1> QED BY <1>1, <1>2, <1>5, <1>6, <1>7, RetStaysRight DEF ReadInv

-----------------------------------------------------------------------------
(* The loader reads the same stream.                                       *)

LEMMA GetcReads ==
  ASSUME ReadInv, NEW ch, Getc(ch), call' \in {call, Idle}
  PROVE  ReadInv'
<1>1. file \in Seq(Byte) /\ Positioned(in, file)
  BY DEF ReadInv
<1>2. /\ call.op = "getc" /\ in.unread # <<>> /\ in' = Take(1)
      /\ file' = file /\ ret' = ret
  BY DEF Getc, Reading, Empty
<1>3. 1 <= Len(in.unread)
  <2>1. Len(in.unread) \in Nat /\ Len(in.unread) # 0
    BY <1>1, <1>2, PositionedParts
  <2> QED BY <2>1
<1>4. /\ Positioned(in', file) /\ in'.running = in.running
      /\ in'.closes = in.closes
  BY <1>1, <1>2, <1>3, TakeParts
<1>5. call'.op \notin Reads
  <2>1. Idle.op = "none"
    BY DEF Idle, Call
  <2> QED BY <1>2, <2>1 DEF Reads
<1>6. CallRight'
  BY <1>5 DEF CallRight
<1>7. Grows
  BY <1>1, <1>2, FileKept
<1> QED BY <1>1, <1>2, <1>4, <1>6, <1>7, RetStaysRight DEF ReadInv

LEMMA LoadReads ==
  ASSUME ReadInv, LoadStep
  PROVE  ReadInv'
<1>1. file \in Seq(Byte) /\ Positioned(in, file)
  BY DEF ReadInv
<1>2. CASE \E ch : Getc(ch) /\ call' \in {call, Idle}
  BY <1>2, GetcReads
<1>3. ASSUME UNCHANGED <<file, in, ret>>,
             call'.op \notin Reads
      PROVE  ReadInv'
  <2>1. CallRight'
    BY <1>3 DEF CallRight
  <2>2. Grows
    BY <1>1, <1>3, FileKept
  <2>3. ReadsAreRight'
    BY <1>3, <2>2, RetStaysRight
  <2> QED BY <1>1, <1>3, <2>1, <2>3 DEF ReadInv
<1>4. ASSUME UNCHANGED <<file, in, ret, call>>
      PROVE  ReadInv'
  <2>1. Grows
    BY <1>1, <1>4, FileKept
  <2>2. AtOf(in') = At
    BY <1>4 DEF At, AtOf
  <2>3. CallRight'
    BY <1>4, <2>1, <2>2, CallKept
  <2>4. ReadsAreRight'
    BY <1>4, <2>1, RetStaysRight
  <2> QED BY <1>1, <1>4, <2>3, <2>4 DEF ReadInv
<1>5. CASE SkipCR
  BY <1>2, <1>5 DEF SkipCR
<1>6. CASE OpenComment
  BY <1>2, <1>6 DEF OpenComment, Goes
<1>7. CASE OpenQuote
  BY <1>2, <1>7 DEF OpenQuote, Goes
<1>8. CASE EndChunk
  BY <1>2, <1>8 DEF EndChunk
<1>9. CASE InCode
  BY <1>2, <1>9 DEF InCode, Goes
<1>10. CASE InQuote
  BY <1>2, <1>10 DEF InQuote, Goes
<1>11. CASE InComment
  BY <1>2, <1>11 DEF InComment, Goes
<1>12. CASE EndOfScript
  BY <1>3, <1>12 DEF EndOfScript, Idle, Call, Reads
<1>13. CASE NextChunk
  <2>1. CASE IsClosed
    BY <1>4, <1>13, <2>1 DEF NextChunk
  <2>2. CASE ~ IsClosed
    <3>1. PICK a : a = At
      OBVIOUS
    <3>2. call' = Call("getc", <<>>, a) /\ UNCHANGED <<file, in, ret>>
      BY <1>13, <2>2, <3>1 DEF NextChunk
    <3>3. call'.op \notin Reads
      BY <3>2 DEF Call, Reads
    <3> QED BY <1>3, <3>2, <3>3
  <2> QED BY <2>1, <2>2
<1>14. CASE Eval
  BY <1>4, <1>14 DEF Eval
<1> QED BY <1>5, <1>6, <1>7, <1>8, <1>9, <1>10, <1>11, <1>12, <1>13, <1>14
        DEF LoadStep

-----------------------------------------------------------------------------
(* The two streams together.                                               *)

StreamsInv == OutInv /\ ReadInv

\* Reading and loading leave the output stream and the file alone.
LEMMA OutKept ==
  ASSUME OutInv, UNCHANGED <<outVars, file>>
  PROVE  OutInv'
BY DEF OutInv, outVars, State, OutputInOrder

\* Writing leaves the input stream alone.
LEMMA ReadKept ==
  ASSUME ReadInv, Grows, UNCHANGED inVars
  PROVE  ReadInv'
<1>1. file \in Seq(Byte) /\ Positioned(in, file)
  BY DEF ReadInv
<1>2. in' = in /\ call' = call /\ ret' = ret
  BY DEF inVars
<1>3. PICK t \in Seq(Byte) : file' = file \o t
  BY DEF Grows
<1>4. file' \in Seq(Byte) /\ Positioned(in', file')
  BY <1>1, <1>2, <1>3, PositionedKept, ConcatProperties
<1>5. AtOf(in') = At
  BY <1>2 DEF At, AtOf
<1>6. CallRight'
  BY <1>2, <1>5, CallKept
<1> QED BY <1>2, <1>4, <1>6, RetStaysRight DEF ReadInv

LEMMA StreamsInit ==
  ASSUME Init
  PROVE  StreamsInv
<1>1. file \in Seq(Byte) /\ written = file /\ whole = TRUE
  <2>1. written = file /\ whole = TRUE
    BY DEF Init
  <2>2. file \in Texts \/ file \in Scripts
    <3>1. Opened
      BY DEF Init
    <3> QED BY <3>1 DEF Opened
  <2> QED BY <2>1, <2>2, TextIsBytes
<1>2. /\ <<>> \in Seq(Byte) /\ Len(<<>>) = 0 /\ file \o <<>> = file
      /\ Len(file) \in Nat /\ file = <<>> <=> Len(file) = 0
  BY <1>1, EmptySeq, ConcatEmptySeq, LenProperties
<1>3. OutInv
  <2>1. PICK size \in OutSizes, flush \in BOOLEAN : out = Writer(size, flush)
    BY DEF Init
  <2>2. size \in Nat
    BY OutSizesAssumption
  <2>3. out \in OutType /\ out.buf = <<>>
    BY <1>2, <2>1, <2>2 DEF Writer, Out, OutType
  <2>4. State \in IoType
    BY <1>1, <2>3 DEF State, Io, IoType
  <2>5. OutputInOrder
    BY <1>1, <1>2, <2>3 DEF OutputInOrder
  <2> QED BY <1>1, <2>4, <2>5 DEF OutInv
<1>4. Positioned(in, file)
  <2>1. PICK open \in BOOLEAN : in = Reader(open)
    <3>1. in = Reader(TRUE) \/ in \in {Reader(open) : open \in BOOLEAN}
      <4>1. Opened
        BY DEF Init
      <4> QED BY <4>1 DEF Opened
    <3>2. CASE in = Reader(TRUE)
      BY <3>2
    <3>3. CASE in \in {Reader(open) : open \in BOOLEAN}
      BY <3>3
    <3> QED BY <3>1, <3>2, <3>3
  <2>2. CASE open
    <3>1. in \in InType /\ in.unread = <<>> /\ in.pos = 0 /\ in.running
      BY <1>2, <2>1, <2>2 DEF Reader, Stream, InType
    <3>2. SubSeq(file, 0 + 1, 0) = <<>>
      BY SubSeqEmpty
    <3>3. AtOf(in) = 0
      <4>1. Len(in.unread) = 0
        BY <1>2, <3>1
      <4>2. in.pos = 0
        BY <3>1
      <4> QED BY <4>1, <4>2 DEF AtOf
    <3> QED BY <1>2, <3>1, <3>2, <3>3 DEF Positioned
  <2>3. CASE ~ open
    <3>1. /\ in \in InType /\ in.unread = file /\ in.pos = Len(file)
          /\ in.closes = 0
      BY <1>1, <1>2, <2>1, <2>3 DEF Reader, Stream, InType
    <3>2. AtOf(in) = 0
      BY <1>2, <3>1 DEF AtOf
    <3>3. SubSeq(file, 0 + 1, Len(file)) = file
      BY <1>1, SubSeqFull
    <3> QED BY <1>2, <3>1, <3>2, <3>3 DEF Positioned
  <2> QED BY <2>2, <2>3
<1>5. CallRight
  BY DEF Init, Idle, Call, CallRight, Reads
<1>6. /\ ret.from = 0 /\ ret.to = 0 /\ ret.op = "none"
  BY DEF Init
<1>7. ReadsAreRight
  BY <1>6 DEF ReadsAreRight
<1> QED BY <1>1, <1>2, <1>3, <1>4, <1>5, <1>6, <1>7 DEF StreamsInv, ReadInv

LEMMA StreamsNext ==
  ASSUME StreamsInv, [Next]_vars
  PROVE  StreamsInv'
<1>1. OutInv /\ ReadInv
  BY DEF StreamsInv
<1>2. CASE Produce
  <2>1. OutInv' /\ Grows
    BY <1>1, <1>2, ProduceDelivers
  <2>2. UNCHANGED inVars
    BY <1>2 DEF Produce
  <2> QED BY <1>1, <2>1, <2>2, ReadKept DEF StreamsInv
<1>3. CASE Consume
  <2>1. UNCHANGED outVars
    BY <1>3 DEF Consume
  <2>2. ReadStep \/ (\E op : Begin(op)) \/ CloseInput
    BY <1>3 DEF Consume, BeginRead
  <2>3. file' = file
    BY <2>2 DEF ReadStep, Begin, CloseInput, Refill, NothingRead, LineFound,
                LineGoesOn, LastLine, ReadMore, AllRead, GetByte,
                GetByteRefilled, Return
  <2>4. ReadInv'
    <3>1. CASE ReadStep
      BY <1>1, <3>1, RefillReads, NothingReads, LineFoundReads, LineGoesOnReads,
         LastLineReads, ReadMoreReads, AllReadReads, GetByteReads,
         GetByteRefilledReads DEF ReadStep
    <3> QED BY <1>1, <2>2, <3>1, BeginReads, CloseInputReads
  <2> QED BY <1>1, <2>1, <2>3, <2>4, OutKept DEF StreamsInv
<1>4. CASE Load
  <2>1. UNCHANGED outVars /\ LoadStep
    BY <1>4 DEF Load
  <2>2. file' = file
    BY <2>1 DEF LoadStep, SkipCR, OpenComment, OpenQuote, EndChunk, InCode,
                InQuote, InComment, EndOfScript, NextChunk, Eval, Getc
  <2>3. ReadInv'
    BY <1>1, <2>1, LoadReads
  <2> QED BY <1>1, <2>1, <2>2, <2>3, OutKept DEF StreamsInv
<1>5. CASE UNCHANGED vars
  <2>1. UNCHANGED <<outVars, file>> /\ UNCHANGED inVars
    BY <1>5 DEF vars
  <2>2. Grows
    BY <1>1, <2>1, FileKept DEF ReadInv
  <2> QED BY <1>1, <2>1, <2>2, OutKept, ReadKept DEF StreamsInv
<1> QED BY <1>2, <1>3, <1>4, <1>5 DEF Next

THEOREM StreamsKeep == Spec => []StreamsInv
BY StreamsInit, StreamsNext, PTL DEF Spec

\* io2_write, io2_flush and io2_close: whatever is written, in pieces of
\* any length and with flushes anywhere, is in the file and the buffer in
\* the order it was written, until something has been lost.
THEOREM OutputArrives == Spec => []OutputInOrder
<1>1. StreamsInv => OutputInOrder
  BY DEF StreamsInv, OutInv
<1> QED BY <1>1, StreamsKeep, PTL

\* io2_readLine, io2_readAll and io2_getc: what a call returns is what the
\* file has there, in however many refills it came, but for the first byte of
\* a refill, which io2_getc converts from a char.
THEOREM InputIsRight == Spec => []ReadsAreRight
<1>1. StreamsInv => ReadsAreRight
  BY DEF StreamsInv, ReadInv
<1> QED BY <1>1, StreamsKeep, PTL
-----------------------------------------------------------------------------
(* Sequences of sequences, one after the other.                            *)

\* A set of numbers that begins with 0 and goes on has them all.
LEMMA AllNumbers ==
  ASSUME NEW T \in SUBSET Nat, 0 \in T, \A n \in T : n + 1 \in T
  PROVE  T = Nat
<1> SUFFICES ASSUME Nat \ T # {}
             PROVE  FALSE
  OBVIOUS
<1>1. PICK d \in Nat \ T : \A c \in Nat \ T : ~(<<c, d>> \in OpToRel(<, Nat))
  BY NatLessThanWellFounded, WFMin
<1>2. d - 1 \in Nat /\ d - 1 < d /\ (d - 1) + 1 = d
  <2>1. d \in Nat /\ d # 0
    BY <1>1
  <2> QED
    BY <2>1
<1>3. d - 1 \notin Nat \ T
  BY <1>1, <1>2 DEF OpToRel
<1> QED
  BY <1>1, <1>2, <1>3

\* The first i of ss joined, after the first i - 1 in f[i - 1].
Joined(f, ss, i) == IF i = 1 THEN ss[i] ELSE f[i-1] \o ss[i]

\* f[i] has the first i of ss, up to the n-th.
Joins(f, ss, n) ==
  /\ DOMAIN f = 1 .. n
  /\ \A i \in 1 .. n : f[i] = Joined(f, ss, i)

LEMMA JoinsExist ==
  ASSUME NEW ss, NEW n \in Nat
  PROVE  \E f : Joins(f, ss, n)
<1> DEFINE T == {m \in Nat : \E f : Joins(f, ss, m)}
<1>1. 0 \in T
  <2> DEFINE f == [m \in 1 .. 0 |-> m]
  <2>1. Joins(f, ss, 0)
    BY DEF Joins
  <2> QED
    BY <2>1
<1>2. ASSUME NEW m \in T
      PROVE  m + 1 \in T
  <2>1. PICK f : Joins(f, ss, m)
    OBVIOUS
  <2>2. m \in Nat
    OBVIOUS
  <2> DEFINE g == [k \in 1 .. m + 1 |-> Joined(f, ss, k)]
  <2>3. ASSUME NEW k \in 1 .. m + 1
        PROVE  g[k] = Joined(g, ss, k)
    <3>1. CASE k = 1
      BY <3>1 DEF Joined
    <3>2. CASE k # 1
      <4>1. k - 1 \in 1 .. m /\ k - 1 \in 1 .. m + 1
        BY <2>2, <3>2
      <4>2. g[k - 1] = f[k - 1]
        BY <2>1, <4>1 DEF Joins
      <4>3. g[k] = Joined(f, ss, k)
        OBVIOUS
      <4> HIDE DEF g
      <4> QED
        BY <3>2, <4>2, <4>3 DEF Joined
    <3> QED
      BY <3>1, <3>2
  <2>4. DOMAIN g = 1 .. m + 1
    OBVIOUS
  <2> HIDE DEF g
  <2>5. Joins(g, ss, m + 1)
    BY <2>3, <2>4 DEF Joins
  <2> QED
    BY <2>2, <2>5
<1>3. T \in SUBSET Nat
  OBVIOUS
<1> HIDE DEF T
<1>4. T = Nat
  BY <1>1, <1>2, <1>3, AllNumbers
<1> QED
  BY <1>4 DEF T

\* What FlattenSeq computes.
LEMMA FlattenIs ==
  ASSUME NEW ss, Len(ss) \in Nat, Len(ss) # 0
  PROVE  \E f : Joins(f, ss, Len(ss)) /\ FlattenSeq(ss) = f[Len(ss)]
<1> DEFINE Eq(h) == h = [i \in 1 .. Len(ss) |-> Joined(h, ss, i)]
<1>1. PICK f : Joins(f, ss, Len(ss))
  BY JoinsExist
<1> DEFINE g == [i \in 1 .. Len(ss) |-> f[i]]
<1>2. ASSUME NEW i \in 1 .. Len(ss)
      PROVE  g[i] = Joined(g, ss, i)
  <2>1. g[i] = Joined(f, ss, i)
    BY <1>1 DEF Joins
  <2>2. i # 1 => i - 1 \in 1 .. Len(ss)
    OBVIOUS
  <2>3. i # 1 => g[i - 1] = f[i - 1]
    BY <2>2
  <2> HIDE DEF g
  <2> QED
    BY <2>1, <2>3 DEF Joined
<1>3. g = [i \in 1 .. Len(ss) |-> Joined(g, ss, i)]
  BY <1>2
<1>4. Eq(g)
  BY <1>3
<1> DEFINE R == CHOOSE h : Eq(h)
<1>5. Eq(R)
  <2> HIDE DEF Eq, g
  <2> QED
    BY <1>4
<1>6. FlattenSeq(ss) = R[Len(ss)]
  BY DEF FlattenSeq, Joined
<1>7. R = [i \in 1 .. Len(ss) |-> Joined(R, ss, i)]
  <2> HIDE DEF R
  <2> QED
    BY <1>5
<1> HIDE DEF R
<1>8. Joins(R, ss, Len(ss))
  <2>1. DOMAIN R = 1 .. Len(ss)
    BY <1>7
  <2>2. \A i \in 1 .. Len(ss) : R[i] = Joined(R, ss, i)
    BY <1>7
  <2> QED
    BY <2>1, <2>2 DEF Joins
<1> QED
  BY <1>6, <1>8

\* The first n of two sequences are the same.
Agree(s, t, n) == \A i \in 1 .. n : t[i] = s[i]

LEMMA JoinsAgree ==
  ASSUME NEW n \in Nat, NEW f, NEW ss, Joins(f, ss, n), NEW m \in Nat, n <= m,
         NEW g, NEW tt, Joins(g, tt, m), Agree(ss, tt, n)
  PROVE  Agree(f, g, n)
<1> DEFINE T == {k \in Nat : k \in 1 .. n => g[k] = f[k]}
<1>1. 0 \in T
  OBVIOUS
<1>2. ASSUME NEW k \in T
      PROVE  k + 1 \in T
  <2>1. k \in Nat /\ k + 1 \in Nat
    OBVIOUS
  <2>2. CASE k + 1 \in 1 .. n
    <3>1. k + 1 \in 1 .. m
      BY <2>1, <2>2
    <3>2. f[k + 1] = Joined(f, ss, k + 1) /\ g[k + 1] = Joined(g, tt, k + 1)
      BY <2>2, <3>1 DEF Joins
    <3>3. tt[k + 1] = ss[k + 1]
      BY <2>2 DEF Agree
    <3>4. CASE k = 0
      BY <3>2, <3>3, <3>4 DEF Joined
    <3>5. CASE k # 0
      <4>1. k \in 1 .. n /\ (k + 1) - 1 = k /\ k + 1 # 1
        BY <2>1, <2>2, <3>5
      <4>2. g[k] = f[k]
        BY <4>1
      <4>3. g[k + 1] = f[k + 1]
        BY <3>2, <3>3, <4>1, <4>2 DEF Joined
      <4> QED
        BY <2>1, <4>3
    <3> QED
      BY <3>4, <3>5
  <2> QED
    BY <2>1, <2>2
<1>3. T \in SUBSET Nat
  OBVIOUS
<1> HIDE DEF T
<1>4. T = Nat
  BY <1>1, <1>2, <1>3, AllNumbers
<1> QED
  BY <1>4 DEF T, Agree

LEMMA FlattenEmpty == FlattenSeq(<<>>) = <<>>
BY DEF FlattenSeq

LEMMA FlattenType ==
  ASSUME NEW ss \in Seq(Seq(Byte))
  PROVE  FlattenSeq(ss) \in Seq(Byte)
<1>1. CASE ss = <<>>
  BY <1>1, FlattenEmpty, EmptySeq
<1>2. CASE ss # <<>>
  <2>1. PICK n \in Nat : n = Len(ss) /\ n # 0
    BY <1>2, EmptySeq, LenProperties
  <2>2. PICK f : Joins(f, ss, n) /\ FlattenSeq(ss) = f[n]
    BY <2>1, FlattenIs
  <2>3. \A i \in 1 .. n : ss[i] \in Seq(Byte)
    BY <2>1, ElementOfSeq
  <2> DEFINE T == {k \in Nat : k \in 1 .. n => f[k] \in Seq(Byte)}
  <2>4. 0 \in T
    OBVIOUS
  <2>5. ASSUME NEW k \in T
        PROVE  k + 1 \in T
    <3>1. k \in Nat /\ k + 1 \in Nat
      OBVIOUS
    <3>2. CASE k + 1 \in 1 .. n
      <4>1. f[k + 1] = Joined(f, ss, k + 1) /\ ss[k + 1] \in Seq(Byte)
        BY <2>2, <2>3, <3>2 DEF Joins
      <4>2. CASE k = 0
        BY <4>1, <4>2 DEF Joined
      <4>3. CASE k # 0
        <5>1. k \in 1 .. n /\ (k + 1) - 1 = k /\ k + 1 # 1
          BY <3>1, <3>2, <4>3
        <5>2. f[k] \in Seq(Byte)
          BY <5>1
        <5>3. f[k + 1] = f[k] \o ss[k + 1]
          BY <4>1, <5>1 DEF Joined
        <5>4. f[k + 1] \in Seq(Byte)
          BY <4>1, <5>2, <5>3, ConcatProperties
        <5> QED
          BY <3>1, <5>4
      <4> QED
        BY <4>2, <4>3
    <3> QED
      BY <3>1, <3>2
  <2>6. T \in SUBSET Nat
    OBVIOUS
  <2> HIDE DEF T
  <2>7. T = Nat
    BY <2>4, <2>5, <2>6, AllNumbers
  <2>8. n \in 1 .. n
    BY <2>1
  <2>9. f[n] \in Seq(Byte)
    BY <2>7, <2>8 DEF T
  <2> QED
    BY <2>2, <2>9
<1> QED
  BY <1>1, <1>2

LEMMA FlattenAppend ==
  ASSUME NEW ss \in Seq(Seq(Byte)), NEW t \in Seq(Byte)
  PROVE  FlattenSeq(Append(ss, t)) = FlattenSeq(ss) \o t
<1>1. PICK n \in Nat : n = Len(ss)
  BY LenProperties
<1>2. PICK tt \in Seq(Seq(Byte)) : tt = Append(ss, t)
  BY AppendProperties
<1>3. /\ Len(tt) = n + 1 /\ tt[n + 1] = t
      /\ \A i \in 1 .. n : tt[i] = ss[i]
  BY <1>1, <1>2, AppendProperties
<1>4. PICK g : Joins(g, tt, n + 1) /\ FlattenSeq(tt) = g[n + 1]
  <2>1. Len(tt) \in Nat /\ Len(tt) # 0
    BY <1>1, <1>3
  <2> QED
    BY <1>3, <2>1, FlattenIs
<1>5. g[n + 1] = Joined(g, tt, n + 1)
  <2>1. n + 1 \in 1 .. n + 1
    BY <1>1
  <2> QED
    BY <1>4, <2>1 DEF Joins
<1>6. CASE ss = <<>>
  <2>1. n = 0
    BY <1>1, <1>6
  <2>2. g[n + 1] = t
    BY <1>3, <1>5, <2>1 DEF Joined
  <2>3. <<>> \o t = t
    BY ConcatEmptySeq
  <2> QED
    BY <1>2, <1>4, <1>6, <2>2, <2>3, FlattenEmpty
<1>7. CASE ss # <<>>
  <2>1. n # 0
    BY <1>1, <1>7, EmptySeq
  <2>2. PICK f : Joins(f, ss, n) /\ FlattenSeq(ss) = f[n]
    BY <1>1, <2>1, FlattenIs
  <2>3. g[n] = f[n]
    <3>1. PICK m \in Nat : m = n + 1 /\ n <= m
      BY <1>1
    <3>2. Joins(g, tt, m)
      BY <1>4, <3>1
    <3>3. Agree(ss, tt, n)
      BY <1>3 DEF Agree
    <3>4. Agree(f, g, n)
      BY <2>2, <3>1, <3>2, <3>3, JoinsAgree
    <3>5. n \in 1 .. n
      BY <1>1, <2>1
    <3> QED
      BY <3>4, <3>5 DEF Agree
  <2>4. (n + 1) - 1 = n /\ n + 1 # 1
    BY <1>1, <2>1
  <2>5. g[n + 1] = f[n] \o t
    BY <1>3, <1>5, <2>3, <2>4 DEF Joined
  <2> QED
    BY <1>2, <1>4, <2>2, <2>5
<1> QED
  BY <1>6, <1>7

-----------------------------------------------------------------------------
(* What the chunks are made of.                                            *)

ChunkType == [text : Seq(Byte), uline : Nat]

\* What NoCR makes of a byte.
Kept(c) == IF c = CR THEN <<>> ELSE <<c>>

LEMMA NoCREmpty == NoCR(<<>>) = <<>>
<1>1. PICK e \in Seq(Byte) : e = <<>> /\ Len(e) = 0
  BY EmptySeq
<1>2. PICK ss : ss = [i \in 1 .. Len(e) |-> Kept(e[i])]
  OBVIOUS
<1>3. ss \in Seq(Seq(Byte)) /\ Len(ss) = 0
  BY <1>1, <1>2
<1>4. ss = <<>>
  BY <1>3, EmptySeq
<1> QED
  BY <1>1, <1>2, <1>4, FlattenEmpty DEF NoCR, Kept

LEMMA NoCRAppend ==
  ASSUME NEW s \in Seq(Byte), NEW c \in Byte
  PROVE  /\ NoCR(s) \in Seq(Byte)
         /\ c = CR => NoCR(Append(s, c)) = NoCR(s)
         /\ c # CR => NoCR(Append(s, c)) = Append(NoCR(s), c)
<1>1. PICK n \in Nat : n = Len(s)
  BY LenProperties
<1>2. PICK t \in Seq(Byte) : t = Append(s, c)
  BY AppendProperties
<1>3. /\ Len(t) = n + 1 /\ t[n + 1] = c
      /\ \A i \in 1 .. n : t[i] = s[i]
  BY <1>1, <1>2, AppendProperties
<1>4. \A b \in Byte : Kept(b) \in Seq(Byte)
  BY DEF Kept
<1>5. PICK ss : ss = [i \in 1 .. n |-> Kept(s[i])]
  OBVIOUS
<1>6. ss \in Seq(Seq(Byte)) /\ Len(ss) = n
  <2>1. \A i \in 1 .. n : Kept(s[i]) \in Seq(Byte)
    BY <1>1, <1>4, ElementOfSeq
  <2> QED
    BY <1>1, <1>5, <2>1
<1>7. PICK k \in Seq(Byte) : k = Kept(c)
  BY <1>4
<1>8. PICK tt : tt = [i \in 1 .. n + 1 |-> Kept(t[i])]
  OBVIOUS
<1>9. tt \in Seq(Seq(Byte)) /\ Len(tt) = n + 1
  <2>1. \A i \in 1 .. n + 1 : Kept(t[i]) \in Seq(Byte)
    BY <1>2, <1>3, <1>4, ElementOfSeq
  <2> QED
    BY <1>1, <1>8, <2>1
<1>10. tt = Append(ss, k)
  <2>1. PICK uu \in Seq(Seq(Byte)) : uu = Append(ss, k)
    BY <1>6, AppendProperties
  <2>2. /\ Len(uu) = n + 1 /\ uu[n + 1] = k
        /\ \A i \in 1 .. n : uu[i] = ss[i]
    BY <1>6, <2>1, AppendProperties
  <2>3. \A i \in 1 .. n : tt[i] = Kept(s[i]) /\ ss[i] = Kept(s[i])
    BY <1>1, <1>3, <1>5, <1>8
  <2>4. tt[n + 1] = Kept(c)
    BY <1>1, <1>3, <1>8
  <2>5. \A i \in 1 .. n + 1 : tt[i] = uu[i]
    BY <1>1, <1>7, <2>2, <2>3, <2>4
  <2> QED
    BY <1>9, <2>1, <2>2, <2>5, SeqEqual
<1>11. NoCR(s) = FlattenSeq(ss) /\ NoCR(t) = FlattenSeq(tt)
  BY <1>1, <1>3, <1>5, <1>8 DEF NoCR, Kept
<1>12. PICK u \in Seq(Byte) : u = NoCR(s)
  BY <1>6, <1>11, FlattenType
<1>13. NoCR(t) = u \o k
  BY <1>6, <1>10, <1>11, <1>12, FlattenAppend
<1>14. CASE c = CR
  <2>1. k = <<>>
    BY <1>7, <1>14 DEF Kept
  <2>2. u \o <<>> = u
    BY ConcatEmptySeq
  <2> QED
    BY <1>2, <1>12, <1>13, <1>14, <2>1, <2>2
<1>15. CASE c # CR
  <2>1. k = <<c>>
    BY <1>7, <1>15 DEF Kept
  <2>2. u \o <<c>> = Append(u, c)
    BY AppendIsConcat
  <2> QED
    BY <1>2, <1>12, <1>13, <1>15, <2>1, <2>2
<1> QED
  BY <1>14, <1>15

LEMMA TextEmpty == Text(<<>>) = <<>>
<1>1. PICK e \in Seq(ChunkType) : e = <<>> /\ Len(e) = 0
  BY EmptySeq
<1>2. PICK ss : ss = [i \in 1 .. Len(e) |-> e[i].text]
  OBVIOUS
<1>3. ss \in Seq(Seq(Byte)) /\ Len(ss) = 0
  BY <1>1, <1>2
<1>4. ss = <<>>
  BY <1>3, EmptySeq
<1> QED
  BY <1>1, <1>2, <1>4, FlattenEmpty DEF Text

LEMMA TextAppend ==
  ASSUME NEW s \in Seq(ChunkType), NEW c \in ChunkType
  PROVE  /\ Text(s) \in Seq(Byte)
         /\ Text(Append(s, c)) = Text(s) \o c.text
<1>1. PICK n \in Nat : n = Len(s)
  BY LenProperties
<1>2. PICK t \in Seq(ChunkType) : t = Append(s, c)
  BY AppendProperties
<1>3. /\ Len(t) = n + 1 /\ t[n + 1] = c
      /\ \A i \in 1 .. n : t[i] = s[i]
  BY <1>1, <1>2, AppendProperties
<1>4. \A b \in ChunkType : b.text \in Seq(Byte)
  BY DEF ChunkType
<1>5. PICK ss : ss = [i \in 1 .. n |-> s[i].text]
  OBVIOUS
<1>6. ss \in Seq(Seq(Byte)) /\ Len(ss) = n
  <2>1. \A i \in 1 .. n : s[i].text \in Seq(Byte)
    BY <1>1, <1>4, ElementOfSeq
  <2> QED
    BY <1>1, <1>5, <2>1
<1>7. PICK k \in Seq(Byte) : k = c.text
  BY <1>4
<1>8. PICK tt : tt = [i \in 1 .. n + 1 |-> t[i].text]
  OBVIOUS
<1>9. tt \in Seq(Seq(Byte)) /\ Len(tt) = n + 1
  <2>1. \A i \in 1 .. n + 1 : t[i].text \in Seq(Byte)
    BY <1>2, <1>3, <1>4, ElementOfSeq
  <2> QED
    BY <1>1, <1>8, <2>1
<1>10. tt = Append(ss, k)
  <2>1. PICK uu \in Seq(Seq(Byte)) : uu = Append(ss, k)
    BY <1>6, AppendProperties
  <2>2. /\ Len(uu) = n + 1 /\ uu[n + 1] = k
        /\ \A i \in 1 .. n : uu[i] = ss[i]
    BY <1>6, <2>1, AppendProperties
  <2>3. \A i \in 1 .. n : tt[i] = s[i].text /\ ss[i] = s[i].text
    BY <1>1, <1>3, <1>5, <1>8
  <2>4. tt[n + 1] = c.text
    BY <1>1, <1>3, <1>8
  <2>5. \A i \in 1 .. n + 1 : tt[i] = uu[i]
    BY <1>1, <1>7, <2>2, <2>3, <2>4
  <2> QED
    BY <1>9, <2>1, <2>2, <2>5, SeqEqual
<1>11. Text(s) = FlattenSeq(ss) /\ Text(t) = FlattenSeq(tt)
  BY <1>1, <1>3, <1>5, <1>8 DEF Text
<1> QED
  BY <1>2, <1>6, <1>7, <1>10, <1>11, FlattenType, FlattenAppend

\* The positions of the ends of the lines.
Ends(s) == {i \in 1 .. Len(s) : s[i] = NL}

LEMMA LinesType ==
  ASSUME NEW s \in Seq(Byte)
  PROVE  IsFiniteSet(Ends(s)) /\ Lines(s) = Cardinality(Ends(s)) /\ Lines(s) \in Nat
<1>1. PICK n \in Nat : n = Len(s)
  BY LenProperties
<1>2. IsFiniteSet(1 .. n)
  BY FS_Interval
<1>3. Ends(s) \subseteq 1 .. n
  BY <1>1 DEF Ends
<1>4. IsFiniteSet(Ends(s))
  BY <1>2, <1>3, FS_Subset
<1> QED
  BY <1>4, FS_CardinalityType DEF Lines, Ends

LEMMA LinesEmpty == Lines(<<>>) = 0
<1>1. PICK e \in Seq(Byte) : e = <<>> /\ Len(e) = 0
  BY EmptySeq
<1>2. Ends(e) = {}
  BY <1>1 DEF Ends
<1> QED
  BY <1>1, <1>2, LinesType, FS_EmptySet

LEMMA LinesAppend ==
  ASSUME NEW s \in Seq(Byte), NEW c \in Byte
  PROVE  Lines(Append(s, c)) = Lines(s) + (IF c = NL THEN 1 ELSE 0)
<1>1. PICK n \in Nat : n = Len(s)
  BY LenProperties
<1>2. PICK t \in Seq(Byte) : t = Append(s, c)
  BY AppendProperties
<1>3. /\ Len(t) = n + 1 /\ t[n + 1] = c
      /\ \A i \in 1 .. n : t[i] = s[i]
  BY <1>1, <1>2, AppendProperties
<1>4. Ends(s) \subseteq 1 .. n /\ n + 1 \notin Ends(s)
  BY <1>1 DEF Ends
<1>5. CASE c = NL
  <2>1. Ends(t) = Ends(s) \cup {n + 1}
    BY <1>1, <1>3, <1>5 DEF Ends
  <2>2. IsFiniteSet(Ends(s))
    BY LinesType
  <2>3. Cardinality(Ends(s) \cup {n + 1}) = Cardinality(Ends(s)) + 1
    BY <1>4, <2>2, FS_AddElement
  <2>4. Lines(t) = Lines(s) + 1
    BY <2>1, <2>3, LinesType
  <2> QED
    BY <1>2, <1>5, <2>4
<1>6. CASE c # NL
  <2>1. Ends(t) = Ends(s)
    BY <1>1, <1>3, <1>6 DEF Ends
  <2>2. Lines(t) = Lines(s)
    BY <2>1, LinesType
  <2>3. Lines(s) \in Nat
    BY LinesType
  <2> QED
    BY <1>2, <1>6, <2>2, <2>3
<1> QED
  BY <1>5, <1>6

-----------------------------------------------------------------------------
(* The loader's invariant.                                                 *)

RdFields == {"in", "prev", "last", "quote", "level", "isBLOCK", "ba", "line"}

\* r is a record of readchunk's locals, l one of the loader's.
IsRd(r) == r = [f \in RdFields |-> r[f]]

LoadFields == {"at", "status", "uline"}
IsLoad(l) == l = [f \in LoadFields |-> l[f]]

\* The loader reads bytes, or calls nothing.
LoadTyped ==
  /\ IsLoad(load) /\ load.at \in {"next", "read", "eval", "done"}
  /\ load.at = "read" => call.op = "getc"
  /\ load.at # "read" => call = Idle
  /\ IsRd(rd) /\ rd.ba \in Seq(Byte) /\ rd.line \in Nat
  /\ given \in Seq(ChunkType)

\* All that has been taken out of the stream.
Taken == Bytes(0, At)

\* Without CR it is what is in the chunks, and the lines are its lines.
ReadSoFar ==
  /\ NoCR(Taken) = Text(given) \o Current
  /\ rd.line = 1 + Lines(Text(given) \o Current)
  /\ load.at \in {"read", "eval"} => load.uline = 1 + Lines(Text(given))

Numbered ==
  \A i \in 1 .. Len(given) :
    given[i].uline = 1 + Lines(Text(SubSeq(given, 1, i - 1)))

\* The first n chunks end with a line that ends a chunk.
EndedTo(n) == \A i \in 1 .. n : EndsLine(given[i].text)

Ended ==
  /\ EndedTo(Len(given) - 1)
  /\ load.at = "next" => EndedTo(Len(given)) \/ IsClosed
  /\ load.at \in {"read", "eval"} => EndedTo(Len(given))
  /\ load.at = "eval" => EndsLine(rd.ba) \/ IsClosed
  /\ load.at = "done" /\ load.status = "continue" => IsClosed

\* When prev is NL, what was put last is that NL, or the end of a text.
InPlace ==
  load.at = "read" =>
    /\ rd.in \in {"code", "quote", "comment"}
    /\ rd.in = "quote" => rd.quote \in QUOTES
    /\ rd.in = "comment" => rd.prev # NL
    /\ rd.in = "code" /\ rd.prev = NL =>
         rd.ba # <<>> /\ rd.ba[Len(rd.ba)] \in {NL} \cup QUOTES

LoadInv ==
  IF Loading THEN LoadTyped /\ ReadSoFar /\ Numbered /\ Ended /\ InPlace
  ELSE call.op # "getc"

LEMMA LoadParts ==
  ASSUME LoadInv, Loading
  PROVE  LoadTyped /\ ReadSoFar /\ Numbered /\ Ended /\ InPlace
BY DEF LoadInv

LEMMA PutParts ==
  ASSUME IsRd(rd), NEW ch
  PROVE  /\ IsRd(Put(ch))
         /\ Put(ch).in = rd.in /\ Put(ch).prev = rd.prev
         /\ Put(ch).quote = rd.quote
         /\ Put(ch).ba = Append(rd.ba, ch)
         /\ Put(ch).line = rd.line + (IF ch = NL THEN 1 ELSE 0)
<1>1. PICK b : b = Append(rd.ba, ch)
  OBVIOUS
<1>2. PICK l : l = rd.line + (IF ch = NL THEN 1 ELSE 0)
  OBVIOUS
<1>3. Put(ch) = [rd EXCEPT !.ba = b, !.last = ch, !.line = l]
  <2>1. Put(ch) = [rd EXCEPT !.ba = Append(rd.ba, ch), !.last = ch,
                     !.line = rd.line + (IF ch = NL THEN 1 ELSE 0)]
    BY DEF Put
  <2> QED
    BY <1>1, <1>2, <2>1
<1> QED
  BY <1>1, <1>2, <1>3 DEF IsRd, RdFields

\* A byte that is read is the next one of the file.
LEMMA GetcTakes ==
  ASSUME ReadInv, NEW ch, Getc(ch)
  PROVE  /\ ch \in Byte
         /\ Taken \in Seq(Byte)
         /\ Taken' = Append(Taken, ch)
         /\ given' = given
         /\ call.op = "getc"
<1>1. file \in Seq(Byte) /\ Positioned(in, file)
  BY DEF ReadInv
<1>2. /\ call.op = "getc" /\ in.unread # <<>> /\ in' = Take(1)
      /\ file' = file /\ given' = given /\ ch = Head(in.unread)
  BY DEF Getc, Reading, Empty
<1>3. /\ in.unread \in Seq(Byte) /\ Len(in.unread) \in Nat
      /\ AtOf(in) \in Nat /\ in.pos \in Nat /\ Len(file) \in Nat
      /\ AtOf(in) + Len(in.unread) = in.pos /\ in.pos <= Len(file)
      /\ Len(in.unread) # 0
  BY <1>1, <1>2, PositionedParts
<1>4. PICK a \in Nat : a = AtOf(in) /\ a = At
  BY <1>3 DEF At, AtOf
<1>5. 1 <= Len(in.unread) /\ a + 1 <= Len(file) /\ a <= Len(file)
  BY <1>3, <1>4
<1>6. /\ AtOf(Take(1)) = a + 1
      /\ SubSeq(in.unread, 1, 1) = Bytes(a, a + 1)
  BY <1>1, <1>4, <1>5, TakeParts
<1>7. At' = a + 1
  BY <1>2, <1>6 DEF At, AtOf
<1>8. ch \in Byte /\ ch = in.unread[1]
  BY <1>2, <1>3, HeadTailProperties
<1>9. SubSeq(in.unread, 1, 1) = <<ch>>
  <2>1. PICK u \in Seq(Byte) : u = in.unread
    BY <1>3
  <2>2. PICK n \in Nat : n = 1
    OBVIOUS
  <2>3. \A i \in 1 .. n : u[i] \in Byte
    BY <1>8, <2>1, <2>2
  <2>4. /\ SubSeq(u, 1, n) \in Seq(Byte)
        /\ Len(SubSeq(u, 1, n)) = IF 1 <= n THEN n - 1 + 1 ELSE 0
        /\ \A i \in 1 .. n - 1 + 1 : SubSeq(u, 1, n)[i] = u[1 + i - 1]
    BY <2>3, SubSeqProperties
  <2>5. PICK x \in Seq(Byte) : x = SubSeq(u, 1, n)
    BY <2>4
  <2>6. Len(x) = 1 /\ x[1] = ch
    <3>1. Len(x) = n
      BY <2>2, <2>4, <2>5
    <3>2. 1 \in 1 .. n - 1 + 1 /\ 1 + 1 - 1 = 1
      BY <2>2
    <3>3. x[1] = u[1]
      BY <2>4, <2>5, <3>2
    <3> QED
      BY <1>8, <2>1, <2>2, <3>1, <3>3
  <2>7. x = <<ch>>
    <3>1. <<ch>> \in Seq(Byte) /\ Len(<<ch>>) = 1 /\ <<ch>>[1] = ch
      BY <1>8
    <3> QED
      BY <2>6, <3>1, SeqEqual
  <2> QED
    BY <2>1, <2>2, <2>5, <2>7
<1>10. PICK t \in Seq(Byte) : t = Bytes(0, a)
  BY <1>1, <1>5, BytesType
<1>11. PICK m \in Nat : m = a + 1 /\ a <= m /\ m <= Len(file)
  BY <1>5
<1>12. t \o Bytes(a, m) = Bytes(0, m)
  <2>1. PICK z \in Nat : z = 0 /\ z <= a
    BY <1>4
  <2> QED
    BY <1>1, <1>10, <1>11, <2>1, BytesJoin
<1>13. Bytes(0, m) = Append(t, ch)
  <2>1. t \o <<ch>> = Append(t, ch)
    BY <1>8, AppendIsConcat
  <2> QED
    BY <1>6, <1>9, <1>11, <1>12, <2>1
<1>14. Taken' = Bytes(0, m)
  BY <1>2, <1>7, <1>11 DEF Taken, Bytes
<1>15. Taken = t
  BY <1>4, <1>10 DEF Taken
<1> QED
  BY <1>2, <1>8, <1>13, <1>14, <1>15

LEMMA CurrentType ==
  ASSUME LoadTyped
  PROVE  Current \in Seq(Byte) /\ Text(given) \in Seq(Byte)
<1>1. rd.ba \in Seq(Byte) /\ given \in Seq(ChunkType)
  BY DEF LoadTyped
<1>2. Current \in Seq(Byte)
  BY <1>1, EmptySeq DEF Current
<1>3. Text(given) \in Seq(Byte)
  <2>1. PICK c : c = [text |-> <<>>, uline |-> 0]
    OBVIOUS
  <2>2. c \in ChunkType
    BY <2>1, EmptySeq DEF ChunkType
  <2> QED
    BY <1>1, <2>2, TextAppend
<1> QED
  BY <1>2, <1>3

\* A byte more is taken, and put into the chunk, and its line counted.
LEMMA ByteCounted ==
  ASSUME LoadTyped, ReadSoFar, Numbered, load.at = "read",
         NEW ch \in Byte, ch # CR, Taken \in Seq(Byte),
         Taken' = Append(Taken, ch), given' = given,
         rd'.ba = Append(rd.ba, ch),
         rd'.line = rd.line + (IF ch = NL THEN 1 ELSE 0),
         load'.at \in {"read", "eval"}, load'.uline = load.uline
  PROVE  ReadSoFar' /\ Numbered'
<1>1. Current = rd.ba /\ Current' = rd'.ba
  BY DEF Current
<1>2. PICK t \in Seq(Byte) : t = Text(given)
  BY CurrentType
<1>3. PICK b \in Seq(Byte) : b = rd.ba
  BY DEF LoadTyped
<1>4. t \o Append(b, ch) = Append(t \o b, ch)
  <2>1. Append(b, ch) = b \o <<ch>>
    BY AppendIsConcat
  <2>2. PICK u \in Seq(Byte) : u = t \o b
    BY ConcatProperties
  <2>3. Append(u, ch) = u \o <<ch>>
    BY AppendIsConcat
  <2>4. <<ch>> \in Seq(Byte)
    OBVIOUS
  <2>5. (t \o b) \o <<ch>> = t \o (b \o <<ch>>)
    BY <2>4, JoinsAssociate
  <2> QED
    BY <2>1, <2>2, <2>3, <2>5
<1>5. PICK u \in Seq(Byte) : u = t \o b
  BY ConcatProperties
<1>6. NoCR(Taken) = u /\ rd.line = 1 + Lines(u)
  BY <1>1, <1>2, <1>3, <1>5 DEF ReadSoFar
<1>7. NoCR(Taken') = Append(u, ch)
  BY <1>6, NoCRAppend
<1>8. Text(given') \o Current' = Append(u, ch)
  BY <1>1, <1>2, <1>3, <1>4, <1>5
<1>9. rd'.line = 1 + Lines(Append(u, ch))
  <2>1. PICK l : l = (IF ch = NL THEN 1 ELSE 0)
    OBVIOUS
  <2>2. l \in Nat
    BY <2>1
  <2>3. Lines(Append(u, ch)) = Lines(u) + l /\ Lines(u) \in Nat
    BY <2>1, LinesAppend, LinesType
  <2>4. rd'.line = rd.line + l
    BY <2>1
  <2> QED
    BY <1>6, <2>2, <2>3, <2>4
<1>10. load'.uline = 1 + Lines(Text(given'))
  BY DEF ReadSoFar
<1>11. ReadSoFar'
  BY <1>7, <1>8, <1>9, <1>10 DEF ReadSoFar
<1>12. Numbered'
  BY DEF Numbered
<1> QED
  BY <1>11, <1>12

\* Nothing is taken but perhaps a CR, and the chunk stays what it is.
LEMMA NothingCounted ==
  ASSUME ReadSoFar, Numbered, NoCR(Taken') = NoCR(Taken), given' = given,
         Current' = Current, rd'.line = rd.line,
         load'.at \in {"read", "eval"} => load'.uline = 1 + Lines(Text(given))
  PROVE  ReadSoFar' /\ Numbered'
<1>1. ReadSoFar'
  BY DEF ReadSoFar
<1>2. Numbered'
  BY DEF Numbered
<1> QED
  BY <1>1, <1>2

\* All of the chunks given so far have ended when one is read.
LEMMA StillEnded ==
  ASSUME Ended, load.at = "read", given \in Seq(ChunkType), given' = given,
         load'.at \in {"read", "eval"},
         load'.at = "eval" => EndsLine(rd'.ba) \/ IsClosed'
  PROVE  Ended'
<1>1. PICK n \in Nat : n = Len(given) /\ n = Len(given')
  BY LenProperties
<1>2. \A i \in 1 .. n : EndsLine(given[i].text)
  BY <1>1 DEF Ended, EndedTo
<1>3. \A i \in 1 .. n : EndsLine(given'[i].text)
  BY <1>2
<1>4. EndedTo(Len(given))'
  BY <1>1, <1>3 DEF EndedTo
<1>5. EndedTo(Len(given) - 1)'
  <2>1. \A i \in 1 .. n - 1 : EndsLine(given'[i].text)
    BY <1>1, <1>3
  <2> QED
    BY <1>1, <2>1 DEF EndedTo
<1> QED
  BY <1>4, <1>5 DEF Ended

\* A step of readchunk that takes a byte.
LEMMA ByteTaken ==
  ASSUME ReadInv, LoadInv, NEW ch, Getc(ch), ch # CR,
         IsRd(rd'), rd'.ba = Append(rd.ba, ch),
         rd'.line = rd.line + (IF ch = NL THEN 1 ELSE 0),
         IsLoad(load'), load'.at \in {"read", "eval"}, load'.uline = load.uline,
         load'.at = "read" => call'.op = "getc",
         load'.at = "eval" => call' = Idle /\ EndsLine(rd'.ba),
         InPlace'
  PROVE  LoadInv'
<1>1. /\ ch \in Byte /\ Taken \in Seq(Byte) /\ Taken' = Append(Taken, ch)
      /\ given' = given /\ call.op = "getc"
  BY GetcTakes
<1>2. Loading
  BY <1>1 DEF LoadInv
<1>3. LoadTyped /\ ReadSoFar /\ Numbered /\ Ended
  BY <1>2, LoadParts
<1>4. load.at = "read"
  BY <1>1, <1>3 DEF LoadTyped, Idle, Call
<1>5. ReadSoFar' /\ Numbered'
  BY <1>1, <1>3, <1>4, ByteCounted
<1>6. given \in Seq(ChunkType) /\ rd.ba \in Seq(Byte) /\ rd.line \in Nat
  BY <1>3 DEF LoadTyped
<1>7. Ended'
  BY <1>1, <1>3, <1>4, <1>6, StillEnded
<1>8. LoadTyped'
  <2>1. rd'.ba \in Seq(Byte)
    BY <1>1, <1>6, AppendProperties
  <2>2. PICK l \in Nat : l = (IF ch = NL THEN 1 ELSE 0)
    OBVIOUS
  <2>3. rd'.line \in Nat
    BY <1>6, <2>2
  <2>4. given' \in Seq(ChunkType)
    BY <1>1, <1>6
  <2>5. load'.at = "read" \/ load'.at = "eval"
    OBVIOUS
  <2> QED
    BY <2>1, <2>3, <2>4, <2>5 DEF LoadTyped
<1>9. Loading'
  BY DEF Loading
<1> QED
  BY <1>5, <1>7, <1>8, <1>9 DEF LoadInv

LEMMA WhileReading ==
  ASSUME LoadInv, call.op = "getc"
  PROVE  /\ Loading /\ load.at = "read"
         /\ IsRd(rd) /\ rd.ba \in Seq(Byte) /\ IsLoad(load) /\ InPlace
<1>1. Loading
  BY DEF LoadInv
<1>2. LoadTyped /\ InPlace
  BY <1>1, LoadParts
<1> QED
  BY <1>1, <1>2 DEF LoadTyped, Idle, Call

LEMMA SkipCRLoads ==
  ASSUME ReadInv, LoadInv, SkipCR
  PROVE  LoadInv'
<1>1. Getc(CR) /\ call' = call /\ load' = load /\ rd' = rd
  BY DEF SkipCR
<1>2. /\ CR \in Byte /\ Taken \in Seq(Byte) /\ Taken' = Append(Taken, CR)
      /\ given' = given /\ call.op = "getc"
  BY <1>1, GetcTakes
<1>3. Loading /\ load.at = "read"
  BY <1>2, WhileReading
<1>4. LoadTyped /\ ReadSoFar /\ Numbered /\ Ended /\ InPlace
  BY <1>3, LoadParts
<1>5. NoCR(Taken') = NoCR(Taken)
  BY <1>2, NoCRAppend
<1>6. ReadSoFar' /\ Numbered'
  <2>1. Current' = Current
    BY <1>1 DEF Current
  <2>2. load'.uline = 1 + Lines(Text(given))
    BY <1>1, <1>3, <1>4 DEF ReadSoFar
  <2> QED
    BY <1>1, <1>2, <1>4, <1>5, <2>1, <2>2, NothingCounted
<1>7. Ended'
  <2>1. given \in Seq(ChunkType)
    BY <1>4 DEF LoadTyped
  <2>2. load'.at = "read"
    BY <1>1, <1>3
  <2> QED
    BY <1>2, <1>3, <1>4, <2>1, <2>2, StillEnded
<1>8. LoadTyped' /\ InPlace' /\ Loading'
  BY <1>1, <1>2, <1>3, <1>4 DEF LoadTyped, InPlace, Loading
<1> QED
  BY <1>6, <1>7, <1>8 DEF LoadInv

LEMMA OpenCommentLoads ==
  ASSUME ReadInv, LoadInv, OpenComment
  PROVE  LoadInv'
<1>1. PICK ch \in {"*"} :
        Getc(ch) /\ OpensComment(ch) /\
          Goes([Put(ch) EXCEPT !.in = "comment", !.level = 1, !.last = "0"])
  BY DEF OpenComment
<1>2. PICK p : p = Put(ch)
  OBVIOUS
<1>3. /\ rd' = [p EXCEPT !.in = "comment", !.level = 1, !.last = "0"]
      /\ call' = call /\ load' = load
  BY <1>1, <1>2 DEF Goes
<1>4. call.op = "getc"
  BY <1>1, GetcTakes
<1>5. load.at = "read" /\ IsRd(rd) /\ IsLoad(load)
  BY <1>4, WhileReading
<1>6. /\ IsRd(p) /\ p.prev = rd.prev /\ p.ba = Append(rd.ba, ch)
      /\ p.line = rd.line + (IF ch = NL THEN 1 ELSE 0)
  BY <1>2, <1>5, PutParts
<1>7. /\ IsRd(rd') /\ rd'.in = "comment" /\ rd'.prev = p.prev
      /\ rd'.ba = p.ba /\ rd'.line = p.line
  BY <1>3, <1>6 DEF IsRd, RdFields
<1>8. rd.prev = "/" /\ ch # CR
  BY <1>1 DEF OpensComment, CR
<1>9. InPlace'
  BY <1>6, <1>7, <1>8 DEF InPlace, NL
<1>10. rd'.ba = Append(rd.ba, ch)
  BY <1>6, <1>7
<1>11. rd'.line = rd.line + (IF ch = NL THEN 1 ELSE 0)
  BY <1>6, <1>7
<1>12. /\ load'.at = "read" /\ load'.uline = load.uline
       /\ IsLoad(load') /\ call'.op = "getc"
  BY <1>3, <1>4, <1>5
<1> QED
  BY <1>1, <1>7, <1>8, <1>9, <1>10, <1>11, <1>12, ByteTaken

LEMMA OpenQuoteLoads ==
  ASSUME ReadInv, LoadInv, OpenQuote
  PROVE  LoadInv'
<1>1. PICK ch \in QUOTES :
        Getc(ch) /\ Goes([Put(ch) EXCEPT !.in = "quote", !.quote = ch])
  BY DEF OpenQuote
<1>2. PICK p : p = Put(ch)
  OBVIOUS
<1>3. /\ rd' = [p EXCEPT !.in = "quote", !.quote = ch]
      /\ call' = call /\ load' = load
  BY <1>1, <1>2 DEF Goes
<1>4. call.op = "getc"
  BY <1>1, GetcTakes
<1>5. load.at = "read" /\ IsRd(rd) /\ IsLoad(load)
  BY <1>4, WhileReading
<1>6. /\ IsRd(p) /\ p.ba = Append(rd.ba, ch)
      /\ p.line = rd.line + (IF ch = NL THEN 1 ELSE 0)
  BY <1>2, <1>5, PutParts
<1>7. /\ IsRd(rd') /\ rd'.in = "quote" /\ rd'.quote = ch
      /\ rd'.ba = p.ba /\ rd'.line = p.line
  BY <1>3, <1>6 DEF IsRd, RdFields
<1>8. ch # CR
  BY DEF QUOTES, CR
<1>9. InPlace'
  BY <1>7 DEF InPlace
<1>10. rd'.ba = Append(rd.ba, ch)
  BY <1>6, <1>7
<1>11. rd'.line = rd.line + (IF ch = NL THEN 1 ELSE 0)
  BY <1>6, <1>7
<1>12. /\ load'.at = "read" /\ load'.uline = load.uline
       /\ IsLoad(load') /\ call'.op = "getc"
  BY <1>3, <1>4, <1>5
<1> QED
  BY <1>1, <1>7, <1>8, <1>9, <1>10, <1>11, <1>12, ByteTaken

\* The byte that was put last.
LEMMA LastPut ==
  ASSUME NEW s \in Seq(Byte), NEW ch \in Byte, NEW t, t = Append(s, ch)
  PROVE  t # <<>> /\ t[Len(t)] = ch
<1>1. Len(s) \in Nat
  BY LenProperties
<1>2. Len(t) = Len(s) + 1 /\ t[Len(s) + 1] = ch /\ t \in Seq(Byte)
  BY AppendProperties
<1>3. t # <<>>
  BY <1>1, <1>2, EmptySeq
<1> QED
  BY <1>2, <1>3

LEMMA InCodeLoads ==
  ASSUME ReadInv, LoadInv, InCode
  PROVE  LoadInv'
<1>1. PICK ch \in Range(file) \ (QUOTES \cup {CR}) :
        /\ Getc(ch)
        /\ Goes([Put(ch) EXCEPT !.prev = ch,
                   !.isBLOCK = /\ @ \/ rd.prev = "{"
                               /\ ~ (rd.prev = NL /\ ch = "}")])
  BY DEF InCode
<1>2. PICK p : p = Put(ch)
  OBVIOUS
<1>3. PICK b : b = ((p.isBLOCK \/ rd.prev = "{") /\ ~ (rd.prev = NL /\ ch = "}"))
  OBVIOUS
<1>4. rd' = [p EXCEPT !.prev = ch, !.isBLOCK = b] /\ call' = call /\ load' = load
  BY <1>1, <1>2, <1>3 DEF Goes
<1>5. call.op = "getc" /\ ch \in Byte
  BY <1>1, GetcTakes
<1>6. load.at = "read" /\ IsRd(rd) /\ IsLoad(load) /\ rd.ba \in Seq(Byte)
  BY <1>5, WhileReading
<1>7. /\ IsRd(p) /\ p.in = rd.in /\ p.ba = Append(rd.ba, ch)
      /\ p.line = rd.line + (IF ch = NL THEN 1 ELSE 0)
  BY <1>2, <1>6, PutParts
<1>8. /\ IsRd(rd') /\ rd'.in = p.in /\ rd'.prev = ch
      /\ rd'.ba = p.ba /\ rd'.line = p.line
  BY <1>4, <1>7 DEF IsRd, RdFields
<1>9. ch # CR
  OBVIOUS
<1>10. rd.in = "code"
  BY DEF InCode
<1>11. rd'.ba = Append(rd.ba, ch)
  BY <1>7, <1>8
<1>12. rd'.ba # <<>> /\ rd'.ba[Len(rd'.ba)] = ch
  BY <1>5, <1>6, <1>11, LastPut
<1>13. InPlace'
  BY <1>7, <1>8, <1>10, <1>12 DEF InPlace
<1>14. rd'.line = rd.line + (IF ch = NL THEN 1 ELSE 0)
  BY <1>7, <1>8
<1>15. /\ load'.at = "read" /\ load'.uline = load.uline
       /\ IsLoad(load') /\ call'.op = "getc"
  BY <1>4, <1>5, <1>6
<1> QED
  BY <1>1, <1>8, <1>9, <1>11, <1>13, <1>14, <1>15, ByteTaken

LEMMA InQuoteLoads ==
  ASSUME ReadInv, LoadInv, InQuote
  PROVE  LoadInv'
<1>1. PICK ch \in Range(file) \ {CR} :
        /\ Getc(ch)
        /\ LET ends == ch = rd.quote /\ rd.last # "\\"
           IN Goes([Put(ch) EXCEPT !.in = IF ends THEN "code" ELSE @])
  BY DEF InQuote
<1>2. PICK p : p = Put(ch)
  OBVIOUS
<1>3. PICK g : g = IF ch = rd.quote /\ rd.last # "\\" THEN "code" ELSE p.in
  OBVIOUS
<1>4. rd' = [p EXCEPT !.in = g] /\ call' = call /\ load' = load
  BY <1>1, <1>2, <1>3 DEF Goes
<1>5. call.op = "getc" /\ ch \in Byte
  BY <1>1, GetcTakes
<1>6. load.at = "read" /\ IsRd(rd) /\ IsLoad(load) /\ rd.ba \in Seq(Byte)
      /\ InPlace
  BY <1>5, WhileReading
<1>7. /\ IsRd(p) /\ p.in = rd.in /\ p.quote = rd.quote
      /\ p.ba = Append(rd.ba, ch)
      /\ p.line = rd.line + (IF ch = NL THEN 1 ELSE 0)
  BY <1>2, <1>6, PutParts
<1>8. /\ IsRd(rd') /\ rd'.in = g /\ rd'.quote = p.quote
      /\ rd'.ba = p.ba /\ rd'.line = p.line
  BY <1>4, <1>7 DEF IsRd, RdFields
<1>9. ch # CR
  OBVIOUS
<1>10. rd.in = "quote" /\ rd.quote \in QUOTES
  BY <1>6 DEF InQuote, InPlace
<1>11. rd'.ba = Append(rd.ba, ch)
  BY <1>7, <1>8
<1>12. rd'.ba # <<>> /\ rd'.ba[Len(rd'.ba)] = ch
  BY <1>5, <1>6, <1>11, LastPut
<1>13. InPlace'
  <2>1. CASE ch = rd.quote /\ rd.last # "\\"
    <3>1. rd'.in = "code" /\ ch \in QUOTES
      BY <1>3, <1>8, <1>10, <2>1
    <3> QED
      BY <1>12, <3>1 DEF InPlace
  <2>2. CASE ~ (ch = rd.quote /\ rd.last # "\\")
    <3>1. rd'.in = "quote" /\ rd'.quote \in QUOTES
      BY <1>3, <1>7, <1>8, <1>10, <2>2
    <3> QED
      BY <3>1 DEF InPlace
  <2> QED
    BY <2>1, <2>2
<1>14. rd'.line = rd.line + (IF ch = NL THEN 1 ELSE 0)
  BY <1>7, <1>8
<1>15. /\ load'.at = "read" /\ load'.uline = load.uline
       /\ IsLoad(load') /\ call'.op = "getc"
  BY <1>4, <1>5, <1>6
<1> QED
  BY <1>1, <1>8, <1>9, <1>11, <1>13, <1>14, <1>15, ByteTaken

LEMMA InCommentLoads ==
  ASSUME ReadInv, LoadInv, InComment
  PROVE  LoadInv'
<1>1. PICK ch \in Range(file) \ {CR} :
        /\ Getc(ch)
        /\ LET level == rd.level + (IF rd.last = "/" /\ ch = "*" THEN 1 ELSE 0)
                                 - (IF rd.last = "*" /\ ch = "/" THEN 1 ELSE 0)
           IN Goes([Put(ch) EXCEPT !.level = level,
                      !.in = IF level = 0 THEN "code" ELSE @])
  BY DEF InComment
<1>2. PICK p : p = Put(ch)
  OBVIOUS
<1>3. PICK n : n = rd.level + (IF rd.last = "/" /\ ch = "*" THEN 1 ELSE 0)
                            - (IF rd.last = "*" /\ ch = "/" THEN 1 ELSE 0)
  OBVIOUS
<1>4. PICK g : g = IF n = 0 THEN "code" ELSE p.in
  OBVIOUS
<1>5. rd' = [p EXCEPT !.level = n, !.in = g] /\ call' = call /\ load' = load
  <2>1. Goes([Put(ch) EXCEPT !.level = n, !.in = IF n = 0 THEN "code" ELSE @])
    BY <1>1, <1>3, Zenon
  <2> QED
    BY <1>2, <1>4, <2>1 DEF Goes
<1>6. call.op = "getc" /\ ch \in Byte
  BY <1>1, GetcTakes
<1>7. load.at = "read" /\ IsRd(rd) /\ IsLoad(load) /\ InPlace
  BY <1>6, WhileReading
<1>8. /\ IsRd(p) /\ p.in = rd.in /\ p.prev = rd.prev
      /\ p.ba = Append(rd.ba, ch)
      /\ p.line = rd.line + (IF ch = NL THEN 1 ELSE 0)
  BY <1>2, <1>7, PutParts
<1>9. /\ IsRd(rd') /\ rd'.in = g /\ rd'.prev = p.prev
      /\ rd'.ba = p.ba /\ rd'.line = p.line
  BY <1>5, <1>8 DEF IsRd, RdFields
<1>10. ch # CR
  OBVIOUS
<1>11. rd.in = "comment" /\ rd.prev # NL
  BY <1>7 DEF InComment, InPlace
<1>12. rd'.in \in {"code", "comment"} /\ rd'.prev # NL
  BY <1>4, <1>8, <1>9, <1>11
<1>13. InPlace'
  BY <1>12 DEF InPlace
<1>14. rd'.ba = Append(rd.ba, ch)
  BY <1>8, <1>9
<1>15. rd'.line = rd.line + (IF ch = NL THEN 1 ELSE 0)
  BY <1>8, <1>9
<1>16. /\ load'.at = "read" /\ load'.uline = load.uline
       /\ IsLoad(load') /\ call'.op = "getc"
  BY <1>5, <1>6, <1>7
<1> QED
  BY <1>1, <1>9, <1>10, <1>13, <1>14, <1>15, <1>16, ByteTaken

LEMMA EndChunkLoads ==
  ASSUME ReadInv, LoadInv, EndChunk
  PROVE  LoadInv'
<1>1. /\ Getc(NL) /\ rd' = Put(NL) /\ call' = Idle
      /\ load' = [load EXCEPT !.at = "eval"]
      /\ rd.in = "code" /\ rd.prev = NL
  BY DEF EndChunk, BlankLine
<1>2. call.op = "getc" /\ NL \in Byte
  BY <1>1, GetcTakes
<1>3. load.at = "read" /\ IsRd(rd) /\ IsLoad(load) /\ rd.ba \in Seq(Byte)
      /\ InPlace
  BY <1>2, WhileReading
<1>4. /\ IsRd(rd') /\ rd'.ba = Append(rd.ba, NL)
      /\ rd'.line = rd.line + (IF NL = NL THEN 1 ELSE 0)
  BY <1>1, <1>3, PutParts
<1>5. /\ IsLoad(load') /\ load'.at = "eval" /\ load'.uline = load.uline
  BY <1>1, <1>3 DEF IsLoad, LoadFields
<1>6. EndsLine(rd'.ba)
  <2>1. PICK b \in Seq(Byte) : b = rd.ba
    BY <1>3
  <2>2. b # <<>> /\ b[Len(b)] \in {NL} \cup QUOTES
    BY <1>1, <1>3, <2>1 DEF InPlace
  <2>3. PICK n \in Nat : n = Len(b) /\ n # 0
    BY <2>2, EmptySeq, LenProperties
  <2>4. PICK t \in Seq(Byte) : t = Append(b, NL)
    BY <1>2, AppendProperties
  <2>5. Len(t) = n + 1 /\ t[n + 1] = NL /\ t[n] = b[n]
    BY <1>2, <2>3, <2>4, AppendProperties
  <2>6. Len(t) - 1 = n /\ Len(t) >= 2
    BY <2>3, <2>5
  <2> QED
    BY <1>4, <2>1, <2>2, <2>3, <2>4, <2>5, <2>6 DEF EndsLine
<1>7. InPlace'
  BY <1>5 DEF InPlace
<1>8. NL # CR
  BY DEF NL, CR
<1>9. PICK c : c = NL
  OBVIOUS
<1>10. /\ Getc(c) /\ c # CR /\ rd'.ba = Append(rd.ba, c)
       /\ rd'.line = rd.line + (IF c = NL THEN 1 ELSE 0)
  BY <1>1, <1>4, <1>8, <1>9
<1> QED
  BY <1>1, <1>4, <1>5, <1>6, <1>7, <1>10, ByteTaken

LEMMA EndOfScriptLoads ==
  ASSUME ReadInv, LoadInv, EndOfScript
  PROVE  LoadInv'
<1>1. /\ call.op = "getc" /\ IsClosed /\ call' = Idle
      /\ load' = [load EXCEPT !.at = "eval"]
      /\ file' = file /\ in' = in /\ rd' = rd /\ given' = given
  BY DEF EndOfScript, Reading, IsClosed
<1>2. Loading /\ load.at = "read" /\ IsLoad(load)
  BY <1>1, WhileReading
<1>3. LoadTyped /\ ReadSoFar /\ Numbered /\ Ended
  BY <1>2, LoadParts
<1>4. IsLoad(load') /\ load'.at = "eval" /\ load'.uline = load.uline
  BY <1>1, <1>2 DEF IsLoad, LoadFields
<1>5. Taken' = Taken
  BY <1>1 DEF Taken, Bytes, At
<1>6. Current' = Current
  BY <1>1, <1>2, <1>4 DEF Current
<1>7. load'.uline = 1 + Lines(Text(given))
  BY <1>2, <1>3, <1>4 DEF ReadSoFar
<1>8. ReadSoFar' /\ Numbered'
  BY <1>1, <1>3, <1>5, <1>6, <1>7, NothingCounted
<1>9. IsClosed'
  BY <1>1 DEF IsClosed, Empty
<1>10. Ended'
  <2>1. given \in Seq(ChunkType)
    BY <1>3 DEF LoadTyped
  <2> QED
    BY <1>1, <1>2, <1>3, <1>4, <1>9, <2>1, StillEnded
<1>11. LoadTyped' /\ InPlace' /\ Loading'
  BY <1>1, <1>3, <1>4 DEF LoadTyped, InPlace, Loading
<1> QED
  BY <1>8, <1>10, <1>11 DEF LoadInv

LEMMA NextChunkLoads ==
  ASSUME ReadInv, LoadInv, NextChunk
  PROVE  LoadInv'
<1>1. /\ load.at = "next" /\ rd' = Fresh(rd.line)
      /\ file' = file /\ in' = in /\ given' = given
  BY DEF NextChunk
<1>2. Loading
  BY <1>1 DEF Loading
<1>3. LoadTyped /\ ReadSoFar /\ Numbered /\ Ended
  BY <1>2, LoadParts
<1>4. /\ IsRd(rd') /\ rd'.ba = <<>> /\ rd'.line = rd.line
      /\ rd'.in = "code" /\ rd'.prev = "0"
  BY <1>1 DEF Fresh, IsRd, RdFields
<1>5. Taken' = Taken
  BY <1>1 DEF Taken, Bytes, At
<1>6. Current = <<>> /\ Current' = <<>>
  BY <1>1, <1>4 DEF Current
<1>7. rd.line = 1 + Lines(Text(given))
  <2>1. PICK t \in Seq(Byte) : t = Text(given)
    BY <1>3, CurrentType
  <2>2. t \o <<>> = t
    BY ConcatEmptySeq
  <2> QED
    BY <1>3, <1>6, <2>1, <2>2 DEF ReadSoFar
<1>8. <<>> \in Seq(Byte)
  BY EmptySeq
<1>9. PICK n \in Nat : n = Len(given)
  BY <1>3, LenProperties DEF LoadTyped
<1>10. CASE IsClosed
  <2>1. call' = call /\ load' = [load EXCEPT !.at = "done"]
    BY <1>10 DEF NextChunk
  <2>2. IsLoad(load) /\ call = Idle
    BY <1>1, <1>3 DEF LoadTyped
  <2>3. IsLoad(load') /\ load'.at = "done"
    BY <2>1, <2>2 DEF IsLoad, LoadFields
  <2>4. ReadSoFar' /\ Numbered'
    BY <1>1, <1>3, <1>4, <1>5, <1>6, <2>3, NothingCounted
  <2>5. IsClosed'
    BY <1>1, <1>10 DEF IsClosed, Empty
  <2>6. EndedTo(Len(given) - 1)'
    BY <1>1, <1>3 DEF Ended, EndedTo
  <2>7. Ended'
    BY <2>3, <2>5, <2>6 DEF Ended
  <2>8. LoadTyped' /\ InPlace' /\ Loading'
    BY <1>1, <1>3, <1>4, <1>8, <2>1, <2>2, <2>3
       DEF LoadTyped, InPlace, Loading
  <2> QED
    BY <2>4, <2>7, <2>8 DEF LoadInv
<1>11. CASE ~ IsClosed
  <2>1. /\ call' = Call("getc", <<>>, At)
        /\ load' = [at |-> "read", status |-> "continue", uline |-> rd.line]
    BY <1>11 DEF NextChunk
  <2>2. call'.op = "getc"
    BY <2>1 DEF Call
  <2>3. IsLoad(load') /\ load'.at = "read" /\ load'.uline = rd.line
    BY <2>1 DEF IsLoad, LoadFields
  <2>4. ReadSoFar' /\ Numbered'
    BY <1>1, <1>3, <1>4, <1>5, <1>6, <1>7, <2>3, NothingCounted
  <2>5. EndedTo(Len(given))'
    BY <1>1, <1>3, <1>11 DEF Ended, EndedTo
  <2>6. EndedTo(Len(given) - 1)'
    BY <1>1, <1>3 DEF Ended, EndedTo
  <2>7. Ended'
    BY <2>3, <2>5, <2>6 DEF Ended
  <2>8. LoadTyped'
    BY <1>1, <1>3, <1>4, <1>8, <2>2, <2>3 DEF LoadTyped
  <2>9. InPlace'
    <3>1. rd'.prev # NL
      BY <1>4 DEF NL
    <3> QED
      BY <1>4, <3>1 DEF InPlace
  <2>10. Loading'
    BY <2>3 DEF Loading
  <2> QED
    BY <2>4, <2>7, <2>8, <2>9, <2>10 DEF LoadInv
<1> QED
  BY <1>10, <1>11

\* The chunks before the last are not changed by it.
LEMMA NumberedAppend ==
  ASSUME Numbered, given \in Seq(ChunkType), NEW c \in ChunkType,
         given' = Append(given, c), c.uline = 1 + Lines(Text(given))
  PROVE  Numbered'
<1>1. PICK n \in Nat : n = Len(given)
  BY LenProperties
<1>2. PICK g \in Seq(ChunkType) : g = given
  OBVIOUS
<1>3. PICK h \in Seq(ChunkType) : h = Append(g, c)
  BY AppendProperties
<1>4. /\ Len(h) = n + 1 /\ h[n + 1] = c
      /\ \A i \in 1 .. n : h[i] = g[i]
  BY <1>1, <1>2, <1>3, AppendProperties
<1>5. ASSUME NEW i \in 1 .. n + 1
      PROVE  SubSeq(h, 1, i - 1) = SubSeq(g, 1, i - 1)
  <2>1. PICK m \in Nat : m = i - 1 /\ m <= n
    BY <1>1
  <2>2. /\ SubSeq(g, 1, m) \in Seq(ChunkType)
        /\ Len(SubSeq(g, 1, m)) = IF 1 <= m THEN m - 1 + 1 ELSE 0
        /\ \A j \in 1 .. m - 1 + 1 : SubSeq(g, 1, m)[j] = g[1 + j - 1]
    <3>1. \A j \in 1 .. m : g[j] \in ChunkType
      BY <1>1, <1>2, <2>1, ElementOfSeq
    <3> QED
      BY <3>1, SubSeqProperties
  <2>3. /\ SubSeq(h, 1, m) \in Seq(ChunkType)
        /\ Len(SubSeq(h, 1, m)) = IF 1 <= m THEN m - 1 + 1 ELSE 0
        /\ \A j \in 1 .. m - 1 + 1 : SubSeq(h, 1, m)[j] = h[1 + j - 1]
    <3>1. \A j \in 1 .. m : h[j] \in ChunkType
      BY <1>1, <1>4, <2>1, ElementOfSeq
    <3> QED
      BY <3>1, SubSeqProperties
  <2>4. PICK x \in Seq(ChunkType) : x = SubSeq(g, 1, m)
    BY <2>2
  <2>5. PICK y \in Seq(ChunkType) : y = SubSeq(h, 1, m)
    BY <2>3
  <2>6. Len(x) = m /\ \A j \in 1 .. m : x[j] = g[j]
    BY <2>2, <2>4
  <2>7. Len(y) = m /\ \A j \in 1 .. m : y[j] = h[j]
    BY <2>3, <2>5
  <2>8. \A j \in 1 .. m : g[j] = h[j]
    BY <1>4, <2>1
  <2>9. \A j \in 1 .. Len(x) : x[j] = y[j]
    BY <2>6, <2>7, <2>8
  <2>10. x = y
    BY <2>6, <2>7, <2>9, SeqEqual
  <2> QED
    BY <2>1, <2>4, <2>5, <2>10
<1>6. ASSUME NEW i \in 1 .. n + 1
      PROVE  h[i].uline = 1 + Lines(Text(SubSeq(h, 1, i - 1)))
  <2>1. SubSeq(h, 1, i - 1) = SubSeq(g, 1, i - 1)
    BY <1>5
  <2>2. CASE i = n + 1
    <3>1. i - 1 = n
      BY <1>1, <2>2
    <3>2. SubSeq(g, 1, n) = g
      BY <1>1, <1>2, SubSeqFull
    <3> QED
      BY <1>2, <1>4, <2>1, <2>2, <3>1, <3>2
  <2>3. CASE i # n + 1
    <3>1. i \in 1 .. n
      BY <1>1, <2>3
    <3>2. g[i].uline = 1 + Lines(Text(SubSeq(g, 1, i - 1)))
      BY <1>1, <1>2, <3>1 DEF Numbered
    <3> QED
      BY <1>4, <2>1, <3>1, <3>2
  <2> QED
    BY <2>2, <2>3
<1>7. given' = h
  BY <1>2, <1>3
<1> QED
  BY <1>4, <1>6, <1>7 DEF Numbered

LEMMA EvalLoads ==
  ASSUME ReadInv, LoadInv, Eval
  PROVE  LoadInv'
<1>1. load.at = "eval"
  BY DEF Eval
<1>2. Loading
  BY <1>1 DEF Loading
<1>3. LoadTyped /\ ReadSoFar /\ Numbered /\ Ended
  BY <1>2, LoadParts
<1>4. PICK status \in {"continue", "break"} :
        LET again == rd.ba # <<>> /\ status = "continue" IN
          /\ Blank => status = load.status
          /\ load' = [load EXCEPT !.status = status,
                                  !.at = IF again THEN "next" ELSE "done"]
  BY DEF Eval
<1>5. PICK at : at = IF rd.ba # <<>> /\ status = "continue" THEN "next" ELSE "done"
  OBVIOUS
<1>6. load' = [load EXCEPT !.status = status, !.at = at]
  BY <1>4, <1>5
<1>7. PICK c : c = [text |-> rd.ba, uline |-> load.uline]
  OBVIOUS
<1>8. given' = Append(given, c)
      /\ file' = file /\ in' = in /\ call' = call /\ rd' = rd
  BY <1>7 DEF Eval
<1>9. IsLoad(load) /\ call = Idle /\ given \in Seq(ChunkType)
      /\ IsRd(rd) /\ rd.ba \in Seq(Byte) /\ rd.line \in Nat
  BY <1>1, <1>3 DEF LoadTyped
<1>10. IsLoad(load') /\ load'.at = at /\ load'.status = status
  BY <1>6, <1>9 DEF IsLoad, LoadFields
<1>11. PICK t \in Seq(Byte) : t = Text(given)
  BY <1>3, CurrentType
<1>12. PICK b \in Seq(Byte) : b = rd.ba
  BY <1>9
<1>13. c \in ChunkType /\ c.text = b /\ c.uline = load.uline
  <2>1. load.uline = 1 + Lines(t) /\ Lines(t) \in Nat
    BY <1>1, <1>3, <1>11, LinesType DEF ReadSoFar
  <2>2. load.uline \in Nat
    BY <2>1
  <2> QED
    BY <1>7, <1>12, <2>2 DEF ChunkType
<1>14. Text(given') = t \o b
  BY <1>8, <1>9, <1>11, <1>13, TextAppend
<1>15. at \in {"next", "done"}
  BY <1>5
<1>16. Current = b /\ Current' = <<>>
  BY <1>1, <1>10, <1>12, <1>15 DEF Current
<1>17. ReadSoFar'
  <2>1. PICK u \in Seq(Byte) : u = t \o b
    BY ConcatProperties
  <2>2. u \o <<>> = u
    BY ConcatEmptySeq
  <2>3. NoCR(Taken) = u /\ rd.line = 1 + Lines(u)
    BY <1>3, <1>11, <1>16, <2>1 DEF ReadSoFar
  <2>4. Taken' = Taken
    BY <1>8 DEF Taken, Bytes, At
  <2>5. Text(given') \o Current' = u
    BY <1>14, <1>16, <2>1, <2>2
  <2> QED
    BY <1>8, <1>10, <1>15, <2>3, <2>4, <2>5 DEF ReadSoFar
<1>18. Numbered'
  <2>1. c.uline = 1 + Lines(Text(given))
    BY <1>1, <1>3, <1>13 DEF ReadSoFar
  <2> QED
    BY <1>3, <1>8, <1>9, <1>13, <2>1, NumberedAppend
<1>19. Ended'
  <2>1. PICK n \in Nat : n = Len(given)
    BY <1>9, LenProperties
  <2>2. PICK h : h = given'
    OBVIOUS
  <2>3. /\ Len(h) = n + 1 /\ h[n + 1] = c
        /\ \A i \in 1 .. n : h[i] = given[i]
    BY <1>8, <1>9, <1>13, <2>1, <2>2, AppendProperties
  <2>4. \A i \in 1 .. n : EndsLine(given[i].text)
    BY <1>1, <1>3, <2>1 DEF Ended, EndedTo
  <2>5. \A i \in 1 .. n : EndsLine(h[i].text)
    BY <2>3, <2>4
  <2>6. Len(h) - 1 = n
    BY <2>1, <2>3
  <2>7. EndedTo(Len(given) - 1)'
    BY <2>2, <2>5, <2>6 DEF EndedTo
  <2>8. EndsLine(b) \/ IsClosed
    BY <1>1, <1>3, <1>12 DEF Ended
  <2>9. IsClosed' = IsClosed
    BY <1>8 DEF IsClosed, Empty
  <2>10. EndsLine(b) => EndedTo(Len(given))'
    <3> SUFFICES ASSUME EndsLine(b), NEW i \in 1 .. n + 1
                 PROVE  EndsLine(h[i].text)
      BY <2>2, <2>3 DEF EndedTo
    <3>1. CASE i = n + 1
      BY <1>13, <2>3, <3>1
    <3>2. CASE i # n + 1
      <4>1. i \in 1 .. n
        BY <2>1, <3>2
      <4> QED
        BY <2>5, <4>1
    <3> QED
      BY <3>1, <3>2
  <2>11. at = "done" /\ status = "continue" => IsClosed
    <3>1. SUFFICES ASSUME at = "done", status = "continue"
                   PROVE  IsClosed
      OBVIOUS
    <3>2. b = <<>>
      BY <1>5, <1>12, <3>1
    <3>3. ~ EndsLine(b)
      <4>1. Len(b) = 0
        BY <3>2, EmptySeq
      <4> QED
        BY <4>1 DEF EndsLine
    <3> QED
      BY <2>8, <3>3
  <2> QED
    BY <1>10, <1>15, <2>7, <2>8, <2>9, <2>10, <2>11 DEF Ended
<1>20. LoadTyped' /\ InPlace' /\ Loading'
  <2>1. given' \in Seq(ChunkType)
    BY <1>8, <1>9, <1>13, AppendProperties
  <2>2. load'.at # "read" /\ load'.at # "none" /\ load'.at \in {"next", "done"}
    BY <1>10, <1>15
  <2> QED
    BY <1>8, <1>9, <1>10, <2>1, <2>2 DEF LoadTyped, InPlace, Loading
<1> QED
  BY <1>17, <1>18, <1>19, <1>20 DEF LoadInv

\* Filling the buffer changes nothing of it.
LEMMA ReadStepLoads ==
  ASSUME ReadInv, LoadInv, Loading, ReadStep, UNCHANGED loadVars
  PROVE  LoadInv'
<1>1. LoadTyped /\ ReadSoFar /\ Numbered /\ Ended /\ InPlace
  BY LoadParts
<1>2. load' = load /\ rd' = rd /\ given' = given
  BY DEF loadVars
<1>3. call.op \in {"none", "getc"}
  BY <1>1 DEF LoadTyped, Idle, Call
<1>4. Refill \/ NothingRead
  BY <1>3 DEF ReadStep, LineFound, LineGoesOn, LastLine, ReadMore, AllRead,
              GetByte, GetByteRefilled, Refilled, Reading
<1>5. file \in Seq(Byte) /\ Positioned(in, file)
  BY DEF ReadInv
<1>6. /\ in.unread = <<>> /\ in.running /\ call' = call /\ file' = file
      /\ call.op # "none"
  <2>1. CASE Refill
    BY <1>3, <2>1 DEF Refill, MustRead, Empty, Reading
  <2>2. CASE NothingRead
    BY <2>2 DEF NothingRead, MustRead, Empty
  <2> QED
    BY <1>4, <2>1, <2>2
<1>7. Len(in.unread) = 0 /\ in.pos \in Nat /\ Len(file) \in Nat /\ At = in.pos
  BY <1>5, <1>6, PositionedParts DEF At
<1>8. At' = At
  <2>1. CASE Refill
    <3>1. PICK k \in 1 .. BufSize :
            /\ in.pos + k <= Len(file)
            /\ in' = Stream(in.running, Bytes(in.pos, in.pos + k), TRUE,
                            in.pos + k, in.closes)
      BY <2>1 DEF Refill
    <3>2. PICK a \in Nat, b \in Nat : a = in.pos /\ b = in.pos + k
      BY <1>7, BufSizeAssumption
    <3>3. a <= b /\ b <= Len(file) /\ b - a = k
      BY <3>1, <3>2, BufSizeAssumption
    <3>4. Len(Bytes(a, b)) = b - a
      BY <1>5, <3>2, <3>3, BytesType
    <3>5. in'.pos = b /\ in'.unread = Bytes(a, b)
      BY <3>1, <3>2 DEF Stream
    <3> QED
      BY <1>7, <3>2, <3>3, <3>4, <3>5 DEF At
  <2>2. CASE NothingRead
    <3>1. in'.pos = in.pos /\ in'.unread = in.unread
      BY <2>2 DEF NothingRead, Stream
    <3> QED
      BY <3>1 DEF At
  <2> QED
    BY <1>4, <2>1, <2>2
<1>9. Taken' = Taken
  BY <1>6, <1>8 DEF Taken, Bytes
<1>10. Current' = Current
  BY <1>2 DEF Current
<1>11. ReadSoFar' /\ Numbered'
  BY <1>1, <1>2, <1>9, <1>10, NothingCounted DEF ReadSoFar
<1>12. load.at = "read"
  BY <1>1, <1>6 DEF LoadTyped, Idle, Call
<1>13. Ended'
  <2>1. given \in Seq(ChunkType)
    BY <1>1 DEF LoadTyped
  <2> QED
    BY <1>1, <1>2, <1>12, <2>1, StillEnded
<1>14. LoadTyped' /\ InPlace' /\ Loading'
  BY <1>1, <1>2, <1>6 DEF LoadTyped, InPlace, Loading
<1> QED
  BY <1>11, <1>13, <1>14 DEF LoadInv

LEMMA LoadStepLoads ==
  ASSUME ReadInv, LoadInv, LoadStep
  PROVE  LoadInv'
<1>1. CASE SkipCR
  BY <1>1, SkipCRLoads
<1>2. CASE OpenComment
  BY <1>2, OpenCommentLoads
<1>3. CASE OpenQuote
  BY <1>3, OpenQuoteLoads
<1>4. CASE EndChunk
  BY <1>4, EndChunkLoads
<1>5. CASE InCode
  BY <1>5, InCodeLoads
<1>6. CASE InQuote
  BY <1>6, InQuoteLoads
<1>7. CASE InComment
  BY <1>7, InCommentLoads
<1>8. CASE EndOfScript
  BY <1>8, EndOfScriptLoads
<1>9. CASE NextChunk
  BY <1>9, NextChunkLoads
<1>10. CASE Eval
  BY <1>10, EvalLoads
<1> QED
  BY <1>1, <1>2, <1>3, <1>4, <1>5, <1>6, <1>7, <1>8, <1>9, <1>10 DEF LoadStep

LEMMA LoadInit ==
  ASSUME Init, ReadInv
  PROVE  LoadInv
<1>1. call = Idle /\ rd = Fresh(1) /\ given = <<>> /\ Opened
  BY DEF Init
<1>2. CASE ~ Loading
  BY <1>1, <1>2 DEF LoadInv, Idle, Call
<1>3. CASE Loading
  <2>1. in = Reader(TRUE) /\ load = LoaderOf(TRUE)
    <3>1. load # LoaderOf(FALSE)
      BY <1>3 DEF Loading, LoaderOf
    <3> QED
      BY <1>1, <3>1 DEF Opened
  <2>2. IsLoad(load) /\ load.at = "next"
    BY <2>1 DEF LoaderOf, IsLoad, LoadFields
  <2>3. IsRd(rd) /\ rd.ba = <<>> /\ rd.line = 1
    BY <1>1 DEF Fresh, IsRd, RdFields
  <2>4. given \in Seq(ChunkType) /\ Len(given) = 0 /\ <<>> \in Seq(Byte)
    BY <1>1, EmptySeq
  <2>5. LoadTyped
    <3>1. rd.ba \in Seq(Byte)
      BY <2>3, <2>4
    <3>2. rd.line \in Nat
      BY <2>3
    <3>3. call = Idle
      BY <1>1
    <3> QED
      BY <2>2, <2>3, <2>4, <3>1, <3>2, <3>3 DEF LoadTyped
  <2>6. At = 0
    <3>1. in.pos = 0 /\ in.unread = <<>>
      BY <2>1 DEF Reader, Stream
    <3>2. Len(in.unread) = 0
      BY <2>4, <3>1, EmptySeq
    <3>3. PICK n \in Nat : n = 0
      OBVIOUS
    <3>4. in.pos = n /\ Len(in.unread) = n
      BY <3>1, <3>2, <3>3
    <3> QED
      BY <3>3, <3>4 DEF At
  <2>7. Taken = <<>>
    <3>1. PICK z \in Nat : z = 0
      OBVIOUS
    <3>2. Bytes(z, z) = <<>>
      BY <3>1, EmptyBytes DEF ReadInv
    <3> QED
      BY <2>6, <3>1, <3>2 DEF Taken
  <2>8. Current = <<>> /\ Text(given) = <<>> /\ NoCR(Taken) = <<>>
    BY <1>1, <2>2, <2>7, TextEmpty, NoCREmpty DEF Current
  <2>9. <<>> \o <<>> = <<>>
    BY <2>4, ConcatEmptySeq
  <2>10. ReadSoFar
    BY <2>2, <2>3, <2>8, <2>9, LinesEmpty DEF ReadSoFar
  <2>11. Numbered
    BY <2>4 DEF Numbered
  <2>12. EndedTo(Len(given)) /\ EndedTo(Len(given) - 1)
    BY <2>4 DEF EndedTo
  <2>13. Ended /\ InPlace
    BY <2>2, <2>12 DEF Ended, InPlace
  <2> QED
    BY <1>3, <2>5, <2>10, <2>11, <2>13 DEF LoadInv
<1> QED
  BY <1>2, <1>3

LEMMA LoadNext ==
  ASSUME StreamsInv, LoadInv, [Next]_vars
  PROVE  LoadInv'
<1>1. ReadInv
  BY DEF StreamsInv
<1>2. CASE Load
  BY <1>1, <1>2, LoadStepLoads DEF Load
<1>3. CASE Consume
  <2>1. load' = load /\ rd' = rd /\ given' = given /\ UNCHANGED loadVars
    BY <1>3 DEF Consume, loadVars
  <2>2. CASE Loading
    <3>1. ReadStep
      BY <1>3, <2>2 DEF Consume
    <3> QED
      BY <1>1, <2>1, <2>2, <3>1, ReadStepLoads
  <2>3. CASE ~ Loading
    <3>1. call.op # "getc"
      BY <2>3 DEF LoadInv
    <3>2. call'.op # "getc"
      <4>1. CASE ReadStep
        <5>1. CASE Refill \/ NothingRead
          <6>1. PICK a : a = At
            OBVIOUS
          <6>2. call' = call \/ call' = Call("getByte refilled", <<>>, a)
            BY <5>1, <6>1 DEF Refill, NothingRead
          <6>3. CASE call' = call
            BY <3>1, <6>3
          <6>4. CASE call' = Call("getByte refilled", <<>>, a)
            BY <6>4 DEF Call
          <6> QED
            BY <6>2, <6>3, <6>4
        <5>2. CASE LineGoesOn \/ ReadMore
          <6>1. PICK s : s = call.cwb \o in.unread
            OBVIOUS
          <6>2. call' = Call(call.op, s, call.from)
            BY <5>2, <6>1 DEF LineGoesOn, ReadMore
          <6> QED
            BY <3>1, <6>2 DEF Call
        <5>3. CASE LineFound \/ LastLine \/ AllRead \/ GetByte
                    \/ GetByteRefilled
          <6>1. call' = Idle
            BY <5>3 DEF LineFound, LastLine, AllRead, GetByte,
                        GetByteRefilled, Return
          <6> QED
            BY <6>1 DEF Idle, Call
        <5> QED
          BY <4>1, <5>1, <5>2, <5>3 DEF ReadStep
      <4>2. CASE BeginRead
        BY <4>2 DEF BeginRead, Begin, Call
      <4>3. CASE CloseInput
        BY <3>1, <4>3 DEF CloseInput
      <4> QED
        BY <1>3, <4>1, <4>2, <4>3 DEF Consume
    <3>3. ~ Loading'
      BY <2>1, <2>3 DEF Loading
    <3> QED
      BY <3>2, <3>3 DEF LoadInv
  <2> QED
    BY <2>2, <2>3
<1>4. CASE Produce
  <2>1. ~ Loading /\ load' = load /\ call' = call
    BY <1>4 DEF Produce, inVars, loadVars
  <2>2. ~ Loading'
    BY <2>1 DEF Loading
  <2> QED
    BY <2>1, <2>2 DEF LoadInv
<1>5. CASE UNCHANGED vars
  <2>1. /\ file' = file /\ in' = in /\ call' = call
        /\ load' = load /\ rd' = rd /\ given' = given
    BY <1>5 DEF vars, inVars, loadVars
  <2>2. Taken' = Taken /\ Current' = Current
    BY <2>1 DEF Taken, Bytes, At, Current
  <2>3. IsClosed' = IsClosed /\ Loading' = Loading
    BY <2>1 DEF IsClosed, Empty, Loading
  <2>4. Loading => LoadTyped' /\ ReadSoFar' /\ Numbered' /\ Ended' /\ InPlace'
    <3>1. SUFFICES ASSUME Loading
                   PROVE  LoadTyped' /\ ReadSoFar' /\ Numbered' /\ Ended' /\ InPlace'
      OBVIOUS
    <3>2. LoadTyped /\ ReadSoFar /\ Numbered /\ Ended /\ InPlace
      BY <3>1, LoadParts
    <3>3. LoadTyped' /\ InPlace'
      BY <2>1, <3>2 DEF LoadTyped, InPlace
    <3>4. ReadSoFar' /\ Numbered'
      BY <2>1, <2>2, <3>2 DEF ReadSoFar, Numbered
    <3>5. Ended'
      BY <2>1, <2>3, <3>2 DEF Ended, EndedTo
    <3> QED
      BY <3>3, <3>4, <3>5
  <2> QED
    BY <2>1, <2>3, <2>4 DEF LoadInv
<1> QED
  BY <1>2, <1>3, <1>4, <1>5 DEF Next

\* readchunk and knh_InputStream_load: the chunks of any script, however its
\* bytes come, are the script without its CR, each with the number of its
\* first line; only the last ends anywhere but at the end of a line that
\* ends chunks, and a loader that stops without a failure has read it all.
THEOREM ChunksAreRight == Spec => []ChunksInOrder
<1>1. Init => StreamsInv /\ LoadInv
  BY StreamsInit, LoadInit DEF StreamsInv
<1>2. (StreamsInv /\ LoadInv) /\ [Next]_vars => (StreamsInv /\ LoadInv)'
  BY StreamsNext, LoadNext
<1>3. LoadInv => ChunksInOrder
  <2>1. SUFFICES ASSUME LoadInv, Loading
                 PROVE  ChunksInOrder
    BY DEF ChunksInOrder, Loading
  <2>2. ReadSoFar /\ Numbered /\ Ended
    BY <2>1, LoadParts
  <2> QED
    BY <2>2 DEF ChunksInOrder, ReadSoFar, Taken, Numbered, Ended, EndedTo
<1> QED
  BY <1>1, <1>2, <1>3, PTL DEF Spec
=============================================================================
