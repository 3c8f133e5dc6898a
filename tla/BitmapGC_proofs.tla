--------------------------- MODULE BitmapGC_proofs ---------------------------
(***************************************************************************)
(* Proofs about the bitmap-marking collector, for every choice of size     *)
(* classes, segments and geometry that the assumptions of BitmapGC admit.  *)
(***************************************************************************)
EXTENDS BitmapGC, FiniteSetTheorems, WellFoundedInduction, TLAPS

-----------------------------------------------------------------------------
(* Lemmas about the operators.                                             *)

\* A set of natural numbers that is not empty has a smallest element, so the
\* scan of a word with a clear bit (BP_NEXT_MASK) finds one.
LEMMA SmallestExists ==
  ASSUME NEW S \in SUBSET Nat, S # {}
  PROVE  Smallest(S) # {}
<1>1. \E x \in S : \A y \in S : ~ (<<y, x>> \in OpToRel(<, Nat))
  BY NatLessThanWellFounded, WFMin
<1>2. PICK x \in S : \A y \in S : ~ (<<y, x>> \in OpToRel(<, Nat))
  BY <1>1
<1>3. \A y \in S : ~ (y < x)
  BY <1>2 DEF OpToRel
<1>4. x \in Smallest(S)
  BY <1>3 DEF Smallest
<1> QED BY <1>4

\* There are finitely many blocks.
LEMMA BlockFinite == IsFiniteSet(Block)
<1> DEFINE W == 0 .. (MaxWords - 1)
           f == [b \in Block |-> <<b[1], <<b[2], b[3]>>>>]
<1>1. IsFiniteSet(W) /\ IsFiniteSet(Bit)
  BY FS_Interval, GeometryAssumption DEF Bit
<1>2. IsFiniteSet(W \X Bit)
  BY <1>1, FS_Product
<1>3. IsFiniteSet(Segment \X (W \X Bit))
  BY <1>2, FS_Product, SegmentAssumption
<1>4. f \in Injection(Block, Segment \X (W \X Bit))
  BY DEF Injection, IsInjective, Block
<1> QED BY <1>3, <1>4, FS_Injection

-----------------------------------------------------------------------------
(* The inductive invariant of the types.  What the code relies on without  *)
(* saying so: the bit of the segment header is never cleared, and a        *)
(* pointer that may hand out its block agrees with the block pointer.      *)

HeaderMarked == \A s \in Segment : <<0, 0>> \in bitmap[s]

Coherent ==
  \A k \in Klass : p[k].mask =>
    \/ p[k].seg = NoSegment
    \/ p[k].idx = 0 /\ p[k].bit = 0
    \/ p[k].blk = <<p[k].seg, p[k].idx, p[k].bit>>

Types == TypeOK /\ HeaderMarked /\ Coherent

WordIndex == 0 .. (MaxWords - 1)

\* The bit at pos is clear, or level 1 has led from word w to a full word.
ClearOrMisled(k, s, w, pos) ==
  \/ pos \notin bitmap[s]
  \/ \E v \in WordIndex :
       /\ v > w /\ v < L1Limit[k] /\ v \notin level1[s]
       /\ LowestClear(k, s, v, 0) = {}

\* A position findNextFreeBlock settles on is a block of the segment other
\* than its header, not below the word the scan starts in.
LEMMA FoundPosition ==
  ASSUME Types, NEW k \in Klass, NEW s \in Segment \cup {NoSegment},
         NEW w \in 0 .. MaxWords, NEW i \in Bit, NEW pos \in Found(k, s, w, i)
  PROVE  /\ s \in Segment
         /\ pos \in WordIndex \X Bit
         /\ pos[1] >= w
         /\ pos # <<0, 0>>
         /\ ClearOrMisled(k, s, w, pos)
<1> USE GeometryAssumption, SegmentAssumption
<1>1. ASSUME NEW v \in 0 .. MaxWords, v >= w, NEW a \in Bit,
             NEW j \in LowestClear(k, s, v, a), pos = <<v, j>>
      PROVE  /\ s \in Segment
             /\ pos \in WordIndex \X Bit
             /\ pos[1] >= w
             /\ pos # <<0, 0>>
             /\ pos \notin bitmap[s]
  <2>1. j \in Bit /\ ~ Marked(k, s, v, j)
    BY <1>1 DEF LowestClear, Smallest
  <2>2. s # NoSegment /\ v < Words[k] /\ <<v, j>> \notin bitmap[s]
    BY <2>1 DEF Marked
  <2>3. s \in Segment /\ v \in WordIndex
    BY <2>2 DEF WordIndex
  <2> QED BY <2>1, <2>2, <2>3, <1>1 DEF Types, HeaderMarked
<1>2. CASE LowestClear(k, s, w, i) # {}
  BY <1>1, <1>2 DEF Found, ClearOrMisled
<1>3. CASE LowestClear(k, s, w, i) = {}
  <2>1. PICK v \in NextWord(k, s, w) :
          pos \in IF LowestClear(k, s, v, 0) # {}
                    THEN {<<v, j>> : j \in LowestClear(k, s, v, 0)}
                    ELSE {<<v - 1, Bits - 1>>}
    BY <1>3 DEF Found
  <2>2. /\ s # NoSegment
        /\ v \in WordIndex /\ v > w /\ v < L1Limit[k] /\ v \notin level1[s]
    BY <2>1 DEF NextWord, Smallest, WordIndex
  <2>3. v \in 0 .. MaxWords /\ v >= w /\ 0 \in Bit
    BY <2>2 DEF WordIndex, Bit
  <2>4. CASE LowestClear(k, s, v, 0) # {}
    BY <2>1, <2>3, <2>4, <1>1 DEF ClearOrMisled
  <2>5. CASE LowestClear(k, s, v, 0) = {}
    <3>1. pos = <<v - 1, Bits - 1>>
      BY <2>1, <2>5
    <3>2. s \in Segment /\ v - 1 \in WordIndex /\ v - 1 >= w
      BY <2>2 DEF WordIndex
    <3>3. Bits - 1 \in Bit /\ Bits - 1 # 0
      BY DEF Bit
    <3> QED BY <3>1, <3>2, <3>3, <2>2, <2>5 DEF ClearOrMisled
  <2> QED BY <2>4, <2>5
<1> QED BY <1>2, <1>3

\* What every way of allocating has in common: one bit is set, the pointer
\* moves behind it and its block is handed out.
AllocAt(k, s, pos) ==
  /\ Trying(k)
  /\ s \in Segment /\ pos \in WordIndex \X Bit /\ pos # <<0, 0>>
  /\ Inc(k, s, pos)
  /\ HandOut(<<s, pos[1], pos[2]>>)
  /\ level1' \in [Segment -> SUBSET (0 .. MaxWords)]
  /\ \A t \in Segment : level1[t] \subseteq level1'[t]

\* The three places the segment comes from.
InPlace(k, s, pos) ==
  /\ s = p[k].seg
  /\ pos[1] >= p[k].idx /\ ClearOrMisled(k, s, p[k].idx, pos)
  /\ UNCHANGED <<seglist, freelist, segmentList>>

FromFreelist(k, s, pos) ==
  /\ s \in freelist[k] /\ ClearOrMisled(k, s, 0, pos)
  /\ \E F \in SUBSET freelist[k] :
       freelist' = [freelist EXCEPT ![k] = @ \ (F \cup {s})]
  /\ UNCHANGED <<seglist, segmentList>>

FromPool(k, s, pos) ==
  /\ s \in segmentList /\ ClearOrMisled(k, s, 0, pos)
  /\ seglist' = [seglist EXCEPT ![k] = @ \cup {s}]
  /\ segmentList' = segmentList \ {s}
  /\ freelist' = [freelist EXCEPT ![k] = {}]

LEMMA PointerType ==
  ASSUME TypeOK, NEW k \in Klass
  PROVE  /\ p[k] \in Pointer
         /\ p[k].seg \in Segment \cup {NoSegment}
         /\ p[k].idx \in 0 .. MaxWords
         /\ p[k].bit \in Bit
         /\ p[k].mask \in BOOLEAN
         /\ p[k].blk \in (Segment \X (0 .. MaxWords) \X Bit)
                           \cup {NoBlock, WildBlock}
BY DEF TypeOK, Pointer

\* The pointers BITPTRS_INIT and a BP_NEXT_MASK without result leave.
LEMMA NewPointers ==
  ASSUME TypeOK, NEW k \in Klass
  PROVE  /\ \A s \in Segment, m \in BOOLEAN :
              /\ StartOf(k, s, m) \in Pointer
              /\ StartOf(k, s, m).mask = m
              /\ StartOf(k, s, m).seg = s
              /\ StartOf(k, s, m).idx = 0 /\ StartOf(k, s, m).bit = 0
         /\ \A b \in {p[k].blk, WildBlock} :
              /\ WithoutMask(k, b) \in Pointer
              /\ ~ WithoutMask(k, b).mask
              /\ WithoutMask(k, b).seg = p[k].seg
<1>1. 0 \in Bit /\ 0 \in 0 .. MaxWords
  BY GeometryAssumption DEF Bit
<1> QED BY <1>1, PointerType DEF StartOf, WithoutMask, Pointer

LEMMA LeaveForType ==
  ASSUME TypeOK, NEW k \in Klass, NEW F, NEW s, LeaveFor(k, F, s)
  PROVE  /\ level1' \in [Segment -> SUBSET (0 .. MaxWords)]
         /\ \A t \in Segment : level1[t] \subseteq level1'[t]
<1>1. p[k].idx \in 0 .. MaxWords
  BY PointerType
<1>2. 0 \in 0 .. MaxWords
  BY GeometryAssumption
<1> QED BY <1>1, <1>2 DEF LeaveFor, TypeOK

LEMMA AllocShape ==
  ASSUME Types, NEW k \in Klass, Alloc(k)
  PROVE  \E s \in Segment, pos \in WordIndex \X Bit :
           /\ AllocAt(k, s, pos)
           /\ InPlace(k, s, pos) \/ FromFreelist(k, s, pos)
                \/ FromPool(k, s, pos)
<1> USE GeometryAssumption
<1>0. 0 \in 0 .. MaxWords /\ 0 \in Bit
  BY DEF Bit
<1>1. CASE AllocHere(k)
  <2> DEFINE pos == <<p[k].idx, p[k].bit>>
  <2>1. /\ p[k].seg # NoSegment
        /\ p[k].idx < Words[k]
        /\ pos \notin bitmap[p[k].seg]
    BY <1>1 DEF AllocHere, PointerMarked, Marked
  <2>2. p[k].seg \in Segment /\ pos \in WordIndex \X Bit
    BY <2>1, PointerType DEF Types, WordIndex
  <2>3. pos # <<0, 0>>
    BY <2>1, <2>2 DEF Types, HeaderMarked
  <2>4. p[k].blk = <<p[k].seg, p[k].idx, p[k].bit>>
    BY <1>1, <2>1, <2>3 DEF Types, Coherent, AllocHere
  <2>5. AllocAt(k, p[k].seg, pos)
    BY <1>1, <2>2, <2>3, <2>4 DEF AllocHere, AllocAt, Types, TypeOK
  <2>6. InPlace(k, p[k].seg, pos)
    BY <1>1, <2>1, <2>2 DEF AllocHere, InPlace, ClearOrMisled, WordIndex
  <2> QED BY <2>2, <2>5, <2>6
<1>2. CASE AllocScan(k)
  <2>1. PICK pos \in FoundAtPointer(k) :
          /\ Inc(k, p[k].seg, pos)
          /\ HandOut(<<p[k].seg, pos[1], pos[2]>>)
    BY <1>2 DEF AllocScan
  <2>2. /\ p[k].seg \in Segment
        /\ pos \in WordIndex \X Bit /\ pos[1] >= p[k].idx /\ pos # <<0, 0>>
        /\ ClearOrMisled(k, p[k].seg, p[k].idx, pos)
    BY FoundPosition, PointerType DEF FoundAtPointer, Types
  <2>3. /\ level1' \in [Segment -> SUBSET (0 .. MaxWords)]
        /\ \A t \in Segment : level1[t] \subseteq level1'[t]
    <3>1. \/ level1' = level1
          \/ level1' = [level1 EXCEPT ![p[k].seg] = @ \cup {p[k].idx}]
      BY <1>2 DEF AllocScan
    <3>2. p[k].idx \in 0 .. MaxWords
      BY PointerType DEF Types
    <3>3. level1 \in [Segment -> SUBSET (0 .. MaxWords)]
      BY DEF Types, TypeOK
    <3>4. CASE level1' = [level1 EXCEPT ![p[k].seg] = @ \cup {p[k].idx}]
      BY <3>2, <3>3, <3>4
    <3> QED BY <3>1, <3>3, <3>4
  <2>4. AllocAt(k, p[k].seg, pos)
    BY <1>2, <2>1, <2>2, <2>3 DEF AllocScan, AllocAt
  <2>5. InPlace(k, p[k].seg, pos)
    BY <1>2, <2>2 DEF AllocScan, InPlace
  <2> QED BY <2>2, <2>4, <2>5
<1>3. CASE AllocFreelist(k)
  <2>1. PICK s \in freelist[k], F \in SUBSET freelist[k] :
          /\ \E pos \in Found(k, s, 0, 0) :
               /\ Inc(k, s, pos)
               /\ HandOut(<<s, pos[1], pos[2]>>)
          /\ freelist' = [freelist EXCEPT ![k] = @ \ (F \cup {s})]
          /\ LeaveFor(k, F, s)
    BY <1>3 DEF AllocFreelist
  <2>2. PICK pos \in Found(k, s, 0, 0) :
          Inc(k, s, pos) /\ HandOut(<<s, pos[1], pos[2]>>)
    BY <2>1
  <2>3. /\ s \in Segment
        /\ pos \in WordIndex \X Bit /\ pos # <<0, 0>>
        /\ ClearOrMisled(k, s, 0, pos)
    BY FoundPosition, <1>0 DEF Types, TypeOK
  <2>4. AllocAt(k, s, pos)
    BY <1>3, <2>1, <2>2, <2>3, LeaveForType DEF AllocFreelist, AllocAt, Types
  <2>5. FromFreelist(k, s, pos)
    BY <1>3, <2>1, <2>3 DEF AllocFreelist, FromFreelist
  <2> QED BY <2>3, <2>4, <2>5
<1>4. CASE AllocSegment(k)
  <2>1. PICK s \in segmentList :
          /\ \E pos \in Found(k, s, 0, 0) :
               /\ Inc(k, s, pos)
               /\ HandOut(<<s, pos[1], pos[2]>>)
          /\ seglist' = [seglist EXCEPT ![k] = @ \cup {s}]
          /\ segmentList' = segmentList \ {s}
          /\ LeaveFor(k, freelist[k], s)
    BY <1>4 DEF AllocSegment
  <2>2. PICK pos \in Found(k, s, 0, 0) :
          Inc(k, s, pos) /\ HandOut(<<s, pos[1], pos[2]>>)
    BY <2>1
  <2>3. /\ s \in Segment
        /\ pos \in WordIndex \X Bit /\ pos # <<0, 0>>
        /\ ClearOrMisled(k, s, 0, pos)
    BY FoundPosition, <1>0 DEF Types, TypeOK
  <2>4. AllocAt(k, s, pos)
    BY <1>4, <2>1, <2>2, <2>3, LeaveForType DEF AllocSegment, AllocAt, Types
  <2>5. FromPool(k, s, pos)
    BY <1>4, <2>1, <2>3 DEF AllocSegment, FromPool
  <2> QED BY <2>3, <2>4, <2>5
<1> QED BY <1>1, <1>2, <1>3, <1>4 DEF Alloc

\* Marking keeps the types, and no bit is cleared by it.
LEMMA MarkRefsType ==
  ASSUME TypeOK, NEW R \in SUBSET Block, NEW rest \in SUBSET Block,
         MarkRefs(R, rest)
  PROVE  /\ bitmap' \in [Segment -> SUBSET (WordIndex \X Bit)]
         /\ level1' \in [Segment -> SUBSET (0 .. MaxWords)]
         /\ live_count' \in [Segment -> Nat]
         /\ ostack' \in SUBSET Block
         /\ \A s \in Segment : bitmap[s] \subseteq bitmap'[s]
<1> USE GeometryAssumption
<1> DEFINE new == Unmarked(R)
<1>1. new \in SUBSET Block
  BY DEF Unmarked
<1>2. \A s \in Segment : In(new, s) \in SUBSET Block
  BY <1>1 DEF In
<1>3. \A s \in Segment : Cardinality(In(new, s)) \in Nat
  BY <1>2, BlockFinite, FS_Subset, FS_CardinalityType
<1>4. live_count' \in [Segment -> Nat]
  BY <1>3 DEF MarkRefs, TypeOK
<1>5. \A s \in Segment :
        {<<b[2], b[3]>> : b \in In(new, s)} \subseteq WordIndex \X Bit
  BY <1>2 DEF Block, WordIndex
<1>6. /\ bitmap' \in [Segment -> SUBSET (WordIndex \X Bit)]
      /\ \A s \in Segment : bitmap[s] \subseteq bitmap'[s]
  BY <1>5 DEF MarkRefs, TypeOK, WordIndex
<1>7. \A s \in Segment : Filled(new, s) \subseteq 0 .. MaxWords
  BY DEF Filled
<1>8. level1' \in [Segment -> SUBSET (0 .. MaxWords)]
  BY <1>7 DEF MarkRefs, TypeOK
<1>9. ostack' \in SUBSET Block
  BY <1>1 DEF MarkRefs
<1> QED BY <1>4, <1>6, <1>8, <1>9

\* What makes a pointer coherent.
PointerFits(q) ==
  q.mask => \/ q.seg = NoSegment
            \/ q.idx = 0 /\ q.bit = 0
            \/ q.blk = <<q.seg, q.idx, q.bit>>

LEMMA SetPointer ==
  ASSUME Types, NEW k \in Klass, NEW q \in Pointer, PointerFits(q),
         p' = [p EXCEPT ![k] = q]
  PROVE  p' \in [Klass -> Pointer] /\ Coherent'
BY DEF Types, TypeOK, Coherent, PointerFits

LEMMA AllocKeepsTypes ==
  ASSUME Types, NEW k \in Klass, Alloc(k)
  PROVE  Types'
<1> USE GeometryAssumption
<1>1. PICK s \in Segment, pos \in WordIndex \X Bit :
        /\ AllocAt(k, s, pos)
        /\ InPlace(k, s, pos) \/ FromFreelist(k, s, pos) \/ FromPool(k, s, pos)
  BY AllocShape
<1>2. bitmap' \in [Segment -> SUBSET (WordIndex \X Bit)] /\ HeaderMarked'
  BY <1>1 DEF AllocAt, Inc, Types, TypeOK, WordIndex, HeaderMarked
<1>3. live_count' \in [Segment -> Nat]
  BY <1>1 DEF AllocAt, Inc, Types, TypeOK
<1>4. /\ After(pos[1], pos[2])[1] \in 0 .. MaxWords
      /\ After(pos[1], pos[2])[2] \in Bit
  BY DEF After, WordIndex, Bit
<1> DEFINE next == After(pos[1], pos[2])
           q == [seg |-> s, idx |-> next[1], bit |-> next[2], mask |-> TRUE,
                 blk |-> <<s, next[1], next[2]>>]
<1>5. p' = [p EXCEPT ![k] = q]
  BY <1>1 DEF AllocAt, Inc
<1>6. q \in Pointer /\ PointerFits(q)
  BY <1>4 DEF Pointer, PointerFits
<1>7. p' \in [Klass -> Pointer] /\ Coherent'
  BY <1>5, <1>6, SetPointer
<1>8. /\ seglist' \in [Klass -> SUBSET Segment]
      /\ freelist' \in [Klass -> SUBSET Segment]
      /\ segmentList' \in SUBSET Segment
  <2>1. CASE InPlace(k, s, pos)
    BY <2>1 DEF InPlace, Types, TypeOK
  <2>2. CASE FromFreelist(k, s, pos)
    <3>1. PICK F \in SUBSET freelist[k] :
            freelist' = [freelist EXCEPT ![k] = @ \ (F \cup {s})]
      BY <2>2 DEF FromFreelist
    <3>2. freelist' \in [Klass -> SUBSET Segment]
      BY <3>1 DEF Types, TypeOK
    <3> QED BY <2>2, <3>2 DEF FromFreelist, Types, TypeOK
  <2>3. CASE FromPool(k, s, pos)
    BY <2>3 DEF FromPool, Types, TypeOK
  <2> QED BY <1>1, <2>1, <2>2, <2>3
<1>9. <<s, pos[1], pos[2]>> \in Block
  BY DEF Block, WordIndex
<1>10. /\ constructed' \in SUBSET Block
       /\ fields' \in [Block -> SUBSET Block]
       /\ roots' \in SUBSET Block
  BY <1>1, <1>9 DEF AllocAt, HandOut, Types, TypeOK
<1> QED
  BY <1>1, <1>2, <1>3, <1>7, <1>8, <1>10
  DEF AllocAt, HandOut, Types, TypeOK, WordIndex, Phases

\* Of ClearBitmaps.
LEMMA ClearKeepsTypes ==
  ASSUME ClearBitmaps
  PROVE  /\ bitmap' \in [Segment -> SUBSET (WordIndex \X Bit)]
         /\ level1' \in [Segment -> SUBSET (0 .. MaxWords)]
         /\ live_count' \in [Segment -> Nat]
         /\ HeaderMarked'
  BY GeometryAssumption, SegmentAssumption
  DEF ClearBitmaps, HeaderMarked, WordIndex, Bit

\* Rearranging the lists of segments keeps their types and leaves pointers of
\* the right type.
LEMMA RearrangeKeepsTypes ==
  ASSUME Types, NEW fetch \in [Klass -> Segment \cup {NoSegment}],
         Rearrange(fetch)
  PROVE  /\ freelist' \in [Klass -> SUBSET Segment]
         /\ \A k \in Klass : /\ Fetched(k, fetch[k]) \in Pointer
                             /\ PointerFits(Fetched(k, fetch[k]))
<1>1. freelist' \in [Klass -> SUBSET Segment]
  BY DEF Rearrange, Unfilled, Types, TypeOK
<1>2. ASSUME NEW k \in Klass
      PROVE  /\ Fetched(k, fetch[k]) \in Pointer
             /\ PointerFits(Fetched(k, fetch[k]))
  <2>1. CASE fetch[k] = NoSegment
    BY <2>1 DEF Fetched, Types, TypeOK, Coherent, PointerFits
  <2>2. CASE fetch[k] # NoSegment
    BY <2>2, NewPointers DEF Fetched, PointerFits, Types
  <2> QED BY <2>1, <2>2
<1> QED BY <1>1, <1>2

LEMMA FirstBlockType ==
  ASSUME NEW s \in Segment
  PROVE  FirstBlock(s) \in Pointer /\ PointerFits(FirstBlock(s))
<1>1. /\ 0 \in 0 .. MaxWords /\ 0 \in Bit /\ 1 \in Bit
  BY GeometryAssumption DEF Bit
<1> QED BY <1>1 DEF FirstBlock, Pointer, PointerFits

\* The end of a collection: one of Sweep, SweepExpand, SweepNoMemory.
LEMMA SweepsKeepTypes ==
  ASSUME Types, Sweep \/ SweepExpand \/ SweepNoMemory
  PROVE  Types'
<1>1. UNCHANGED <<bitmap, level1, live_count, objectVars, ostack>>
  BY DEF Sweep, SweepExpand, SweepNoMemory, SweepDone
<1>2. /\ p' \in [Klass -> Pointer] /\ Coherent'
      /\ freelist' \in [Klass -> SUBSET Segment]
      /\ seglist' \in [Klass -> SUBSET Segment]
      /\ segmentList' \in SUBSET Segment /\ managed' \in SUBSET Segment
  <2>1. ASSUME NEW fetch \in [Klass -> Segment \cup {NoSegment}],
               Rearrange(fetch), p' = [k \in Klass |-> Fetched(k, fetch[k])]
        PROVE  /\ p' \in [Klass -> Pointer] /\ Coherent'
               /\ freelist' \in [Klass -> SUBSET Segment]
    BY <2>1, RearrangeKeepsTypes DEF Coherent, PointerFits
  <2>2. CASE Sweep \/ SweepNoMemory
    BY <2>1, <2>2 DEF Sweep, SweepNoMemory, poolVars, Types, TypeOK
  <2>3. CASE SweepExpand
    <3>1. PICK fetch \in [Klass -> Segment \cup {NoSegment}],
               fresh \in [Klass -> Segment \cup {NoSegment}],
               pool \in SUBSET (Segment \ managed) :
            Rearrange(fetch) /\ Expand(fetch, fresh, pool)
      BY <2>3 DEF SweepExpand
    <3>2. \A k \in Klass : p'[k] \in Pointer /\ PointerFits(p'[k])
      BY <3>1, RearrangeKeepsTypes, FirstBlockType DEF Expand
    <3>3. p' \in [Klass -> Pointer] /\ Coherent'
      BY <3>1, <3>2 DEF Coherent, PointerFits, Expand
    <3>4. seglist' \in [Klass -> SUBSET Segment]
      BY <3>1 DEF Types, TypeOK, Expand
    <3> QED BY <3>1, <3>3, <3>4, RearrangeKeepsTypes
        DEF Types, TypeOK, Expand
  <2> QED BY <2>2, <2>3
<1>3. phase' \in Phases /\ request' \in Klass \cup {NoKlass}
  BY DEF Sweep, SweepExpand, SweepNoMemory, Phases, Types, TypeOK
<1> QED BY <1>1, <1>2, <1>3 DEF objectVars, Types, TypeOK, HeaderMarked

\* Of MarkRoots and TraceNext.
LEMMA MarkKeepsTypes ==
  ASSUME Types, NEW R \in SUBSET Block, NEW rest \in SUBSET Block,
         MarkRefs(R, rest)
  PROVE  Types'
<1>1. HeaderMarked'
  BY MarkRefsType DEF Types, HeaderMarked
<1>2. UNCHANGED <<seglist, freelist, p, poolVars, objectVars, request>>
        /\ phase' = "mark"
  BY DEF MarkRefs
<1>3. Coherent'
  BY <1>2 DEF Types, Coherent
<1> QED BY <1>1, <1>2, <1>3, MarkRefsType
    DEF poolVars, objectVars, Types, TypeOK, Phases, WordIndex

LEMMA RootsAndFieldsAreBlocks ==
  ASSUME TypeOK
  PROVE  /\ roots \in SUBSET Block
         /\ \A b \in ostack : /\ fields[b] \in SUBSET Block
                              /\ ostack \ {b} \in SUBSET Block
BY DEF TypeOK

\* What the program does leaves the heap alone.
LEMMA MutateKeepsTypes ==
  ASSUME Types, Mutate \/ Catch \/ Exit \/ UNCHANGED vars
  PROVE  Types'
<1> USE GeometryAssumption
<1>1. CASE Mutate
  <2>1. UNCHANGED <<heapVars, poolVars, gcVars, constructed>>
    BY <1>1 DEF Mutate, Store, Erase, Load, Drop
  <2>2. fields' \in [Block -> SUBSET Block] /\ roots' \in SUBSET Block
    BY <1>1 DEF Mutate, Store, Erase, Load, Drop, Types, TypeOK
  <2> QED BY <2>1, <2>2
      DEF heapVars, poolVars, gcVars, Types, TypeOK, HeaderMarked, Coherent
<1>2. CASE Catch
  BY <1>2 DEF Catch, heapVars, poolVars, objectVars, Types, TypeOK,
              HeaderMarked, Coherent, Phases
<1>3. CASE Exit
  <2>1. /\ bitmap' \in [Segment -> SUBSET (WordIndex \X Bit)]
        /\ HeaderMarked'
    BY <1>3 DEF Exit, HeaderMarked, WordIndex, Bit
  <2>2. /\ live_count' \in [Segment -> Nat]
        /\ level1' \in [Segment -> SUBSET (0 .. MaxWords)]
    BY <1>3 DEF Exit
  <2>3. constructed' \in SUBSET Block
    BY <1>3 DEF Exit, Types, TypeOK
  <2> QED BY <1>3, <2>1, <2>2, <2>3
      DEF Exit, poolVars, Types, TypeOK, Coherent, Phases, WordIndex
<1>4. CASE UNCHANGED vars
  BY <1>4 DEF vars, heapVars, poolVars, objectVars, gcVars, Types, TypeOK,
              HeaderMarked, Coherent
<1> QED BY <1>1, <1>2, <1>3, <1>4

LEMMA NextKeepsTypes ==
  ASSUME Types, [Next]_vars
  PROVE  Types'
<1> USE GeometryAssumption, SegmentAssumption
<1>1. ASSUME NEW k \in Klass, AllocStale(k) PROVE Types'
  <2>1. p' = [p EXCEPT ![k] = WithoutMask(k, WildBlock)]
    BY <1>1 DEF AllocStale
  <2>2. p' \in [Klass -> Pointer] /\ Coherent'
    BY <2>1, NewPointers, SetPointer DEF Types, PointerFits
  <2> QED BY <1>1, <2>2
      DEF AllocStale, poolVars, objectVars, Types, TypeOK, HeaderMarked, Phases
<1>2. ASSUME NEW k \in Klass, CollectForAlloc(k) PROVE Types'
  <2>1. \/ p' = [p EXCEPT ![k] = WithoutMask(k, p[k].blk)]
        \/ \E s \in freelist[k] : p' = [p EXCEPT ![k] = StartOf(k, s, FALSE)]
    BY <1>2 DEF CollectForAlloc
  <2>2. freelist[k] \subseteq Segment
    BY DEF Types, TypeOK
  <2>3. p' \in [Klass -> Pointer] /\ Coherent'
    BY <2>1, <2>2, NewPointers, SetPointer, ZenonT(40) DEF Types, PointerFits
  <2>4. freelist' \in [Klass -> SUBSET Segment]
    BY <1>2 DEF CollectForAlloc, Types, TypeOK
  <2>5. ClearBitmaps /\ request' = k
    BY <1>2 DEF CollectForAlloc
  <2> QED BY <2>3, <2>4, <2>5, ClearKeepsTypes
      DEF ClearBitmaps, poolVars, objectVars, Types, TypeOK, Phases, WordIndex
<1>3. ASSUME NEW k \in Klass, ThrowOutOfMemory(k) PROVE Types'
  <2>1. p' = [p EXCEPT ![k] = WithoutMask(k, p[k].blk)]
    BY <1>3 DEF ThrowOutOfMemory
  <2>2. p' \in [Klass -> Pointer] /\ Coherent'
    BY <2>1, NewPointers, SetPointer DEF Types, PointerFits
  <2>3. freelist' \in [Klass -> SUBSET Segment]
    BY <1>3 DEF ThrowOutOfMemory, Types, TypeOK
  <2> QED BY <1>3, <2>2, <2>3
      DEF ThrowOutOfMemory, poolVars, objectVars, Types, TypeOK, HeaderMarked,
          Phases
<1>4. CASE SystemGC
  <2>1. ClearBitmaps /\ request' = NoKlass /\ UNCHANGED <<freelist, p>>
    BY <1>4 DEF SystemGC
  <2>2. Coherent'
    BY <2>1 DEF Types, Coherent
  <2> QED BY <2>1, <2>2, ClearKeepsTypes
      DEF ClearBitmaps, poolVars, objectVars, Types, TypeOK, Phases, WordIndex
<1>5. CASE Collect
  <2>1. CASE MarkRoots
    BY <2>1, MarkKeepsTypes, RootsAndFieldsAreBlocks DEF MarkRoots, Types
  <2>2. CASE TraceNext
    BY <2>2, MarkKeepsTypes, RootsAndFieldsAreBlocks DEF TraceNext, Types
  <2> QED BY <1>5, <2>1, <2>2, SweepsKeepTypes DEF Collect
<1> QED BY <1>1, <1>2, <1>3, <1>4, <1>5, AllocKeepsTypes, MutateKeepsTypes
    DEF Next, Stopped

LEMMA InitTypes == Init => Types
<1> SUFFICES ASSUME Init PROVE Types
  OBVIOUS
<1>1. 0 \in Bit /\ 0 \in 0 .. MaxWords /\ 0 \in WordIndex
  BY GeometryAssumption DEF Bit, WordIndex
<1>2. NoPointer \in Pointer /\ NoPointer.seg = NoSegment
  BY <1>1 DEF NoPointer, Pointer
<1> QED BY <1>1, <1>2
    DEF Init, Types, TypeOK, HeaderMarked, Coherent, Phases, WordIndex

\* The variables keep their types in every reachable state of every heap.
THEOREM TypesCorrect == Spec => []TypeOK
<1>1. Spec => []Types
  BY InitTypes, NextKeepsTypes, PTL DEF Spec
<1>2. Types => TypeOK
  BY DEF Types
<1> QED BY <1>1, <1>2, PTL

\* bitptrs[0] and blkptr agree whenever the next allocation takes the block
\* under the pointer (AllocationPointer, moved by inc and by BITPTRS_INIT).
THEOREM PointersCoherent == Spec => []PointerCoherent
<1>1. Spec => []Types
  BY InitTypes, NextKeepsTypes, PTL DEF Spec
<1>2. Types => PointerCoherent
  <2> SUFFICES ASSUME Types, NEW k \in Klass, p[k].mask, ~ PointerMarked(k)
               PROVE  p[k].blk = <<p[k].seg, p[k].idx, p[k].bit>>
    BY DEF PointerCoherent
  <2>1. p[k].seg # NoSegment /\ <<p[k].idx, p[k].bit>> \notin bitmap[p[k].seg]
    BY DEF PointerMarked, Marked
  <2>2. p[k].seg \in Segment
    BY <2>1, PointerType DEF Types
  <2> QED BY <2>1, <2>2 DEF Types, HeaderMarked, Coherent
<1> QED BY <1>1, <1>2, PTL

-----------------------------------------------------------------------------
(* The lists of segments.                                                  *)

Owned ==
  /\ SegmentOwnedOnce
  /\ \A k \in Klass : freelist[k] \subseteq seglist[k]
  /\ \A k \in Klass : p[k].seg \in seglist[k] \cup {NoSegment}
  /\ \A k \in Klass : p[k].seg \notin freelist[k]

\* What Rearrange does to the free list and the pointer of one class.
LEMMA RearrangedClass ==
  ASSUME Types, NEW fetch \in [Klass -> Segment \cup {NoSegment}],
         Fetches(fetch), Rearrange(fetch), NEW k \in Klass
  PROVE  \/ /\ freelist'[k] = freelist[k]
            /\ Fetched(k, fetch[k]) = p[k]
         \/ /\ freelist'[k] \subseteq Unfilled(k)
            /\ Fetched(k, fetch[k]) = p[k]
            /\ Rearranged(k) /\ Unfilled(k) = {}
         \/ /\ freelist'[k] = Unfilled(k) \ {fetch[k]}
            /\ Fetched(k, fetch[k]) = StartOf(k, fetch[k], TRUE)
            /\ fetch[k] \in Unfilled(k)
            /\ Rearranged(k)
<1>1. CASE Rearranged(k) /\ Unfilled(k) # {}
  <2>1. fetch[k] \in Unfilled(k)
    BY <1>1 DEF Fetches
  <2>2. fetch[k] # NoSegment
    BY <2>1, SegmentAssumption DEF Unfilled, Types, TypeOK
  <2> QED BY <1>1, <2>1, <2>2 DEF Rearrange, Fetched
<1>2. CASE Rearranged(k) /\ Unfilled(k) = {}
  <2>1. fetch[k] = NoSegment
    BY <1>2 DEF Fetches
  <2> QED BY <1>2, <2>1 DEF Rearrange, Fetched
<1>3. CASE ~ Rearranged(k)
  <2>1. fetch[k] = NoSegment
    BY <1>3 DEF Fetches
  <2> QED BY <1>3, <2>1 DEF Rearrange, Fetched
<1> QED BY <1>1, <1>2, <1>3

LEMMA AllocKeepsOwned ==
  ASSUME Types, Owned, NEW k \in Klass, Alloc(k)
  PROVE  Owned'
<1>1. PICK s \in Segment, pos \in WordIndex \X Bit :
        /\ AllocAt(k, s, pos)
        /\ InPlace(k, s, pos) \/ FromFreelist(k, s, pos) \/ FromPool(k, s, pos)
  BY AllocShape
<1>2. /\ \A l \in Klass : p'[l].seg = IF l = k THEN s ELSE p[l].seg
      /\ UNCHANGED managed
  BY <1>1 DEF AllocAt, Inc, HandOut, Types, TypeOK
<1>3. CASE InPlace(k, s, pos)
  BY <1>2, <1>3 DEF InPlace, Owned, SegmentOwnedOnce
<1>4. CASE FromFreelist(k, s, pos)
  <2>1. PICK F \in SUBSET freelist[k] :
          freelist' = [freelist EXCEPT ![k] = @ \ (F \cup {s})]
    BY <1>4 DEF FromFreelist
  <2>2. \A l \in Klass : /\ freelist'[l] \subseteq freelist[l]
                         /\ l = k => s \notin freelist'[l]
    BY <2>1 DEF Types, TypeOK
  <2>3. s \in seglist[k]
    BY <1>4 DEF FromFreelist, Owned
  <2> QED BY <1>2, <1>4, <2>2, <2>3 DEF FromFreelist, Owned, SegmentOwnedOnce
<1>5. CASE FromPool(k, s, pos)
  <2>1. /\ \A l \in Klass :
             /\ seglist'[l] = IF l = k THEN seglist[l] \cup {s} ELSE seglist[l]
             /\ freelist'[l] = IF l = k THEN {} ELSE freelist[l]
        /\ segmentList' = segmentList \ {s}
    BY <1>5 DEF FromPool, Types, TypeOK
  <2>2. s \in segmentList /\ s \in managed
    BY <1>5 DEF FromPool, Owned, SegmentOwnedOnce
  <2>3. \A l \in Klass : s \notin seglist[l]
    BY <2>2 DEF Owned, SegmentOwnedOnce
  <2>4. SegmentOwnedOnce'
    <3>1. ASSUME NEW l \in Klass, NEW m \in Klass, l # m
          PROVE  seglist'[l] \cap seglist'[m] = {}
      <4>1. seglist[l] \cap seglist[m] = {}
        BY <3>1 DEF Owned, SegmentOwnedOnce
      <4> QED BY <2>1, <2>3, <3>1, <4>1
    <3>2. ASSUME NEW l \in Klass
          PROVE  /\ seglist'[l] \cap segmentList' = {}
                 /\ seglist'[l] \cup segmentList' \subseteq managed'
      <4>1. /\ seglist[l] \cap segmentList = {}
            /\ seglist[l] \cup segmentList \subseteq managed
        BY DEF Owned, SegmentOwnedOnce
      <4> QED BY <1>2, <2>1, <2>2, <4>1, ZenonT(40)
    <3> QED BY <3>1, <3>2 DEF SegmentOwnedOnce
  <2>5. ASSUME NEW l \in Klass
        PROVE  /\ freelist'[l] \subseteq seglist'[l]
               /\ p'[l].seg \in seglist'[l] \cup {NoSegment}
               /\ p'[l].seg \notin freelist'[l]
    BY <1>2, <2>1 DEF Owned
  <2> QED BY <2>4, <2>5 DEF Owned
<1> QED BY <1>1, <1>3, <1>4, <1>5

LEMMA SweepsKeepOwned ==
  ASSUME Types, Owned, Sweep \/ SweepExpand \/ SweepNoMemory
  PROVE  Owned'
<1>1. ASSUME NEW fetch \in [Klass -> Segment \cup {NoSegment}],
             Fetches(fetch), Rearrange(fetch), NEW k \in Klass
      PROVE  /\ freelist'[k] \subseteq seglist[k]
             /\ Fetched(k, fetch[k]).seg \in seglist[k] \cup {NoSegment}
             /\ Fetched(k, fetch[k]).seg \notin freelist'[k]
  <2>1. Unfilled(k) \subseteq seglist[k] /\ seglist[k] \subseteq Segment
    BY DEF Unfilled, Types, TypeOK
  <2>2. fetch[k] \in Unfilled(k) => StartOf(k, fetch[k], TRUE).seg = fetch[k]
    BY DEF StartOf
  <2>3. /\ freelist[k] \subseteq seglist[k]
        /\ p[k].seg \in seglist[k] \cup {NoSegment}
        /\ p[k].seg \notin freelist[k]
    BY DEF Owned
  <2>4. \/ freelist'[k] = freelist[k] /\ Fetched(k, fetch[k]) = p[k]
        \/ /\ freelist'[k] \subseteq Unfilled(k) /\ Unfilled(k) = {}
           /\ Fetched(k, fetch[k]) = p[k]
        \/ /\ freelist'[k] = Unfilled(k) \ {fetch[k]}
           /\ Fetched(k, fetch[k]) = StartOf(k, fetch[k], TRUE)
           /\ fetch[k] \in Unfilled(k)
    BY <1>1, RearrangedClass
  <2> QED BY <2>1, <2>2, <2>3, <2>4
<1>2. CASE Sweep \/ SweepNoMemory
  <2>1. PICK fetch \in [Klass -> Segment \cup {NoSegment}] :
          /\ Fetches(fetch) /\ Rearrange(fetch)
          /\ p' = [k \in Klass |-> Fetched(k, fetch[k])]
    BY <1>2 DEF Sweep, SweepNoMemory
  <2>2. UNCHANGED <<seglist, poolVars>>
    BY <1>2 DEF Sweep, SweepNoMemory
  <2> QED BY <1>1, <2>1, <2>2 DEF poolVars, Owned, SegmentOwnedOnce
<1>3. CASE SweepExpand
  <2>1. PICK fetch \in [Klass -> Segment \cup {NoSegment}],
             fresh \in [Klass -> Segment \cup {NoSegment}],
             pool \in SUBSET (Segment \ managed) :
          /\ Fetches(fetch) /\ Rearrange(fetch) /\ Expand(fetch, fresh, pool)
    BY <1>3 DEF SweepExpand
  <2>2. \A k \in Klass :
          /\ IsFull(k) => /\ fresh[k] \in pool
                          /\ seglist'[k] = seglist[k] \cup {fresh[k]}
                          /\ p'[k].seg = fresh[k]
          /\ ~ IsFull(k) => /\ seglist'[k] = seglist[k]
                            /\ p'[k] = Fetched(k, fetch[k])
    BY <2>1 DEF Expand, FirstBlock
  <2>3. /\ managed' = managed \cup pool
        /\ segmentList' = pool \ {fresh[k] : k \in Klass}
        /\ \A k, l \in Klass :
             (IsFull(k) /\ fresh[k] = fresh[l]) => k = l
    BY <2>1, SegmentAssumption DEF Expand
  <2>4. \A k \in Klass : seglist[k] \subseteq managed
    BY DEF Owned, SegmentOwnedOnce
  <2>5. SegmentOwnedOnce'
    <3>1. ASSUME NEW k \in Klass, NEW l \in Klass, k # l
          PROVE  seglist'[k] \cap seglist'[l] = {}
      <4>1. seglist[k] \cap seglist[l] = {}
        BY <3>1 DEF Owned, SegmentOwnedOnce
      <4> QED BY <2>2, <2>3, <2>4, <3>1, <4>1
    <3>2. ASSUME NEW k \in Klass
          PROVE  /\ seglist'[k] \cap segmentList' = {}
                 /\ seglist'[k] \cup segmentList' \subseteq managed'
      BY <2>2, <2>3, <2>4
    <3> QED BY <3>1, <3>2 DEF SegmentOwnedOnce
  <2>6. ASSUME NEW k \in Klass
        PROVE  /\ freelist'[k] \subseteq seglist'[k]
               /\ p'[k].seg \in seglist'[k] \cup {NoSegment}
               /\ p'[k].seg \notin freelist'[k]
    <3>1. freelist'[k] \subseteq seglist[k]
      BY <1>1, <2>1
    <3> QED BY <1>1, <2>1, <2>2, <2>4, <3>1
  <2> QED BY <2>5, <2>6 DEF Owned
<1> QED BY <1>2, <1>3

LEMMA NextKeepsOwned ==
  ASSUME Types, Owned, [Next]_vars
  PROVE  Owned'
<1>1. ASSUME NEW k \in Klass, AllocStale(k) PROVE Owned'
  BY <1>1, NewPointers
  DEF AllocStale, poolVars, Types, TypeOK, Owned, SegmentOwnedOnce
<1>2. ASSUME NEW k \in Klass, CollectForAlloc(k) PROVE Owned'
  <2>1. /\ UNCHANGED <<seglist, poolVars>>
        /\ freelist' = [freelist EXCEPT ![k] = {}]
    BY <1>2 DEF CollectForAlloc, ClearBitmaps
  <2>2. \/ p' = [p EXCEPT ![k] = WithoutMask(k, p[k].blk)]
        \/ \E s \in freelist[k] : p' = [p EXCEPT ![k] = StartOf(k, s, FALSE)]
    BY <1>2 DEF CollectForAlloc
  <2>3. freelist[k] \subseteq Segment /\ freelist[k] \subseteq seglist[k]
    BY DEF Types, TypeOK, Owned
  <2>4. p'[k].seg \in seglist[k] \cup {NoSegment}
    <3>1. CASE p' = [p EXCEPT ![k] = WithoutMask(k, p[k].blk)]
      <4>1. p'[k].seg = p[k].seg
        BY <3>1, NewPointers DEF Types, TypeOK
      <4> QED BY <4>1 DEF Owned
    <3>2. ASSUME NEW s \in freelist[k],
                 p' = [p EXCEPT ![k] = StartOf(k, s, FALSE)]
          PROVE  p'[k].seg \in seglist[k]
      <4>1. p'[k].seg = s
        BY <2>3, <3>2, NewPointers DEF Types, TypeOK
      <4> QED BY <2>3, <4>1
    <3> QED BY <2>2, <3>1, <3>2
  <2>5. \A l \in Klass : l # k => p'[l] = p[l]
    BY <2>2 DEF Types, TypeOK
  <2> QED BY <2>1, <2>4, <2>5 DEF poolVars, Types, TypeOK, Owned, SegmentOwnedOnce
<1>3. ASSUME NEW k \in Klass, ThrowOutOfMemory(k) PROVE Owned'
  <2>1. /\ UNCHANGED <<seglist, poolVars>>
        /\ freelist' = [freelist EXCEPT ![k] = {}]
        /\ p' = [p EXCEPT ![k] = WithoutMask(k, p[k].blk)]
    BY <1>3 DEF ThrowOutOfMemory
  <2>2. \A l \in Klass : p'[l].seg = p[l].seg
    BY <2>1, NewPointers DEF Types, TypeOK
  <2> QED BY <2>1, <2>2 DEF poolVars, Types, TypeOK, Owned, SegmentOwnedOnce
<1>4. CASE SystemGC
  BY <1>4 DEF SystemGC, ClearBitmaps, poolVars, Owned, SegmentOwnedOnce
<1>5. CASE Collect
  <2>1. CASE MarkRoots \/ TraceNext
    BY <2>1 DEF MarkRoots, TraceNext, MarkRefs, poolVars, Owned, SegmentOwnedOnce
  <2> QED BY <1>5, <2>1, SweepsKeepOwned DEF Collect
<1>6. CASE Mutate \/ Catch \/ Exit \/ UNCHANGED vars
  BY <1>6 DEF Mutate, Store, Erase, Load, Drop, Catch, Exit, vars, heapVars,
              poolVars, Owned, SegmentOwnedOnce
<1> QED BY <1>1, <1>2, <1>3, <1>4, <1>5, <1>6, AllocKeepsOwned
    DEF Next, Stopped

LEMMA InitOwned == Init => Owned
BY DEF Init, NoPointer, Owned, SegmentOwnedOnce

\* No segment is ever cut into blocks by two classes, nor offered by the pool
\* while a class has it (allocSegment, newSegment, HeapManager_expandHeap).
THEOREM SegmentsOwnedOnce == Spec => []SegmentOwnedOnce
<1>1. Init => Types /\ Owned
  BY InitTypes, InitOwned
<1>2. Types /\ Owned /\ [Next]_vars => (Types /\ Owned)'
  BY NextKeepsTypes, NextKeepsOwned
<1>3. Types /\ Owned => SegmentOwnedOnce
  BY DEF Owned
<1> QED BY <1>1, <1>2, <1>3, PTL DEF Spec

-----------------------------------------------------------------------------
(***************************************************************************)
(* The collector never gives away an object the program can reach: the     *)
(* proof that BitmapGC implements ObjectStore.                             *)
(*                                                                         *)
(* Two facts are needed.  What is reachable is marked, between collections *)
(* (MarkedClosed); and what is handed out was not marked, because level 1  *)
(* never shows a full word as having room in the part of a segment that    *)
(* the pointer has not passed (Level1Honest).                              *)
(***************************************************************************)

-----------------------------------------------------------------------------
(* What is reachable is marked.                                            *)

\* The blocks of segment headers hold no object.
HeaderUnused ==
  \A b \in Block : (b[2] = 0 /\ b[3] = 0) =>
    /\ b \notin roots
    /\ fields[b] = {}
    /\ \A c \in Block : b \notin fields[c]

Tracing ==
  /\ phase # "mark" => ostack = {}
  /\ phase = "roots" => \A s \in Segment : bitmap[s] = {<<0, 0>>}
  /\ HeaderUnused
  /\ MarkedClosed

LEMMA MarkedAfterAlloc ==
  ASSUME Types, NEW k \in Klass, NEW s \in Segment,
         NEW pos \in WordIndex \X Bit, AllocAt(k, s, pos)
  PROVE  \A b \in Block :
           IsObject(b)' <=> (IsObject(b) \/ b = <<s, pos[1], pos[2]>>)
<1>1. bitmap' = [bitmap EXCEPT ![s] = @ \cup {pos}]
  BY DEF AllocAt, Inc
<1>2. ASSUME NEW b \in Block
      PROVE  IsObject(b)' <=> (IsObject(b) \/ b = <<s, pos[1], pos[2]>>)
  <2>1. b[1] \in Segment /\ b = <<b[1], b[2], b[3]>>
    BY DEF Block
  <2>2. pos = <<pos[1], pos[2]>>
    OBVIOUS
  <2>3. CASE b[1] = s
    <3>1. bitmap'[b[1]] = bitmap[b[1]] \cup {pos}
      BY <1>1, <2>3 DEF Types, TypeOK
    <3>2. (<<b[2], b[3]>> = pos) <=> (b = <<s, pos[1], pos[2]>>)
      BY <2>1, <2>2, <2>3
    <3> QED BY <3>1, <3>2 DEF IsObject
  <2>4. CASE b[1] # s
    <3>1. bitmap'[b[1]] = bitmap[b[1]]
      BY <1>1, <2>1, <2>4 DEF Types, TypeOK
    <3> QED BY <2>1, <2>4, <3>1 DEF IsObject
  <2> QED BY <2>3, <2>4
<1> QED BY <1>2

LEMMA AllocKeepsTracing ==
  ASSUME Types, Tracing, NEW k \in Klass, Alloc(k)
  PROVE  Tracing'
<1>1. PICK s \in Segment, pos \in WordIndex \X Bit : AllocAt(k, s, pos)
  BY AllocShape
<1> DEFINE a == <<s, pos[1], pos[2]>>
<1>2. a \in Block /\ ~ (a[2] = 0 /\ a[3] = 0)
  BY <1>1 DEF AllocAt, Block, WordIndex
<1>3. /\ roots' = roots \cup {a}
      /\ \A b \in Block : fields'[b] = IF b = a THEN {} ELSE fields[b]
      /\ phase' = "run" /\ ostack' = ostack
  BY <1>1, <1>2 DEF AllocAt, HandOut, Types, TypeOK
<1>4. phase # "roots" /\ phase # "mark"
  BY <1>1 DEF AllocAt, Trying
<1>5. ostack' = {}
  BY <1>3, <1>4 DEF Tracing
<1>6. HeaderUnused'
  BY <1>2, <1>3 DEF Tracing, HeaderUnused
<1>7. \A b \in Block : IsObject(b)' <=> (IsObject(b) \/ b = a)
  BY <1>1, MarkedAfterAlloc
<1>8. MarkedClosed'
  <2>1. \A b \in roots' : IsObject(b)'
    BY <1>2, <1>3, <1>4, <1>7 DEF Tracing, MarkedClosed, Types, TypeOK
  <2>2. ASSUME NEW b \in Block, IsObject(b)', NEW c \in fields'[b]
        PROVE  IsObject(c)'
    <3>1. b # a /\ c \in fields[b] /\ c \in Block
      BY <1>3, <2>2 DEF Types, TypeOK
    <3>2. IsObject(b)
      BY <1>7, <2>2, <3>1
    <3>3. IsObject(c)
      BY <1>4, <3>1, <3>2 DEF Tracing, MarkedClosed
    <3> QED BY <1>7, <3>1, <3>3
  <2> QED BY <2>1, <2>2 DEF MarkedClosed
<1> QED BY <1>3, <1>5, <1>6, <1>8 DEF Tracing

\* mark_ostack marks what it is given, and nothing else.
LEMMA MarkedAfterMarkRefs ==
  ASSUME Types, NEW R \in SUBSET Block, NEW rest, MarkRefs(R, rest)
  PROVE  /\ \A b \in Block : IsObject(b)' <=> (IsObject(b) \/ b \in R)
         /\ ostack' = rest \cup {b \in R : ~ IsObject(b)}
<1>1. ASSUME NEW b \in Block
      PROVE  IsObject(b)' <=> (IsObject(b) \/ b \in R)
  <2>1. b[1] \in Segment /\ b = <<b[1], b[2], b[3]>>
    BY DEF Block
  <2>2. bitmap'[b[1]] = bitmap[b[1]] \cup
                          {<<c[2], c[3]>> : c \in In(Unmarked(R), b[1])}
    BY <2>1 DEF MarkRefs
  <2>3. \A c \in In(Unmarked(R), b[1]) :
          c \in R /\ c = <<b[1], c[2], c[3]>>
    BY DEF In, Unmarked, Block
  <2>4. (<<b[2], b[3]>> \in {<<c[2], c[3]>> : c \in In(Unmarked(R), b[1])})
           => b \in R
    BY <2>1, <2>3
  <2>5. (b \in R /\ ~ IsObject(b)) => b \in In(Unmarked(R), b[1])
    BY DEF In, Unmarked
  <2> QED BY <2>2, <2>4, <2>5 DEF IsObject
<1> QED BY <1>1 DEF MarkRefs, Unmarked

LEMMA MarkingKeepsTracing ==
  ASSUME Types, Tracing, MarkRoots \/ TraceNext
  PROVE  Tracing'
<1>1. CASE MarkRoots
  <2> DEFINE R == roots
  <2>1. /\ R \in SUBSET Block /\ phase = "roots" /\ phase' = "mark"
        /\ MarkRefs(R, {}) /\ UNCHANGED objectVars
    BY <1>1, RootsAndFieldsAreBlocks DEF MarkRoots, MarkRefs, Types
  <2>2. /\ \A b \in Block : IsObject(b)' <=> (IsObject(b) \/ b \in R)
        /\ ostack' = {b \in R : ~ IsObject(b)}
    BY <2>1, MarkedAfterMarkRefs
  <2>3. \A b \in roots' : IsObject(b)'
    BY <2>1, <2>2 DEF objectVars
  <2>4. ASSUME NEW b \in Block, b \notin ostack', IsObject(b)'
        PROVE  \A c \in fields'[b] : IsObject(c)'
    <3>1. IsObject(b)
      BY <2>2, <2>4
    <3>2. b[2] = 0 /\ b[3] = 0
      BY <2>1, <3>1 DEF Tracing, IsObject, Block
    <3> QED BY <2>1, <3>2 DEF Tracing, HeaderUnused, objectVars
  <2> QED BY <2>1, <2>3, <2>4
      DEF Tracing, MarkedClosed, HeaderUnused, objectVars
<1>2. CASE TraceNext
  <2>1. PICK a \in ostack : MarkRefs(fields[a], ostack \ {a})
    BY <1>2 DEF TraceNext
  <2>2. /\ phase = "mark" /\ phase' = "mark" /\ UNCHANGED objectVars
        /\ a \in Block /\ fields[a] \in SUBSET Block
    BY <1>2, <2>1 DEF TraceNext, MarkRefs, Types, TypeOK
  <2>3. /\ \A b \in Block : IsObject(b)' <=> (IsObject(b) \/ b \in fields[a])
        /\ ostack' = (ostack \ {a}) \cup {b \in fields[a] : ~ IsObject(b)}
    BY <2>1, <2>2, MarkedAfterMarkRefs
  <2>4. \A b \in roots' : IsObject(b)'
    BY <2>2, <2>3 DEF Tracing, MarkedClosed, objectVars, Types, TypeOK
  <2>5. ASSUME NEW b \in Block, b \notin ostack', IsObject(b)',
               NEW c \in fields'[b]
        PROVE  IsObject(c)'
    <3>1. c \in fields[b] /\ c \in Block
      BY <2>2 DEF objectVars, Types, TypeOK
    <3>2. CASE b = a
      BY <2>3, <3>1, <3>2
    <3>3. CASE b # a
      <4>1. IsObject(b) /\ b \notin ostack
        BY <2>3, <2>5, <3>3
      <4>2. IsObject(c)
        BY <2>2, <3>1, <4>1 DEF Tracing, MarkedClosed
      <4> QED BY <2>3, <3>1, <4>2
    <3> QED BY <3>2, <3>3
  <2> QED BY <2>2, <2>4, <2>5
      DEF Tracing, MarkedClosed, HeaderUnused, objectVars
<1> QED BY <1>1, <1>2

LEMMA MutateKeepsTracing ==
  ASSUME Types, Tracing, Mutate
  PROVE  Tracing'
<1>1. phase = "run" /\ phase' = "run" /\ ostack = {} /\ ostack' = {}
        /\ bitmap' = bitmap
  BY DEF Mutate, Store, Erase, Load, Drop, heapVars, gcVars, Tracing
<1>2. \A b \in Block : IsObject(b)' <=> IsObject(b)
  BY <1>1 DEF IsObject
<1>3. /\ \A b \in roots : IsObject(b)
      /\ \A b \in Block : IsObject(b) => \A c \in fields[b] : IsObject(c)
      /\ roots \subseteq Block
      /\ \A b \in Block : fields[b] \subseteq Block
  BY <1>1 DEF Tracing, MarkedClosed, Types, TypeOK
<1>4. ASSUME NEW b \in Block, NEW c \in Block, Store(b, c) PROVE Tracing'
  <2>1. /\ \A d \in Block : fields'[d] = IF d = b THEN fields[d] \cup {c}
                                                  ELSE fields[d]
        /\ roots' = roots /\ b \in roots /\ c \in roots
    BY <1>4 DEF Store, Types, TypeOK
  <2>2. HeaderUnused'
    <3>1. ASSUME NEW d \in Block, d[2] = 0, d[3] = 0
          PROVE  /\ d \notin roots'
                 /\ fields'[d] = {}
                 /\ \A e \in Block : d \notin fields'[e]
      <4>1. /\ d \notin roots /\ fields[d] = {}
            /\ \A e \in Block : d \notin fields[e]
        BY <3>1 DEF Tracing, HeaderUnused
      <4>2. d # b /\ d # c
        BY <2>1, <4>1
      <4> QED BY <2>1, <4>1, <4>2
    <3> QED BY <3>1 DEF HeaderUnused
  <2>3. MarkedClosed'
    BY <1>1, <1>2, <1>3, <2>1 DEF MarkedClosed
  <2> QED BY <1>1, <2>2, <2>3 DEF Tracing
<1>5. ASSUME NEW b \in Block, NEW c \in Block, Erase(b, c) PROVE Tracing'
  <2>1. /\ \A d \in Block : fields'[d] \subseteq fields[d]
        /\ roots' = roots
    BY <1>5 DEF Erase, Types, TypeOK
  <2>2. HeaderUnused'
    BY <2>1 DEF Tracing, HeaderUnused
  <2>3. MarkedClosed'
    BY <1>1, <1>2, <1>3, <2>1 DEF MarkedClosed
  <2> QED BY <1>1, <2>2, <2>3 DEF Tracing
<1>6. ASSUME NEW b \in Block, NEW c \in Block, Load(b, c) PROVE Tracing'
  <2>1. roots' = roots \cup {c} /\ fields' = fields
          /\ b \in roots /\ c \in fields[b]
    BY <1>6 DEF Load
  <2>2. HeaderUnused'
    BY <2>1 DEF Tracing, HeaderUnused
  <2>3. MarkedClosed'
    BY <1>1, <1>2, <1>3, <2>1 DEF MarkedClosed
  <2> QED BY <1>1, <2>2, <2>3 DEF Tracing
<1>7. ASSUME NEW b \in Block, Drop(b) PROVE Tracing'
  <2>1. roots' \subseteq roots /\ fields' = fields
    BY <1>7 DEF Drop
  <2>2. HeaderUnused'
    BY <2>1 DEF Tracing, HeaderUnused
  <2>3. MarkedClosed'
    BY <1>1, <1>2, <1>3, <2>1 DEF MarkedClosed
  <2> QED BY <1>1, <2>2, <2>3 DEF Tracing
<1> QED BY <1>4, <1>5, <1>6, <1>7 DEF Mutate

LEMMA NextKeepsTracing ==
  ASSUME Types, Tracing, [Next]_vars
  PROVE  Tracing'
<1>1. ASSUME NEW k \in Klass, AllocStale(k) \/ ThrowOutOfMemory(k)
      PROVE  Tracing'
  <2>1. /\ UNCHANGED <<bitmap, objectVars, ostack>>
        /\ phase \in {"run", "retry"} /\ phase' \in {"oom", "wild"}
    BY <1>1 DEF AllocStale, ThrowOutOfMemory, Trying
  <2> QED BY <2>1
      DEF Tracing, HeaderUnused, MarkedClosed, IsObject, objectVars
<1>2. ASSUME ClearBitmaps, phase = "run" PROVE Tracing'
  BY <1>2 DEF ClearBitmaps, Tracing, HeaderUnused, MarkedClosed, objectVars
<1>3. CASE Sweep \/ SweepExpand \/ SweepNoMemory
  <2>1. /\ UNCHANGED <<bitmap, objectVars, ostack>>
        /\ phase = "mark" /\ ostack = {} /\ phase' \in {"run", "retry", "oom"}
    BY <1>3 DEF Sweep, SweepExpand, SweepNoMemory, SweepDone
  <2> QED BY <2>1
      DEF Tracing, HeaderUnused, MarkedClosed, IsObject, objectVars
<1>4. CASE Catch \/ UNCHANGED vars
  <2>1. /\ UNCHANGED <<bitmap, objectVars, ostack>>
        /\ \/ phase = "oom" /\ phase' = "run"
           \/ phase' = phase
    BY <1>4 DEF Catch, vars, heapVars, gcVars
  <2> QED BY <2>1
      DEF Tracing, HeaderUnused, MarkedClosed, IsObject, objectVars
<1>5. CASE Exit
  <2>1. /\ phase = "run" /\ phase' = "exit" /\ ostack' = ostack
        /\ roots' = {} /\ fields' = fields
        /\ bitmap' = [s \in Segment |-> {<<0, 0>>}]
    BY <1>5 DEF Exit
  <2>2. \A b \in Block : IsObject(b)' => b[2] = 0 /\ b[3] = 0
    BY <2>1 DEF IsObject, Block
  <2> QED BY <2>1, <2>2 DEF Tracing, HeaderUnused, MarkedClosed
<1>6. CASE Collect
  BY <1>3, <1>6, MarkingKeepsTracing DEF Collect
<1> QED BY <1>1, <1>2, <1>4, <1>5, <1>6, AllocKeepsTracing, MutateKeepsTracing
    DEF Next, Stopped, CollectForAlloc, SystemGC

LEMMA InitTracing == Init => Tracing
BY DEF Init, Tracing, HeaderUnused, MarkedClosed, IsObject, Block

\* Between collections everything the program can reach is marked; during one,
\* only what is on ostack may refer to unmarked objects (bmgc_gc_mark).
THEOREM ReachableIsMarked == Spec => []MarkedClosed
<1>1. Init => Types /\ Tracing
  BY InitTypes, InitTracing
<1>2. Types /\ Tracing /\ [Next]_vars => (Types /\ Tracing)'
  BY NextKeepsTypes, NextKeepsTracing
<1>3. Types /\ Tracing => MarkedClosed
  BY DEF Tracing
<1> QED BY <1>1, <1>2, <1>3, PTL DEF Spec
-----------------------------------------------------------------------------
(* What is handed out was not marked.                                      *)

HonestWord(s, w) ==
  w \notin level1[s] => \E i \in Bit : <<w, i>> \notin bitmap[s]

AllHonest == \A s \in Segment, w \in WordIndex : HonestWord(s, w)

\* Between collections level 1 can be stale behind the pointer (only
\* findNextFreeBlock sets its bits then), and in a segment the pointer has
\* left; nowhere else.
Honest ==
  /\ phase \in {"roots", "mark"} => AllHonest
  /\ \A k \in Klass : \A s \in freelist[k], w \in WordIndex : HonestWord(s, w)
  /\ \A k \in Klass : p[k].seg # NoSegment =>
       \A w \in WordIndex : w > p[k].idx => HonestWord(p[k].seg, w)
  /\ \A s \in Segment : (\A k \in Klass : s \notin seglist[k]) =>
       \A w \in WordIndex : HonestWord(s, w)

LEMMA AllHonestSuffices ==
  ASSUME Types', AllHonest'
  PROVE  Honest'
<1>1. \A k \in Klass : /\ p'[k].seg \in Segment \cup {NoSegment}
                       /\ freelist'[k] \subseteq Segment
  BY DEF Types, TypeOK, Pointer
<1> QED BY <1>1 DEF AllHonest, Honest

\* The block that AllocAt hands out was free.
LEMMA HandedOutWasClear ==
  ASSUME Types, Owned, Honest, NEW k \in Klass, NEW s \in Segment,
         NEW pos \in WordIndex \X Bit,
         InPlace(k, s, pos) \/ FromFreelist(k, s, pos) \/ FromPool(k, s, pos)
  PROVE  pos \notin bitmap[s]
<1> USE GeometryAssumption, SegmentAssumption
<1>1. \E w \in 0 .. MaxWords :
        /\ ClearOrMisled(k, s, w, pos)
        /\ \A v \in WordIndex : v > w => HonestWord(s, v)
  <2>1. CASE InPlace(k, s, pos)
    BY <2>1, PointerType DEF InPlace, Honest, Types
  <2>2. CASE FromFreelist(k, s, pos)
    BY <2>2 DEF FromFreelist, Honest
  <2>3. CASE FromPool(k, s, pos)
    <3>1. \A l \in Klass : s \notin seglist[l]
      BY <2>3 DEF FromPool, Owned, SegmentOwnedOnce
    <3> QED BY <2>3, <3>1 DEF FromPool, Honest
  <2> QED BY <2>1, <2>2, <2>3
<1>2. ASSUME NEW v \in WordIndex, v < L1Limit[k], HonestWord(s, v),
             v \notin level1[s]
      PROVE  LowestClear(k, s, v, 0) # {}
  <2>1. PICK i \in Bit : <<v, i>> \notin bitmap[s]
    BY <1>2 DEF HonestWord
  <2> DEFINE S == {j \in Bit : j >= 0 /\ ~ Marked(k, s, v, j)}
  <2>2. i \in S
    BY <1>2, <2>1 DEF Marked, WordIndex, Bit
  <2>3. S \in SUBSET Nat /\ S # {}
    BY <2>2 DEF Bit
  <2>4. Smallest(S) # {}
    BY <2>3, SmallestExists
  <2> QED BY <2>4 DEF LowestClear
<1> QED BY <1>1, <1>2 DEF ClearOrMisled

LEMMA AllocKeepsHonest ==
  ASSUME Types, Owned, Owned', Honest, NEW k \in Klass, Alloc(k)
  PROVE  Honest'
<1> USE GeometryAssumption, SegmentAssumption
<1>1. PICK s \in Segment, pos \in WordIndex \X Bit :
        /\ AllocAt(k, s, pos)
        /\ InPlace(k, s, pos) \/ FromFreelist(k, s, pos) \/ FromPool(k, s, pos)
  BY AllocShape
<1>2. /\ \A l \in Klass : l # k => p'[l] = p[l]
      /\ p'[k].seg = s /\ p'[k].idx >= pos[1] /\ p'[k].idx \in Nat
      /\ phase' = "run"
  BY <1>1 DEF AllocAt, Inc, HandOut, After, WordIndex, Types, TypeOK
<1>3. /\ \A l \in Klass : seglist[l] \subseteq seglist'[l]
      /\ \A l \in Klass : freelist'[l] \subseteq freelist[l]
  <2>1. CASE InPlace(k, s, pos)
    BY <2>1 DEF InPlace
  <2>2. CASE FromFreelist(k, s, pos)
    BY <2>2 DEF FromFreelist, Types, TypeOK
  <2>3. CASE FromPool(k, s, pos)
    BY <2>3 DEF FromPool, Types, TypeOK
  <2> QED BY <1>1, <2>1, <2>2, <2>3
<1>4. /\ \A t \in Segment, w \in WordIndex :
           (t # s \/ w # pos[1]) /\ HonestWord(t, w) => HonestWord(t, w)'
  <2> SUFFICES ASSUME NEW t \in Segment, NEW w \in WordIndex,
                      t # s \/ w # pos[1], HonestWord(t, w),
                      w \notin level1'[t]
               PROVE  \E i \in Bit : <<w, i>> \notin bitmap'[t]
    BY DEF HonestWord
  <2>1. w \notin level1[t]
    BY <1>1 DEF AllocAt
  <2>2. PICK i \in Bit : <<w, i>> \notin bitmap[t]
    BY <2>1 DEF HonestWord
  <2>3. bitmap' = [bitmap EXCEPT ![s] = @ \cup {pos}]
    BY <1>1 DEF AllocAt, Inc
  <2>4. <<w, i>> # pos \/ t # s
    OBVIOUS
  <2> QED BY <2>2, <2>3, <2>4 DEF Types, TypeOK
\* s is the segment of k, and in no list where all of its words must be honest.
<1>5. /\ s \in seglist'[k]
      /\ \A l \in Klass : s \notin freelist'[l]
      /\ \A l \in Klass : l # k => p'[l].seg # s
  BY <1>2 DEF Owned, SegmentOwnedOnce
<1>6. ASSUME NEW l \in Klass, NEW t \in freelist'[l], NEW w \in WordIndex
      PROVE  HonestWord(t, w)'
  BY <1>3, <1>4, <1>5, <1>6 DEF Honest, Types, TypeOK
<1>7. ASSUME NEW l \in Klass, p'[l].seg # NoSegment, NEW w \in WordIndex,
             w > p'[l].idx
      PROVE  HonestWord(p[l].seg, w)'
  <2>1. CASE l # k
    <3>1. p'[l] = p[l] /\ p[l].seg \in Segment /\ p[l].seg # s
      BY <1>2, <1>5, <1>7, <2>1, PointerType DEF Types
    <3>2. HonestWord(p[l].seg, w)
      BY <1>7, <3>1 DEF Honest
    <3>3. \A t \in Segment : t # s /\ HonestWord(t, w) =>
            (w \notin level1'[t] => \E i \in Bit : <<w, i>> \notin bitmap'[t])
      BY <1>4 DEF HonestWord
    <3> QED BY <3>1, <3>2, <3>3 DEF HonestWord
  <2>2. CASE l = k
    <3>1. w > pos[1] /\ w # pos[1]
      BY <1>2, <1>7, <2>2 DEF WordIndex
    <3>2. HonestWord(s, w)
      <4>1. CASE InPlace(k, s, pos)
        <5>1. pos[1] >= p[k].idx /\ p[k].idx \in Nat /\ p[k].seg = s
          BY <4>1, PointerType DEF InPlace, Types
        <5>2. w > p[k].idx /\ p[k].seg # NoSegment
          BY <3>1, <5>1 DEF WordIndex
        <5> QED BY <5>1, <5>2 DEF Honest
      <4>2. CASE FromFreelist(k, s, pos)
        BY <4>2 DEF FromFreelist, Honest
      <4>3. CASE FromPool(k, s, pos)
        <5>1. \A m \in Klass : s \notin seglist[m]
          BY <4>3 DEF FromPool, Owned, SegmentOwnedOnce
        <5> QED BY <5>1 DEF Honest
      <4> QED BY <1>1, <4>1, <4>2, <4>3
    <3>3. w \notin level1'[s] => \E i \in Bit : <<w, i>> \notin bitmap'[s]
      BY <1>4, <3>1, <3>2 DEF HonestWord
    <3> QED BY <1>2, <2>2, <3>3 DEF HonestWord
  <2> QED BY <2>1, <2>2
<1>8. ASSUME NEW t \in Segment, \A l \in Klass : t \notin seglist'[l],
             NEW w \in WordIndex
      PROVE  HonestWord(t, w)'
  <2>1. t # s /\ \A l \in Klass : t \notin seglist[l]
    BY <1>3, <1>5, <1>8
  <2>2. HonestWord(t, w)
    BY <2>1 DEF Honest
  <2> QED BY <1>4, <2>1, <2>2
<1>9. ~ (phase' \in {"roots", "mark"})
  BY <1>2
<1> QED BY <1>6, <1>7, <1>8, <1>9 DEF Honest

\* bitmap_mark sets the level-1 bit of every word it fills.
LEMMA MarkRefsKeepsHonest ==
  ASSUME Types, AllHonest, NEW R \in SUBSET Block, NEW rest, MarkRefs(R, rest)
  PROVE  AllHonest'
<1> DEFINE new == Unmarked(R)
<1> SUFFICES ASSUME NEW s \in Segment, NEW w \in WordIndex, w \notin level1'[s]
             PROVE  \E i \in Bit : <<w, i>> \notin bitmap'[s]
  BY DEF AllHonest, HonestWord
<1>1. w \notin level1[s] /\ w \notin Filled(new, s)
  BY DEF MarkRefs
<1>2. CASE \E b \in In(new, s) : b[2] = w
  BY <1>1, <1>2 DEF Filled, FullWord, WordIndex
<1>3. CASE ~ \E b \in In(new, s) : b[2] = w
  <2>1. PICK i \in Bit : <<w, i>> \notin bitmap[s]
    BY <1>1 DEF AllHonest, HonestWord
  <2>2. bitmap'[s] = bitmap[s] \cup {<<b[2], b[3]>> : b \in In(new, s)}
    BY DEF MarkRefs
  <2>3. \A b \in In(new, s) : <<b[2], b[3]>> # <<w, i>>
    BY <1>3
  <2> QED BY <2>1, <2>2, <2>3
<1> QED BY <1>2, <1>3

LEMMA ClearedIsHonest ==
  ASSUME bitmap' = [s \in Segment |-> {<<0, 0>>}]
  PROVE  AllHonest'
<1>1. 1 \in Bit
  BY GeometryAssumption DEF Bit
<1>2. \A s \in Segment, w \in WordIndex : <<w, 1>> \notin bitmap'[s]
  OBVIOUS
<1> QED BY <1>1, <1>2 DEF AllHonest, HonestWord

LEMMA CollectKeepsHonest ==
  ASSUME Types, Types', Honest, Collect
  PROVE  Honest'
<1> SUFFICES AllHonest'
  BY AllHonestSuffices
<1>1. AllHonest
  <2>1. phase \in {"roots", "mark"}
    BY DEF Collect, MarkRoots, TraceNext, Sweep, SweepExpand, SweepNoMemory,
           SweepDone
  <2> QED BY <2>1 DEF Honest
<1>2. CASE MarkRoots
  <2> DEFINE R == roots
  <2>1. R \in SUBSET Block /\ MarkRefs(R, {})
    BY <1>2, RootsAndFieldsAreBlocks DEF MarkRoots, Types
  <2> HIDE DEF R
  <2> QED BY <1>1, <2>1, MarkRefsKeepsHonest
<1>3. CASE TraceNext
  <2>1. PICK a \in ostack : MarkRefs(fields[a], ostack \ {a})
    BY <1>3 DEF TraceNext
  <2>2. fields[a] \in SUBSET Block
    BY DEF Types, TypeOK
  <2> QED BY <1>1, <2>1, <2>2, MarkRefsKeepsHonest
<1>4. CASE Sweep \/ SweepExpand \/ SweepNoMemory
  <2>1. UNCHANGED <<bitmap, level1>>
    BY <1>4 DEF Sweep, SweepExpand, SweepNoMemory, SweepDone
  <2> QED BY <1>1, <2>1 DEF AllHonest, HonestWord
<1> QED BY <1>2, <1>3, <1>4 DEF Collect

LEMMA NextKeepsHonest ==
  ASSUME Types, Types', Owned, Owned', Honest, [Next]_vars
  PROVE  Honest'
<1>1. ASSUME NEW k \in Klass, AllocStale(k) \/ ThrowOutOfMemory(k)
      PROVE  Honest'
  <2>1. /\ UNCHANGED <<bitmap, level1, seglist>>
        /\ phase' \in {"oom", "wild"}
        /\ \A l \in Klass : freelist'[l] \subseteq freelist[l]
        /\ \A l \in Klass : p'[l].seg = p[l].seg /\ p'[l].idx = p[l].idx
    BY <1>1 DEF AllocStale, ThrowOutOfMemory, WithoutMask, Types, TypeOK
  <2> QED BY <2>1 DEF Honest, HonestWord
<1>2. ASSUME NEW k \in Klass, CollectForAlloc(k) PROVE Honest'
  BY <1>2, ClearedIsHonest, AllHonestSuffices
  DEF CollectForAlloc, ClearBitmaps
<1>3. CASE SystemGC \/ Exit
  BY <1>3, ClearedIsHonest, AllHonestSuffices DEF SystemGC, ClearBitmaps, Exit
<1>4. CASE Mutate \/ Catch \/ UNCHANGED vars
  <2>1. /\ UNCHANGED heapVars
        /\ phase' = phase \/ phase' = "run"
    BY <1>4 DEF Mutate, Store, Erase, Load, Drop, Catch, gcVars, vars
  <2> QED BY <2>1 DEF heapVars, Honest, AllHonest, HonestWord
<1> QED BY <1>1, <1>2, <1>3, <1>4, AllocKeepsHonest, CollectKeepsHonest
    DEF Next, Stopped

LEMMA InitHonest == Init => Honest
<1> SUFFICES ASSUME Init PROVE Honest
  OBVIOUS
<1>1. 1 \in Bit
  BY GeometryAssumption DEF Bit
<1>2. \A s \in Segment, w \in WordIndex : HonestWord(s, w)
  BY <1>1 DEF Init, HonestWord
<1> QED BY <1>2 DEF Init, NoPointer, Honest, AllHonest

Safe == Types /\ Owned /\ Tracing /\ Honest

LEMMA SafeAlways == Spec => []Safe
<1>1. Init => Safe
  BY InitTypes, InitOwned, InitTracing, InitHonest DEF Safe
<1>2. Safe /\ [Next]_vars => Safe'
  BY NextKeepsTypes, NextKeepsOwned, NextKeepsTracing, NextKeepsHonest
  DEF Safe
<1> QED BY <1>1, <1>2, PTL DEF Spec

\* The assertion of findNextFreeBlock (bmgc.h:1479) holds: level 1 never sends
\* the allocator into a full word.
THEOREM Level1IsHonest == Spec => []Level1Honest
<1>1. Safe => Level1Honest
  <2> SUFFICES ASSUME Safe, NEW k \in Klass,
                      NEW s \in freelist[k] \cup {p[k].seg}, s # NoSegment,
                      NEW w \in WordIndex, w < L1Limit[k], w \notin level1[s],
                      s \in freelist[k] \/ w > p[k].idx
               PROVE  WordHasRoom(k, s, w)
    BY DEF Level1Honest, WordIndex
  <2>1. HonestWord(s, w)
    BY DEF Safe, Honest
  <2>2. PICK i \in Bit : <<w, i>> \notin bitmap[s]
    BY <2>1 DEF HonestWord
  <2>3. w < Words[k]
    BY GeometryAssumption DEF WordIndex
  <2> QED BY <2>2, <2>3 DEF WordHasRoom, Marked
<1> QED BY <1>1, SafeAlways, PTL

-----------------------------------------------------------------------------
(* The refinement.                                                         *)

LEMMA AllocIsNew ==
  ASSUME Safe, NEW k \in Klass, Alloc(k)
  PROVE  \E b \in Block : Object!New(b)
<1>1. PICK s \in Segment, pos \in WordIndex \X Bit :
        /\ AllocAt(k, s, pos)
        /\ InPlace(k, s, pos) \/ FromFreelist(k, s, pos) \/ FromPool(k, s, pos)
  BY AllocShape DEF Safe
<1> DEFINE a == <<s, pos[1], pos[2]>>
           S == {b \in Block : IsObject(b)}
<1>2. a \in Block
  BY DEF Block, WordIndex
<1>3. a \notin S
  BY <1>1, HandedOutWasClear DEF Safe, IsObject
<1>4. ostack = {} /\ phase # "roots"
  BY <1>1 DEF AllocAt, Trying, Safe, Tracing
<1>5. roots \subseteq S /\ \A c \in S : fields[c] \subseteq S
  BY <1>4 DEF Safe, Tracing, MarkedClosed, Types, TypeOK
<1>6. S \in SUBSET Block
  OBVIOUS
<1>7. a \notin Object!Reachable
  BY <1>3, <1>5, <1>6 DEF Object!Reachable
<1>8. roots' = roots \cup {a} /\ fields' = [fields EXCEPT ![a] = {}]
  BY <1>1 DEF AllocAt, HandOut
<1>9. Object!New(a)
  BY <1>7, <1>8 DEF Object!New
<1> QED BY <1>2, <1>9

\* Whatever the collector does, the program sees an object store: what it can
\* reach never changes by itself and a new object is never one it had.
THEOREM CollectorIsAStore == Spec => ImplementsObjectStore
<1>1. Init => Object!Init
  BY DEF Init, Object!Init
<1>2. Safe /\ [Next]_vars => [Object!Next]_Object!storeVars
  <2> SUFFICES ASSUME Safe, [Next]_vars
               PROVE  Object!Next \/ UNCHANGED <<roots, fields>>
    BY DEF Object!storeVars
  <2>1. ASSUME NEW k \in Klass, Alloc(k) PROVE Object!Next
    BY <2>1, AllocIsNew DEF Object!Next
  <2>2. ASSUME NEW b \in Block, NEW c \in Block,
               Store(b, c) \/ Erase(b, c) \/ Load(b, c)
        PROVE  Object!Next
    <3>1. Object!Store(b, c) \/ Object!Erase(b, c) \/ Object!Load(b, c)
      BY <2>2 DEF Store, Erase, Load, Object!Store, Object!Erase, Object!Load
    <3> QED BY <3>1 DEF Object!Next
  <2>3. ASSUME NEW b \in Block, Drop(b) PROVE Object!Next
    <3>1. Object!Drop(b)
      BY <2>3 DEF Drop, Object!Drop
    <3> QED BY <3>1 DEF Object!Next
  <2>4. CASE Exit
    <3>1. Object!Close
      BY <2>4 DEF Exit, Object!Close
    <3> QED BY <3>1 DEF Object!Next
  <2>5. ASSUME NEW k \in Klass,
               AllocStale(k) \/ CollectForAlloc(k) \/ ThrowOutOfMemory(k)
        PROVE  UNCHANGED <<roots, fields>>
    BY <2>5 DEF AllocStale, CollectForAlloc, ThrowOutOfMemory, ClearBitmaps,
                objectVars
  <2>6. CASE SystemGC \/ Collect \/ Catch \/ UNCHANGED vars
    BY <2>6 DEF SystemGC, ClearBitmaps, Collect, MarkRoots, TraceNext, MarkRefs,
                Sweep, SweepExpand, SweepNoMemory, SweepDone, Catch, objectVars,
                vars
  <2> QED BY <2>1, <2>2, <2>3, <2>4, <2>5, <2>6 DEF Next, Mutate, Stopped
<1>3. QED
  BY <1>1, <1>2, SafeAlways, PTL DEF Spec, ImplementsObjectStore, Object!Spec

-----------------------------------------------------------------------------
(***************************************************************************)
(* What the collector counts is right, and what rests on the counts: the   *)
(* free lists hold segments with room, an allocation that waited for a     *)
(* collection is answered, and the end of the interpreter finalizes every  *)
(* object.                                                                 *)
(***************************************************************************)

-----------------------------------------------------------------------------
(* The counts.                                                             *)

\* There are finitely many marks in a segment.
LEMMA BitmapFinite ==
  ASSUME Types, NEW s \in Segment
  PROVE  /\ IsFiniteSet(bitmap[s])
         /\ Cardinality(bitmap[s]) \in Nat
<1>1. IsFiniteSet(WordIndex) /\ IsFiniteSet(Bit)
  BY FS_Interval, GeometryAssumption DEF Bit, WordIndex
<1>2. IsFiniteSet(WordIndex \X Bit)
  BY <1>1, FS_Product
<1>3. bitmap[s] \in SUBSET (WordIndex \X Bit)
  BY DEF Types, TypeOK, WordIndex
<1> QED BY <1>2, <1>3, FS_Subset, FS_CardinalityType

\* The segments are finitely many, and so are those of a class.
LEMMA SeglistFinite ==
  ASSUME Types, NEW k \in Klass
  PROVE  /\ IsFiniteSet(seglist[k])
         /\ Cardinality(seglist[k]) \in Nat
<1>1. seglist[k] \in SUBSET Segment
  BY DEF Types, TypeOK
<1> QED BY <1>1, SegmentAssumption, FS_Subset, FS_CardinalityType

LEMMA AllocKeepsCounts ==
  ASSUME Types, Owned, Honest, LiveCountExact, NEW k \in Klass, Alloc(k)
  PROVE  LiveCountExact'
<1>1. PICK s \in Segment, pos \in WordIndex \X Bit :
        /\ AllocAt(k, s, pos)
        /\ InPlace(k, s, pos) \/ FromFreelist(k, s, pos) \/ FromPool(k, s, pos)
  BY AllocShape
<1>2. pos \notin bitmap[s]
  BY <1>1, HandedOutWasClear
<1>3. \A t \in Segment :
        /\ bitmap'[t] = IF t = s THEN bitmap[t] \cup {pos} ELSE bitmap[t]
        /\ live_count'[t] = IF t = s THEN live_count[t] + 1 ELSE live_count[t]
  BY <1>1 DEF AllocAt, Inc, Types, TypeOK
<1>4. Cardinality(bitmap[s] \cup {pos}) = Cardinality(bitmap[s]) + 1
  BY <1>2, BitmapFinite, FS_AddElement
<1>5. \A t \in Segment : /\ live_count[t] + 1 = Cardinality(bitmap[t])
                         /\ live_count[t] \in Nat
  BY DEF LiveCountExact, Types, TypeOK
<1>6. ASSUME NEW t \in Segment
      PROVE  live_count'[t] + 1 = Cardinality(bitmap'[t])
  <2>1. CASE t = s
    BY <1>3, <1>4, <1>5, <2>1
  <2>2. CASE t # s
    BY <1>3, <1>5, <2>2
  <2> QED BY <2>1, <2>2
<1> QED BY <1>6 DEF LiveCountExact

\* bitmap_mark counts every bit it sets, and sets none twice.
LEMMA MarkRefsKeepsCounts ==
  ASSUME Types, LiveCountExact, NEW R \in SUBSET Block, NEW rest,
         MarkRefs(R, rest)
  PROVE  LiveCountExact'
<1> DEFINE new == Unmarked(R)
<1> SUFFICES ASSUME NEW s \in Segment
             PROVE  live_count'[s] + 1 = Cardinality(bitmap'[s])
  BY DEF LiveCountExact
<1> DEFINE N == In(new, s)
           T == {<<b[2], b[3]>> : b \in N}
           f == [b \in N |-> <<b[2], b[3]>>]
<1>1. bitmap'[s] = bitmap[s] \cup T /\ live_count'[s] = live_count[s] + Cardinality(N)
  BY DEF MarkRefs
<1>2. N \in SUBSET Block /\ \A b \in N : b[1] = s /\ ~ IsObject(b)
  BY DEF In, Unmarked
<1>3. IsFiniteSet(N)
  BY <1>2, BlockFinite, FS_Subset
<1>4. f \in Bijection(N, T)
  <2>1. f \in Surjection(N, T)
    BY DEF Surjection
  <2>2. ASSUME NEW b \in N, NEW c \in N, f[b] = f[c]
        PROVE  b = c
    BY <1>2, <2>2 DEF Block
  <2> QED BY <2>1, <2>2 DEF Bijection, Injection, IsInjective, Surjection
<1>5. IsFiniteSet(T) /\ Cardinality(T) = Cardinality(N)
  BY <1>3, <1>4, FS_Bijection DEF ExistsBijection
<1>6. bitmap[s] \cap T = {}
  BY <1>2 DEF IsObject
<1>7. Cardinality(bitmap[s] \cup T)
        = Cardinality(bitmap[s]) + Cardinality(T) - Cardinality({})
  BY <1>5, <1>6, BitmapFinite, FS_Union
<1>8. Cardinality({}) = 0
  BY FS_EmptySet
<1>9. /\ Cardinality(bitmap[s]) \in Nat
      /\ Cardinality(N) \in Nat
      /\ live_count[s] \in Nat
      /\ live_count[s] + 1 = Cardinality(bitmap[s])
  BY <1>3, BitmapFinite, FS_CardinalityType DEF LiveCountExact, Types, TypeOK
<1> HIDE DEF N, T
<1> QED BY <1>1, <1>5, <1>7, <1>8, <1>9

\* A segment whose bitmap has been cleared has the bit of its header alone.
LEMMA ClearedIsCounted ==
  ASSUME bitmap' = [s \in Segment |-> {<<0, 0>>}],
         live_count' = [s \in Segment |-> 0]
  PROVE  LiveCountExact'
<1>1. Cardinality({<<0, 0>>}) = 1
  BY FS_Singleton
<1> QED BY <1>1 DEF LiveCountExact

LEMMA NextKeepsCounts ==
  ASSUME Types, Owned, Honest, LiveCountExact, [Next]_vars
  PROVE  LiveCountExact'
<1>1. ASSUME NEW k \in Klass, AllocStale(k) \/ ThrowOutOfMemory(k)
      PROVE  LiveCountExact'
  BY <1>1 DEF AllocStale, ThrowOutOfMemory, LiveCountExact
<1>2. CASE SystemGC \/ (\E k \in Klass : CollectForAlloc(k)) \/ Exit
  BY <1>2, ClearedIsCounted DEF SystemGC, CollectForAlloc, ClearBitmaps, Exit
<1>3. CASE Collect
  <2>1. CASE MarkRoots
    BY <2>1, MarkRefsKeepsCounts, RootsAndFieldsAreBlocks DEF MarkRoots, Types
  <2>2. CASE TraceNext
    BY <2>2, MarkRefsKeepsCounts, RootsAndFieldsAreBlocks DEF TraceNext, Types
  <2>3. CASE Sweep \/ SweepExpand \/ SweepNoMemory
    BY <2>3 DEF Sweep, SweepExpand, SweepNoMemory, SweepDone, LiveCountExact
  <2> QED BY <1>3, <2>1, <2>2, <2>3 DEF Collect
<1>4. CASE Mutate \/ Catch \/ UNCHANGED vars
  BY <1>4 DEF Mutate, Store, Erase, Load, Drop, Catch, vars, heapVars,
              LiveCountExact
<1> QED BY <1>1, <1>2, <1>3, <1>4, AllocKeepsCounts DEF Next, Stopped

LEMMA InitCounts == Init => LiveCountExact
<1>1. Cardinality({<<0, 0>>}) = 1
  BY FS_Singleton
<1> QED BY <1>1 DEF Init, LiveCountExact

Counted == Safe /\ LiveCountExact

LEMMA CountedAlways == Spec => []Counted
<1>1. Init => Counted
  BY InitTypes, InitOwned, InitTracing, InitHonest, InitCounts
  DEF Safe, Counted
<1>2. Counted /\ [Next]_vars => Counted'
  BY NextKeepsTypes, NextKeepsOwned, NextKeepsTracing, NextKeepsHonest,
     NextKeepsCounts
  DEF Safe, Counted
<1> QED BY <1>1, <1>2, PTL DEF Spec

\* live_count is the number of marked blocks of a segment in every reachable
\* state: through allocation, marking and clearing (bitmap_mark, inc,
\* clearAllBitMapsAndCount).
THEOREM CountsAreExact == Spec => []LiveCountExact
<1>1. Counted => LiveCountExact
  BY DEF Counted
<1> QED BY <1>1, CountedAlways, PTL

-----------------------------------------------------------------------------
(* The free lists.                                                         *)

\* Two segments are more than one: a class that is not rearranged has only
\* the segment its pointer is in.
LEMMA OneSegment ==
  ASSUME Types, NEW k \in Klass, ~ Rearranged(k),
         NEW s \in seglist[k], NEW t \in seglist[k]
  PROVE  s = t
<1> SUFFICES ASSUME s # t PROVE FALSE
  OBVIOUS
<1>1. IsFiniteSet({s}) /\ Cardinality({s}) = 1
  BY FS_Singleton
<1>2. Cardinality({s} \cup {t}) = 2
  BY <1>1, FS_AddElement
<1>3. {s} \cup {t} \in SUBSET seglist[k]
  OBVIOUS
<1>4. Cardinality({s} \cup {t}) <= Cardinality(seglist[k])
  BY <1>3, SeglistFinite, FS_Subset
<1> QED BY <1>2, <1>4, SeglistFinite DEF Rearranged

HasRoom(k, s) == live_count[s] < SegmentBlockCount(k)

\* A class with segments has its pointer in one of them, and between
\* collections the rest of its free list has room.
Roomy ==
  /\ \A k \in Klass : seglist[k] # {} => p[k].seg # NoSegment
  /\ phase \in {"run", "retry", "oom"} =>
       \A k \in Klass : \A s \in freelist[k] : HasRoom(k, s)

LEMMA AllocKeepsRoomy ==
  ASSUME Types, Owned, Owned', Roomy, NEW k \in Klass, Alloc(k)
  PROVE  Roomy'
<1>1. PICK s \in Segment, pos \in WordIndex \X Bit :
        /\ AllocAt(k, s, pos)
        /\ InPlace(k, s, pos) \/ FromFreelist(k, s, pos) \/ FromPool(k, s, pos)
  BY AllocShape
<1>2. /\ phase \in {"run", "retry"}
      /\ \A l \in Klass : p'[l].seg = IF l = k THEN s ELSE p[l].seg
      /\ \A t \in Segment :
           t # s => live_count'[t] = live_count[t]
  BY <1>1 DEF AllocAt, Inc, Trying, Types, TypeOK
<1>3. \A l \in Klass : /\ freelist'[l] \subseteq freelist[l]
                       /\ l # k => seglist'[l] = seglist[l]
  <2>1. CASE InPlace(k, s, pos)
    BY <2>1 DEF InPlace
  <2>2. CASE FromFreelist(k, s, pos)
    <3>1. PICK F \in SUBSET freelist[k] :
            freelist' = [freelist EXCEPT ![k] = @ \ (F \cup {s})]
      BY <2>2 DEF FromFreelist
    <3> QED BY <2>2, <3>1 DEF FromFreelist, Types, TypeOK
  <2>3. CASE FromPool(k, s, pos)
    BY <2>3 DEF FromPool, Types, TypeOK
  <2> QED BY <1>1, <2>1, <2>2, <2>3
<1>4. ASSUME NEW l \in Klass, NEW t \in freelist'[l]
      PROVE  t # s
  <2>1. s \in seglist'[k] /\ s \notin freelist'[k]
    BY <1>2, SegmentAssumption DEF Owned
  <2>2. t \in seglist'[l]
    BY <1>4 DEF Owned
  <2>3. l # k => seglist'[l] \cap seglist'[k] = {}
    BY DEF Owned, SegmentOwnedOnce
  <2> QED BY <1>4, <2>1, <2>2, <2>3
<1>5. ASSUME NEW l \in Klass, NEW t \in freelist'[l]
      PROVE  HasRoom(l, t)'
  <2>1. t \in freelist[l] /\ t \in Segment
    BY <1>3, <1>5 DEF Types, TypeOK
  <2>2. live_count'[t] = live_count[t]
    BY <1>2, <1>4, <1>5, <2>1
  <2> QED BY <1>2, <2>1, <2>2 DEF Roomy, HasRoom
<1>6. \A l \in Klass : seglist'[l] # {} => p'[l].seg # NoSegment
  BY <1>2, <1>3, SegmentAssumption DEF Roomy
<1> QED BY <1>5, <1>6 DEF Roomy

LEMMA SweepsKeepRoomy ==
  ASSUME Types, Owned, Roomy, Sweep \/ SweepExpand \/ SweepNoMemory
  PROVE  Roomy'
<1>1. ASSUME NEW fetch \in [Klass -> Segment \cup {NoSegment}],
             Fetches(fetch), Rearrange(fetch), NEW k \in Klass
      PROVE  /\ \A s \in freelist'[k] : HasRoom(k, s)
             /\ seglist[k] # {} => Fetched(k, fetch[k]).seg # NoSegment
  <2>1. CASE Rearranged(k)
    <3>1. \A s \in freelist'[k] : HasRoom(k, s)
      BY <1>1, <2>1 DEF Rearrange, Unfilled, HasRoom
    <3>2. fetch[k] # NoSegment => StartOf(k, fetch[k], TRUE).seg = fetch[k]
      BY DEF StartOf
    <3> QED BY <3>1, <3>2 DEF Fetched, Roomy
  <2>2. CASE ~ Rearranged(k)
    <3>1. freelist'[k] = freelist[k] /\ Fetched(k, fetch[k]) = p[k]
      BY <1>1, <2>2 DEF Rearrange, Fetches, Fetched
    <3>2. freelist[k] = {}
      <4> SUFFICES ASSUME NEW s \in freelist[k] PROVE FALSE
        OBVIOUS
      <4>1. s \in seglist[k] /\ p[k].seg \in seglist[k] \cup {NoSegment}
            /\ s # p[k].seg
        BY DEF Owned
      <4>2. p[k].seg \in seglist[k]
        BY <4>1 DEF Roomy
      <4> QED BY <2>2, <4>1, <4>2, OneSegment
    <3> QED BY <3>1, <3>2 DEF Roomy
  <2> QED BY <2>1, <2>2
<1>2. UNCHANGED live_count
  BY DEF Sweep, SweepExpand, SweepNoMemory, SweepDone
<1>3. CASE Sweep \/ SweepNoMemory
  <2>1. PICK fetch \in [Klass -> Segment \cup {NoSegment}] :
          /\ Fetches(fetch) /\ Rearrange(fetch)
          /\ p' = [k \in Klass |-> Fetched(k, fetch[k])]
    BY <1>3 DEF Sweep, SweepNoMemory
  <2>2. UNCHANGED seglist
    BY <1>3 DEF Sweep, SweepNoMemory
  <2> QED BY <1>1, <1>2, <2>1, <2>2 DEF Roomy, HasRoom
<1>4. CASE SweepExpand
  <2>1. PICK fetch \in [Klass -> Segment \cup {NoSegment}],
             fresh \in [Klass -> Segment \cup {NoSegment}],
             pool \in SUBSET (Segment \ managed) :
          /\ Fetches(fetch) /\ Rearrange(fetch) /\ Expand(fetch, fresh, pool)
    BY <1>4 DEF SweepExpand
  <2>2. \A k \in Klass :
          /\ IsFull(k) => fresh[k] \in pool /\ p'[k].seg = fresh[k]
          /\ ~ IsFull(k) => /\ seglist'[k] = seglist[k]
                            /\ p'[k] = Fetched(k, fetch[k])
    BY <2>1 DEF Expand, FirstBlock
  <2> QED BY <1>1, <1>2, <2>1, <2>2, SegmentAssumption DEF Roomy, HasRoom
<1> QED BY <1>3, <1>4

LEMMA NextKeepsRoomy ==
  ASSUME Types, Owned, Owned', Roomy, [Next]_vars
  PROVE  Roomy'
<1>1. ASSUME NEW k \in Klass, AllocStale(k) \/ ThrowOutOfMemory(k)
      PROVE  Roomy'
  <2>1. /\ UNCHANGED <<live_count, seglist>>
        /\ phase \in {"run", "retry"}
        /\ \A l \in Klass : freelist'[l] \subseteq freelist[l]
        /\ \A l \in Klass : p'[l].seg = p[l].seg
    BY <1>1 DEF AllocStale, ThrowOutOfMemory, Trying, WithoutMask, Types, TypeOK
  <2> QED BY <2>1 DEF Roomy, HasRoom
<1>2. ASSUME NEW k \in Klass, CollectForAlloc(k) PROVE Roomy'
  <2>1. phase' = "roots" /\ UNCHANGED seglist
    BY <1>2 DEF CollectForAlloc, ClearBitmaps
  <2>2. freelist[k] \subseteq Segment
    BY DEF Types, TypeOK
  <2>3. \A l \in Klass : p'[l].seg = p[l].seg \/ p'[l].seg # NoSegment
    <3>1. CASE p' = [p EXCEPT ![k] = WithoutMask(k, p[k].blk)]
      BY <3>1, NewPointers DEF Types, TypeOK
    <3>2. ASSUME NEW s \in freelist[k],
                 p' = [p EXCEPT ![k] = StartOf(k, s, FALSE)]
          PROVE  \A l \in Klass : p'[l].seg = p[l].seg \/ p'[l].seg # NoSegment
      <4>1. p'[k].seg = s /\ s # NoSegment
        BY <2>2, <3>2, SegmentAssumption DEF StartOf, Types, TypeOK
      <4>2. \A l \in Klass : l # k => p'[l] = p[l]
        BY <3>2 DEF Types, TypeOK
      <4> QED BY <4>1, <4>2
    <3> QED BY <1>2, <3>1, <3>2 DEF CollectForAlloc
  <2> QED BY <2>1, <2>3 DEF Roomy
<1>3. CASE SystemGC
  BY <1>3 DEF SystemGC, ClearBitmaps, Roomy
<1>4. CASE Collect
  <2>1. CASE MarkRoots \/ TraceNext
    BY <2>1 DEF MarkRoots, TraceNext, MarkRefs, Roomy
  <2> QED BY <1>4, <2>1, SweepsKeepRoomy DEF Collect
<1>5. CASE Mutate \/ Catch \/ UNCHANGED vars
  BY <1>5 DEF Mutate, Store, Erase, Load, Drop, Catch, vars, heapVars, gcVars,
              Roomy, HasRoom
<1>6. CASE Exit
  BY <1>6 DEF Exit, Roomy
<1> QED BY <1>1, <1>2, <1>3, <1>4, <1>5, <1>6, AllocKeepsRoomy
    DEF Next, Stopped

LEMMA InitRoomy == Init => Roomy
BY DEF Init, Roomy

\* The assertions of newSegment and nextSegment (bmgc.h:1310, 1361): what is
\* on a free list is the class's own, not under its pointer, and has room.
THEOREM FreelistsHaveRoom == Spec => []FreelistHasRoom
<1>1. Init => Counted /\ Roomy
  BY InitTypes, InitOwned, InitTracing, InitHonest, InitCounts, InitRoomy
  DEF Safe, Counted
<1>2. Counted /\ Counted' /\ Roomy /\ [Next]_vars => Roomy'
  BY NextKeepsRoomy DEF Counted, Safe
<1>3. Counted /\ Roomy => FreelistHasRoom
  BY DEF Counted, Safe, Owned, Roomy, HasRoom, FreelistHasRoom
<1> QED BY <1>1, <1>2, <1>3, CountedAlways, PTL DEF Spec

-----------------------------------------------------------------------------
(* Where objects are.                                                      *)

\* A class has the segment.
Taken(s) == \E k \in Klass : s \in seglist[k]

\* Until the interpreter closes, every object the program or another object
\* knows of has a header, and lies in a segment of some class.  What no
\* class has taken has no marks.
Placed ==
  /\ phase # "exit" =>
       /\ \A b \in constructed : Taken(b[1])
       /\ roots \subseteq constructed
       /\ \A b \in Block : fields[b] \subseteq constructed
  /\ phase = "exit" => constructed = {}
  /\ \A s \in Segment : ~ Taken(s) => bitmap[s] = {<<0, 0>>}

LEMMA AllocKeepsPlaced ==
  ASSUME Types, Owned, Owned', Placed, NEW k \in Klass, Alloc(k)
  PROVE  Placed'
<1>1. PICK s \in Segment, pos \in WordIndex \X Bit :
        /\ AllocAt(k, s, pos)
        /\ InPlace(k, s, pos) \/ FromFreelist(k, s, pos) \/ FromPool(k, s, pos)
  BY AllocShape
<1> DEFINE a == <<s, pos[1], pos[2]>>
<1>2. /\ phase # "exit" /\ phase' # "exit"
      /\ constructed' = constructed \cup {a}
      /\ roots' = roots \cup {a}
      /\ fields' = [fields EXCEPT ![a] = {}]
      /\ \A t \in Segment : t # s => bitmap'[t] = bitmap[t]
  BY <1>1 DEF AllocAt, Trying, HandOut, Inc, Types, TypeOK
<1>3. \A l \in Klass : seglist[l] \subseteq seglist'[l]
  <2>1. CASE InPlace(k, s, pos)
    BY <2>1 DEF InPlace
  <2>2. CASE FromFreelist(k, s, pos)
    BY <2>2 DEF FromFreelist
  <2>3. CASE FromPool(k, s, pos)
    BY <2>3 DEF FromPool, Types, TypeOK
  <2> QED BY <1>1, <2>1, <2>2, <2>3
<1>4. s \in seglist'[k]
  <2>1. p'[k].seg = s
    BY <1>1 DEF AllocAt, Inc, Types, TypeOK
  <2> QED BY <2>1, SegmentAssumption DEF Owned
<1>5. \A b \in constructed' : Taken(b[1])'
  BY <1>2, <1>3, <1>4 DEF Placed, Taken
<1>6. \A b \in Block : fields'[b] \subseteq constructed'
  BY <1>2 DEF Placed, Types, TypeOK
<1>7. \A t \in Segment : ~ Taken(t)' => bitmap'[t] = {<<0, 0>>}
  BY <1>2, <1>3, <1>4 DEF Placed, Taken
<1> QED BY <1>2, <1>5, <1>6, <1>7 DEF Placed

\* Marking sets bits in segments of a class only.
LEMMA MarkRefsKeepsPlaced ==
  ASSUME Types, Placed, phase # "exit", NEW R, R \subseteq constructed,
         NEW rest, MarkRefs(R, rest)
  PROVE  Placed'
<1>1. UNCHANGED <<seglist, constructed, roots, fields>> /\ phase' = "mark"
  BY DEF MarkRefs, objectVars
<1>2. ASSUME NEW s \in Segment, ~ Taken(s)
      PROVE  bitmap'[s] = {<<0, 0>>}
  <2>1. In(Unmarked(R), s) = {}
    BY <1>2 DEF In, Unmarked, Placed
  <2>2. bitmap'[s] = bitmap[s] \cup {<<b[2], b[3]>> : b \in In(Unmarked(R), s)}
    BY DEF MarkRefs
  <2> QED BY <1>2, <2>1, <2>2 DEF Placed
<1> QED BY <1>1, <1>2 DEF Placed, Taken

LEMMA SweepsKeepPlaced ==
  ASSUME Types, Placed, Sweep \/ SweepExpand \/ SweepNoMemory
  PROVE  Placed'
<1>1. /\ UNCHANGED <<bitmap, constructed, roots, fields>>
      /\ phase # "exit" /\ phase' # "exit"
  BY DEF Sweep, SweepExpand, SweepNoMemory, SweepDone, objectVars
<1>2. \A k \in Klass : seglist[k] \subseteq seglist'[k]
  BY DEF Sweep, SweepExpand, SweepNoMemory, Expand
<1> QED BY <1>1, <1>2 DEF Placed, Taken

LEMMA NextKeepsPlaced ==
  ASSUME Types, Owned, Owned', Placed, [Next]_vars
  PROVE  Placed'
<1>1. ASSUME NEW k \in Klass, AllocStale(k) \/ ThrowOutOfMemory(k)
      PROVE  Placed'
  <2>1. /\ UNCHANGED <<bitmap, seglist, objectVars>>
        /\ phase # "exit" /\ phase' # "exit"
    BY <1>1 DEF AllocStale, ThrowOutOfMemory, Trying
  <2> QED BY <2>1 DEF Placed, Taken, objectVars
<1>2. CASE SystemGC \/ (\E k \in Klass : CollectForAlloc(k))
  <2>1. /\ UNCHANGED <<seglist, objectVars>>
        /\ phase # "exit" /\ phase' # "exit"
        /\ bitmap' = [s \in Segment |-> {<<0, 0>>}]
    BY <1>2 DEF SystemGC, CollectForAlloc, ClearBitmaps
  <2> QED BY <2>1 DEF Placed, Taken, objectVars
<1>3. CASE Collect
  <2>1. CASE MarkRoots
    BY <2>1, MarkRefsKeepsPlaced DEF MarkRoots, Placed
  <2>2. CASE TraceNext
    <3>1. PICK b \in ostack : MarkRefs(fields[b], ostack \ {b})
      BY <2>2 DEF TraceNext
    <3>2. phase # "exit" /\ b \in Block
      BY <2>2 DEF TraceNext, Types, TypeOK
    <3>3. fields[b] \subseteq constructed
      BY <3>2 DEF Placed
    <3> QED BY <3>1, <3>2, <3>3, MarkRefsKeepsPlaced
  <2> QED BY <1>3, <2>1, <2>2, SweepsKeepPlaced DEF Collect
<1>4. CASE Mutate
  <2>1. /\ UNCHANGED <<bitmap, seglist, constructed, phase>> /\ phase # "exit"
    BY <1>4 DEF Mutate, Store, Erase, Load, Drop, heapVars, gcVars
  <2>2. roots' \subseteq constructed
    BY <1>4, <2>1 DEF Mutate, Store, Erase, Load, Drop, Placed
  <2>3. \A b \in Block : fields'[b] \subseteq constructed
    BY <1>4, <2>1 DEF Mutate, Store, Erase, Load, Drop, Placed, Types, TypeOK
  <2> QED BY <2>1, <2>2, <2>3 DEF Placed, Taken
<1>5. CASE Catch \/ UNCHANGED vars
  BY <1>5 DEF Catch, vars, heapVars, objectVars, gcVars, Placed, Taken
<1>6. CASE Exit
  <2>1. constructed' = {}
    BY <1>6 DEF Exit, Placed, Taken
  <2> QED BY <1>6, <2>1 DEF Exit, Placed, Taken
<1> QED BY <1>1, <1>2, <1>3, <1>4, <1>5, <1>6, AllocKeepsPlaced
    DEF Next, Stopped

LEMMA InitPlaced == Init => Placed
BY DEF Init, Placed

LEMMA PlacedAlways == Spec => []Placed
<1>1. Init => Placed
  BY InitPlaced
<1>2. Counted /\ Counted' /\ Placed /\ [Next]_vars => Placed'
  BY NextKeepsPlaced DEF Counted, Safe
<1> QED BY <1>1, <1>2, CountedAlways, PTL DEF Spec

\* Closing the interpreter finalizes every object (HeapManager_final_free
\* visits the segments of the classes: no object lies elsewhere).
THEOREM EverythingIsFinalized == Spec => []AllFinalized
<1>1. Placed => AllFinalized
  BY DEF Placed, AllFinalized
<1> QED BY <1>1, PlacedAlways, PTL

-----------------------------------------------------------------------------
(* The allocation that waited for a collection.                            *)

\* From the start of a collection until the allocation it was for goes on,
\* level 1 calls a word full only if it is.
Level1Exact ==
  phase \in {"roots", "mark", "retry"} =>
    \A s \in Segment : \A w \in level1[s] : FullWord(bitmap[s], w)

LEMMA NextKeepsLevel1Exact ==
  ASSUME Types, Level1Exact, [Next]_vars
  PROVE  Level1Exact'
<1>1. ASSUME NEW k \in Klass,
             Alloc(k) \/ AllocStale(k) \/ ThrowOutOfMemory(k)
      PROVE  Level1Exact'
  <2>1. phase' \in {"run", "oom", "wild"}
    BY <1>1 DEF Alloc, AllocHere, AllocScan, AllocFreelist, AllocSegment,
                HandOut, AllocStale, ThrowOutOfMemory
  <2> QED BY <2>1 DEF Level1Exact
<1>2. CASE SystemGC \/ (\E k \in Klass : CollectForAlloc(k))
  BY <1>2 DEF SystemGC, CollectForAlloc, ClearBitmaps, Level1Exact
<1>3. ASSUME NEW R \in SUBSET Block, NEW rest \in SUBSET Block,
             MarkRefs(R, rest), phase \in {"roots", "mark"}
      PROVE  Level1Exact'
  <2> SUFFICES ASSUME NEW s \in Segment, NEW w \in level1'[s]
               PROVE  FullWord(bitmap'[s], w)
    BY DEF Level1Exact
  <2>1. w \in level1[s] \/ w \in Filled(Unmarked(R), s)
    BY <1>3 DEF MarkRefs
  <2>2. bitmap[s] \subseteq bitmap'[s]
    BY <1>3, MarkRefsType DEF Types
  <2> QED BY <1>3, <2>1, <2>2 DEF Level1Exact, FullWord, Filled
<1>4. CASE Collect
  <2>1. CASE MarkRoots \/ TraceNext
    BY <1>3, <2>1, RootsAndFieldsAreBlocks DEF MarkRoots, TraceNext, Types
  <2>2. CASE Sweep \/ SweepExpand \/ SweepNoMemory
    BY <2>2 DEF Sweep, SweepExpand, SweepNoMemory, SweepDone, Level1Exact
  <2> QED BY <1>4, <2>1, <2>2 DEF Collect
<1>5. CASE Mutate \/ Catch \/ Exit \/ UNCHANGED vars
  BY <1>5 DEF Mutate, Store, Erase, Load, Drop, Catch, Exit, vars, heapVars,
              gcVars, Level1Exact
<1> QED BY <1>1, <1>2, <1>4, <1>5 DEF Next, Stopped

\* Counting marks: a segment that is not full has a clear bit below its
\* sentinel.
LEMMA ClearBitExists ==
  ASSUME Types, LiveCountExact, NEW k \in Klass, NEW s \in Segment,
         HasRoom(k, s)
  PROVE  \E w \in WordIndex, i \in Bit : w < Words[k] /\ <<w, i>> \notin bitmap[s]
<1> USE GeometryAssumption
<1> DEFINE W == 0 .. (Words[k] - 1)
<1>1. /\ IsFiniteSet(W) /\ Cardinality(W) = Words[k]
      /\ IsFiniteSet(Bit) /\ Cardinality(Bit) = Bits
  <2>1. /\ Words[k] \in Nat /\ Words[k] >= 1
        /\ Bits \in Nat /\ Bits >= 2
        /\ Words[k] - 1 \in Int /\ Bits - 1 \in Int /\ 0 \in Int
    OBVIOUS
  <2>2. IsFiniteSet(W) /\ Cardinality(W) = Words[k]
    BY <2>1, FS_Interval
  <2>3. IsFiniteSet(Bit) /\ Cardinality(Bit) = Bits
    <3>1. PICK n \in Int : n = Bits - 1
      BY <2>1
    <3>2. IsFiniteSet(0 .. n) /\ Cardinality(0 .. n) = IF 0 > n THEN 0 ELSE n - 0 + 1
      BY <2>1, FS_Interval
    <3>3. Bit = 0 .. n
      BY <3>1 DEF Bit
    <3> QED BY <2>1, <3>1, <3>2, <3>3
  <2> QED BY <2>2, <2>3
<1>2. Cardinality(W \X Bit) = Words[k] * Bits
  BY <1>1, FS_Product
<1>3. Cardinality(bitmap[s]) < Words[k] * Bits
  <2>1. live_count[s] \in Nat /\ live_count[s] + 1 = Cardinality(bitmap[s])
    BY DEF LiveCountExact, Types, TypeOK
  <2>2. Words[k] * Bits \in Int
    OBVIOUS
  <2> DEFINE n == Words[k] * Bits
  <2>3. live_count[s] < n - 1
    BY DEF HasRoom, SegmentBlockCount
  <2>4. n \in Int
    BY <2>2
  <2> HIDE DEF n
  <2>5. Cardinality(bitmap[s]) < n
    BY <2>1, <2>3, <2>4
  <2> QED BY <2>5 DEF n
<1>4. ~ (W \X Bit \subseteq bitmap[s])
  <2> SUFFICES ASSUME W \X Bit \in SUBSET bitmap[s] PROVE FALSE
    OBVIOUS
  <2>1. Cardinality(W \X Bit) <= Cardinality(bitmap[s])
    BY BitmapFinite, FS_Subset
  <2> QED BY <1>2, <1>3, <2>1, BitmapFinite
<1>5. PICK w \in W, i \in Bit : <<w, i>> \notin bitmap[s]
  BY <1>4
<1>6. w \in WordIndex /\ w < Words[k]
  BY DEF WordIndex
<1> QED BY <1>5, <1>6

\* findNextFreeBlock finds that bit from the start of the segment, if level 1
\* is exact and covers the words.
LEMMA RoomIsFound ==
  ASSUME Types, LiveCountExact, NEW k \in Klass, NEW s \in Segment,
         HasRoom(k, s), CompleteLevel1(k),
         \A w \in level1[s] : FullWord(bitmap[s], w)
  PROVE  Found(k, s, 0, 0) # {}
<1> USE GeometryAssumption, SegmentAssumption
<1>1. CASE LowestClear(k, s, 0, 0) # {}
  BY <1>1 DEF Found
<1>2. CASE LowestClear(k, s, 0, 0) = {}
  <2>1. PICK w \in WordIndex, i \in Bit :
          w < Words[k] /\ <<w, i>> \notin bitmap[s]
    BY ClearBitExists
  <2>2. w # 0
    <3> SUFFICES ASSUME w = 0 PROVE FALSE
      OBVIOUS
    <3> DEFINE S == {j \in Bit : j >= 0 /\ ~ Marked(k, s, 0, j)}
    <3>1. i \in S
      BY <2>1 DEF Marked, Bit
    <3>2. S \in SUBSET Nat /\ S # {}
      BY <3>1 DEF Bit
    <3> QED BY <1>2, <3>2, SmallestExists DEF LowestClear
  <2>3. w < L1Limit[k]
    BY <2>1, <2>2 DEF CompleteLevel1, WordIndex
  <2>4. w \notin level1[s]
    BY <2>1 DEF FullWord
  <2> DEFINE V == {v \in 0 .. (MaxWords - 1) :
                     v > 0 /\ v < L1Limit[k] /\ v \notin level1[s]}
  <2>5. V \in SUBSET Nat /\ V # {}
    BY <2>2, <2>3, <2>4 DEF WordIndex
  <2>6. PICK v \in NextWord(k, s, 0) : TRUE
    BY <2>5, SmallestExists DEF NextWord
  <2>7. (IF LowestClear(k, s, v, 0) # {}
           THEN {<<v, j>> : j \in LowestClear(k, s, v, 0)}
           ELSE {<<v - 1, Bits - 1>>}) # {}
    OBVIOUS
  <2> QED BY <1>2, <2>6, <2>7 DEF Found
<1> QED BY <1>1, <1>2

\* A pointer at the start of a segment with room finds it.
LEMMA FetchedFindsRoom ==
  ASSUME Types, LiveCountExact, NEW k \in Klass, NEW s \in Unfilled(k),
         CompleteLevel1(k), \A w \in level1[s] : FullWord(bitmap[s], w),
         UNCHANGED <<bitmap, level1>>, p'[k] = StartOf(k, s, TRUE)
  PROVE  p'[k].mask /\ ~ Exhausted(k)'
<1>1. s \in Segment /\ HasRoom(k, s)
  BY DEF Unfilled, HasRoom, Types, TypeOK
<1>2. Found(k, s, 0, 0) # {}
  BY <1>1, RoomIsFound
<1>3. Found(k, s, 0, 0)' = Found(k, s, 0, 0)
  BY DEF Found, LowestClear, NextWord, Marked
<1>4. p'[k].mask /\ p'[k].seg = s /\ p'[k].idx = 0 /\ p'[k].bit = 0
  BY DEF StartOf
<1>5. FoundAtPointer(k)' = Found(k, s, 0, 0)'
  BY <1>4 DEF FoundAtPointer
<1> QED BY <1>2, <1>3, <1>4, <1>5 DEF Exhausted

\* So does a pointer at the start of a new segment.
LEMMA FreshHasRoom ==
  ASSUME Placed, NEW k \in Klass, NEW s \in Segment, ~ Taken(s),
         UNCHANGED bitmap, p'[k] = FirstBlock(s)
  PROVE  p'[k].mask /\ ~ Exhausted(k)'
<1>1. <<0, 1>> \notin bitmap'[s]
  BY DEF Placed
<1>2. p'[k].mask /\ p'[k].seg = s /\ p'[k].idx = 0 /\ p'[k].bit = 0
  BY DEF FirstBlock
<1> DEFINE S == {j \in Bit : j >= 0 /\ ~ Marked(k, s, 0, j)'}
<1>3. S \in SUBSET Nat /\ S # {}
  <2>1. 1 \in S
    <3>1. s # NoSegment /\ 0 < Words[k] /\ 1 \in Bit
      BY SegmentAssumption, GeometryAssumption DEF Bit
    <3> QED BY <1>1, <3>1 DEF Marked, Bit
  <2> QED BY <2>1 DEF Bit
<1>4. LowestClear(k, s, 0, 0)' # {}
  BY <1>3, SmallestExists DEF LowestClear
<1>5. Found(k, s, 0, 0)' # {}
  BY <1>4 DEF Found
<1>6. FoundAtPointer(k)' = Found(k, s, 0, 0)'
  BY <1>2 DEF FoundAtPointer
<1> QED BY <1>2, <1>5, <1>6 DEF Exhausted

LEMMA SweepAnswers ==
  ASSUME Counted, Placed, Level1Exact, Sweep \/ SweepExpand
  PROVE  RetrySucceeds'
<1> USE DEF Counted, Safe
<1>1. /\ UNCHANGED <<bitmap, level1, live_count, request>>
      /\ phase = "mark"
      /\ phase' = "retry" => request \in Klass
  BY DEF Sweep, SweepExpand, SweepDone, Types, TypeOK
<1> SUFFICES ASSUME NEW k \in Klass, k = request, CompleteLevel1(k),
                    Rearranged(k)'
             PROVE  p'[k].mask /\ ~ Exhausted(k)'
  <2>1. SUFFICES ASSUME phase' = "retry", Rearranged(request)',
                        CompleteLevel1(request')
                 PROVE  p'[request'].mask /\ ~ Exhausted(request)'
    BY DEF RetrySucceeds
  <2>2. request \in Klass /\ request' = request
    BY <1>1, <2>1
  <2>3. PICK k \in Klass : k = request
    BY <2>2
  <2>4. CompleteLevel1(k) /\ Rearranged(k)'
    BY <2>1, <2>2, <2>3 DEF Rearranged
  <2>5. p'[k].mask /\ ~ Exhausted(k)'
    BY <2>3, <2>4
  <2> QED BY <2>2, <2>3, <2>5
<1>2. ASSUME NEW fetch \in [Klass -> Segment \cup {NoSegment}],
             Fetches(fetch), ~ IsFull(k), Rearranged(k),
             p'[k] = Fetched(k, fetch[k])
      PROVE  p'[k].mask /\ ~ Exhausted(k)'
  <2>1. Unfilled(k) # {}
    <3>1. CASE Cardinality(Unfilled(k)) <= 1
      BY <1>2, <3>1 DEF IsFull
    <3>2. CASE Unfilled(k) = {}
      <4>1. Cardinality(Unfilled(k)) = 0
        BY <3>2, FS_EmptySet
      <4> QED BY <3>1, <4>1
    <3> QED BY <3>2
  <2>2. fetch[k] \in Unfilled(k) /\ fetch[k] \in Segment
    BY <1>2, <2>1 DEF Fetches, Unfilled, Types, TypeOK
  <2>3. p'[k] = StartOf(k, fetch[k], TRUE)
    BY <1>2, <2>2, SegmentAssumption DEF Fetched
  <2>4. \A w \in level1[fetch[k]] : FullWord(bitmap[fetch[k]], w)
    BY <1>1, <2>2 DEF Level1Exact
  <2> QED BY <1>1, <2>2, <2>3, <2>4, FetchedFindsRoom
<1>3. CASE Sweep
  <2>1. PICK fetch \in [Klass -> Segment \cup {NoSegment}] :
          Fetches(fetch) /\ p' = [l \in Klass |-> Fetched(l, fetch[l])]
    BY <1>3 DEF Sweep
  <2>2. ~ IsFull(k) /\ Rearranged(k)
    BY <1>3 DEF Sweep, Rearranged
  <2> QED BY <1>2, <2>1, <2>2
<1>4. CASE SweepExpand
  <2>1. PICK fetch \in [Klass -> Segment \cup {NoSegment}],
             fresh \in [Klass -> Segment \cup {NoSegment}],
             pool \in SUBSET (Segment \ managed) :
          Fetches(fetch) /\ Expand(fetch, fresh, pool)
    BY <1>4 DEF SweepExpand
  <2>2. CASE IsFull(k)
    <3>1. fresh[k] \in pool /\ p'[k] = FirstBlock(fresh[k])
      BY <2>1, <2>2 DEF Expand
    <3>2. fresh[k] \in Segment /\ ~ Taken(fresh[k])
      BY <2>1, <3>1 DEF Taken, Owned, SegmentOwnedOnce
    <3> QED BY <1>1, <3>1, <3>2, FreshHasRoom
  <2>3. CASE ~ IsFull(k)
    <3>1. p'[k] = Fetched(k, fetch[k]) /\ seglist'[k] = seglist[k]
      BY <2>1, <2>3 DEF Expand
    <3>2. Rearranged(k)
      BY <3>1 DEF Rearranged
    <3> QED BY <1>2, <2>1, <2>3, <3>1, <3>2
  <2> QED BY <2>2, <2>3
<1> QED BY <1>3, <1>4

\* Whatever else happens ends the wait.
LEMMA NextKeepsRetry ==
  ASSUME Counted, Placed, Level1Exact, RetrySucceeds, [Next]_vars
  PROVE  RetrySucceeds'
<1>1. CASE UNCHANGED vars
  <2>1. /\ p' = p /\ bitmap' = bitmap /\ level1' = level1
        /\ seglist' = seglist /\ freelist' = freelist
        /\ phase' = phase /\ request' = request
    BY <1>1 DEF vars, heapVars, gcVars
  <2>2. \A k : Exhausted(k)' <=> Exhausted(k)
    BY <2>1 DEF Exhausted, PointerMarked, FoundAtPointer, Found, LowestClear,
                NextWord, Marked
  <2> QED BY <2>1, <2>2 DEF RetrySucceeds, Rearranged
<1>2. CASE Sweep \/ SweepExpand
  BY <1>2, SweepAnswers
<1>3. CASE Next /\ ~ (Sweep \/ SweepExpand)
  <2>1. phase' # "retry" \/ UNCHANGED vars
    <3>1. ASSUME NEW k \in Klass,
                 \/ Alloc(k) \/ AllocStale(k)
                 \/ CollectForAlloc(k) \/ ThrowOutOfMemory(k)
          PROVE  phase' # "retry"
      BY <3>1 DEF Alloc, AllocHere, AllocScan, AllocFreelist, AllocSegment,
                  HandOut, AllocStale, CollectForAlloc, ClearBitmaps,
                  ThrowOutOfMemory
    <3>2. CASE SystemGC \/ MarkRoots \/ TraceNext \/ SweepNoMemory \/ Catch \/ Exit
      BY <3>2 DEF SystemGC, ClearBitmaps, MarkRoots, TraceNext, MarkRefs,
                  SweepNoMemory, Catch, Exit
    <3>3. CASE Mutate
      BY <3>3 DEF Mutate, Store, Erase, Load, Drop, gcVars
    <3> QED BY <1>3, <3>1, <3>2, <3>3 DEF Next, Collect, Stopped
  <2> QED BY <1>1, <2>1 DEF RetrySucceeds
<1> QED BY <1>1, <1>2, <1>3

\* A collection that an allocation asked for answers it: the second tryAlloc
\* neither throws OutOfMemory!! nor leaves the segment, in a class with two
\* segments whose level 1 covers its words.
THEOREM RetriesSucceed == Spec => []RetrySucceeds
<1>1. Init => Level1Exact /\ RetrySucceeds
  BY DEF Init, Level1Exact, RetrySucceeds
<1>2. Counted /\ Placed /\ Level1Exact /\ RetrySucceeds /\ [Next]_vars
        => Level1Exact' /\ RetrySucceeds'
  BY NextKeepsLevel1Exact, NextKeepsRetry DEF Counted, Safe
<1> QED BY <1>1, <1>2, CountedAlways, PlacedAlways, PTL DEF Spec
=============================================================================
