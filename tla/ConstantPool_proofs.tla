------------------------- MODULE ConstantPool_proofs -------------------------
(***************************************************************************)
(* The pool of constants is exact, for every heap and every set of         *)
(* constants.  The proof cannot rest on what is proved of the collector by *)
(* itself: a constant that the pool answers may be unmarked, so that what  *)
(* the program reaches is not always marked here.  What it needs of the    *)
(* collector is that an allocation marks one block, which was clear.       *)
(***************************************************************************)
EXTENDS ConstantPool, BitmapGC_proofs

Heap == Types /\ Owned /\ Honest

PoolTypeOK ==
  /\ pool \in [Constant -> Block \cup {NoBlock}]
  /\ data \in [Block -> Constant \cup {Plain}]
  /\ boxing \in Constant \cup {Plain}

\* A constant waits for its block only during a collection, and the pool has
\* none for it.
WaitsForMissing ==
  boxing # Plain => /\ phase \in {"roots", "mark", "retry"}
                    /\ pool[boxing] = NoBlock

PoolInv == Heap /\ PoolTypeOK /\ WaitsForMissing /\ PoolExact

-----------------------------------------------------------------------------
(* The collector below the pool.                                           *)

LEMMA HeapStep ==
  ASSUME Heap, [Next]_vars
  PROVE  Heap'
BY NextKeepsTypes, NextKeepsOwned, NextKeepsHonest DEF Heap

LEMMA PoolStepsOfHeap ==
  ASSUME PoolNext, \A c \in Constant : ~ BoxPooled(c)
  PROVE  [Next]_vars
BY DEF PoolNext, Make, Wait, Otherwise, Next, Stopped

LEMMA HeapAfterBoxPooled ==
  ASSUME Heap, PoolTypeOK, NEW c \in Constant, BoxPooled(c)
  PROVE  Heap'
<1>1. /\ UNCHANGED <<bitmap, level1, live_count, seglist, freelist, p>>
      /\ UNCHANGED <<segmentList, managed, constructed, fields>>
      /\ UNCHANGED <<ostack, phase, request>>
  BY DEF BoxPooled, heapVars, poolVars, gcVars
<1>2. roots' \in SUBSET Block
  BY DEF BoxPooled, PoolTypeOK, Heap, Types, TypeOK
<1>3. Types'
  BY <1>1, <1>2 DEF Heap, Types, TypeOK, HeaderMarked, Coherent
<1>4. Owned'
  BY <1>1 DEF Heap, Owned, SegmentOwnedOnce
<1>5. Honest'
  BY <1>1 DEF Heap, Honest, AllHonest, HonestWord
<1> QED BY <1>3, <1>4, <1>5 DEF Heap

LEMMA NoBlockIsNone == NoBlock \notin Block
<1>1. 0 .. (MaxWords - 1) \subseteq 0 .. MaxWords
  BY GeometryAssumption
<1>2. Block \subseteq Segment \X (0 .. MaxWords) \X Bit
  BY <1>1 DEF Block
<1> QED BY <1>2, BlockAssumption

\* What is proved of an allocation: of the blocks that an allocation marks
\* there is one, and it is the one that gets a header.
LEMMA AllocMarksOne ==
  ASSUME Heap, NEW k \in Klass, Alloc(k), NEW b \in Block,
         ~ IsObject(b), IsObject(b)'
  PROVE  constructed' = constructed \cup {b} /\ phase' = "run"
<1>1. PICK s \in Segment, pos \in WordIndex \X Bit : AllocAt(k, s, pos)
  BY AllocShape DEF Heap
<1>2. b = <<s, pos[1], pos[2]>>
  BY <1>1, MarkedAfterAlloc DEF Heap
<1> QED BY <1>1, <1>2 DEF AllocAt, HandOut

-----------------------------------------------------------------------------
(* The pool.                                                               *)

LEMMA MakeKeepsPool ==
  ASSUME PoolInv, NEW k \in Klass, NEW d \in Constant \cup {Plain}, Make(k, d)
  PROVE  (PoolTypeOK /\ WaitsForMissing /\ PoolExact)'
<1>1. PICK b \in Block : ~ IsObject(b) /\ IsObject(b)' /\ Construct(b, d)
  BY DEF Make
<1>2. constructed' = constructed \cup {b} /\ phase' = "run" /\ boxing' = Plain
  BY <1>1, AllocMarksOne DEF Make, PoolInv
<1>3. d # Plain => pool[d] = NoBlock
  BY DEF Make, PoolInv, WaitsForMissing
<1>4. /\ data' = [data EXCEPT ![b] = d]
      /\ \A c \in Constant :
           pool'[c] = IF c = d THEN b
                      ELSE IF pool[c] = b /\ b \in constructed THEN NoBlock
                      ELSE pool[c]
      /\ pool' \in [Constant -> Block \cup {NoBlock}]
  BY <1>1 DEF Construct, Unpooled, PoolInv, PoolTypeOK
<1>5. PoolTypeOK'
  BY <1>2, <1>4 DEF PoolInv, PoolTypeOK
<1>6. ASSUME NEW c \in Constant, NEW x \in Block
      PROVE  pool'[c] = x <=> (x \in constructed' /\ data'[x] = c)
  <2>1. pool[c] = x <=> (x \in constructed /\ data[x] = c)
    BY DEF PoolInv, PoolExact
  <2>2. pool[c] = b <=> (b \in constructed /\ data[b] = c)
    BY DEF PoolInv, PoolExact
  <2>3. data'[x] = IF x = b THEN d ELSE data[x]
    BY <1>4 DEF PoolInv, PoolTypeOK
  <2>4. c # Plain /\ x # NoBlock /\ b # NoBlock
    BY ConstantAssumption, NoBlockIsNone
  <2>5. CASE x = b
    BY <1>2, <1>4, <2>2, <2>3, <2>4, <2>5
  <2>6. CASE x # b
    BY <1>2, <1>3, <1>4, <2>1, <2>3, <2>4, <2>6
  <2> QED BY <2>5, <2>6
<1>7. PoolExact'
  BY <1>6 DEF PoolExact
<1>8. WaitsForMissing'
  BY <1>2 DEF WaitsForMissing
<1> QED BY <1>5, <1>7, <1>8

LEMMA StepKeepsPool ==
  ASSUME PoolInv, [PoolNext]_<<vars, constantVars>>
  PROVE  PoolInv'
<1>1. CASE UNCHANGED <<vars, constantVars>>
  <2>1. Heap'
    BY <1>1, HeapStep DEF PoolInv
  <2> QED BY <1>1, <2>1
      DEF vars, objectVars, gcVars, constantVars, PoolInv, PoolTypeOK,
          WaitsForMissing, PoolExact
<1>2. ASSUME NEW c \in Constant, BoxPooled(c) PROVE PoolInv'
  <2>1. Heap'
    BY <1>2, HeapAfterBoxPooled DEF PoolInv
  <2> QED BY <1>2, <2>1
      DEF BoxPooled, gcVars, constantVars, PoolInv, PoolTypeOK,
          WaitsForMissing, PoolExact
<1>3. CASE PoolNext /\ \A c \in Constant : ~ BoxPooled(c)
  <2>1. Heap'
    BY <1>3, HeapStep, PoolStepsOfHeap DEF PoolInv
  <2>2. ASSUME NEW k \in Klass, NEW d \in Constant \cup {Plain}, Make(k, d)
        PROVE  PoolInv'
    BY <2>1, <2>2, MakeKeepsPool DEF PoolInv
  <2>3. ASSUME NEW k \in Klass, NEW d \in Constant \cup {Plain}, Wait(k, d)
        PROVE  PoolInv'
    <3>1. /\ UNCHANGED <<pool, data, constructed>>
          /\ boxing' = d /\ phase' = "roots"
          /\ d # Plain => pool[d] = NoBlock
      BY <2>3 DEF Wait, CollectForAlloc, ClearBitmaps, objectVars
    <3> QED BY <2>1, <3>1
        DEF PoolInv, PoolTypeOK, WaitsForMissing, PoolExact
  <2>4. CASE Otherwise
    <3>1. UNCHANGED constructed
      BY <2>4 DEF Otherwise, SystemGC, ClearBitmaps, Collect, MarkRoots,
                  TraceNext, MarkRefs, Sweep, SweepExpand, SweepNoMemory,
                  SweepDone, Mutate, Store, Erase, Load, Drop, Catch,
                  AllocStale, ThrowOutOfMemory, objectVars
    <3>2. UNCHANGED <<pool, data>>
      BY <2>4 DEF Otherwise
    <3>3. boxing' = IF phase' \in {"roots", "mark", "retry"} THEN boxing
                    ELSE Plain
      BY <2>4 DEF Otherwise
    <3> QED BY <2>1, <3>1, <3>2, <3>3
        DEF PoolInv, PoolTypeOK, WaitsForMissing, PoolExact
  <2> QED BY <1>1, <1>3, <2>2, <2>3, <2>4 DEF PoolNext, Stopped
<1> QED BY <1>1, <1>2, <1>3
LEMMA InitPool == PoolInit => PoolInv
<1> SUFFICES ASSUME PoolInit PROVE PoolInv
  OBVIOUS
<1>1. Heap
  BY InitTypes, InitOwned, InitHonest DEF PoolInit, Heap
<1>2. PoolTypeOK /\ WaitsForMissing
  BY DEF PoolInit, PoolTypeOK, WaitsForMissing
<1>3. PoolExact
  BY NoBlockIsNone DEF PoolInit, Init, PoolExact
<1> QED BY <1>1, <1>2, <1>3 DEF PoolInv

\* The pool leads to every constant that exists and to nothing else, through
\* collections, finalization put off, and allocations tried again (addI, rmI,
\* NDATA_free): no constant is made twice, and no block that now holds
\* something else is answered.
THEOREM PoolIsExact == PoolSpec => []PoolExact
<1>1. PoolInv => PoolExact
  BY DEF PoolInv
<1> QED BY <1>1, InitPool, StepKeepsPool, PTL DEF PoolSpec
=============================================================================
