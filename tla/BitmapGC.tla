------------------------------ MODULE BitmapGC ------------------------------
(***************************************************************************)
(* The bitmap-marking collector of src/src/gc/bmgc.h, the memory manager a *)
(* default build of Konoha links.                                          *)
(*                                                                         *)
(* Objects live in blocks of aligned 128KB segments.  Every size class (a  *)
(* SubHeap) owns a list of segments and allocates by moving an allocation  *)
(* pointer upwards over the clear bits of a segment's level-0 bitmap; a    *)
(* level-1 bitmap says which words of level 0 are full.  A collection      *)
(* clears the bitmaps, sets the bits of the reachable objects, and gives   *)
(* every class the list of its segments that have room again.  A dead      *)
(* object is finalized only when its block is handed out again.            *)
(*                                                                         *)
(* A block is <<segment, word, bit>>.  Block <<s, 0, 0>> holds the segment *)
(* header: BITMAP_SET_LIMIT keeps its bit set.  The sentinel bits at the   *)
(* end of both levels are not stored: a word from Words[k] on is marked,   *)
(* and a level-1 bit from L1Limit[k] on is set.                            *)
(***************************************************************************)
EXTENDS Naturals, FiniteSets

CONSTANTS
  Klass,        \* the size classes (SUBHEAP_KLASS_MIN..SUBHEAP_KLASS_MAX)
  Segment,      \* every segment the host can ever provide
  Bits,         \* bits of a bitmap word (BITS)
  Words,        \* Words[k]: level-0 words of a segment (BITMAP_L0_SIZE)
  L1Limit,      \* L1Limit[k]: level-1 bits below the sentinel
  MaxWords,     \* bound of Words
  PoolSize,     \* segments of the first pool (SUBHEAP_DEFAULT_SEGPOOL_SIZE)
  ExpandSize,   \* segments of every later pool
  MaxFields,    \* bound: references stored in objects at one time
  NoSegment,    \* segment_dummy
  NoKlass,      \* no allocation is waiting for the collector
  NoBlock,      \* the NULL block pointer
  WildBlock     \* an address that belongs to no segment

ASSUME GeometryAssumption ==
  /\ Bits \in Nat /\ Bits >= 2
  /\ MaxWords \in Nat /\ MaxWords >= 1
  /\ Words \in [Klass -> Nat]
  /\ L1Limit \in [Klass -> Nat]
  /\ \A k \in Klass : Words[k] >= 1 /\ Words[k] <= MaxWords
  /\ \A k \in Klass : L1Limit[k] <= Words[k]

ASSUME SegmentAssumption ==
  /\ IsFiniteSet(Segment)
  /\ PoolSize \in Nat /\ ExpandSize \in Nat
  /\ Cardinality(Segment) >= PoolSize
  /\ MaxFields \in Nat
  /\ NoSegment \notin Segment
  /\ NoKlass \notin Klass

Bit == 0 .. (Bits - 1)
Block == Segment \X (0 .. (MaxWords - 1)) \X Bit

ASSUME BlockAssumption ==
  /\ NoBlock \notin Segment \X (0 .. MaxWords) \X Bit
  /\ WildBlock \notin Segment \X (0 .. MaxWords) \X Bit
  /\ WildBlock # NoBlock

\* AllocationPointer: seg and the fields of bitptrs[0], with the mask 1 << bit
\* or 0, and blkptr.
Pointer ==
  [seg : Segment \cup {NoSegment}, idx : 0 .. MaxWords, bit : Bit,
   mask : BOOLEAN,
   blk : (Segment \X (0 .. MaxWords) \X Bit) \cup {NoBlock, WildBlock}]

VARIABLES
  bitmap,       \* bitmap[s]: the marked <<word, bit>> of s, level 0
  level1,       \* level1[s]: the words of s whose level-1 bit is set
  live_count,   \* Segment.live_count
  seglist,      \* seglist[k]: the segments of class k
  freelist,     \* freelist[k]: segments of k known to have room
  p,            \* p[k]: the allocation pointer
  segmentList,  \* segments of the pool no class has taken
  managed,      \* segments the host has provided (managed_heap_a)
  constructed,  \* blocks whose header names a class (h.cTBL # NULL)
  fields,       \* fields[b]: the objects the object in b refers to
  roots,        \* objects knh_reftraceRoot reaches directly (VM stacks ...)
  ostack,       \* objects marked and not yet traced
  phase,        \* what the interpreter is doing
  request       \* the class whose allocation waits for the collector

heapVars   == <<bitmap, level1, live_count, seglist, freelist, p>>
poolVars   == <<segmentList, managed>>
objectVars == <<constructed, fields, roots>>
gcVars     == <<ostack, phase, request>>
vars == <<heapVars, poolVars, objectVars, gcVars>>

Phases == {"run", "roots", "mark", "retry", "oom", "wild", "exit"}

-----------------------------------------------------------------------------
(* The bitmaps of one segment.                                             *)

\* BM_TEST of the bit of word w: the dummy segment and the sentinel are set.
Marked(k, s, w, i) ==
  (s # NoSegment /\ w < Words[k]) => <<w, i>> \in bitmap[s]

FullWord(bm, w) == \A i \in Bit : <<w, i>> \in bm

SegmentBlockCount(k) == Words[k] * Bits - 1

Smallest(S) == {x \in S : \A y \in S : x <= y}

\* BP_NEXT_MASK on level 0: the lowest clear bit of word w from bit i on.
LowestClear(k, s, w, i) ==
  Smallest({j \in Bit : j >= i /\ ~Marked(k, s, w, j)})

\* BP_NEXT_MASK on level 1 once the bit of word w has been set: the lowest
\* word after w that is not known to be full.
NextWord(k, s, w) ==
  IF s = NoSegment THEN {}
  ELSE Smallest({v \in 0 .. (MaxWords - 1) :
                   v > w /\ v < L1Limit[k] /\ v \notin level1[s]})

\* findNextFreeBlock from <<w, i>>: the position found, or no position.  Level
\* 1 is trusted: in a word it wrongly shows as having room, the mask is 0 and
\* blockAddress yields the block before the word.
Found(k, s, w, i) ==
  IF LowestClear(k, s, w, i) # {}
    THEN {<<w, j>> : j \in LowestClear(k, s, w, i)}
    ELSE UNION { IF LowestClear(k, s, v, 0) # {}
                   THEN {<<v, j>> : j \in LowestClear(k, s, v, 0)}
                   ELSE {<<v - 1, Bits - 1>>} : v \in NextWord(k, s, w) }

\* Mutant of After: the carry into the next word is dropped.
AfterNoCarry(w, i) == <<w, i + 1>>

\* The block after bit i of word w.
After(w, i) == IF i = Bits - 1 THEN <<w + 1, 0>> ELSE <<w, i + 1>>

-----------------------------------------------------------------------------
(* tryAlloc and bm_malloc_internal.                                        *)

\* isMarked: with a mask of 0 the test reads no bit at all.
PointerMarked(k) == p[k].mask /\ Marked(k, p[k].seg, p[k].idx, p[k].bit)

FoundAtPointer(k) == Found(k, p[k].seg, p[k].idx, p[k].bit)

\* The first tryAlloc of a request, or the one after the collection.
Trying(k) == phase = "run" \/ (phase = "retry" /\ request = k)

\* Mutant of Inc: the block pointer stays on the block just handed out.
IncKeepBlock(k, s, pos) ==
  /\ bitmap' = [bitmap EXCEPT ![s] = @ \cup {pos}]
  /\ live_count' = [live_count EXCEPT ![s] = @ + 1]
  /\ p' = [p EXCEPT ![k] =
            LET next == After(pos[1], pos[2])
            IN [seg |-> s, idx |-> next[1], bit |-> next[2], mask |-> TRUE,
                blk |-> <<s, pos[1], pos[2]>>]]

\* inc after position pos of segment s: set its bit, count it, move on.
Inc(k, s, pos) ==
  /\ bitmap' = [bitmap EXCEPT ![s] = @ \cup {pos}]
  /\ live_count' = [live_count EXCEPT ![s] = @ + 1]
  /\ p' = [p EXCEPT ![k] =
            LET next == After(pos[1], pos[2])
            IN [seg |-> s, idx |-> next[1], bit |-> next[2], mask |-> TRUE,
                blk |-> <<s, next[1], next[2]>>]]

\* Mutant of HandOut: OBJECT_INIT leaves the fields of the dead object.
HandOutDirty(b) ==
  /\ constructed' = constructed \cup {b}
  /\ roots' = roots \cup {b}
  /\ phase' = "run"
  /\ request' = NoKlass
  /\ UNCHANGED <<fields, ostack, managed>>

\* deferred_sweep finalizes what the block still holds, OBJECT_INIT makes the
\* new object, TR_NEW stores it in a slot of the VM stack.
HandOut(b) ==
  /\ constructed' = constructed \cup {b}
  /\ fields' = [fields EXCEPT ![b] = {}]
  /\ roots' = roots \cup {b}
  /\ phase' = "run"
  /\ request' = NoKlass
  /\ UNCHANGED <<ostack, managed>>

\* The level-1 bits findNextFreeBlock sets on its way out of segment s, of the
\* segments F it tried in vain, and of word 0 of the segment it settled in.
LeaveFor(k, F, s) ==
  level1' = [t \in Segment |->
    IF t = p[k].seg THEN level1[t] \cup {p[k].idx}
    ELSE IF t \in F \/ (t = s /\ LowestClear(k, s, 0, 0) = {})
      THEN level1[t] \cup {0}
      ELSE level1[t]]

\* BITPTRS_INIT for segment s: blkptr stays behind.
StartOf(k, s, mask) ==
  [seg |-> s, idx |-> 0, bit |-> 0, mask |-> mask, blk |-> p[k].blk]

\* The pointer when BP_NEXT_MASK has found nothing.
WithoutMask(k, blk) ==
  [seg |-> p[k].seg, idx |-> p[k].idx, bit |-> p[k].bit, mask |-> FALSE,
   blk |-> blk]

\* The bit at the pointer is clear.
AllocHere(k) ==
  /\ Trying(k) /\ p[k].mask /\ ~PointerMarked(k)
  /\ Inc(k, p[k].seg, <<p[k].idx, p[k].bit>>)
  /\ HandOut(p[k].blk)
  /\ UNCHANGED <<level1, seglist, freelist, segmentList>>

\* findNextFreeBlock finds a clear bit further up in the same segment.
AllocScan(k) ==
  /\ Trying(k) /\ PointerMarked(k)
  /\ \E pos \in FoundAtPointer(k) :
       /\ Inc(k, p[k].seg, pos)
       /\ HandOut(<<p[k].seg, pos[1], pos[2]>>)
  /\ level1' = IF LowestClear(k, p[k].seg, p[k].idx, p[k].bit) = {}
                 THEN [level1 EXCEPT ![p[k].seg] = @ \cup {p[k].idx}]
                 ELSE level1
  /\ UNCHANGED <<seglist, freelist, segmentList>>

\* nextSegment pops segments until one has a block.
AllocFreelist(k) ==
  /\ Trying(k) /\ PointerMarked(k) /\ FoundAtPointer(k) = {}
  /\ \E s \in freelist[k], F \in SUBSET freelist[k] :
       /\ s \notin F
       /\ \A f \in F : Found(k, f, 0, 0) = {}
       /\ \E pos \in Found(k, s, 0, 0) :
            /\ Inc(k, s, pos)
            /\ HandOut(<<s, pos[1], pos[2]>>)
       /\ freelist' = [freelist EXCEPT ![k] = @ \ (F \cup {s})]
       /\ LeaveFor(k, F, s)
  /\ UNCHANGED <<seglist, segmentList>>

Exhausted(k) ==
  /\ PointerMarked(k)
  /\ FoundAtPointer(k) = {}
  /\ \A s \in freelist[k] : Found(k, s, 0, 0) = {}

\* Mutant of AllocSegment: SEGMENTLIST_NEXT does not unlink the segment.
AllocSegmentKeep(k) ==
  /\ Trying(k) /\ Exhausted(k)
  /\ \E s \in segmentList :
       /\ \E pos \in Found(k, s, 0, 0) :
            /\ Inc(k, s, pos)
            /\ HandOut(<<s, pos[1], pos[2]>>)
       /\ seglist' = [seglist EXCEPT ![k] = @ \cup {s}]
       /\ LeaveFor(k, freelist[k], s)
  /\ freelist' = [freelist EXCEPT ![k] = {}]
  /\ UNCHANGED segmentList

\* nextSegment takes a segment of the pool (newSegment).  The bitmap of a
\* segment no class has taken is, from Init on, the one newSegment gives it.
AllocSegment(k) ==
  /\ Trying(k) /\ Exhausted(k)
  /\ \E s \in segmentList :
       /\ \E pos \in Found(k, s, 0, 0) :
            /\ Inc(k, s, pos)
            /\ HandOut(<<s, pos[1], pos[2]>>)
       /\ seglist' = [seglist EXCEPT ![k] = @ \cup {s}]
       /\ segmentList' = segmentList \ {s}
       /\ LeaveFor(k, freelist[k], s)
  /\ freelist' = [freelist EXCEPT ![k] = {}]

\* With a mask of 0 tryAlloc takes the block pointer as it stands.  The NULL
\* of a class that never had a segment makes bm_malloc_internal throw; any
\* other value is an address behind a segment's last block.
AllocStale(k) ==
  /\ Trying(k) /\ ~p[k].mask
  /\ phase' = IF p[k].blk = NoBlock THEN "oom" ELSE "wild"
  /\ request' = NoKlass
  /\ p' = [p EXCEPT ![k] = WithoutMask(k, WildBlock)]
  /\ UNCHANGED <<bitmap, level1, live_count, seglist, freelist,
                 poolVars, objectVars, ostack>>

-----------------------------------------------------------------------------
(* bitmapMarkingGC and knh_System_gc.                                      *)

\* Mutant of ClearBitmaps: the live counts are not reset.
ClearBitmapsOnly ==
  /\ bitmap' = [s \in Segment |-> {<<0, 0>>}]
  /\ level1' = [s \in Segment |-> {}]
  /\ phase' = "roots"
  /\ UNCHANGED <<live_count, seglist, poolVars, objectVars, ostack>>

\* bmgc_gc_init: clearAllBitMapsAndCount of every class.
ClearBitmaps ==
  /\ bitmap' = [s \in Segment |-> {<<0, 0>>}]
  /\ level1' = [s \in Segment |-> {}]
  /\ live_count' = [s \in Segment |-> 0]
  /\ phase' = "roots"
  /\ UNCHANGED <<seglist, poolVars, objectVars, ostack>>

\* tryAlloc fails: the pool is dry, the free list used up, the mask 0.
CollectForAlloc(k) ==
  /\ phase = "run" /\ Exhausted(k) /\ segmentList = {}
  /\ ClearBitmaps
  /\ \/ freelist[k] = {} /\ p' = [p EXCEPT ![k] = WithoutMask(k, p[k].blk)]
     \/ \E s \in freelist[k] : p' = [p EXCEPT ![k] = StartOf(k, s, FALSE)]
  /\ freelist' = [freelist EXCEPT ![k] = {}]
  /\ request' = k

\* System.gc() and the collection at a safepoint.
SystemGC ==
  /\ phase = "run"
  /\ ClearBitmaps
  /\ request' = NoKlass
  /\ UNCHANGED <<freelist, p>>

\* The second tryAlloc fails too.
ThrowOutOfMemory(k) ==
  /\ phase = "retry" /\ request = k /\ Exhausted(k) /\ segmentList = {}
  /\ phase' = "oom"
  /\ request' = NoKlass
  /\ p' = [p EXCEPT ![k] = WithoutMask(k, p[k].blk)]
  /\ freelist' = [freelist EXCEPT ![k] = {}]
  /\ UNCHANGED <<bitmap, level1, live_count, seglist, poolVars, objectVars,
                 ostack>>

\* knh_isObject: the bit of the block is set.
IsObject(b) == <<b[2], b[3]>> \in bitmap[b[1]]

Unmarked(R) == {b \in R : ~IsObject(b)}

In(R, s) == {b \in R : b[1] = s}

\* Mutant of Filled: bitmap_mark never sets a level-1 bit.
NeverFilled(R, s) == {}

\* bitmap_mark: the words of s that marking R fills.
Filled(R, s) ==
  {w \in 0 .. (MaxWords - 1) :
     (\E b \in In(R, s) : b[2] = w) /\ FullWord(bitmap'[s], w)}

\* mark_ostack of every reference in refs; rest stays to be traced.
MarkRefs(refs, rest) ==
  LET new == Unmarked(refs)
  IN /\ bitmap' = [s \in Segment |->
                    bitmap[s] \cup {<<b[2], b[3]>> : b \in In(new, s)}]
     /\ level1' = [s \in Segment |-> level1[s] \cup Filled(new, s)]
     /\ live_count' = [s \in Segment |->
                        live_count[s] + Cardinality(In(new, s))]
     /\ ostack' = rest \cup new
     /\ phase' = "mark"
     /\ UNCHANGED <<seglist, freelist, p, poolVars, objectVars, request>>

\* knh_reftraceRoot.  The scan of the C stack after it, cstack_mark, adds nothing:
\* it takes a word for an object if its mark is set, and a word whose object is
\* marked needs no mark.
MarkRoots ==
  /\ phase = "roots"
  /\ MarkRefs(roots, {})

\* Mutants of TraceNext: the fields are not followed; the object stays on the
\* stack.
TraceNothing ==
  /\ phase = "mark"
  /\ \E b \in ostack : MarkRefs({}, ostack \ {b})

TraceForever ==
  /\ phase = "mark"
  /\ \E b \in ostack : MarkRefs(fields[b], ostack)

\* One turn of the loop of bmgc_gc_mark.
TraceNext ==
  /\ phase = "mark"
  /\ \E b \in ostack : MarkRefs(fields[b], ostack \ {b})

Rearranged(k) == Cardinality(seglist[k]) > 1

\* Mutant of Unfilled: a segment without a dead block is listed too.
UnfilledOrFull(k) == {s \in seglist[k] : live_count[s] <= SegmentBlockCount(k)}

\* The segments of k with room, by their live_count.
Unfilled(k) == {s \in seglist[k] : live_count[s] < SegmentBlockCount(k)}

\* Mutant of IsFull: a class without any unfilled segment is overlooked.
IsFullIfOne(k) ==
  /\ Rearranged(k)
  /\ Cardinality(Unfilled(k)) = 1
  /\ \A s \in Unfilled(k) : live_count[s] > 0

\* h->isFull: the last unfilled segment has been popped, and what is dead does
\* not make up a whole segment.
IsFull(k) ==
  /\ Rearranged(k)
  /\ Cardinality(Unfilled(k)) <= 1
  /\ \A s \in Unfilled(k) : live_count[s] > 0

\* rearrangeSegList of every class: fetch[k] is the segment fetchSegment pops.
Fetches(fetch) ==
  \A k \in Klass :
    IF Rearranged(k) /\ Unfilled(k) # {}
      THEN fetch[k] \in Unfilled(k)
      ELSE fetch[k] = NoSegment

Rearrange(fetch) ==
  freelist' = [k \in Klass |->
    IF Rearranged(k) THEN Unfilled(k) \ {fetch[k]} ELSE freelist[k]]

Fetched(k, s) ==
  IF s = NoSegment
    THEN p[k]
    ELSE StartOf(k, s, TRUE)

SweepDone ==
  /\ phase = "mark" /\ ostack = {}
  /\ UNCHANGED <<bitmap, level1, live_count, objectVars, ostack>>

\* No class is full.
Sweep ==
  /\ SweepDone
  /\ \A k \in Klass : ~IsFull(k)
  /\ \E fetch \in [Klass -> Segment \cup {NoSegment}] :
       /\ Fetches(fetch)
       /\ Rearrange(fetch)
       /\ p' = [k \in Klass |-> Fetched(k, fetch[k])]
  /\ phase' = IF request = NoKlass THEN "run" ELSE "retry"
  /\ UNCHANGED <<seglist, poolVars, request>>

FirstBlock(s) ==
  [seg |-> s, idx |-> 0, bit |-> 0, mask |-> TRUE, blk |-> <<s, 0, 1>>]

\* Every full class takes a segment of the new pool, fresh[k] (newSegment).
Expand(fetch, fresh, pool) ==
  /\ \A k \in Klass : IF IsFull(k) THEN fresh[k] \in pool
                                   ELSE fresh[k] = NoSegment
  /\ \A k, l \in Klass : fresh[k] = fresh[l] /\ fresh[k] # NoSegment => k = l
  /\ managed' = managed \cup pool
  /\ segmentList' = pool \ {fresh[k] : k \in Klass}
  /\ seglist' = [k \in Klass |->
       IF IsFull(k) THEN seglist[k] \cup {fresh[k]} ELSE seglist[k]]
  /\ p' = [k \in Klass |-> IF IsFull(k) THEN FirstBlock(fresh[k])
                                        ELSE Fetched(k, fetch[k])]

\* HeapManager_expandHeap makes a new pool, whatever is left of the old one.
SweepExpand ==
  /\ SweepDone
  /\ \E k \in Klass : IsFull(k)
  /\ \E fetch, fresh \in [Klass -> Segment \cup {NoSegment}],
        pool \in SUBSET (Segment \ managed) :
       /\ Cardinality(pool) = ExpandSize
       /\ Fetches(fetch)
       /\ Rearrange(fetch)
       /\ Expand(fetch, fresh, pool)
  /\ phase' = IF request = NoKlass THEN "run" ELSE "retry"
  /\ UNCHANGED request

\* call_malloc_aligned fails and throws out of the collector.
SweepNoMemory ==
  /\ SweepDone
  /\ \E k \in Klass : IsFull(k)
  /\ Cardinality(Segment \ managed) < ExpandSize
  /\ \E fetch \in [Klass -> Segment \cup {NoSegment}] :
       /\ Fetches(fetch)
       /\ Rearrange(fetch)
       /\ p' = [k \in Klass |-> Fetched(k, fetch[k])]
  /\ phase' = "oom"
  /\ request' = NoKlass
  /\ UNCHANGED <<seglist, poolVars>>

-----------------------------------------------------------------------------
(* The program: the virtual machine and the C methods.                     *)

FieldCount == Cardinality({e \in Block \X Block : e[2] \in fields[e[1]]})

Store(b, c) ==
  /\ phase = "run"
  /\ b \in roots /\ c \in roots \ fields[b] /\ FieldCount < MaxFields
  /\ fields' = [fields EXCEPT ![b] = @ \cup {c}]
  /\ UNCHANGED <<heapVars, poolVars, gcVars, constructed, roots>>

Erase(b, c) ==
  /\ phase = "run"
  /\ b \in roots /\ c \in fields[b]
  /\ fields' = [fields EXCEPT ![b] = @ \ {c}]
  /\ UNCHANGED <<heapVars, poolVars, gcVars, constructed, roots>>

Load(b, c) ==
  /\ phase = "run"
  /\ b \in roots /\ c \in fields[b]
  /\ roots' = roots \cup {c}
  /\ UNCHANGED <<heapVars, poolVars, gcVars, constructed, fields>>

Drop(b) ==
  /\ phase = "run"
  /\ b \in roots
  /\ roots' = roots \ {b}
  /\ UNCHANGED <<heapVars, poolVars, gcVars, constructed, fields>>

\* The handler of an OutOfMemory!! exception goes on with the script.
Catch ==
  /\ phase = "oom"
  /\ phase' = "run"
  /\ UNCHANGED <<heapVars, poolVars, objectVars, ostack, request>>

\* Mutant of Exit: only the segments with room are swept.
ExitFreelist ==
  /\ phase = "run"
  /\ constructed' = {b \in constructed : \A k \in Klass :
                       b[1] \notin freelist[k] \cup {p[k].seg}}
  /\ bitmap' = [s \in Segment |-> {<<0, 0>>}]
  /\ live_count' = [s \in Segment |-> 0]
  /\ level1' = [s \in Segment |-> {}]
  /\ roots' = {}
  /\ phase' = "exit"
  /\ UNCHANGED <<seglist, freelist, p, poolVars, fields, ostack, request>>

\* BMGC_exit: HeapManager_final_free finalizes every object whose block lies in
\* a segment of some class.
Exit ==
  /\ phase = "run"
  /\ constructed' =
       {b \in constructed : \A k \in Klass : b[1] \notin seglist[k]}
  /\ bitmap' = [s \in Segment |-> {<<0, 0>>}]
  /\ live_count' = [s \in Segment |-> 0]
  /\ level1' = [s \in Segment |-> {}]
  /\ roots' = {}
  /\ phase' = "exit"
  /\ UNCHANGED <<seglist, freelist, p, poolVars, fields, ostack, request>>

Stopped == phase \in {"wild", "exit"} /\ UNCHANGED vars
-----------------------------------------------------------------------------
\* The pointer Heap_init leaves: a marked bit of the dummy segment.
NoPointer == [seg |-> NoSegment, idx |-> 0, bit |-> 0, mask |-> TRUE,
              blk |-> NoBlock]

Init ==
  /\ bitmap = [s \in Segment |-> {<<0, 0>>}]
  /\ level1 = [s \in Segment |-> {}]
  /\ live_count = [s \in Segment |-> 0]
  /\ seglist = [k \in Klass |-> {}]
  /\ freelist = [k \in Klass |-> {}]
  /\ p = [k \in Klass |-> NoPointer]
  /\ segmentList \in SUBSET Segment
  /\ Cardinality(segmentList) = PoolSize
  /\ managed = segmentList
  /\ constructed = {}
  /\ fields = [b \in Block |-> {}]
  /\ roots = {}
  /\ ostack = {}
  /\ phase = "run"
  /\ request = NoKlass

Alloc(k) ==
  AllocHere(k) \/ AllocScan(k) \/ AllocFreelist(k) \/ AllocSegment(k)

Collect == MarkRoots \/ TraceNext \/ Sweep \/ SweepExpand \/ SweepNoMemory

Mutate ==
  \/ \E b, c \in Block : Store(b, c) \/ Erase(b, c) \/ Load(b, c)
  \/ \E b \in Block : Drop(b)

Next ==
  \/ \E k \in Klass : \/ Alloc(k) \/ AllocStale(k)
                      \/ CollectForAlloc(k) \/ ThrowOutOfMemory(k)
  \/ SystemGC
  \/ Collect
  \/ Mutate
  \/ Catch
  \/ Exit
  \/ Stopped

Spec == Init /\ [][Next]_vars

Retry(k) ==
  phase = "retry" /\ (Alloc(k) \/ AllocStale(k) \/ ThrowOutOfMemory(k))

\* A collection, and the second tryAlloc after it, are calls of the thread that
\* allocates: it takes their next step as long as it is scheduled at all.
FairSpec ==
  /\ Spec
  /\ WF_vars(Collect)
  /\ WF_vars(\E k \in Klass : Retry(k))

-----------------------------------------------------------------------------
TypeOK ==
  /\ bitmap \in [Segment -> SUBSET ((0 .. (MaxWords - 1)) \X Bit)]
  /\ level1 \in [Segment -> SUBSET (0 .. MaxWords)]
  /\ live_count \in [Segment -> Nat]
  /\ seglist \in [Klass -> SUBSET Segment]
  /\ freelist \in [Klass -> SUBSET Segment]
  /\ p \in [Klass -> Pointer]
  /\ segmentList \in SUBSET Segment
  /\ managed \in SUBSET Segment
  /\ constructed \in SUBSET Block
  /\ fields \in [Block -> SUBSET Block]
  /\ roots \in SUBSET Block
  /\ ostack \in SUBSET Block
  /\ phase \in Phases
  /\ request \in Klass \cup {NoKlass}

\* A segment belongs to one class, or to the pool, and not to two: otherwise
\* two classes would cut the same memory into blocks of different sizes
\* (allocSegment, newSegment, HeapManager_expandHeap).
SegmentOwnedOnce ==
  /\ \A k, l \in Klass : k # l => seglist[k] \cap seglist[l] = {}
  /\ \A k \in Klass : seglist[k] \cap segmentList = {}
  /\ \A k \in Klass : seglist[k] \cup segmentList \subseteq managed

\* The count kept in a segment is the number of its marked blocks, through
\* every allocation, marking and clearing: rearrangeSegList relies on it to
\* tell which segments have room.
LiveCountExact ==
  \A s \in Segment : live_count[s] + 1 = Cardinality(bitmap[s])

\* The assertions of newSegment and nextSegment (bmgc.h:1310, 1361): the free
\* list of a class holds segments of that class that do have room, and never
\* the one its pointer is in.
FreelistHasRoom ==
  \A k \in Klass : \A s \in freelist[k] :
    /\ s \in seglist[k]
    /\ s # p[k].seg
    /\ phase \in {"run", "retry"} => live_count[s] < SegmentBlockCount(k)

\* The assertion of findNextFreeBlock (bmgc.h:1479): a word that level 1 shows
\* as not full, in a part of a segment the pointer has not yet passed, has a
\* clear bit.  Were it not so, a block in use would be handed out.
WordHasRoom(k, s, w) == \E i \in Bit : ~Marked(k, s, w, i)

Level1Honest ==
  \A k \in Klass : \A s \in freelist[k] \cup {p[k].seg} :
    s # NoSegment =>
      \A w \in 0 .. (MaxWords - 1) :
        (w < L1Limit[k] /\ w \notin level1[s]
           /\ (s \in freelist[k] \/ w > p[k].idx))
          => WordHasRoom(k, s, w)

\* bitptrs[0] and blkptr, moved by separate statements, agree whenever the
\* next allocation will take the block under the pointer.
PointerCoherent ==
  \A k \in Klass : (p[k].mask /\ ~PointerMarked(k)) =>
    p[k].blk = <<p[k].seg, p[k].idx, p[k].bit>>

\* Between collections everything the program can reach is marked, so that the
\* allocator cannot take it for free; during one, only what is on ostack may
\* still refer to unmarked objects.
MarkedClosed ==
  phase # "roots" =>
    /\ \A b \in roots : IsObject(b)
    /\ \A b \in Block \ ostack : IsObject(b) =>
         \A c \in fields[b] : IsObject(c)

\* A collection that an allocation of class k asked for finds room, provided
\* that k has two segments and that its level 1 covers all of its words: the
\* second tryAlloc does not throw OutOfMemory!! and does not run out of the
\* segment.
CompleteLevel1(k) == Words[k] = 1 \/ L1Limit[k] = Words[k]

RetrySucceeds ==
  (phase = "retry" /\ Rearranged(request) /\ CompleteLevel1(request)) =>
    p[request].mask /\ ~Exhausted(request)

\* When the interpreter has closed, every object has been finalized, those in
\* segments abandoned by the pointer included (HeapManager_final_free).
AllFinalized == phase = "exit" => constructed = {}

\* Every collection ends, and the allocation that waits for it is answered.
CollectionEnds ==
  phase \in {"roots", "mark", "retry"} ~> phase \in {"run", "oom", "wild"}

\* The allocator and the collector together implement the object store.
Object == INSTANCE ObjectStore
ImplementsObjectStore == Object!Spec

\* bmgc.h:1743 asserts DBG_CHECK_OBJECT_IN_HEAP: the block handed out lies in
\* the segment of the pointer.
HandOutInSegment == phase # "wild"
=============================================================================
