---------------------------- MODULE ConstantPool ----------------------------
(***************************************************************************)
(* Boxed numbers and strings over the collector.  A class such as Int      *)
(* keeps a pool of the objects made so far, constPoolMapNULL, and boxing a *)
(* value answers the object in the pool when there is one (number.c,       *)
(* string.c).  The collector does not trace the pool, hmap_reftraceNN is   *)
(* empty, and an object leaves it when it is finalized, which the bitmap   *)
(* collector puts off until its block is handed out again.                 *)
(***************************************************************************)
EXTENDS BitmapGC

CONSTANTS
  Constant,     \* the values of the pooled classes
  Plain         \* what an object of another class holds

ASSUME ConstantAssumption == Plain \notin Constant

VARIABLES
  pool,         \* pool[c]: the object for c, or NoBlock
  data,         \* data[b]: the n.data of the object in block b
  boxing        \* what the object that waits for the collector will hold

constantVars == <<pool, data, boxing>>

\* Mutant of Unpooled: NDATA_free does not call knh_PtrMap_rmI.
StillPooled(b) == pool

\* NDATA_free, String_free, in the deferred sweep of the block handed out.
Unpooled(b) ==
  [c \in Constant |-> IF pool[c] = b /\ b \in constructed THEN NoBlock
                      ELSE pool[c]]

\* The object is made in block b: it holds d, and is added to the pool.
Construct(b, d) ==
  /\ data' = [data EXCEPT ![b] = d]
  /\ pool' = [c \in Constant |-> IF c = d THEN b ELSE Unpooled(b)[c]]

\* knh_boxing, new_Boxing, new_Int_, new_Float_, new_String2 find the object.
BoxPooled(c) ==
  /\ phase = "run"
  /\ pool[c] # NoBlock
  /\ roots' = roots \cup {pool[c]}
  /\ UNCHANGED <<heapVars, poolVars, gcVars, constructed, fields, constantVars>>

\* They make it, or another class makes an object; d is what it holds.
Make(k, d) ==
  /\ IF phase = "retry" THEN d = boxing
     ELSE d # Plain => pool[d] = NoBlock
  /\ Alloc(k)
  /\ \E b \in Block : ~IsObject(b) /\ IsObject(b)' /\ Construct(b, d)
  /\ boxing' = Plain

\* The allocation waits for a collection.
Wait(k, d) ==
  /\ d # Plain => pool[d] = NoBlock
  /\ CollectForAlloc(k)
  /\ boxing' = d
  /\ UNCHANGED <<pool, data>>

\* Everything else leaves the pool alone.  An exception ends the boxing.
Otherwise ==
  /\ \/ SystemGC \/ Collect \/ Mutate \/ Catch
     \/ \E k \in Klass : AllocStale(k) \/ ThrowOutOfMemory(k)
  /\ boxing' = IF phase' \in {"roots", "mark", "retry"} THEN boxing ELSE Plain
  /\ UNCHANGED <<pool, data>>

PoolInit ==
  /\ Init
  /\ pool = [c \in Constant |-> NoBlock]
  /\ data = [b \in Block |-> Plain]
  /\ boxing = Plain

PoolNext ==
  \/ \E c \in Constant : BoxPooled(c)
  \/ \E k \in Klass, d \in Constant \cup {Plain} : Make(k, d) \/ Wait(k, d)
  \/ Otherwise
  \/ Stopped /\ UNCHANGED constantVars

PoolSpec == PoolInit /\ [][PoolNext]_<<vars, constantVars>>

-----------------------------------------------------------------------------
\* Through collections, deferred finalization and retried allocations the pool
\* has exactly the constants that exist, live or waiting to be finalized: a
\* constant is never made twice, and the pool never leads to a block that now
\* holds something else (addI, rmI; the same for strings).
PoolExact ==
  \A c \in Constant, b \in Block :
    pool[c] = b <=> (b \in constructed /\ data[b] = c)

\* konoha_class.h:135, "@Immutable class Int": what a program holds keeps its
\* value.
ConstantsImmutable ==
  [][\A b \in roots \cap roots' : data'[b] = data[b]]_<<vars, constantVars>>
=============================================================================
