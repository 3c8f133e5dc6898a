---------------------------- MODULE MapIterator ----------------------------
(***************************************************************************)
(* An iterator over a hash map that is changed while it runs: Map_Iterator *)
(* and the loop of Map.keys.  The iterator walks the arena, not the        *)
(* chains, and recognizes a free entry by its contents.                    *)
(***************************************************************************)
EXTENDS PtrMap

VARIABLES
  index,        \* knitr_t.index
  iterating,    \* "no", "yes", or "ended"
  yielded,      \* the keys the iterator has answered
  since         \* the keys the map has had since the iterator was made

itrVars == <<index, iterating, yielded, since>>

\* Mutant of LooksFree: the value is not looked at.
LooksFreeByCode(i) == arena[i].hcode = FreeCode

LooksFree(i) == arena[i].hcode = FreeCode /\ arena[i].value = Zero

\* new_IteratorG, or knitr_t mitrbuf = K_NITR_INIT.
Iterate ==
  /\ Hashed
  /\ iterating' = "yes"
  /\ index' = 0
  /\ yielded' = {}
  /\ since' = Promise!Present
  /\ UNCHANGED vars

\* hmap_nextXX finds an entry.
NextEntry ==
  /\ iterating = "yes"
  /\ \E i \in (index + 1) .. ArenaSize :
       /\ ~LooksFree(i)
       /\ \A j \in (index + 1) .. (i - 1) : LooksFree(j)
       /\ yielded' = yielded \cup {arena[i].key}
       /\ index' = i
  /\ UNCHANGED <<vars, iterating, since>>

NextEnd ==
  /\ iterating = "yes"
  /\ \A i \in (index + 1) .. ArenaSize : LooksFree(i)
  /\ index' = ArenaSize
  /\ iterating' = "ended"
  /\ UNCHANGED <<vars, yielded, since>>

\* The body of the loop, or the program when there is none, uses the map.
Meanwhile ==
  /\ Next \/ PtrNext
  /\ since' = since \cap Promise!Present'
  /\ UNCHANGED <<index, iterating, yielded>>

ItrInit ==
  /\ Init
  /\ index = 0
  /\ iterating = "no"
  /\ yielded = {}
  /\ since = {}

ItrNext == Iterate \/ NextEntry \/ NextEnd \/ Meanwhile

ItrSpec == ItrInit /\ [][ItrNext]_<<vars, itrVars>>

-----------------------------------------------------------------------------
ItrTypeOK ==
  /\ TypeOK
  /\ index \in 0 .. ArenaSize
  /\ iterating \in {"no", "yes", "ended"}
  /\ yielded \subseteq Key \cup {StaleKey}
  /\ since \subseteq Key

\* An iterator that has ended has answered every key the map had from its
\* creation on, whatever was set and removed meanwhile, rehashing included:
\* hmap_nextXX relies on entries never moving within the arena.  The entry of
\* the key -1 with the unboxed value 0 is the exception: it looks free.
IterationComplete ==
  iterating = "ended" =>
    \A k \in since : (BoxedValue \/ HashCode[k] # FreeCode) => k \in yielded
=============================================================================
