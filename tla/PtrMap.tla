------------------------------- MODULE PtrMap -------------------------------
(***************************************************************************)
(* The hash map with machine words for keys and values (knh_PtrMap_add,    *)
(* get and rm), as its two users use it:                                   *)
(*   - inferPtrMap, the rules for type maps: knh_addTypeMapRule adds a     *)
(*     rule for a pair of classes that may have one, and removes none;     *)
(*   - xdataPtrMap, the extra fields of objects: knh_Object_getXData adds  *)
(*     a table for an object that has none, and bmgc_Object_free removes   *)
(*     it with the object.                                                 *)
(* A get moves the entry it finds to the head of its chain.                *)
(***************************************************************************)
EXTENDS HashMap

CONSTANT MaxArena       \* bound: the arena of a pointer map does not grow beyond

ASSUME PtrMapAssumption == MaxArena \in Nat

\* Mutant of MoveToTop: the entry is not taken off the chain first.
PushOnTop(e) ==
  LET h == arena[e].hcode % HMax
  IN /\ arena' = [arena EXCEPT ![e] = Linked(arena[e], hentry[h])]
     /\ hentry' = [hentry EXCEPT ![h] = e]
     /\ UNCHANGED <<unused, size>>

\* hmap_top.
MoveToTop(e) ==
  LET h == arena[e].hcode % HMax
      before == {i \in Entries(From(hentry[h])) : arena[i].next = e}
  IN /\ arena' = [i \in 1 .. ArenaSize |->
                    IF hentry[h] = e THEN arena[i]
                    ELSE IF i = e THEN Linked(arena[e], hentry[h])
                    ELSE IF i \in before
                      THEN Linked(arena[i], arena[e].next)
                    ELSE arena[i]]
     /\ hentry' = [hentry EXCEPT ![h] = e]
     /\ UNCHANGED <<unused, size>>

PtrAdd(k, v) ==
  /\ spi = "rules" \/ (spi = "xdata" /\ Find(k) = Null)
  /\ unused = Null => ArenaSize < MaxArena
  /\ AddEntry(HashCode[k], NoKey, v)
  /\ Promise!Set(k, v)
  /\ UNCHANGED spi

PtrGet(k) ==
  /\ ~Hashed
  /\ IF Find(k) = Null THEN UNCHANGED mapVars ELSE MoveToTop(Find(k))
  /\ UNCHANGED <<promised, spi>>

\* bmgc_Object_free asks for a key that is there.
PtrRm(k) ==
  /\ spi = "xdata"
  /\ Find(k) # Null
  /\ RemoveEntry(Find(k))
  /\ Promise!Remove(k)
  /\ UNCHANGED spi

PtrNext ==
  \E k \in KeysOf[spi] :
    PtrGet(k) \/ PtrRm(k) \/ \E v \in Storable : PtrAdd(k, v)
=============================================================================
