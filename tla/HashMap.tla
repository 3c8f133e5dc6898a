------------------------------ MODULE HashMap ------------------------------
(***************************************************************************)
(* The hash map of src/src/main/map.c, behind Map<K,V> and behind the      *)
(* pools of constants and methods.                                         *)
(*                                                                         *)
(* Entries live in an arena that doubles when its free list is empty; the  *)
(* bucket array is then rebuilt.  An entry is on the chain of its bucket   *)
(* or on the free list, both linked through next.                          *)
(*                                                                         *)
(* Entries are named by their position 1, 2, ... in the arena, NULL is 0;  *)
(* so the correction of the next pointers after realloc (hmap_shiftptr) is *)
(* not visible.  Keys are equal when knh_Object_compareTo says so.         *)
(***************************************************************************)
EXTENDS Naturals, Sequences, FiniteSets

CONSTANTS
  Key, Value,
  NoKey,          \* the NULL of an entry that has been removed
  NoValue,        \* what a get that finds nothing answers
  Zero,           \* a nvalue of 0, or a value of NULL
  HashCode,       \* HashCode[k]: hashCode of the class of the key, or its bits
  FreeCode,       \* (khashcode_t)-1
  Spi,            \* the kinds of map there are, of Kinds
  KeysOf,         \* KeysOf[x]: the keys of a map of kind x
  StaleKey,       \* the .o of a stack slot that holds an unboxed key
  StaleData,      \* the values the .ndata of the slot of a key may have
  InitBuckets     \* K_HASH_INITSIZE

\* hmap_config: keys and values that are objects (O; S is like O) or not (N).
\* The last two are the uses of pointer maps: see PtrMap.
Kinds == {"OO", "ON", "NO", "NN", "rules", "xdata"}

ASSUME HashAssumption ==
  /\ HashCode \in [Key -> Nat] /\ FreeCode \in Nat
  /\ Spi \subseteq Kinds
  /\ KeysOf \in [Spi -> SUBSET Key]
  /\ \A x \in Spi \ {"OO", "ON"} : \A j, k \in KeysOf[x] :
       HashCode[j] = HashCode[k] => j = k
  /\ NoKey \notin Key /\ StaleKey \notin Key /\ StaleKey # NoKey
  /\ NoValue \notin Value \cup {Zero}
  /\ StaleData \subseteq Value
  /\ InitBuckets \in Nat /\ InitBuckets >= 2

VARIABLES
  spi,          \* the kind of the map, kMap.spi
  arena,        \* the entries, a sequence
  hentry,       \* the head of every bucket's chain
  unused,       \* the head of the free list
  size,
  promised      \* the table that the calls so far promise: see KeyValueMap

mapVars  == <<arena, hentry, unused, size>>
vars     == <<mapVars, promised, spi>>

Promise == INSTANCE KeyValueMap WITH table <- promised

BoxedKey   == spi \in {"OO", "ON"}
BoxedValue == spi \notin {"ON", "NN"}
Hashed     == spi \notin {"rules", "xdata"}

\* An object or a pointer that a program stores is not NULL.
Storable == IF BoxedValue THEN Value \ {Zero} ELSE Value

Null == 0
ArenaSize == Len(arena)
HMax == Cardinality(DOMAIN hentry)

Entry(hcode, key, value, next) ==
  [hcode |-> hcode, key |-> key, value |-> value, next |-> next]

\* Entry e with another next.
Linked(e, next) == Entry(e.hcode, e.key, e.value, next)

After(i) == IF i = Null THEN Null ELSE arena[i].next

Largest(S) ==
  IF S = {} THEN Null ELSE CHOOSE i \in S : \A j \in S : j <= i

\* Entry e, the one after it, and so on.
Walk(e) ==
  LET at[n \in 0 .. ArenaSize] == IF n = 0 THEN e ELSE After(at[n - 1])
  IN at

\* The entries from e on, as next links them.  More than ArenaSize there are
\* only if the links run in a circle.
From(e) ==
  LET last == Largest({n \in 1 .. ArenaSize : Walk(e)[n - 1] # Null})
  IN [n \in 1 .. last |-> Walk(e)[n - 1]]

Entries(s) == {s[n] : n \in 1 .. Len(s)}

Chain(h) == From(hentry[h % HMax])

\* The test of the loops in hmap_getXX, hmap_setXX and hmap_removeXX.
Same(i, k) ==
  arena[i].hcode = HashCode[k] /\ (BoxedKey => arena[i].key = k)

\* Mutant of Find: of several entries for k the last on the chain.
FindLast(k) ==
  LET chain == Chain(HashCode[k])
      hits == {n \in 1 .. Len(chain) : Same(chain[n], k)}
  IN IF hits = {} THEN Null
     ELSE chain[CHOOSE n \in hits : \A m \in hits : m <= n]

\* hmap_getentry and the loop after it: the first entry for k, or Null.
Find(k) ==
  LET chain == Chain(HashCode[k])
      hits == {n \in 1 .. Len(chain) : Same(chain[n], k)}
  IN IF hits = {} THEN Null
     ELSE chain[CHOOSE n \in hits : \A m \in hits : n <= m]

FreeEntry(next) == Entry(FreeCode, NoKey, Zero, next)

\* Mutant of FreeList: the last entry leads behind the arena.
FreeListOverrun(lo, hi) == [i \in 1 .. (hi - lo + 1) |-> FreeEntry(lo + i)]

\* hmap_setfreelist for the entries from lo to hi.
FreeList(lo, hi) ==
  [i \in 1 .. (hi - lo + 1) |->
     FreeEntry(IF lo + i - 1 = hi THEN Null ELSE lo + i)]

\* The arena, buckets and free list that new_hentry works with: when the free
\* list is empty the arena has doubled and hmap_rehash pushes every old entry
\* onto a chain of the new buckets, the one with the highest position last.
RoomyArena ==
  IF unused # Null THEN arena
  ELSE LET hmax == HMax * 2 + 1
           before(i) == {j \in 1 .. (i - 1) :
                           arena[j].hcode % hmax = arena[i].hcode % hmax}
       IN [i \in 1 .. ArenaSize |-> Linked(arena[i], Largest(before(i)))]
            \o FreeList(ArenaSize + 1, 2 * ArenaSize)

RoomyBuckets ==
  IF unused # Null THEN hentry
  ELSE LET hmax == HMax * 2 + 1
       IN [h \in 0 .. (hmax - 1) |->
             Largest({i \in 1 .. ArenaSize : arena[i].hcode % hmax = h})]

RoomyUnused == IF unused # Null THEN unused ELSE ArenaSize + 1

\* new_hentry, the assignment of key and value, and hmap_add.
AddEntry(hcode, key, value) ==
  LET e == RoomyUnused
      hmax == Cardinality(DOMAIN RoomyBuckets)
      h == hcode % hmax
  IN /\ arena' =
          [RoomyArena EXCEPT ![e] = Entry(hcode, key, value, RoomyBuckets[h])]
     /\ hentry' = [RoomyBuckets EXCEPT ![h] = e]
     /\ unused' = RoomyArena[e].next
     /\ size' = size + 1

\* hmap_remove and hmap_unuse.
Unlink(e) ==
  LET h == arena[e].hcode % HMax
      before == {i \in Entries(From(hentry[h])) : arena[i].next = e}
  IN /\ hentry' = IF before # {} THEN hentry
                  ELSE [hentry EXCEPT ![h] = arena[e].next]
     /\ arena' = [i \in 1 .. ArenaSize |->
                    IF i = e THEN FreeEntry(unused)
                    ELSE IF i \in before
                      THEN Linked(arena[i], arena[e].next)
                      ELSE arena[i]]

RemoveEntry(e) ==
  /\ Unlink(e)
  /\ unused' = e
  /\ size' = size - 1

-----------------------------------------------------------------------------
\* hmap_setXX of a key the map has not.
SetNew(k, v) ==
  /\ Find(k) = Null
  /\ AddEntry(HashCode[k], IF BoxedKey THEN k ELSE StaleKey, v)

\* hmap_setOO, SO, NO of a key the map has.  The other three store the .ndata
\* of the slot of the key.
SetOld(k, v) ==
  /\ Find(k) # Null
  /\ LET e == arena[Find(k)] IN
       \E d \in IF BoxedValue THEN {v} ELSE StaleData :
         arena' = [arena EXCEPT ![Find(k)] = Entry(e.hcode, e.key, d, e.next)]
  /\ UNCHANGED <<hentry, unused, size>>

\* hmap_removeXX.
RemoveKey(k) ==
  IF Find(k) = Null THEN UNCHANGED mapVars ELSE RemoveEntry(Find(k))

\* hmap_getXX; Map.get answers the null value of the class for an absent key.
Found(k) == IF Find(k) = Null THEN NoValue ELSE arena[Find(k)].value

\* The calls of a program.
Set(k, v) ==
  /\ SetNew(k, v) \/ SetOld(k, v)
  /\ Promise!Set(k, v)
  /\ UNCHANGED spi

Remove(k) ==
  /\ RemoveKey(k)
  /\ Promise!Remove(k)
  /\ UNCHANGED spi

Init ==
  /\ spi \in Spi
  /\ arena = FreeList(1, (InitBuckets * 3) \div 4)
  /\ hentry = [h \in 0 .. (InitBuckets - 1) |-> Null]
  /\ unused = 1
  /\ size = 0
  /\ Promise!Init

Next ==
  /\ Hashed
  /\ \E k \in KeysOf[spi] : Remove(k) \/ \E v \in Storable : Set(k, v)

-----------------------------------------------------------------------------
TypeOK ==
  /\ spi \in Spi
  /\ arena \in Seq([hcode : {HashCode[k] : k \in Key} \cup {FreeCode},
                    key : Key \cup {NoKey, StaleKey},
                    value : Value \cup {Zero},
                    next : 0 .. ArenaSize])
  /\ hentry \in [0 .. (HMax - 1) -> 0 .. ArenaSize]
  /\ unused \in 0 .. ArenaSize
  /\ size \in 0 .. ArenaSize
  /\ promised \in [Key -> Value \cup {NoValue}]

\* Every entry of the arena is once on the free list, or once on the chain of
\* its hash code, through every insertion, removal and rehash; size counts
\* those on the chains.
ArenaPartitioned ==
  LET free == From(unused)
      onChain(i, h) == i \in Entries(From(hentry[h]))
  IN /\ \A i \in 1 .. ArenaSize :
          IF i \in Entries(free)
            THEN \A h \in DOMAIN hentry : ~onChain(i, h)
            ELSE \A h \in DOMAIN hentry :
                   onChain(i, h) <=> (h = arena[i].hcode % HMax)
     /\ Len(free) = Cardinality(Entries(free))
     /\ size + Len(free) = ArenaSize

\* A get of any key answers what was set last, or nothing when the key was
\* removed or never set, and size counts the keys, whatever the hash codes and
\* through every rehash: operator.c:2460, "method void Map.set(T1 key, T2
\* value)", and the methods get, remove and getSize beside it.  A pointer map
\* finds what was added last, through changes of the order of a chain too; the
\* rules may shadow each other because they are never removed, and a rehash
\* puts the entries of a chain in the order in which they were added.
ImplementsMap ==
  /\ \A k \in KeysOf[spi] : Found(k) = promised[k]
  /\ spi # "rules" => size = Promise!Size
=============================================================================
