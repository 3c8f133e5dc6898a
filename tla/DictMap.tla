------------------------------- MODULE DictMap -------------------------------
(***************************************************************************)
(* The dictionary of src/src/main/map.c, a map from strings: an array of   *)
(* entries whose first part is sorted, with new entries behind it.  Each   *)
(* part is searched by bisection when it is long.                          *)
(*                                                                         *)
(* A string is a member of Key with what the code compares: ukey, its      *)
(* first 8 bytes as an integer, and its rank in the order strcmpr, which   *)
(* is asked only when ukey is equal.  Keys that strcmpr takes for equal    *)
(* (the case-insensitive maps) are one member of Key.                      *)
(*                                                                         *)
(* A dictionary has one of five users:                                     *)
(*   map        Map<String,T> and every other user of set and remove;      *)
(*   functions  funcDictSet: knh_loadFuncData appends a table, then sorts; *)
(*   symbols    symbolDictCaseSet: a generated, sorted table is appended   *)
(*              to the empty set, later names are set;                     *)
(*   classes    classNameDictSet: knh_setClassName sets the long name of a *)
(*              class, appends its short one, or both;                     *)
(*   object     Object_Map: the fields of an object are appended.          *)
(***************************************************************************)
EXTENDS Naturals, Sequences, FiniteSets

S == INSTANCE SequencesExt

CONSTANTS
  Key, Value, NoValue,
  Ukey,           \* Ukey[k]: strkeyuint of the key
  Rank,           \* Rank[k]: its place in the order of strcmpr
  Short,          \* the keys of less than 8 bytes
  Unsorted,       \* UNSORTED
  User,           \* the users there are, of Users
  MaxTable        \* bound: entries appended by one call

Users == {"map", "functions", "symbols", "classes", "object"}

\* A short key is its ukey: no other key has the same.
ASSUME DictAssumption ==
  /\ Ukey \in [Key -> Nat] /\ Rank \in [Key -> Nat]
  /\ Short \subseteq Key
  /\ \A j, k \in Key : j # k => Rank[j] # Rank[k]
  /\ \A j \in Short, k \in Key : j # k => Ukey[j] # Ukey[k]
  /\ Unsorted \in Nat \ {0} /\ MaxTable \in Nat
  /\ User \subseteq Users
  /\ NoValue \notin Value

VARIABLES
  user,
  dentry,         \* the entries, records of key and value
  sorted,         \* as many of them are sorted
  promised        \* the table that the calls so far promise: see KeyValueMap

vars == <<user, dentry, sorted, promised>>

Promise == INSTANCE KeyValueMap WITH table <- promised

size == Len(dentry)
Tail0 == size - sorted      \* entries behind the sorted part

\* dentry_strcmp, dentry_strcasecmp: the order in which knh_qsort puts entries.
Before(j, k) == Ukey[j] < Ukey[k] \/ (Ukey[j] = Ukey[k] /\ Rank[j] < Rank[k])

None == 0                   \* for the index -1; entries are counted from 1

\* The loop over a[sp], ..., a[ep - 1]: a short key needs no strcmpr.
Scan(sp, ep, key) ==
  LET hits == {i \in (sp + 1) .. ep :
                 /\ Ukey[dentry[i].key] = Ukey[key]
                 /\ key \in Short \/ dentry[i].key = key}
  IN IF hits = {} THEN None ELSE CHOOSE i \in hits : \A j \in hits : i <= j

\* Mutant of Index: the half below the middle ends before its last entry.
IndexShort(sp, ep, key) ==
  LET index[r \in (0 .. size) \X (0 .. size)] ==
        IF r[2] - r[1] < Unsorted THEN Scan(r[1], r[2], key)
        ELSE LET cp == (r[1] + r[2]) \div 2
                 k == dentry[cp + 1].key
             IN IF k = key THEN cp + 1
                ELSE IF Before(k, key) THEN index[<<cp + 1, r[2]>>]
                ELSE index[<<r[1], cp - 1>>]
  IN index[<<sp, ep>>]

\* dmap_index: r is the range that is left, a[r[1]], ..., a[r[2] - 1].
Index(sp, ep, key) ==
  LET index[r \in (0 .. size) \X (0 .. size)] ==
        IF r[2] - r[1] < Unsorted THEN Scan(r[1], r[2], key)
        ELSE LET cp == (r[1] + r[2]) \div 2
                 k == dentry[cp + 1].key
             IN IF k = key THEN cp + 1
                ELSE IF Before(k, key) THEN index[<<cp + 1, r[2]>>]
                ELSE index[<<r[1], cp>>]
  IN index[<<sp, ep>>]

\* The two calls of dmap_index in dmap_getSO, setSO, removeSO and knh_DictMap_index.
Loc(key) ==
  IF Index(0, sorted, key) # None THEN Index(0, sorted, key)
  ELSE Index(sorted, size, key)

Found(key) == IF Loc(key) = None THEN NoValue ELSE dentry[Loc(key)].value

\* The place of entry i in the order: knh_qsort leaves the entries in it.
Place(entries, i) ==
  Cardinality({j \in DOMAIN entries :
                 \/ Before(entries[j].key, entries[i].key)
                 \/ entries[j].key = entries[i].key /\ j <= i})

InOrder(entries) ==
  [n \in DOMAIN entries |->
     entries[CHOOSE i \in DOMAIN entries : Place(entries, i) = n]]

\* Mutant of SortIsDue: the part behind may be one longer.
SortIsLate(entries, n) == Len(entries) - n > Unsorted

SortIsDue(entries, n) == Len(entries) - n >= Unsorted

\* dmap_sort of entries of which n are sorted.
Sort(entries, n) ==
  /\ dentry' = IF SortIsDue(entries, n) THEN InOrder(entries) ELSE entries
  /\ sorted' = IF SortIsDue(entries, n) THEN Len(entries) ELSE n

-----------------------------------------------------------------------------
\* dmap_setSO, dmap_setSN; knh_addname for a symbol that getSymbol misses.
Set(k, v) ==
  /\ user = "map" \/ (user = "symbols" /\ Loc(k) = None)
  /\ IF Loc(k) = None
       THEN Sort(Append(dentry, [key |-> k, value |-> v]), sorted)
       ELSE /\ dentry' = [dentry EXCEPT ![Loc(k)] = [key |-> @.key, value |-> v]]
            /\ UNCHANGED sorted
  /\ Promise!Set(k, v)
  /\ UNCHANGED user

\* Mutant of DropEntry: sorted counts the removed entry still.
KeepSorted(i) ==
  /\ dentry' = S!RemoveAt(dentry, i)
  /\ UNCHANGED sorted

\* The end of dmap_removeSO, dmap_removeSN.
DropEntry(i) ==
  /\ dentry' = S!RemoveAt(dentry, i)
  /\ sorted' = IF i <= sorted THEN sorted - 1 ELSE sorted

Remove(k) ==
  /\ user = "map"
  /\ IF Loc(k) = None THEN UNCHANGED <<dentry, sorted>> ELSE DropEntry(Loc(k))
  /\ Promise!Remove(k)
  /\ UNCHANGED user

\* The tables that a caller of knh_DictMap_append or knh_DictSet_append can
\* have: entries for keys the dictionary has not.
Tables ==
  LET keys == {k \in Key : promised[k] = NoValue}
      lists == {s \in S!BoundedSeq(keys, MaxTable) : s # <<>> /\ S!IsInjective(s)}
  IN UNION {{[i \in DOMAIN s |-> [key |-> s[i], value |-> f[i]]] :
               f \in [DOMAIN s -> Value]} : s \in lists}

PromiseAll(t) ==
  promised' = [k \in Key |-> IF \E i \in DOMAIN t : t[i].key = k
                             THEN t[CHOOSE i \in DOMAIN t : t[i].key = k].value
                             ELSE promised[k]]

\* knh_loadFuncData.
LoadFunctions ==
  /\ user = "functions"
  /\ \E t \in Tables : Sort(dentry \o t, sorted) /\ PromiseAll(t)
  /\ UNCHANGED user

\* knh_loadScriptFieldNameData0.
LoadSymbols ==
  /\ user = "symbols"
  /\ dentry = <<>>
  /\ \E t \in Tables :
       /\ \A i, j \in DOMAIN t : i < j => Before(t[i].key, t[j].key)
       /\ dentry' = t
       /\ PromiseAll(t)
  /\ UNCHANGED <<user, sorted>>

\* knh_setClassName.  The long name is set, but not that of a generic type,
\* which ends in ">"; then the short one is appended, if the class is a public
\* one of konoha.
SetClassName ==
  /\ user = "classes"
  /\ \E t \in Tables :
       /\ \/ Len(t) = 1 /\ Sort(dentry \o t, sorted)
          \/ Len(t) = 1 /\ dentry' = dentry \o t /\ UNCHANGED sorted
          \/ /\ Len(t) = 2 /\ t[1].value = t[2].value
             /\ LET set == Append(dentry, t[1])
                IN /\ dentry' = Append(IF SortIsDue(set, sorted) THEN InOrder(set) ELSE set, t[2])
                   /\ sorted' = IF SortIsDue(set, sorted) THEN Len(set) ELSE sorted
       /\ PromiseAll(t)
  /\ UNCHANGED user

\* Object_Map.
ObjectMap ==
  /\ user = "object"
  /\ dentry = <<>>
  /\ \E t \in Tables : dentry' = t /\ PromiseAll(t)
  /\ UNCHANGED <<user, sorted>>

Init ==
  /\ user \in User
  /\ dentry = <<>>
  /\ sorted = 0
  /\ Promise!Init

Next ==
  \/ \E k \in Key : Remove(k) \/ \E v \in Value : Set(k, v)
  \/ LoadFunctions
  \/ LoadSymbols
  \/ SetClassName
  \/ ObjectMap

Spec == Init /\ [][Next]_vars

-----------------------------------------------------------------------------
TypeOK ==
  /\ user \in User
  /\ dentry \in Seq([key : Key, value : Value])
  /\ sorted \in 0 .. size
  /\ promised \in [Key -> Value \cup {NoValue}]

\* Every key is found with the value that was set last, and with none when it
\* was removed or never set: operator.c:2447, "method T2 Map.get(T1 key)".
FindsAll == \A k \in Key : Found(k) = promised[k]

\* Through every mixture of updates, removals before and behind the end of the
\* sorted part, and sorts, a dictionary finds all and has no entry twice, as
\* long as fewer than UNSORTED entries have been appended without a sort.  For
\* the symbols no such condition is needed, because their table is sorted.
SortedMapFinds ==
  (user \in {"classes", "object"} => Tail0 < Unsorted) =>
    FindsAll /\ size = Promise!Size

\* Where set, or an append with a sort after it, is all that adds entries, the
\* part behind the sorted one never becomes so long that it is bisected.
SortedInTime == user \in {"map", "functions"} => Tail0 < Unsorted
=============================================================================
