--------------------------- MODULE DictMap_proofs ---------------------------
(***************************************************************************)
(* Proofs about dictionaries, for every order of the keys that ukey and    *)
(* strcmpr give, every UNSORTED and every way in which they are used.      *)
(***************************************************************************)
EXTENDS DictMap, FiniteSetTheorems, WellFoundedInduction, TLAPS

Entry == [key : Key, value : Value]

\* No key has two entries.
Different(d) == \A i, j \in DOMAIN d : i # j => d[i].key # d[j].key

\* The table holds what the entries hold and nothing else.
Holds(d, p) ==
  /\ \A i \in DOMAIN d : p[d[i].key] = d[i].value
  /\ \A k \in Key : p[k] # NoValue => \E i \in DOMAIN d : d[i].key = k

\* The entries a[sp], ..., a[ep - 1] are in the order of the sort.
Ordered(d, sp, ep) ==
  \A i, j \in (sp + 1) .. ep : i < j => Before(d[i].key, d[j].key)

\* dmap_index finds in this range: it is scanned, or it is in order.
Searchable(d, sp, ep) == ep - sp < Unsorted \/ Ordered(d, sp, ep)

DictInv ==
  /\ TypeOK
  /\ Different(dentry)
  /\ Holds(dentry, promised)
  /\ Ordered(dentry, 0, sorted)
  /\ SortedInTime
  /\ user = "symbols" => Searchable(dentry, sorted, size)

-----------------------------------------------------------------------------
(* The bisection.                                                          *)

\* The order of the sort: of two keys one comes before the other.
LEMMA BeforeOrder ==
  ASSUME NEW j \in Key, NEW k \in Key
  PROVE  /\ ~(Before(j, k) /\ Before(k, j))
         /\ j # k => Before(j, k) \/ Before(k, j)
         /\ ~Before(j, j)
         /\ \A l \in Key : Before(j, k) /\ Before(k, l) => Before(j, l)
<1>1. \A l \in Key : Ukey[l] \in Nat /\ Rank[l] \in Nat
  BY DictAssumption
<1>2. j # k => Rank[j] # Rank[k]
  BY DictAssumption
<1> QED
  BY <1>1, <1>2 DEF Before

\* r is the place of the key among a[sp], ..., a[ep - 1], or there is none.
Finds(r, sp, ep, key) ==
  \/ r = None /\ \A i \in (sp + 1) .. ep : dentry[i].key # key
  \/ r \in (sp + 1) .. ep /\ dentry[r].key = key

Well == TypeOK /\ Different(dentry)

LEMMA Sizes ==
  ASSUME Well
  PROVE  /\ size \in Nat /\ sorted \in 0 .. size
         /\ DOMAIN dentry = 1 .. size
         /\ \A i \in 1 .. size : dentry[i] \in Entry /\ dentry[i].key \in Key /\ dentry[i].value \in Value
         /\ \A i, j \in 1 .. size : dentry[i].key = dentry[j].key => i = j
<1>1. dentry \in Seq(Entry) /\ sorted \in 0 .. size
  BY DEF Well, TypeOK, Entry
<1>2. size \in Nat /\ DOMAIN dentry = 1 .. size
  BY <1>1 DEF size
<1>3. \A i \in 1 .. size : dentry[i] \in Entry
  BY <1>1, <1>2
<1>4. \A i, j \in 1 .. size : dentry[i].key = dentry[j].key => i = j
  BY <1>2 DEF Well, Different
<1> QED
  BY <1>1, <1>2, <1>3, <1>4 DEF Entry

\* The loop over a range finds the key, a short one by its ukey alone.
LEMMA ScanFinds ==
  ASSUME Well, NEW sp \in 0 .. size, NEW ep \in 0 .. size, NEW key \in Key
  PROVE  Finds(Scan(sp, ep, key), sp, ep, key)
<1> DEFINE hits == {i \in (sp + 1) .. ep : /\ Ukey[dentry[i].key] = Ukey[key]
                                           /\ key \in Short \/ dentry[i].key = key}
<1>1. size \in Nat
  BY Sizes
<1>2. ASSUME NEW i \in (sp + 1) .. ep
      PROVE  i \in hits <=> dentry[i].key = key
  <2>1. i \in 1 .. size
    BY <1>1
  <2>2. dentry[i].key \in Key
    BY <2>1, Sizes
  <2>3. key \in Short /\ key # dentry[i].key => Ukey[key] # Ukey[dentry[i].key]
    BY <2>2, DictAssumption
  <2> QED
    BY <2>3
<1>3. CASE hits = {}
  <2>1. Scan(sp, ep, key) = None
    BY <1>3 DEF Scan
  <2>2. \A i \in (sp + 1) .. ep : dentry[i].key # key
    BY <1>2, <1>3
  <2> QED
    BY <2>1, <2>2 DEF Finds
<1>4. CASE hits # {}
  <2>1. PICK h \in hits : TRUE
    BY <1>4
  <2>2. h \in (sp + 1) .. ep /\ dentry[h].key = key
    BY <1>2
  <2>3. \A i \in hits : i = h
    <3>1. TAKE i \in hits
    <3>2. i \in (sp + 1) .. ep /\ dentry[i].key = key
      BY <1>2
    <3>3. i \in 1 .. size /\ h \in 1 .. size
      BY <1>1, <2>2, <3>2
    <3> QED
      BY <2>2, <3>2, <3>3, Sizes
  <2>4. h <= h
    BY <1>1, <2>2
  <2>5. Scan(sp, ep, key) = CHOOSE i \in hits : \A j \in hits : i <= j
    BY <1>4 DEF Scan
  <2> HIDE DEF hits
  <2>6. Scan(sp, ep, key) \in hits
    BY <2>1, <2>3, <2>4, <2>5
  <2> QED
    BY <2>2, <2>3, <2>6 DEF Finds
<1> QED
  BY <1>3, <1>4

\* One round of the loop of dmap_index, f the result for a shorter range.
Round(f, sp, ep, key) ==
  IF ep - sp < Unsorted THEN Scan(sp, ep, key)
  ELSE LET cp == (sp + ep) \div 2
           k == dentry[cp + 1].key
       IN IF k = key THEN cp + 1
          ELSE IF Before(k, key) THEN f[<<cp + 1, ep>>]
          ELSE f[<<sp, cp>>]

Ranges == (0 .. size) \X (0 .. size)

\* A set of numbers that begins with 0 and goes on has them all.
LEMMA AllNumbers ==
  ASSUME NEW T \in SUBSET Nat, 0 \in T, \A n \in T : n + 1 \in T
  PROVE  T = Nat
<1> SUFFICES ASSUME Nat \ T # {}
             PROVE  FALSE
  OBVIOUS
<1>1. PICK d \in Nat \ T : \A c \in Nat \ T : ~(<<c, d>> \in OpToRel(<, Nat))
  BY NatLessThanWellFounded, WFMin
<1>2. d - 1 \in Nat /\ d - 1 < d /\ (d - 1) + 1 = d
  <2>1. d \in Nat /\ d # 0
    BY <1>1
  <2> QED
    BY <2>1
<1>3. d - 1 \notin Nat \ T
  BY <1>1, <1>2 DEF OpToRel
<1> QED
  BY <1>1, <1>2, <1>3

\* The middle of a range that is bisected lies in it: both halves are shorter.
LEMMA Halves ==
  ASSUME Well, NEW sp \in 0 .. size, NEW ep \in 0 .. size, ~(ep - sp < Unsorted)
  PROVE  LET cp == (sp + ep) \div 2
         IN /\ cp \in 0 .. size /\ cp + 1 \in 0 .. size /\ cp \in Nat
            /\ sp <= cp /\ cp < ep
            /\ ep - (cp + 1) < ep - sp /\ cp - sp < ep - sp
<1>1. size \in Nat /\ Unsorted \in Nat \ {0}
  BY Sizes, DictAssumption
<1>2. sp < ep
  BY <1>1
<1> QED
  BY <1>1, <1>2

\* On ranges shorter than n.
Agree(f, g, n) == \A a, b \in 0 .. size : b - a < n => f[<<a, b>>] = g[<<a, b>>]

\* The two halves are all that a round asks of f.
LEMMA RoundOnHalves ==
  ASSUME Well, NEW f, NEW g, NEW sp \in 0 .. size, NEW ep \in 0 .. size, NEW key,
         Agree(f, g, ep - sp)
  PROVE  Round(f, sp, ep, key) = Round(g, sp, ep, key)
<1>1. CASE ep - sp < Unsorted
  BY <1>1 DEF Round
<1>2. CASE ~(ep - sp < Unsorted)
  <2> DEFINE cp == (sp + ep) \div 2
  <2>1. f[<<cp + 1, ep>>] = g[<<cp + 1, ep>>] /\ f[<<sp, cp>>] = g[<<sp, cp>>]
    BY <1>2, Halves DEF Agree
  <2> QED
    BY <1>2, <2>1 DEF Round
<1> QED
  BY <1>1, <1>2

\* The recursion of dmap_index is well defined.
LEMMA IndexIs ==
  ASSUME Well, NEW key
  PROVE  \E f : /\ \A a, b \in 0 .. size : /\ f[<<a, b>>] = Round(f, a, b, key)
                                           /\ Index(a, b, key) = f[<<a, b>>]
<1> DEFINE UpTo(f, n) == \A a, b \in 0 .. size : b - a < n => f[<<a, b>>] = Round(f, a, b, key)
           T == {n \in Nat : \E f : UpTo(f, n)}
<1>1. size \in Nat /\ Unsorted \in Nat \ {0}
  BY Sizes, DictAssumption
<1>2. T = Nat
  <2>1. 0 \in T
    <3> DEFINE f == [r \in Ranges |-> Scan(r[1], r[2], key)]
    <3>1. ASSUME NEW a \in 0 .. size, NEW b \in 0 .. size, b - a < 0
          PROVE  f[<<a, b>>] = Round(f, a, b, key)
      <4>1. <<a, b>> \in Ranges
        BY DEF Ranges
      <4>2. b - a < Unsorted
        BY <1>1, <3>1
      <4>3. f[<<a, b>>] = Scan(a, b, key)
        BY <4>1
      <4> QED
        BY <4>2, <4>3 DEF Round
    <3>2. UpTo(f, 0)
      BY <3>1
    <3> HIDE DEF f, UpTo
    <3> QED
      BY <3>2
  <2>2. ASSUME NEW n \in T
        PROVE  n + 1 \in T
    <3>1. PICK f : UpTo(f, n)
      OBVIOUS
    <3> DEFINE g == [r \in Ranges |-> Round(f, r[1], r[2], key)]
    <3>2. \A a, b \in 0 .. size : g[<<a, b>>] = Round(f, a, b, key)
      <4>1. TAKE a, b \in 0 .. size
      <4>2. <<a, b>> \in Ranges
        BY DEF Ranges
      <4> QED
        BY <4>2
    <3> HIDE DEF g
    <3>3. ASSUME NEW a \in 0 .. size, NEW b \in 0 .. size, b - a < n + 1
          PROVE  g[<<a, b>>] = Round(g, a, b, key)
      <4>1. n \in Nat
        OBVIOUS
      <4>2. ASSUME NEW c \in 0 .. size, NEW d \in 0 .. size, d - c < b - a
            PROVE  f[<<c, d>>] = g[<<c, d>>]
        <5>1. d - c < n
          BY <1>1, <3>3, <4>1, <4>2
        <5>2. f[<<c, d>>] = Round(f, c, d, key)
          BY <3>1, <5>1
        <5> QED
          BY <3>2, <5>2
      <4>3. Agree(f, g, b - a)
        BY <4>2 DEF Agree
      <4>4. Round(f, a, b, key) = Round(g, a, b, key)
        BY <4>3, RoundOnHalves
      <4> QED
        BY <3>2, <4>4
    <3>4. UpTo(g, n + 1)
      BY <3>3
    <3>5. n + 1 \in Nat
      OBVIOUS
    <3> HIDE DEF UpTo
    <3> QED
      BY <3>4, <3>5
  <2>3. T \subseteq Nat
    OBVIOUS
  <2> HIDE DEF T
  <2> QED
    BY <2>1, <2>2, <2>3, AllNumbers
<1>3. PICK f : UpTo(f, size + 1)
  <2>1. size + 1 \in T
    <3> HIDE DEF T
    <3> QED
      BY <1>1, <1>2
  <2> QED
    BY <2>1
<1>4. ASSUME NEW a \in 0 .. size, NEW b \in 0 .. size
      PROVE  f[<<a, b>>] = Round(f, a, b, key)
  <2>1. b - a < size + 1
    BY <1>1
  <2> QED
    BY <1>3, <2>1
<1> DEFINE Eq(h) == h = [r \in Ranges |-> Round(h, r[1], r[2], key)]
           h0 == [r \in Ranges |-> f[r]]
<1>5. \E h : Eq(h)
  <2>1. \A a, b \in 0 .. size : f[<<a, b>>] = h0[<<a, b>>]
    BY DEF Ranges
  <2>2. \A a, b \in 0 .. size : Round(f, a, b, key) = Round(h0, a, b, key)
    <3> TAKE a, b \in 0 .. size
    <3> HIDE DEF h0, T, UpTo, Eq
    <3>1. Agree(f, h0, b - a)
      BY <2>1 DEF Agree
    <3> QED
      BY <3>1, RoundOnHalves
  <2>3. ASSUME NEW r \in Ranges
        PROVE  f[r] = Round(h0, r[1], r[2], key)
    <3>1. PICK a \in 0 .. size, b \in 0 .. size : r = <<a, b>>
      BY DEF Ranges
    <3>2. r[1] = a /\ r[2] = b
      BY <3>1
    <3> HIDE DEF h0
    <3> QED
      BY <1>4, <2>2, <3>1, <3>2
  <2>4. h0 = [r \in Ranges |-> Round(h0, r[1], r[2], key)]
    BY <2>3
  <2> HIDE DEF h0
  <2> QED
    BY <2>4
<1> DEFINE h1 == CHOOSE h : Eq(h)
<1>6. Eq(h1)
  <2> HIDE DEF Eq
  <2> QED
    BY <1>5
<1>7. \A a, b \in 0 .. size : Index(a, b, key) = h1[<<a, b>>]
  BY DEF Index, Round, Ranges
<1>8. ASSUME NEW a \in 0 .. size, NEW b \in 0 .. size
      PROVE  h1[<<a, b>>] = Round(h1, a, b, key)
  <2>1. <<a, b>> \in Ranges /\ <<a, b>>[1] = a /\ <<a, b>>[2] = b
    BY DEF Ranges
  <2> HIDE DEF h1
  <2> QED
    BY <1>6, <2>1
<1> HIDE DEF h1
<1> QED
  BY <1>7, <1>8

\* A range in order that is bisected goes on with the half where the key is.
LEMMA HalfFinds ==
  ASSUME Well, NEW sp \in 0 .. size, NEW ep \in 0 .. size, NEW key \in Key,
         Searchable(dentry, sp, ep), NEW f,
         \A a, b \in 0 .. size : b - a < ep - sp /\ Searchable(dentry, a, b)
                                    => Finds(f[<<a, b>>], a, b, key)
  PROVE  Finds(Round(f, sp, ep, key), sp, ep, key)
<1>1. CASE ep - sp < Unsorted
  BY <1>1, ScanFinds DEF Round
<1>2. CASE ~(ep - sp < Unsorted)
  <2> DEFINE cp == (sp + ep) \div 2
             k == dentry[cp + 1].key
  <2>1. /\ cp \in 0 .. size /\ cp + 1 \in 0 .. size /\ cp \in Nat
        /\ sp <= cp /\ cp < ep
        /\ ep - (cp + 1) < ep - sp /\ cp - sp < ep - sp
    BY <1>2, Halves
  <2>2. Round(f, sp, ep, key) = IF k = key THEN cp + 1
                                ELSE IF Before(k, key) THEN f[<<cp + 1, ep>>] ELSE f[<<sp, cp>>]
    BY <1>2 DEF Round
  <2>3. Ordered(dentry, sp, ep) /\ size \in Nat
    BY <1>2, Sizes DEF Searchable
  <2> HIDE DEF cp
  <2>4. cp + 1 \in (sp + 1) .. ep /\ cp + 1 \in 1 .. size
    BY <2>1, <2>3
  <2>5. Ordered(dentry, cp + 1, ep) /\ Ordered(dentry, sp, cp)
    <3>1. ASSUME NEW i \in (cp + 2) .. ep
          PROVE  i \in (sp + 1) .. ep
      BY <2>1, <2>3, <3>1
    <3>2. ASSUME NEW i \in (sp + 1) .. cp
          PROVE  i \in (sp + 1) .. ep
      BY <2>1, <2>3, <3>2
    <3>3. (cp + 1) + 1 = cp + 2
      BY <2>1
    <3> QED
      BY <2>3, <3>1, <3>2, <3>3 DEF Ordered
  <2>6. \A i \in (sp + 1) .. ep : dentry[i].key \in Key
    <3> TAKE i \in (sp + 1) .. ep
    <3>1. i \in 1 .. size
      BY <2>3
    <3> QED
      BY <3>1, Sizes
  <2>7. k \in Key
    BY <2>4, <2>6
  <2>8. CASE k = key
    BY <2>2, <2>4, <2>8 DEF Finds
  <2>9. CASE Before(k, key)
    <3>1. k # key
      BY <2>7, <2>9, BeforeOrder
    <3>2. Round(f, sp, ep, key) = f[<<cp + 1, ep>>]
      BY <2>2, <2>9, <3>1
    <3>3. Finds(f[<<cp + 1, ep>>], cp + 1, ep, key)
      BY <2>1, <2>5 DEF Searchable
    <3>4. ASSUME NEW i \in (sp + 1) .. ep, dentry[i].key = key
          PROVE  i \in ((cp + 1) + 1) .. ep
      <4>1. i # cp + 1
        BY <3>1, <3>4
      <4>2. ~(i < cp + 1)
        <5>1. SUFFICES ASSUME i < cp + 1
                       PROVE  FALSE
          OBVIOUS
        <5>2. Before(key, k)
          BY <2>3, <2>4, <3>4, <5>1 DEF Ordered
        <5> QED
          BY <2>7, <2>9, <5>2, BeforeOrder
      <4> QED
        BY <2>1, <2>3, <4>1, <4>2
    <3>5. \A i \in ((cp + 1) + 1) .. ep : i \in (sp + 1) .. ep
      BY <2>1, <2>3
    <3> QED
      BY <3>2, <3>3, <3>4, <3>5 DEF Finds
  <2>10. CASE k # key /\ ~Before(k, key)
    <3>1. Before(key, k)
      BY <2>7, <2>10, BeforeOrder
    <3>2. Round(f, sp, ep, key) = f[<<sp, cp>>]
      BY <2>2, <2>10
    <3>3. Finds(f[<<sp, cp>>], sp, cp, key)
      BY <2>1, <2>5 DEF Searchable
    <3>4. ASSUME NEW i \in (sp + 1) .. ep, dentry[i].key = key
          PROVE  i \in (sp + 1) .. cp
      <4>1. i # cp + 1
        BY <2>10, <3>4
      <4>2. ~(cp + 1 < i)
        <5>1. SUFFICES ASSUME cp + 1 < i
                       PROVE  FALSE
          OBVIOUS
        <5>2. Before(k, key)
          BY <2>3, <2>4, <3>4, <5>1 DEF Ordered
        <5> QED
          BY <2>10, <5>2
      <4> QED
        BY <2>1, <2>3, <4>1, <4>2
    <3>5. \A i \in (sp + 1) .. cp : i \in (sp + 1) .. ep
      BY <2>1, <2>3
    <3> QED
      BY <3>2, <3>3, <3>4, <3>5 DEF Finds
  <2> QED
    BY <2>8, <2>9, <2>10
<1> QED
  BY <1>1, <1>2

\* dmap_index finds the key in a range that is short or in order.
LEMMA IndexFinds ==
  ASSUME Well, NEW sp \in 0 .. size, NEW ep \in 0 .. size, NEW key \in Key,
         Searchable(dentry, sp, ep)
  PROVE  Finds(Index(sp, ep, key), sp, ep, key)
<1>1. size \in Nat
  BY Sizes
<1>2. PICK f : \A a, b \in 0 .. size : /\ f[<<a, b>>] = Round(f, a, b, key)
                                       /\ Index(a, b, key) = f[<<a, b>>]
  BY IndexIs
<1> DEFINE UpTo(n) == \A a, b \in 0 .. size : b - a < n /\ Searchable(dentry, a, b)
                                                 => Finds(f[<<a, b>>], a, b, key)
           T == {n \in Nat : UpTo(n)}
<1>3. ASSUME NEW n \in Nat, \A m \in Nat : m < n => UpTo(m)
      PROVE  UpTo(n)
  <2> SUFFICES ASSUME NEW a \in 0 .. size, NEW b \in 0 .. size, b - a < n,
                      Searchable(dentry, a, b)
               PROVE  Finds(f[<<a, b>>], a, b, key)
    OBVIOUS
  <2>1. ASSUME NEW c \in 0 .. size, NEW d \in 0 .. size, d - c < b - a, Searchable(dentry, c, d)
        PROVE  Finds(f[<<c, d>>], c, d, key)
    <3>1. CASE b - a >= 0
      <4>1. b - a \in Nat /\ b - a < n
        BY <1>1, <3>1
      <4>2. UpTo(b - a)
        BY <1>3, <4>1
      <4> QED
        BY <2>1, <4>2
    <3>2. CASE b - a < 0
      <4>1. d - c < Unsorted
        BY <1>1, <2>1, <3>2, DictAssumption
      <4>2. f[<<c, d>>] = Scan(c, d, key)
        BY <1>2, <4>1 DEF Round
      <4> QED
        BY <4>2, ScanFinds
    <3> QED
      BY <1>1, <3>1, <3>2
  <2>2. Finds(Round(f, a, b, key), a, b, key)
    BY <2>1, HalfFinds
  <2> QED
    BY <1>2, <2>2
<1>4. \A n \in Nat : \A m \in 0 .. n : UpTo(m)
  <2> HIDE DEF UpTo
  <2> DEFINE U == {n \in Nat : \A m \in 0 .. n : UpTo(m)}
  <2>1. 0 \in U
    BY <1>3
  <2>2. ASSUME NEW n \in U
        PROVE  n + 1 \in U
    <3>1. n \in Nat /\ n + 1 \in Nat /\ \A m \in Nat : m < n + 1 => UpTo(m)
      OBVIOUS
    <3>2. UpTo(n + 1)
      BY <1>3, <3>1
    <3> QED
      BY <3>1, <3>2
  <2>3. U \subseteq Nat
    OBVIOUS
  <2>4. U = Nat
    <3> HIDE DEF U
    <3> QED
      BY <2>1, <2>2, <2>3, AllNumbers
  <2> QED
    BY <2>4
<1>5. UpTo(size + 1)
  <2> HIDE DEF UpTo
  <2>1. size + 1 \in Nat /\ size + 1 \in 0 .. (size + 1)
    BY <1>1
  <2> QED
    BY <1>4, <2>1
<1>6. ep - sp < size + 1
  BY <1>1
<1> QED
  BY <1>2, <1>5, <1>6

-----------------------------------------------------------------------------
(* What a dictionary finds.                                                *)

LEMMA LocFinds ==
  ASSUME Well, Ordered(dentry, 0, sorted), Searchable(dentry, sorted, size), NEW key \in Key
  PROVE  Finds(Loc(key), 0, size, key)
<1>1. size \in Nat /\ sorted \in 0 .. size /\ 0 \in 0 .. size /\ size \in 0 .. size /\ sorted \in Nat
  BY Sizes
<1>2. Finds(Index(0, sorted, key), 0, sorted, key)
  BY <1>1, IndexFinds DEF Searchable
<1>3. Finds(Index(sorted, size, key), sorted, size, key)
  BY <1>1, IndexFinds
<1>4. CASE Index(0, sorted, key) # None
  BY <1>1, <1>2, <1>4 DEF Loc, Finds
<1>5. CASE Index(0, sorted, key) = None
  <2>1. Loc(key) = Index(sorted, size, key)
    BY <1>5 DEF Loc
  <2>2. \A i \in (0 + 1) .. sorted : dentry[i].key # key
    BY <1>1, <1>2, <1>5 DEF Finds, None
  <2>3. \A i \in (0 + 1) .. size : i \in (0 + 1) .. sorted \/ i \in (sorted + 1) .. size
    BY <1>1
  <2>4. \A i \in (sorted + 1) .. size : i \in (0 + 1) .. size
    BY <1>1
  <2> QED
    BY <1>3, <2>1, <2>2, <2>3, <2>4 DEF Finds
<1> QED
  BY <1>4, <1>5

LEMMA EveryKeyIsFound ==
  ASSUME Well, Ordered(dentry, 0, sorted), Searchable(dentry, sorted, size), Holds(dentry, promised)
  PROVE  FindsAll
<1> SUFFICES ASSUME NEW k \in Key
             PROVE  Found(k) = promised[k]
  BY DEF FindsAll
<1>1. Finds(Loc(k), 0, size, k)
  BY LocFinds
<1>2. size \in Nat /\ DOMAIN dentry = 1 .. size
  BY Sizes
<1>3. CASE Loc(k) = None
  <2>1. \A i \in 1 .. size : dentry[i].key # k
    BY <1>1, <1>2, <1>3 DEF Finds, None
  <2> QED
    BY <1>2, <1>3, <2>1 DEF Holds, Found
<1>4. CASE Loc(k) # None
  <2>1. Loc(k) \in 1 .. size /\ dentry[Loc(k)].key = k
    BY <1>1, <1>4 DEF Finds
  <2> QED
    BY <1>2, <1>4, <2>1 DEF Holds, Found
<1> QED
  BY <1>3, <1>4

LEMMA NoEntryTwice ==
  ASSUME Well, Holds(dentry, promised)
  PROVE  size = Promise!Size
<1> DEFINE P == {k \in Key : promised[k] # NoValue}
<1>1. size \in Nat /\ DOMAIN dentry = 1 .. size
  BY Sizes
<1> DEFINE f == [i \in 1 .. size |-> dentry[i].key]
<1>2. \A i \in 1 .. size : dentry[i].key \in P
  <2> TAKE i \in 1 .. size
  <2>1. dentry[i].key \in Key /\ dentry[i].value \in Value
    BY Sizes
  <2>2. promised[dentry[i].key] = dentry[i].value
    BY <1>1 DEF Holds
  <2> QED
    BY <2>1, <2>2, DictAssumption
<1>3. f \in Bijection(1 .. size, P)
  <2>1. f \in [1 .. size -> P]
    BY <1>2
  <2>2. \A i, j \in 1 .. size : f[i] = f[j] => i = j
    BY Sizes
  <2>3. \A k \in P : \E i \in 1 .. size : f[i] = k
    BY <1>1 DEF Holds
  <2> HIDE DEF f, P
  <2> QED
    BY <2>1, <2>2, <2>3 DEF Bijection, Injection, Surjection, IsInjective
<1>4. IsFiniteSet(1 .. size) /\ Cardinality(1 .. size) = size
  <2>1. IsFiniteSet(1 .. size) /\ Cardinality(1 .. size) = IF 1 > size THEN 0 ELSE size - 1 + 1
    BY <1>1, FS_Interval
  <2> QED
    BY <1>1, <2>1
<1>5. Cardinality(P) = size
  <2>1. ExistsBijection(1 .. size, P)
    BY <1>3 DEF ExistsBijection
  <2> QED
    BY <1>4, <2>1, FS_Bijection
<1>6. Promise!Cardinality(P) = Cardinality(P)
  BY DEF Promise!Cardinality, Cardinality
<1>7. Promise!Size = Promise!Cardinality(P)
  BY DEF Promise!Size, Promise!Present
<1> QED
  BY <1>5, <1>6, <1>7

\* The invariant implies what is promised of a dictionary.
LEMMA InvFinds ==
  ASSUME DictInv
  PROVE  SortedMapFinds
<1> SUFFICES ASSUME user \in {"classes", "object"} => Tail0 < Unsorted
             PROVE  FindsAll /\ size = Promise!Size
  BY DEF SortedMapFinds
<1>1. Well
  BY DEF DictInv, Well
<1>2. Searchable(dentry, sorted, size)
  <2>1. user \in Users
    BY DictAssumption DEF DictInv, TypeOK
  <2>2. Tail0 < Unsorted => Searchable(dentry, sorted, size)
    BY DEF Searchable, Tail0
  <2> QED
    BY <2>1, <2>2 DEF DictInv, SortedInTime, Users
<1> QED
  BY <1>1, <1>2, EveryKeyIsFound, NoEntryTwice DEF DictInv

-----------------------------------------------------------------------------
(* The sort.                                                               *)

Proper(d) == d \in Seq(Entry) /\ Different(d)

LEMMA ProperIs ==
  ASSUME NEW d, Proper(d)
  PROVE  /\ Len(d) \in Nat /\ DOMAIN d = 1 .. Len(d)
         /\ \A i \in 1 .. Len(d) : d[i] \in Entry /\ d[i].key \in Key
         /\ \A i, j \in 1 .. Len(d) : d[i].key = d[j].key => i = j
<1>1. d \in Seq(Entry)
  BY DEF Proper
<1>2. Len(d) \in Nat /\ DOMAIN d = 1 .. Len(d)
  BY <1>1
<1>3. \A i \in 1 .. Len(d) : d[i] \in Entry
  BY <1>1, <1>2
<1>4. \A i, j \in 1 .. Len(d) : d[i].key = d[j].key => i = j
  BY <1>2 DEF Proper, Different
<1> QED
  BY <1>2, <1>3, <1>4 DEF Entry

\* The entries up to entry i in the order.
UpToEntry(d, i) == {j \in 1 .. Len(d) : Before(d[j].key, d[i].key) \/ j = i}

LEMMA PlaceCounts ==
  ASSUME NEW d, Proper(d), NEW i \in 1 .. Len(d)
  PROVE  /\ Place(d, i) = Cardinality(UpToEntry(d, i))
         /\ Place(d, i) \in 1 .. Len(d)
         /\ IsFiniteSet(UpToEntry(d, i))
<1>1. Len(d) \in Nat /\ DOMAIN d = 1 .. Len(d)
  BY ProperIs
<1>2. \A j \in 1 .. Len(d) : d[j].key = d[i].key /\ j <= i <=> j = i
  <2> TAKE j \in 1 .. Len(d)
  <2>1. d[j].key = d[i].key => j = i
    BY ProperIs
  <2> QED
    BY <1>1, <2>1
<1>3. Place(d, i) = Cardinality(UpToEntry(d, i))
  <2>1. {j \in DOMAIN d : \/ Before(d[j].key, d[i].key)
                          \/ d[j].key = d[i].key /\ j <= i} = UpToEntry(d, i)
    BY <1>1, <1>2 DEF UpToEntry
  <2> QED
    BY <2>1 DEF Place
<1>4. IsFiniteSet(1 .. Len(d)) /\ Cardinality(1 .. Len(d)) = Len(d)
  <2>1. IsFiniteSet(1 .. Len(d)) /\ Cardinality(1 .. Len(d)) = IF 1 > Len(d) THEN 0 ELSE Len(d) - 1 + 1
    BY <1>1, FS_Interval
  <2> QED
    BY <1>1, <2>1
<1>5. UpToEntry(d, i) \in SUBSET (1 .. Len(d)) /\ i \in UpToEntry(d, i)
  BY DEF UpToEntry
<1>6. IsFiniteSet(UpToEntry(d, i)) /\ Cardinality(UpToEntry(d, i)) <= Len(d)
  BY <1>4, <1>5, FS_Subset
<1>7. Cardinality(UpToEntry(d, i)) \in Nat /\ Cardinality(UpToEntry(d, i)) # 0
  BY <1>5, <1>6, FS_CardinalityType, FS_EmptySet
<1> QED
  BY <1>1, <1>3, <1>6, <1>7

LEMMA PlaceOrders ==
  ASSUME NEW d, Proper(d), NEW i \in 1 .. Len(d), NEW j \in 1 .. Len(d),
         Before(d[i].key, d[j].key)
  PROVE  Place(d, i) < Place(d, j)
<1>1. \A k \in 1 .. Len(d) : d[k].key \in Key
  BY ProperIs
<1>2. UpToEntry(d, i) \in SUBSET UpToEntry(d, j)
  <2>1. ASSUME NEW k \in 1 .. Len(d), Before(d[k].key, d[i].key)
        PROVE  Before(d[k].key, d[j].key)
    BY <1>1, <2>1, BeforeOrder
  <2> QED
    BY <2>1 DEF UpToEntry
<1>3. j \in UpToEntry(d, j) /\ j \notin UpToEntry(d, i)
  <2>1. ~Before(d[j].key, d[i].key) /\ j # i
    BY <1>1, BeforeOrder
  <2> QED
    BY <2>1 DEF UpToEntry
<1>4. IsFiniteSet(UpToEntry(d, j))
  BY PlaceCounts
<1>5. Cardinality(UpToEntry(d, i)) <= Cardinality(UpToEntry(d, j))
      /\ Cardinality(UpToEntry(d, i)) # Cardinality(UpToEntry(d, j))
  BY <1>2, <1>3, <1>4, FS_Subset
<1>6. Place(d, i) = Cardinality(UpToEntry(d, i)) /\ Place(d, i) \in 1 .. Len(d)
  BY PlaceCounts
<1>7. Place(d, j) = Cardinality(UpToEntry(d, j)) /\ Place(d, j) \in 1 .. Len(d)
  BY PlaceCounts
<1>8. Len(d) \in Nat
  BY ProperIs
<1> QED
  BY <1>5, <1>6, <1>7, <1>8

LEMMA PlaceDiffers ==
  ASSUME NEW d, Proper(d), NEW i \in 1 .. Len(d), NEW j \in 1 .. Len(d), i # j
  PROVE  Place(d, i) # Place(d, j)
<1>1. d[i].key \in Key /\ d[j].key \in Key /\ d[i].key # d[j].key
  BY ProperIs
<1>2. Before(d[i].key, d[j].key) \/ Before(d[j].key, d[i].key)
  BY <1>1, BeforeOrder
<1>3. Place(d, i) < Place(d, j) \/ Place(d, j) < Place(d, i)
  BY <1>2, PlaceOrders
<1>4. Place(d, i) \in 1 .. Len(d) /\ Place(d, j) \in 1 .. Len(d) /\ Len(d) \in Nat
  BY PlaceCounts, ProperIs
<1> QED
  BY <1>3, <1>4

\* Every place is taken, by one entry.
LEMMA PlaceTaken ==
  ASSUME NEW d, Proper(d), NEW n \in 1 .. Len(d)
  PROVE  \E i \in 1 .. Len(d) : Place(d, i) = n
<1> DEFINE N == 1 .. Len(d)
           f == [i \in N |-> Place(d, i)]
<1>1. IsFiniteSet(N)
  BY ProperIs, FS_Interval
<1>2. f \in [N -> N]
  BY PlaceCounts
<1>3. \A i, j \in N : f[i] = f[j] => i = j
  BY PlaceDiffers
<1>4. f \in Injection(N, N)
  <2> HIDE DEF f, N
  <2> QED
    BY <1>2, <1>3 DEF Injection, IsInjective
<1>5. f \in Surjection(N, N)
  <2> HIDE DEF f, N
  <2> QED
    BY <1>1, <1>4, FS_Injection
<1>6. \E i \in N : f[i] = n
  <2> HIDE DEF f
  <2> QED
    BY <1>5 DEF Surjection
<1> QED
  BY <1>6

\* e has the entries of d, each once.
Rearranged(d, e) ==
  /\ Proper(e) /\ Len(e) = Len(d)
  /\ \A n \in 1 .. Len(d) : \E i \in 1 .. Len(d) : e[n] = d[i]
  /\ \A i \in 1 .. Len(d) : \E n \in 1 .. Len(d) : e[n] = d[i]

\* The sort keeps the entries and puts them in order.
LEMMA InOrderIs ==
  ASSUME NEW d, Proper(d)
  PROVE  Rearranged(d, InOrder(d)) /\ Ordered(InOrder(d), 0, Len(d))
<1> DEFINE N == 1 .. Len(d)
           e == InOrder(d)
           at(n) == CHOOSE i \in N : Place(d, i) = n
<1>1. Len(d) \in Nat /\ DOMAIN d = N
  BY ProperIs
<1>2. \A n \in N : at(n) \in N /\ Place(d, at(n)) = n
  BY PlaceTaken
<1>3. \A i \in N : Place(d, i) \in N /\ at(Place(d, i)) = i
  <2> TAKE i \in N
  <2>1. Place(d, i) \in N
    BY PlaceCounts
  <2>2. at(Place(d, i)) \in N /\ Place(d, at(Place(d, i))) = Place(d, i)
    BY <1>2, <2>1
  <2> HIDE DEF at
  <2> QED
    BY <2>1, <2>2, PlaceDiffers
<1>4. e = [n \in N |-> d[at(n)]]
  BY <1>1 DEF InOrder
<1> HIDE DEF at, e
<1>5. \A i \in N : d[i] \in Entry /\ d[i].key \in Key
  BY ProperIs
<1>6. e \in Seq(Entry) /\ Len(e) = Len(d) /\ DOMAIN e = N
  <2>1. e \in [1 .. Len(d) -> Entry]
    BY <1>2, <1>4, <1>5
  <2>2. e \in Seq(Entry)
    BY <1>1, <2>1
  <2>3. DOMAIN e = 1 .. Len(d)
    BY <1>4
  <2>4. Len(e) = Len(d)
    BY <1>1, <2>2, <2>3
  <2> QED
    BY <2>2, <2>3, <2>4
<1>7. Different(e)
  <2> SUFFICES ASSUME NEW n \in N, NEW m \in N, n # m
               PROVE  e[n].key # e[m].key
    BY <1>6 DEF Different
  <2>1. at(n) # at(m) /\ at(n) \in N /\ at(m) \in N
    BY <1>2
  <2>2. d[at(n)].key # d[at(m)].key
    BY <2>1, ProperIs
  <2> QED
    BY <1>4, <2>2
<1>8. \A n \in N : \E i \in N : e[n] = d[i]
  BY <1>2, <1>4
<1>9. \A i \in N : \E n \in N : e[n] = d[i]
  BY <1>3, <1>4
<1>10. Ordered(e, 0, Len(d))
  <2> SUFFICES ASSUME NEW n \in N, NEW m \in N, n < m
               PROVE  Before(e[n].key, e[m].key)
    BY DEF Ordered
  <2>1. at(n) \in N /\ at(m) \in N /\ Place(d, at(n)) = n /\ Place(d, at(m)) = m
    BY <1>2
  <2>2. n # m /\ ~(m < n)
    BY <1>1
  <2>3. ~Before(d[at(m)].key, d[at(n)].key)
    BY <2>1, <2>2, PlaceOrders
  <2>4. d[at(n)].key # d[at(m)].key
    BY <2>1, <2>2, ProperIs
  <2>5. Before(d[at(n)].key, d[at(m)].key)
    BY <1>5, <2>1, <2>3, <2>4, BeforeOrder
  <2> QED
    BY <1>4, <2>5
<1> QED
  BY <1>6, <1>7, <1>8, <1>9, <1>10 DEF Rearranged, Proper, e

-----------------------------------------------------------------------------
(* Entries that come and go.                                               *)

LEMMA RearrangedHolds ==
  ASSUME NEW d, NEW e, NEW p, Proper(d), Rearranged(d, e), Holds(d, p)
  PROVE  Holds(e, p)
<1>1. DOMAIN d = 1 .. Len(d) /\ DOMAIN e = 1 .. Len(d)
  BY ProperIs DEF Rearranged
<1>2. ASSUME NEW n \in 1 .. Len(d)
      PROVE  p[e[n].key] = e[n].value
  <2>1. PICK i \in 1 .. Len(d) : e[n] = d[i]
    BY DEF Rearranged
  <2>2. p[d[i].key] = d[i].value
    BY <1>1 DEF Holds
  <2> QED
    BY <2>1, <2>2
<1>3. ASSUME NEW k \in Key, p[k] # NoValue
      PROVE  \E n \in 1 .. Len(d) : e[n].key = k
  <2>1. PICK i \in 1 .. Len(d) : d[i].key = k
    BY <1>1, <1>3 DEF Holds
  <2> QED
    BY <2>1 DEF Rearranged
<1> QED
  BY <1>1, <1>2, <1>3 DEF Holds

\* dmap_sort of entries d of which n are sorted leaves a short part unsorted.
LEMMA SortKeeps ==
  ASSUME NEW d, NEW n \in 0 .. Len(d), NEW p, Proper(d), Holds(d, p), Ordered(d, 0, n),
         Sort(d, n)
  PROVE  /\ Proper(dentry') /\ Holds(dentry', p)
         /\ sorted' \in 0 .. Len(dentry') /\ Ordered(dentry', 0, sorted')
         /\ Len(dentry') - sorted' < Unsorted
<1>1. Len(d) \in Nat /\ Unsorted \in Nat \ {0}
  BY ProperIs, DictAssumption
<1>2. CASE SortIsDue(d, n)
  <2>1. dentry' = InOrder(d) /\ sorted' = Len(d)
    BY <1>2 DEF Sort
  <2>2. Rearranged(d, InOrder(d)) /\ Ordered(InOrder(d), 0, Len(d))
    BY InOrderIs
  <2>3. Holds(InOrder(d), p)
    BY <2>2, RearrangedHolds
  <2>4. Proper(InOrder(d)) /\ Len(InOrder(d)) = Len(d)
    BY <2>2 DEF Rearranged
  <2> QED
    BY <1>1, <2>1, <2>2, <2>3, <2>4
<1>3. CASE ~SortIsDue(d, n)
  <2>1. dentry' = d /\ sorted' = n
    BY <1>3 DEF Sort
  <2>2. Len(d) - n < Unsorted
    BY <1>1, <1>3 DEF SortIsDue
  <2> QED
    BY <2>1, <2>2
<1> QED
  BY <1>2, <1>3

\* q is p with the entries of t put in.
Adds(p, t, q) ==
  /\ \A i \in DOMAIN t : q[t[i].key] = t[i].value
  /\ \A k \in Key : (\A i \in DOMAIN t : t[i].key # k) => q[k] = p[k]

\* No entry of t is for a key that p has.
Fresh(p, t) == \A i \in DOMAIN t : p[t[i].key] = NoValue

LEMMA JoinKeeps ==
  ASSUME NEW d, NEW t, NEW p, NEW q, Proper(d), Proper(t), Holds(d, p), Fresh(p, t), Adds(p, t, q)
  PROVE  Proper(d \o t) /\ Holds(d \o t, q) /\ Len(d \o t) = Len(d) + Len(t)
<1> DEFINE m == Len(d)
           n == Len(t)
           e == d \o t
<1>1. m \in Nat /\ n \in Nat /\ DOMAIN d = 1 .. m /\ DOMAIN t = 1 .. n
  BY ProperIs
<1>2. d \in Seq(Entry) /\ t \in Seq(Entry)
  BY DEF Proper
<1>3. e \in Seq(Entry) /\ Len(e) = m + n /\ DOMAIN e = 1 .. (m + n)
  BY <1>2
<1>4. \A i \in 1 .. m : i \in 1 .. (m + n) /\ e[i] = d[i]
  BY <1>1, <1>2
<1>5. \A i \in 1 .. n : m + i \in 1 .. (m + n) /\ e[m + i] = t[i]
  BY <1>1, <1>2
<1>6. \A i \in 1 .. (m + n) : i \in 1 .. m \/ \E j \in 1 .. n : i = m + j
  <2> TAKE i \in 1 .. (m + n)
  <2>1. CASE i <= m
    BY <1>1, <2>1
  <2>2. CASE ~(i <= m)
    <3>1. i - m \in 1 .. n /\ i = m + (i - m)
      BY <1>1, <2>2
    <3> QED
      BY <3>1
  <2> QED
    BY <2>1, <2>2
<1> HIDE DEF m, n, e
<1>7. \A i \in 1 .. m, j \in 1 .. n : d[i].key # t[j].key
  <2> TAKE i \in 1 .. m, j \in 1 .. n
  <2>1. d[i] \in Entry /\ d[i].value \in Value
    BY ProperIs DEF m, Entry
  <2>2. p[d[i].key] = d[i].value /\ p[t[j].key] = NoValue
    BY <1>1 DEF Holds, Fresh
  <2> QED
    BY <2>1, <2>2, DictAssumption
<1>8. ASSUME NEW i \in 1 .. (m + n), NEW j \in 1 .. (m + n), e[i].key = e[j].key
      PROVE  i = j
  <2>1. CASE i \in 1 .. m
    <3>1. CASE j \in 1 .. m
      <4>1. d[i].key = d[j].key
        BY <1>4, <1>8, <2>1, <3>1
      <4> QED
        BY <2>1, <3>1, <4>1, ProperIs DEF m
    <3>2. CASE \E k \in 1 .. n : j = m + k
      BY <1>4, <1>5, <1>7, <1>8, <2>1, <3>2
    <3> QED
      BY <1>6, <3>1, <3>2
  <2>2. CASE \E k \in 1 .. n : i = m + k
    <3>1. PICK k \in 1 .. n : i = m + k
      BY <2>2
    <3>2. CASE j \in 1 .. m
      BY <1>4, <1>5, <1>7, <1>8, <3>1, <3>2
    <3>3. CASE \E l \in 1 .. n : j = m + l
      <4>1. PICK l \in 1 .. n : j = m + l
        BY <3>3
      <4>2. t[k].key = t[l].key
        BY <1>5, <1>8, <3>1, <4>1
      <4>3. k = l
        BY <4>2, ProperIs DEF n
      <4> QED
        BY <3>1, <4>1, <4>3
    <3> QED
      BY <1>6, <3>2, <3>3
  <2> QED
    BY <1>6, <2>1, <2>2
<1>9. Different(e)
  BY <1>3, <1>8 DEF Different
<1>10. ASSUME NEW i \in 1 .. (m + n)
       PROVE  q[e[i].key] = e[i].value
  <2>1. CASE i \in 1 .. m
    <3>1. d[i].key \in Key /\ \A j \in 1 .. n : t[j].key # d[i].key
      BY <1>7, <2>1, ProperIs DEF m
    <3>2. q[d[i].key] = p[d[i].key] /\ p[d[i].key] = d[i].value
      BY <1>1, <2>1, <3>1 DEF Adds, Holds
    <3> QED
      BY <1>4, <2>1, <3>2
  <2>2. CASE \E k \in 1 .. n : i = m + k
    BY <1>1, <1>5, <2>2 DEF Adds
  <2> QED
    BY <1>6, <2>1, <2>2
<1>11. ASSUME NEW k \in Key, q[k] # NoValue
       PROVE  \E i \in 1 .. (m + n) : e[i].key = k
  <2>1. CASE \E j \in 1 .. n : t[j].key = k
    BY <1>5, <2>1
  <2>2. CASE \A j \in 1 .. n : t[j].key # k
    <3>1. p[k] # NoValue
      BY <1>1, <1>11, <2>2 DEF Adds
    <3>2. PICK i \in 1 .. m : d[i].key = k
      BY <1>1, <3>1 DEF Holds
    <3> QED
      BY <1>4, <3>2
  <2> QED
    BY <2>1, <2>2
<1>12. Holds(e, q)
  BY <1>3, <1>10, <1>11 DEF Holds
<1> QED
  BY <1>3, <1>9, <1>12 DEF Proper, e, m, n

\* One entry behind the others.
LEMMA AppendKeeps ==
  ASSUME NEW d, NEW x \in Entry, NEW p, NEW q, Proper(d), Holds(d, p), p[x.key] = NoValue,
         q[x.key] = x.value, \A k \in Key : k # x.key => q[k] = p[k]
  PROVE  Proper(Append(d, x)) /\ Holds(Append(d, x), q) /\ Len(Append(d, x)) = Len(d) + 1
<1>1. d \in Seq(Entry)
  BY DEF Proper
<1>2. Append(d, x) = d \o <<x>>
  BY <1>1
<1>3. <<x>> \in Seq(Entry) /\ DOMAIN <<x>> = 1 .. 1 /\ <<x>>[1] = x /\ Len(<<x>>) = 1
  OBVIOUS
<1>4. \A i \in DOMAIN <<x>> : i = 1
  BY <1>3
<1>5. Proper(<<x>>)
  BY <1>3, <1>4 DEF Proper, Different
<1>6. Fresh(p, <<x>>) /\ Adds(p, <<x>>, q)
  BY <1>3, <1>4 DEF Fresh, Adds
<1>7. Proper(d \o <<x>>) /\ Holds(d \o <<x>>, q) /\ Len(d \o <<x>>) = Len(d) + Len(<<x>>)
  BY <1>5, <1>6, JoinKeeps
<1> QED
  BY <1>2, <1>3, <1>7

\* What is behind the sorted part does not matter to it.
LEMMA OrderedBefore ==
  ASSUME NEW d, NEW t, NEW n \in 0 .. Len(d), Proper(d), Proper(t), Ordered(d, 0, n)
  PROVE  Ordered(d \o t, 0, n)
<1>1. Len(d) \in Nat /\ d \in Seq(Entry) /\ t \in Seq(Entry)
  BY ProperIs DEF Proper
<1>2. \A i \in (0 + 1) .. n : (d \o t)[i] = d[i]
  BY <1>1
<1> QED
  BY <1>2 DEF Ordered

\* An entry is taken out: those behind it move one place down.
LEMMA RemoveAtIs ==
  ASSUME NEW d \in Seq(Entry), NEW l \in 1 .. Len(d)
  PROVE  /\ S!RemoveAt(d, l) \in Seq(Entry)
         /\ Len(S!RemoveAt(d, l)) = Len(d) - 1
         /\ DOMAIN S!RemoveAt(d, l) = 1 .. (Len(d) - 1)
         /\ \A i \in 1 .. (Len(d) - 1) : S!RemoveAt(d, l)[i] = IF i < l THEN d[i] ELSE d[i + 1]
<1> DEFINE a == SubSeq(d, 1, l - 1)
           b == SubSeq(d, l + 1, Len(d))
<1>1. Len(d) \in Nat /\ l - 1 \in 0 .. Len(d)
  OBVIOUS
<1>2. a \in Seq(Entry) /\ Len(a) = l - 1 /\ \A i \in 1 .. (l - 1) : a[i] = d[i]
  BY <1>1
<1>3. b \in Seq(Entry) /\ Len(b) = Len(d) - l
      /\ \A i \in 1 .. (Len(d) - l) : b[i] = d[l + i]
  BY <1>1
<1>4. S!RemoveAt(d, l) = a \o b
  BY DEF S!RemoveAt
<1> HIDE DEF a, b
<1>5. a \o b \in Seq(Entry) /\ Len(a \o b) = Len(d) - 1 /\ DOMAIN (a \o b) = 1 .. (Len(d) - 1)
  <2>1. a \o b \in Seq(Entry) /\ Len(a \o b) = Len(a) + Len(b)
    <3>1. a \in Seq(Entry) /\ b \in Seq(Entry)
      BY <1>2, <1>3
    <3> QED
      BY <3>1
  <2>2. (l - 1) + (Len(d) - l) = Len(d) - 1
    BY <1>1
  <2> QED
    BY <1>2, <1>3, <2>1, <2>2
<1>6. ASSUME NEW i \in 1 .. (Len(d) - 1)
      PROVE  (a \o b)[i] = IF i < l THEN d[i] ELSE d[i + 1]
  <2>1. CASE i < l
    BY <1>1, <1>2, <1>3, <2>1
  <2>2. CASE ~(i < l)
    <3>1. i - (l - 1) \in 1 .. (Len(d) - l) /\ l + (i - (l - 1)) = i + 1
      BY <1>1, <2>2
    <3>2. (a \o b)[i] = b[i - (l - 1)]
      BY <1>1, <1>2, <1>3, <2>2
    <3> QED
      BY <1>3, <2>2, <3>1, <3>2
  <2> QED
    BY <2>1, <2>2
<1> QED
  BY <1>4, <1>5, <1>6

-----------------------------------------------------------------------------
(* The calls.                                                              *)

Typed ==
  /\ user \in User
  /\ promised \in [Key -> Value \cup {NoValue}]

\* The invariant, in terms of the entries.
LEMMA InvIs ==
  DictInv <=> /\ Typed
              /\ Proper(dentry) /\ Holds(dentry, promised)
              /\ sorted \in 0 .. Len(dentry) /\ Ordered(dentry, 0, sorted)
              /\ user \in {"map", "functions"} => Len(dentry) - sorted < Unsorted
              /\ user = "symbols" => Searchable(dentry, sorted, Len(dentry))
BY DEF DictInv, Typed, TypeOK, Proper, SortedInTime, Tail0, size, Entry

LEMMA InvPrimeIs ==
  DictInv' <=> /\ Typed'
               /\ Proper(dentry') /\ Holds(dentry', promised')
               /\ sorted' \in 0 .. Len(dentry') /\ Ordered(dentry', 0, sorted')
               /\ user' \in {"map", "functions"} => Len(dentry') - sorted' < Unsorted
               /\ user' = "symbols" => Searchable(dentry', sorted', Len(dentry'))
BY DEF DictInv, Typed, TypeOK, Proper, SortedInTime, Tail0, size, Entry

LEMMA InvLoc ==
  ASSUME DictInv, NEW k \in Key, user \in {"map", "symbols"}
  PROVE  Finds(Loc(k), 0, Len(dentry), k)
<1>1. Well
  BY DEF DictInv, Well
<1>2. Searchable(dentry, sorted, size)
  BY DEF DictInv, SortedInTime, Searchable, Tail0
<1> QED
  BY <1>1, <1>2, LocFinds DEF DictInv, size

Replaced(d, l, v) == [d EXCEPT ![l] = [key |-> @.key, value |-> v]]

\* A set of a key the dictionary has changes its value in place.
LEMMA ReplaceKeeps ==
  ASSUME NEW d, NEW l \in 1 .. Len(d), NEW p, NEW q, NEW v \in Value, Proper(d), Holds(d, p),
         q[d[l].key] = v, \A k \in Key : k # d[l].key => q[k] = p[k]
  PROVE  /\ Proper(Replaced(d, l, v)) /\ Holds(Replaced(d, l, v), q)
         /\ Len(Replaced(d, l, v)) = Len(d)
         /\ \A i \in 1 .. Len(d) : Replaced(d, l, v)[i].key = d[i].key
<1> DEFINE N == 1 .. Len(d)
           e == Replaced(d, l, v)
<1>1. DOMAIN d = N /\ Len(d) \in Nat /\ d \in Seq(Entry)
  BY ProperIs DEF Proper
<1>2. \A i \in N : d[i] \in Entry /\ d[i].key \in Key
  BY ProperIs
<1>3. \A i \in N : e[i] = IF i = l THEN [key |-> d[l].key, value |-> v] ELSE d[i]
  BY <1>1 DEF Replaced
<1>4. \A i \in N : e[i] \in Entry
  BY <1>2, <1>3 DEF Entry
<1>5. DOMAIN e = N
  BY <1>1 DEF Replaced
<1>6. e \in Seq(Entry) /\ Len(e) = Len(d)
  <2>1. e \in [1 .. Len(d) -> Entry]
    BY <1>1, <1>4 DEF Replaced
  <2>2. e \in Seq(Entry)
    BY <1>1, <2>1
  <2> QED
    BY <1>1, <1>5, <2>2
<1> HIDE DEF e
<1>7. \A i \in N : e[i].key = d[i].key /\ e[i].value = IF i = l THEN v ELSE d[i].value
  BY <1>3
<1>8. Different(e)
  BY <1>5, <1>7, ProperIs DEF Different
<1>9. ASSUME NEW i \in N
      PROVE  q[e[i].key] = e[i].value
  <2>1. CASE i = l
    BY <1>7, <2>1
  <2>2. CASE i # l
    <3>1. d[i].key # d[l].key
      BY <2>2, ProperIs
    <3>2. q[d[i].key] = p[d[i].key] /\ p[d[i].key] = d[i].value
      BY <1>1, <1>2, <3>1 DEF Holds
    <3> QED
      BY <1>7, <2>2, <3>2
  <2> QED
    BY <2>1, <2>2
<1>10. ASSUME NEW k \in Key, q[k] # NoValue
       PROVE  \E i \in N : e[i].key = k
  <2>1. CASE k = d[l].key
    BY <1>7, <2>1
  <2>2. CASE k # d[l].key
    <3>1. PICK i \in N : d[i].key = k
      BY <1>1, <1>10, <2>2 DEF Holds
    <3> QED
      BY <1>7, <3>1
  <2> QED
    BY <2>1, <2>2
<1> QED
  BY <1>5, <1>6, <1>7, <1>8, <1>9, <1>10 DEF Holds, Proper, e

LEMMA SetKeeps ==
  ASSUME DictInv, NEW k \in Key, NEW v \in Value, Set(k, v)
  PROVE  DictInv'
<1>1. /\ Typed /\ Proper(dentry) /\ Holds(dentry, promised)
      /\ sorted \in 0 .. Len(dentry) /\ Ordered(dentry, 0, sorted)
      /\ user \in {"map", "functions"} => Len(dentry) - sorted < Unsorted
  BY InvIs
<1>2. user' = user /\ (user = "map" \/ (user = "symbols" /\ Loc(k) = None))
  BY DEF Set
<1>3. promised' = [promised EXCEPT ![k] = v]
  BY DEF Set, Promise!Set
<1>4. Typed' /\ promised'[k] = v /\ \A j \in Key : j # k => promised'[j] = promised[j]
  BY <1>1, <1>2, <1>3 DEF Typed
<1>5. Finds(Loc(k), 0, Len(dentry), k)
  BY <1>2, InvLoc
<1> DEFINE x == [key |-> k, value |-> v]
<1>6. CASE Loc(k) = None
  <2>1. Sort(Append(dentry, x), sorted)
    BY <1>6 DEF Set
  <2>2. promised[k] = NoValue
    <3>1. DOMAIN dentry = 1 .. Len(dentry)
      BY <1>1, ProperIs
    <3>2. \A i \in 1 .. Len(dentry) : dentry[i].key # k
      BY <1>5, <1>6 DEF Finds, None
    <3> QED
      BY <1>1, <3>1, <3>2 DEF Holds
  <2>3. x \in Entry /\ x.key = k /\ x.value = v
    BY DEF Entry
  <2> HIDE DEF x
  <2>4. /\ Proper(Append(dentry, x)) /\ Holds(Append(dentry, x), promised')
        /\ Len(Append(dentry, x)) = Len(dentry) + 1
    BY <1>1, <1>4, <2>2, <2>3, AppendKeeps
  <2>5. Ordered(Append(dentry, x), 0, sorted)
    <3>1. \A i \in (0 + 1) .. sorted : Append(dentry, x)[i] = dentry[i]
      BY <1>1, <2>3 DEF Proper
    <3> QED
      BY <1>1, <3>1 DEF Ordered
  <2>6. sorted \in 0 .. Len(Append(dentry, x))
    BY <1>1, <2>4, ProperIs
  <2>7. /\ Proper(dentry') /\ Holds(dentry', promised')
        /\ sorted' \in 0 .. Len(dentry') /\ Ordered(dentry', 0, sorted')
        /\ Len(dentry') - sorted' < Unsorted
    BY <2>1, <2>4, <2>5, <2>6, SortKeeps
  <2> QED
    BY <1>4, <2>7, InvPrimeIs DEF Searchable
<1>7. CASE Loc(k) # None
  <2>1. dentry' = [dentry EXCEPT ![Loc(k)] = [key |-> @.key, value |-> v]] /\ sorted' = sorted
    BY <1>7 DEF Set
  <2>2. Loc(k) \in 1 .. Len(dentry) /\ dentry[Loc(k)].key = k
    BY <1>5, <1>7 DEF Finds
  <2>3. user = "map"
    BY <1>2, <1>7
  <2>4. PICK l \in 1 .. Len(dentry) : l = Loc(k)
    BY <2>2
  <2>5. PICK e : e = Replaced(dentry, l, v)
    OBVIOUS
  <2>6. PICK q : q = promised'
    OBVIOUS
  <2>7. q[dentry[l].key] = v /\ \A j \in Key : j # dentry[l].key => q[j] = promised[j]
    BY <1>4, <2>2, <2>4, <2>6
  <2>8. /\ Proper(e) /\ Holds(e, q) /\ Len(e) = Len(dentry)
        /\ \A i \in 1 .. Len(dentry) : e[i].key = dentry[i].key
    BY <1>1, <2>5, <2>7, ReplaceKeeps
  <2>9. dentry' = e
    BY <2>1, <2>4, <2>5 DEF Replaced
  <2>10. Ordered(e, 0, sorted)
    <3>1. \A i \in (0 + 1) .. sorted : i \in 1 .. Len(dentry)
      BY <1>1, ProperIs
    <3> QED
      BY <1>1, <2>8, <3>1 DEF Ordered
  <2> QED
    BY <1>1, <1>2, <1>4, <2>1, <2>3, <2>6, <2>8, <2>9, <2>10, InvPrimeIs
<1> QED
  BY <1>6, <1>7

LEMMA RemoveKeeps ==
  ASSUME DictInv, NEW k \in Key, Remove(k)
  PROVE  DictInv'
<1>1. /\ Typed /\ Proper(dentry) /\ Holds(dentry, promised)
      /\ sorted \in 0 .. Len(dentry) /\ Ordered(dentry, 0, sorted)
      /\ user \in {"map", "functions"} => Len(dentry) - sorted < Unsorted
  BY InvIs
<1>2. user' = user /\ user = "map"
  BY DEF Remove
<1>3. promised' = [promised EXCEPT ![k] = NoValue]
  BY DEF Remove, Promise!Remove
<1>4. Typed' /\ promised'[k] = NoValue /\ \A j \in Key : j # k => promised'[j] = promised[j]
  BY <1>1, <1>2, <1>3 DEF Typed
<1>5. Finds(Loc(k), 0, Len(dentry), k)
  BY <1>2, InvLoc
<1>6. DOMAIN dentry = 1 .. Len(dentry) /\ Len(dentry) \in Nat
  BY <1>1, ProperIs
<1>7. CASE Loc(k) = None
  <2>1. dentry' = dentry /\ sorted' = sorted
    BY <1>7 DEF Remove
  <2>2. \A i \in 1 .. Len(dentry) : dentry[i].key # k /\ dentry[i].key \in Key
    BY <1>1, <1>5, <1>7, ProperIs DEF Finds, None
  <2>3. Holds(dentry, promised')
    BY <1>1, <1>4, <1>6, <2>2 DEF Holds
  <2> QED
    BY <1>1, <1>2, <1>4, <2>1, <2>3, InvPrimeIs
<1>8. CASE Loc(k) # None
  <2>1. PICK l \in 1 .. Len(dentry) : l = Loc(k) /\ dentry[l].key = k
    BY <1>5, <1>8 DEF Finds
  <2>2. dentry' = S!RemoveAt(dentry, l) /\ sorted' = IF l <= sorted THEN sorted - 1 ELSE sorted
    BY <1>8, <2>1 DEF Remove, DropEntry
  <2>3. PICK e : e = S!RemoveAt(dentry, l)
    OBVIOUS
  <2> DEFINE n == Len(dentry) - 1
  <2>4. /\ e \in Seq(Entry) /\ Len(e) = n /\ DOMAIN e = 1 .. n
        /\ \A i \in 1 .. n : e[i] = IF i < l THEN dentry[i] ELSE dentry[i + 1]
    BY <1>1, <2>3, RemoveAtIs DEF Proper
  <2>5. n \in Nat /\ n + 1 = Len(dentry)
    BY <1>6, <2>1
  <2> DEFINE up(i) == IF i < l THEN i ELSE i + 1
  <2>6. \A i \in 1 .. n : up(i) \in 1 .. Len(dentry) /\ up(i) # l /\ e[i] = dentry[up(i)]
    BY <2>1, <2>4, <2>5
  <2>7. \A i, j \in 1 .. n : (i = j <=> up(i) = up(j)) /\ (i < j <=> up(i) < up(j))
    BY <2>1, <2>5
  <2>8. \A i \in 1 .. Len(dentry) : i # l => \E j \in 1 .. n : up(j) = i
    <3> SUFFICES ASSUME NEW i \in 1 .. Len(dentry), i # l
                 PROVE  \E j \in 1 .. n : up(j) = i
      OBVIOUS
    <3>1. CASE i < l
      <4>1. i \in 1 .. n /\ up(i) = i
        BY <2>1, <2>5, <3>1
      <4> QED
        BY <4>1
    <3>2. CASE ~(i < l)
      <4>1. i - 1 \in 1 .. n /\ up(i - 1) = i
        BY <2>1, <2>5, <3>2
      <4> QED
        BY <4>1
    <3> QED
      BY <3>1, <3>2
  <2>9. \A i \in 1 .. sorted' : i \in 1 .. n /\ up(i) \in (0 + 1) .. sorted
    BY <1>1, <1>6, <2>1, <2>2, <2>5
  <2>10. sorted' \in 0 .. n /\ n - sorted' < Unsorted
    BY <1>1, <1>2, <1>6, <2>1, <2>2, <2>5, DictAssumption
  <2> HIDE DEF n, up
  <2>11. Proper(e)
    <3>1. ASSUME NEW i \in 1 .. n, NEW j \in 1 .. n, i # j
          PROVE  e[i].key # e[j].key
      <4>1. up(i) # up(j) /\ up(i) \in 1 .. Len(dentry) /\ up(j) \in 1 .. Len(dentry)
        BY <2>6, <2>7, <3>1
      <4>2. dentry[up(i)].key # dentry[up(j)].key
        BY <1>1, <4>1, ProperIs
      <4> QED
        BY <2>6, <4>2
    <3> QED
      BY <2>4, <3>1 DEF Proper, Different
  <2>12. Holds(e, promised')
    <3>1. ASSUME NEW i \in 1 .. n
          PROVE  promised'[e[i].key] = e[i].value
      <4>1. up(i) \in 1 .. Len(dentry) /\ up(i) # l /\ e[i] = dentry[up(i)]
        BY <2>6
      <4>2. dentry[up(i)].key \in Key /\ dentry[up(i)].key # k
        BY <1>1, <2>1, <4>1, ProperIs
      <4>3. promised[dentry[up(i)].key] = dentry[up(i)].value
        BY <1>1, <1>6, <4>1 DEF Holds
      <4> QED
        BY <1>4, <4>1, <4>2, <4>3
    <3>2. ASSUME NEW j \in Key, promised'[j] # NoValue
          PROVE  \E i \in 1 .. n : e[i].key = j
      <4>1. j # k /\ promised[j] # NoValue
        BY <1>4, <3>2
      <4>2. PICK i \in 1 .. Len(dentry) : dentry[i].key = j
        BY <1>1, <1>6, <4>1 DEF Holds
      <4>3. PICK m \in 1 .. n : up(m) = i
        BY <2>1, <2>8, <4>1, <4>2
      <4> QED
        BY <2>6, <4>2, <4>3
    <3> QED
      BY <2>4, <3>1, <3>2 DEF Holds
  <2>13. Ordered(e, 0, sorted')
    <3> SUFFICES ASSUME NEW i \in 1 .. sorted', NEW j \in 1 .. sorted', i < j
                 PROVE  Before(e[i].key, e[j].key)
      BY DEF Ordered
    <3>1. i \in 1 .. n /\ j \in 1 .. n /\ up(i) \in (0 + 1) .. sorted /\ up(j) \in (0 + 1) .. sorted
      BY <2>9
    <3>2. up(i) < up(j) /\ e[i] = dentry[up(i)] /\ e[j] = dentry[up(j)]
      BY <2>6, <2>7, <3>1
    <3> QED
      BY <1>1, <3>1, <3>2 DEF Ordered
  <2>14. dentry' = e
    BY <2>2, <2>3
  <2> QED
    BY <1>2, <1>4, <2>4, <2>10, <2>11, <2>12, <2>13, <2>14, InvPrimeIs
<1> QED
  BY <1>7, <1>8

\* A table has entries for keys the dictionary has not, each key once.
LEMMA TablesAre ==
  ASSUME NEW t \in Tables
  PROVE  Proper(t) /\ Fresh(promised, t)
<1> DEFINE keys == {k \in Key : promised[k] = NoValue}
<1>1. PICK s \in S!BoundedSeq(keys, MaxTable) :
        /\ s # <<>> /\ S!IsInjective(s)
        /\ \E f \in [DOMAIN s -> Value] : t = [i \in DOMAIN s |-> [key |-> s[i], value |-> f[i]]]
  BY DEF Tables
<1>2. PICK f \in [DOMAIN s -> Value] : t = [i \in DOMAIN s |-> [key |-> s[i], value |-> f[i]]]
  BY <1>1
<1>3. PICK m \in 0 .. MaxTable : s \in [1 .. m -> keys]
  BY DEF S!BoundedSeq, S!SeqOf
<1>4. m \in Nat /\ DOMAIN s = 1 .. m
  BY <1>3, DictAssumption
<1>5. \A i \in 1 .. m : t[i] \in Entry /\ t[i].key = s[i] /\ s[i] \in keys
  BY <1>2, <1>3, <1>4 DEF Entry
<1>6. DOMAIN t = 1 .. m
  BY <1>2, <1>4
<1>7. t \in Seq(Entry)
  <2>1. t \in [1 .. m -> Entry]
    <3>1. t = [i \in 1 .. m |-> t[i]]
      BY <1>2, <1>4
    <3> QED
      BY <1>5, <3>1
  <2> QED
    BY <1>4, <2>1
<1>8. \A i, j \in 1 .. m : s[i] = s[j] => i = j
  BY <1>1, <1>4 DEF S!IsInjective
<1> QED
  BY <1>5, <1>6, <1>7, <1>8 DEF Proper, Different, Fresh

\* The calls promise what the table holds, on top of what was promised.
LEMMA PromiseAllAdds ==
  ASSUME Typed, NEW t, Proper(t), PromiseAll(t)
  PROVE  Adds(promised, t, promised') /\ promised' \in [Key -> Value \cup {NoValue}]
<1>1. \A i \in DOMAIN t : t[i] \in Entry /\ t[i].key \in Key /\ t[i].value \in Value
  BY ProperIs DEF Entry
<1>2. \A k \in Key : promised'[k] = IF \E i \in DOMAIN t : t[i].key = k
                                    THEN t[CHOOSE i \in DOMAIN t : t[i].key = k].value
                                    ELSE promised[k]
  BY DEF PromiseAll
<1>3. ASSUME NEW i \in DOMAIN t
      PROVE  promised'[t[i].key] = t[i].value
  <2>1. PICK k \in Key : k = t[i].key
    BY <1>1
  <2> DEFINE c == CHOOSE j \in DOMAIN t : t[j].key = k
  <2>2. c \in DOMAIN t /\ t[c].key = k
    BY <2>1
  <2>3. promised'[k] = t[c].value
    BY <1>2, <2>1
  <2> HIDE DEF c
  <2>4. c = i
    BY <2>1, <2>2 DEF Proper, Different
  <2> QED
    BY <2>1, <2>3, <2>4
<1>4. \A k \in Key : (\A i \in DOMAIN t : t[i].key # k) => promised'[k] = promised[k]
  BY <1>2
<1>5. \A k \in Key : promised'[k] \in Value \cup {NoValue}
  <2> TAKE k \in Key
  <2>1. CASE \E i \in DOMAIN t : t[i].key = k
    <3>1. PICK i \in DOMAIN t : t[i].key = k
      BY <2>1
    <3> QED
      BY <1>1, <1>3, <3>1
  <2>2. CASE \A i \in DOMAIN t : t[i].key # k
    <3>1. promised[k] \in Value \cup {NoValue}
      BY DEF Typed
    <3> QED
      BY <1>4, <2>2, <3>1
  <2> QED
    BY <2>1, <2>2
<1>6. promised' = [k \in Key |-> promised'[k]]
  BY DEF PromiseAll
<1>7. promised' \in [Key -> Value \cup {NoValue}]
  BY <1>5, <1>6
<1> QED
  BY <1>3, <1>4, <1>7 DEF Adds

LEMMA LoadFunctionsKeeps ==
  ASSUME DictInv, LoadFunctions
  PROVE  DictInv'
<1>1. /\ Typed /\ Proper(dentry) /\ Holds(dentry, promised)
      /\ sorted \in 0 .. Len(dentry) /\ Ordered(dentry, 0, sorted)
  BY InvIs
<1>2. PICK t \in Tables : Sort(dentry \o t, sorted) /\ PromiseAll(t)
  BY DEF LoadFunctions
<1>3. Proper(t) /\ Fresh(promised, t)
  BY TablesAre
<1>4. Adds(promised, t, promised') /\ promised' \in [Key -> Value \cup {NoValue}]
  BY <1>1, <1>2, <1>3, PromiseAllAdds
<1>5. /\ Proper(dentry \o t) /\ Holds(dentry \o t, promised')
      /\ Len(dentry \o t) = Len(dentry) + Len(t)
  BY <1>1, <1>3, <1>4, JoinKeeps
<1>6. Ordered(dentry \o t, 0, sorted)
  BY <1>1, <1>3, OrderedBefore
<1>7. sorted \in 0 .. Len(dentry \o t)
  BY <1>1, <1>3, <1>5, ProperIs
<1>8. /\ Proper(dentry') /\ Holds(dentry', promised')
      /\ sorted' \in 0 .. Len(dentry') /\ Ordered(dentry', 0, sorted')
      /\ Len(dentry') - sorted' < Unsorted
  BY <1>2, <1>5, <1>6, <1>7, SortKeeps
<1>9. Typed'
  BY <1>1, <1>4 DEF LoadFunctions, Typed
<1> QED
  BY <1>8, <1>9, InvPrimeIs DEF Searchable

\* A table put into the empty dictionary.
LEMMA FirstTable ==
  ASSUME DictInv, dentry = <<>>, NEW t \in Tables, PromiseAll(t), dentry' = t, sorted' = sorted,
         user' = user
  PROVE  /\ Typed' /\ Proper(dentry') /\ Holds(dentry', promised')
         /\ sorted' = 0 /\ sorted' \in 0 .. Len(dentry') /\ Ordered(dentry', 0, sorted')
<1>1. /\ Typed /\ Proper(dentry) /\ Holds(dentry, promised) /\ sorted \in 0 .. Len(dentry)
  BY InvIs
<1>2. Proper(t) /\ Fresh(promised, t)
  BY TablesAre
<1>3. Adds(promised, t, promised') /\ promised' \in [Key -> Value \cup {NoValue}]
  BY <1>1, <1>2, PromiseAllAdds
<1>4. Proper(dentry \o t) /\ Holds(dentry \o t, promised')
  BY <1>1, <1>2, <1>3, JoinKeeps
<1>5. dentry \o t = t
  BY <1>2 DEF Proper
<1>6. sorted' = 0 /\ Len(t) \in Nat
  BY <1>1, <1>2, ProperIs
<1>7. Ordered(t, 0, 0)
  BY DEF Ordered
<1> QED
  BY <1>1, <1>3, <1>4, <1>5, <1>6, <1>7 DEF Typed

LEMMA LoadSymbolsKeeps ==
  ASSUME DictInv, LoadSymbols
  PROVE  DictInv'
<1>1. PICK t \in Tables : /\ \A i, j \in DOMAIN t : i < j => Before(t[i].key, t[j].key)
                          /\ dentry' = t /\ PromiseAll(t)
  BY DEF LoadSymbols
<1>2. user = "symbols" /\ dentry = <<>> /\ user' = user /\ sorted' = sorted
  BY DEF LoadSymbols
<1>3. /\ Typed' /\ Proper(dentry') /\ Holds(dentry', promised')
      /\ sorted' = 0 /\ sorted' \in 0 .. Len(dentry') /\ Ordered(dentry', 0, sorted')
  BY <1>1, <1>2, FirstTable
<1>4. Ordered(t, 0, Len(t))
  <2>1. DOMAIN t = 1 .. Len(t)
    BY <1>1, <1>3, ProperIs
  <2> QED
    BY <1>1, <2>1 DEF Ordered
<1> QED
  BY <1>1, <1>2, <1>3, <1>4, InvPrimeIs DEF Searchable

LEMMA ObjectMapKeeps ==
  ASSUME DictInv, ObjectMap
  PROVE  DictInv'
<1>1. PICK t \in Tables : dentry' = t /\ PromiseAll(t)
  BY DEF ObjectMap
<1>2. user = "object" /\ dentry = <<>> /\ user' = user /\ sorted' = sorted
  BY DEF ObjectMap
<1>3. /\ Typed' /\ Proper(dentry') /\ Holds(dentry', promised')
      /\ sorted' = 0 /\ sorted' \in 0 .. Len(dentry') /\ Ordered(dentry', 0, sorted')
  BY <1>1, <1>2, FirstTable
<1> QED
  BY <1>2, <1>3, InvPrimeIs

\* A class with both names.
TwoNames(t) ==
  /\ Len(t) = 2
  /\ dentry' = Append(IF SortIsDue(Append(dentry, t[1]), sorted)
                      THEN InOrder(Append(dentry, t[1])) ELSE Append(dentry, t[1]), t[2])
  /\ sorted' = IF SortIsDue(Append(dentry, t[1]), sorted)
               THEN Len(Append(dentry, t[1])) ELSE sorted

LEMMA TwoNamesKeep ==
  ASSUME DictInv, NEW t \in Tables, TwoNames(t), PromiseAll(t), user = "classes", user' = user
  PROVE  DictInv'
<1>1. /\ Typed /\ Proper(dentry) /\ Holds(dentry, promised)
      /\ sorted \in 0 .. Len(dentry) /\ Ordered(dentry, 0, sorted)
  BY InvIs
<1>2. /\ Len(t) = 2 /\ PromiseAll(t)
      /\ dentry' = Append(IF SortIsDue(Append(dentry, t[1]), sorted)
                          THEN InOrder(Append(dentry, t[1])) ELSE Append(dentry, t[1]), t[2])
      /\ sorted' = IF SortIsDue(Append(dentry, t[1]), sorted)
                   THEN Len(Append(dentry, t[1])) ELSE sorted
  BY DEF TwoNames
<1>3. Proper(t) /\ Fresh(promised, t)
  BY TablesAre
<1>4. Adds(promised, t, promised') /\ promised' \in [Key -> Value \cup {NoValue}]
  BY <1>1, <1>2, <1>3, PromiseAllAdds
<1>5. DOMAIN t = 1 .. 2 /\ t[1] \in Entry /\ t[2] \in Entry /\ t[1].key # t[2].key
      /\ t[1].key \in Key /\ t[2].key \in Key
  <2>1. 1 \in 1 .. 2 /\ 2 \in 1 .. 2 /\ 1 # 2
    OBVIOUS
  <2> QED
    BY <1>2, <1>3, <2>1, ProperIs
<1> DEFINE q == [promised EXCEPT ![t[1].key] = t[1].value]
<1>6. q[t[1].key] = t[1].value /\ \A k \in Key : k # t[1].key => q[k] = promised[k]
  BY <1>1, <1>5 DEF Typed
<1> HIDE DEF q
<1>7. promised[t[1].key] = NoValue /\ promised[t[2].key] = NoValue
  BY <1>3, <1>5 DEF Fresh
<1>8. PICK d : d = Append(dentry, t[1])
  OBVIOUS
<1>9. Proper(d) /\ Holds(d, q) /\ Len(d) = Len(dentry) + 1
  BY <1>1, <1>5, <1>6, <1>7, <1>8, AppendKeeps
<1>10. Ordered(d, 0, sorted)
  <2>1. \A i \in (0 + 1) .. sorted : d[i] = dentry[i]
    BY <1>1, <1>5, <1>8 DEF Proper
  <2> QED
    BY <1>1, <2>1 DEF Ordered
<1>11. PICK e : e = IF SortIsDue(d, sorted) THEN InOrder(d) ELSE d
  OBVIOUS
<1>12. Proper(e) /\ Holds(e, q) /\ Len(e) = Len(d) /\ sorted' \in 0 .. Len(d) /\ Ordered(e, 0, sorted')
  <2>1. CASE SortIsDue(d, sorted)
    <3>1. Rearranged(d, InOrder(d)) /\ Ordered(InOrder(d), 0, Len(d))
      BY <1>9, InOrderIs
    <3>2. Holds(InOrder(d), q)
      BY <1>9, <3>1, RearrangedHolds
    <3>3. Len(d) \in Nat
      BY <1>9, ProperIs
    <3>4. e = InOrder(d) /\ sorted' = Len(d)
      BY <1>2, <1>8, <1>11, <2>1
    <3> QED
      BY <3>1, <3>2, <3>3, <3>4 DEF Rearranged
  <2>2. CASE ~SortIsDue(d, sorted)
    <3>1. Len(dentry) \in Nat
      BY <1>1, ProperIs
    <3>2. e = d /\ sorted' = sorted
      BY <1>2, <1>8, <1>11, <2>2
    <3> QED
      BY <1>1, <1>9, <1>10, <3>1, <3>2
  <2> QED
    BY <2>1, <2>2
<1>13. q[t[2].key] = NoValue /\ promised'[t[2].key] = t[2].value
       /\ \A k \in Key : k # t[2].key => promised'[k] = q[k]
  <2>1. promised'[t[1].key] = t[1].value /\ promised'[t[2].key] = t[2].value
    BY <1>4, <1>5 DEF Adds
  <2>2. ASSUME NEW k \in Key, k # t[1].key, k # t[2].key
        PROVE  promised'[k] = promised[k]
    <3>1. \A i \in DOMAIN t : t[i].key # k
      <4>1. \A i \in 1 .. 2 : i = 1 \/ i = 2
        OBVIOUS
      <4> QED
        BY <1>5, <2>2, <4>1
    <3> QED
      BY <1>4, <3>1 DEF Adds
  <2>3. q[t[2].key] = NoValue
    BY <1>5, <1>6, <1>7
  <2>4. ASSUME NEW k \in Key, k # t[2].key
        PROVE  promised'[k] = q[k]
    <3>1. CASE k = t[1].key
      BY <1>6, <2>1, <3>1
    <3>2. CASE k # t[1].key
      BY <1>6, <2>2, <2>4, <3>2
    <3> QED
      BY <3>1, <3>2
  <2> QED
    BY <2>1, <2>3, <2>4
<1>14. dentry' = Append(e, t[2])
  BY <1>2, <1>8, <1>11
<1>15. PICK r : r = promised'
  OBVIOUS
<1>16. /\ Proper(Append(e, t[2])) /\ Holds(Append(e, t[2]), r)
       /\ Len(Append(e, t[2])) = Len(e) + 1
  <2>1. q[t[2].key] = NoValue /\ r[t[2].key] = t[2].value /\ \A k \in Key : k # t[2].key => r[k] = q[k]
    BY <1>13, <1>15
  <2> QED
    BY <1>5, <1>12, <2>1, AppendKeeps
<1>17. Ordered(dentry', 0, sorted')
  <2>1. \A i \in (0 + 1) .. sorted' : Append(e, t[2])[i] = e[i]
    BY <1>5, <1>12 DEF Proper
  <2> QED
    BY <1>12, <1>14, <2>1 DEF Ordered
<1>18. sorted' \in 0 .. Len(dentry')
  <2>1. Len(d) \in Nat
    BY <1>9, ProperIs
  <2> QED
    BY <1>12, <1>14, <1>16, <2>1
<1>19. user = "classes" /\ user' = user /\ Typed'
  BY <1>1, <1>4 DEF Typed
<1> QED
  BY <1>14, <1>15, <1>16, <1>17, <1>18, <1>19, InvPrimeIs

LEMMA SetClassNameKeeps ==
  ASSUME DictInv, SetClassName
  PROVE  DictInv'
<1>1. /\ Typed /\ Proper(dentry) /\ Holds(dentry, promised)
      /\ sorted \in 0 .. Len(dentry) /\ Ordered(dentry, 0, sorted)
  BY InvIs
<1>2. PICK t \in Tables :
        /\ \/ Sort(dentry \o t, sorted)
           \/ dentry' = dentry \o t /\ sorted' = sorted
           \/ TwoNames(t)
        /\ PromiseAll(t)
  BY DEF SetClassName, TwoNames
<1>3. user = "classes" /\ user' = user
  BY DEF SetClassName
<1>4. CASE TwoNames(t)
  BY <1>2, <1>3, <1>4, TwoNamesKeep
<1>5. Proper(t) /\ Fresh(promised, t)
  BY TablesAre
<1>6. Adds(promised, t, promised') /\ promised' \in [Key -> Value \cup {NoValue}]
  BY <1>1, <1>2, <1>5, PromiseAllAdds
<1>7. /\ Proper(dentry \o t) /\ Holds(dentry \o t, promised')
      /\ Len(dentry \o t) = Len(dentry) + Len(t)
  BY <1>1, <1>5, <1>6, JoinKeeps
<1>8. Ordered(dentry \o t, 0, sorted)
  BY <1>1, <1>5, OrderedBefore
<1>9. sorted \in 0 .. Len(dentry \o t)
  BY <1>1, <1>5, <1>7, ProperIs
<1>10. Typed'
  BY <1>1, <1>3, <1>6 DEF Typed
<1>11. CASE Sort(dentry \o t, sorted)
  <2>1. /\ Proper(dentry') /\ Holds(dentry', promised')
        /\ sorted' \in 0 .. Len(dentry') /\ Ordered(dentry', 0, sorted')
    BY <1>7, <1>8, <1>9, <1>11, SortKeeps
  <2> QED
    BY <1>3, <1>10, <2>1, InvPrimeIs
<1>12. CASE dentry' = dentry \o t /\ sorted' = sorted
  BY <1>3, <1>7, <1>8, <1>9, <1>10, <1>12, InvPrimeIs
<1> QED
  BY <1>2, <1>4, <1>11, <1>12

LEMMA InitInv ==
  ASSUME Init
  PROVE  DictInv
<1>1. dentry = <<>> /\ sorted = 0 /\ user \in User /\ promised = [k \in Key |-> NoValue]
  BY DEF Init, Promise!Init
<1>2. dentry \in Seq(Entry) /\ Len(dentry) = 0 /\ DOMAIN dentry = {}
  BY <1>1
<1>3. Typed
  BY <1>1 DEF Typed
<1>4. Proper(dentry) /\ Holds(dentry, promised)
  BY <1>1, <1>2 DEF Proper, Different, Holds
<1>5. Ordered(dentry, 0, sorted) /\ sorted \in 0 .. Len(dentry)
  BY <1>1, <1>2 DEF Ordered
<1>6. Len(dentry) - sorted < Unsorted
  BY <1>1, <1>2, DictAssumption
<1> QED
  BY <1>3, <1>4, <1>5, <1>6, InvIs DEF Searchable

LEMMA NextKeepsInv ==
  ASSUME DictInv, [Next]_vars
  PROVE  DictInv'
<1>1. CASE UNCHANGED vars
  BY <1>1 DEF vars, DictInv, TypeOK, Different, Holds, Ordered, SortedInTime, Searchable, Tail0, size
<1>2. CASE \E k \in Key : Remove(k) \/ \E v \in Value : Set(k, v)
  BY <1>2, RemoveKeeps, SetKeeps
<1>3. CASE LoadFunctions
  BY <1>3, LoadFunctionsKeeps
<1>4. CASE LoadSymbols
  BY <1>4, LoadSymbolsKeeps
<1>5. CASE SetClassName
  BY <1>5, SetClassNameKeeps
<1>6. CASE ObjectMap
  BY <1>6, ObjectMapKeeps
<1> QED
  BY <1>1, <1>2, <1>3, <1>4, <1>5, <1>6 DEF Next

LEMMA Invariance == Spec => []DictInv
<1>1. Init => DictInv
  BY InitInv
<1>2. DictInv /\ [Next]_vars => DictInv'
  BY NextKeepsInv
<1> QED
  BY <1>1, <1>2, PTL DEF Spec

\* The entries are records of a key and a value, and no more of them count as
\* sorted than there are (dmap_setSO, dmap_removeSO, dmap_sort).
THEOREM DictTypeCorrect == Spec => []TypeOK
<1>1. DictInv => TypeOK
  BY DEF DictInv
<1> QED
  BY <1>1, Invariance, PTL

\* Where set, or an append with a sort after it, is all that adds entries, the
\* part behind the sorted one stays shorter than UNSORTED: dmap_index never
\* bisects entries that are not in order.
THEOREM DictSortedInTime == Spec => []SortedInTime
<1>1. DictInv => SortedInTime
  BY DEF DictInv
<1> QED
  BY <1>1, Invariance, PTL

\* Every key is found with the value set last, and none has two entries,
\* whatever the order of the keys and however often they are set, removed and
\* sorted: dmap_index, which bisects, and dmap_removeSO, which closes the gap.
THEOREM DictFinds == Spec => []SortedMapFinds
<1>1. DictInv => SortedMapFinds
  BY InvFinds
<1> QED
  BY <1>1, Invariance, PTL

===============================================================================
