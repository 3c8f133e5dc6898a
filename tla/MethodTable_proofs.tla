------------------------- MODULE MethodTable_proofs -------------------------
(***************************************************************************)
(* The caches of MethodTable are coherent and its calls are those of late  *)
(* binding, for every tree of classes, cache size, hash function and       *)
(* program.                                                                *)
(*                                                                         *)
(* The inductive invariant (Inv) adds to the invariants of the runs what   *)
(* they rest on: the declared classes are closed upwards (Upwards), what a *)
(* cached entry keeps even when it is stale (EntryGood), and what a        *)
(* compiled call keeps (CallSound).  The heart of it is that a definition  *)
(* that goes past a cached answer, or past a call compiled without a       *)
(* lookup, is one of those that come too late.                             *)
(***************************************************************************)
EXTENDS MethodTable, TLAPS

Upwards ==
  /\ \A c \in declared : Above[c] \subseteq declared
  /\ \A c \in Class, n \in Name : Places(c, n) # {} => c \in declared

\* m is a method n of a class above c, and c's own if it has one.
Answers(c, n, m) ==
  /\ m \in MethodsOf /\ Mn(m) = n
  /\ Cid(m) \in Above[c]
  /\ Places(c, n) # {} => Cid(m) = c

\* An entry of mtdcache at h.
EntryGood(h, e) ==
  /\ e \in CacheEntry
  /\ Hash[<<e.cid, e.mn>>] = h
  /\ e.cid \in declared
  /\ Answers(e.cid, e.mn, e.mtd)
  /\ e.mn \in late \/ e.mtd = Scan(e.cid, e.mn)

\* A compiled call, and what the properties say of it.
CallSound(k) ==
  /\ k \in CallCode
  /\ k.mtd # None => Mn(k.mtd) = k.mn
  /\ k.fixed => /\ k.type \in declared /\ k.mtd # None
                /\ Cid(k.mtd) \in Above[k.type] /\ ~ IsVirtual(k.mtd)
  /\ k.cid # None => /\ k.cid \in declared /\ k.mtd # None
                     /\ Cid(k.mtd) \in Above[k.cid]
                     /\ <<k.cid, k.mn>> \in called \/ Cid(k.mtd) = k.cid

CallRight(k) ==
  \/ k.mn \in late
  \/ IF k.fixed THEN \A d \in Below(k.type) : Scan(d, k.mn) = k.mtd
     ELSE k.cid # None => k.mtd = Scan(k.cid, k.mn)

Tables ==
  /\ declared \subseteq Class
  /\ methods \in [Class -> Seq([mn : Name, virtual : BOOLEAN])]
  /\ called \subseteq Class \X Name
  /\ late \subseteq Name
  /\ OneMethodPerName
  /\ Upwards

Cached ==
  /\ mtdcache \in [Slot -> CacheEntry \cup {None}]
  /\ \A h \in Slot : mtdcache[h] # None => EntryGood(h, mtdcache[h])

CodeGood ==
  /\ code \in [Site -> CallCode \cup {None}]
  /\ \A s \in Site : code[s] # None => CallSound(code[s]) /\ CallRight(code[s])

Inv == Tables /\ Cached /\ CodeGood /\ FinalsKept

-----------------------------------------------------------------------------
(* The arrays.                                                             *)

\* Of two classes above a third, one is above the other.
LEMMA Comparable ==
  ASSUME NEW d \in Class, NEW x \in Above[d], NEW y \in Above[d]
  PROVE  x \in Above[y] \/ y \in Above[x]
<1> DEFINE S == {x, y}
<1>1. S \in SUBSET Above[d] /\ S # {}
  OBVIOUS
<1> HIDE DEF S
<1>2. \E a \in S : \A b \in S : b \in Above[a]
  BY <1>1, ClassesAreTree DEF TreeAssumption
<1> QED BY <1>2 DEF S

\* The lowest of the classes above c that provide n exists and is above c.
LEMMA LowestProvider ==
  ASSUME NEW c \in Class, NEW n \in Name, Providers(c, n) # {}
  PROVE  LET a == Lowest(Providers(c, n)) IN
         /\ a \in Providers(c, n) /\ a \in Class /\ a \in Above[c]
         /\ \A b \in Providers(c, n) : b \in Above[a]
<1>1. Providers(c, n) \in SUBSET Above[c] /\ Above[c] \subseteq Class
  BY ClassesAreTree DEF Providers, TreeAssumption
<1>2. \E a \in Providers(c, n) : \A b \in Providers(c, n) : b \in Above[a]
  BY <1>1, ClassesAreTree DEF TreeAssumption
<1> QED BY <1>1, <1>2 DEF Lowest

\* A class's first method of a name is in its array.
LEMMA FirstIsPlace ==
  ASSUME Tables, NEW c \in Class, NEW n \in Name, Places(c, n) # {}
  PROVE  /\ First(c, n) \in Places(c, n)
         /\ <<c, First(c, n)>> \in MethodsOf
         /\ Mn(<<c, First(c, n)>>) = n
<1>1. methods[c] \in Seq([mn : Name, virtual : BOOLEAN])
  BY DEF Tables
<1>2. PICK i \in Places(c, n) : TRUE
  OBVIOUS
<1>3. i \in Nat \ {0} /\ i <= Len(methods[c]) /\ methods[c][i].mn = n
  BY <1>1, <1>2 DEF Places
<1>4. \A j \in Places(c, n) : i <= j
  BY <1>2, <1>3 DEF Tables, OneMethodPerName
<1>5. First(c, n) \in Places(c, n)
  BY <1>2, <1>4 DEF First, Least
<1>6. First(c, n) = i
  BY <1>2, <1>5 DEF Tables, OneMethodPerName
<1> QED BY <1>3, <1>5, <1>6 DEF MethodsOf, Method, Mn

\* A scan finds a method when a class above c has one, ...
LEMMA ScanFinds ==
  ASSUME Tables, NEW c \in Class, NEW n \in Name
  PROVE  Scan(c, n) # None <=> Providers(c, n) # {}
<1>1. ASSUME Providers(c, n) # {} PROVE Scan(c, n) # None
  <2> DEFINE a == Lowest(Providers(c, n))
  <2>1. Scan(c, n) = <<a, First(a, n)>> /\ a \in Class /\ Places(a, n) # {}
    BY <1>1, LowestProvider DEF Scan, Providers
  <2>2. Scan(c, n) \in Class \X Nat
    BY <2>1, FirstIsPlace DEF MethodsOf, Method
  <2> QED BY <2>2, NoneAssumption
<1> QED BY <1>1 DEF Scan

\* ... and what it finds is the method, in its place, of the lowest of them.
LEMMA ScanFacts ==
  ASSUME Tables, NEW c \in Class, NEW n \in Name, Scan(c, n) # None
  PROVE  LET m == Scan(c, n) IN
         /\ Cid(m) = Lowest(Providers(c, n))
         /\ Cid(m) \in Class
         /\ m = <<Cid(m), First(Cid(m), n)>>
         /\ Places(Cid(m), n) # {}
         /\ \A b \in Providers(c, n) : b \in Above[Cid(m)]
         /\ Answers(c, n, m)
<1> DEFINE a == Lowest(Providers(c, n))
<1>1. Providers(c, n) # {} /\ Scan(c, n) = <<a, First(a, n)>>
  BY DEF Scan
<1>2. /\ a \in Providers(c, n) /\ a \in Class /\ a \in Above[c]
      /\ \A b \in Providers(c, n) : b \in Above[a]
  BY <1>1, LowestProvider
<1>3. Places(a, n) # {}
  BY <1>2 DEF Providers
<1>4. <<a, First(a, n)>> \in MethodsOf /\ Mn(<<a, First(a, n)>>) = n
  BY <1>2, <1>3, FirstIsPlace
<1>5. Places(c, n) # {} => a = c
  <2>1. c \in Above[c]
    BY ClassesAreTree DEF TreeAssumption
  <2>2. Places(c, n) # {} => c \in Providers(c, n)
    BY <2>1 DEF Providers
  <2> QED BY <2>2, <1>2, ClassesAreTree DEF TreeAssumption
<1> QED BY <1>1, <1>2, <1>3, <1>4, <1>5 DEF Cid, Answers

-----------------------------------------------------------------------------
(* The lookup.                                                             *)

\* What a lookup finds is right in what definitions cannot disturb, and is
\* what a scan finds unless a definition came too late.
LEMMA FoundFacts ==
  ASSUME Tables, Cached, NEW c \in Class, NEW n \in Name, Found(c, n) # None
  PROVE  /\ Answers(c, n, Found(c, n))
         /\ Found(c, n) \in MethodsOf
         /\ n \in late \/ Found(c, n) = Scan(c, n)
<1>1. CASE Hit(c, n)
  <2> DEFINE e == mtdcache[Hash[<<c, n>>]]
  <2>1. Hash[<<c, n>>] \in Slot /\ e # None /\ e.cid = c /\ e.mn = n
    BY <1>1, HashAssumption DEF Hit
  <2>2. Found(c, n) = e.mtd
    BY <1>1 DEF Found
  <2> QED BY <2>1, <2>2 DEF Cached, EntryGood, Answers
<1>2. CASE ~ Hit(c, n)
  BY <1>2, ScanFacts DEF Found, Answers
<1> QED BY <1>1, <1>2

\* A lookup that finds nothing: no class above has a method of the name.
LEMMA NotFound ==
  ASSUME Tables, Cached, NEW c \in Class, NEW n \in Name, Found(c, n) = None
  PROVE  Scan(c, n) = None
<1>1. ASSUME Hit(c, n) PROVE FALSE
  <2> DEFINE e == mtdcache[Hash[<<c, n>>]]
  <2>1. Hash[<<c, n>>] \in Slot /\ e # None
    BY <1>1, HashAssumption DEF Hit
  <2>2. e.mtd \in Class \X Nat
    BY <2>1 DEF Cached, EntryGood, Answers, MethodsOf, Method
  <2> QED BY <1>1, <2>2, NoneAssumption DEF Found
<1> QED BY <1>1 DEF Found

\* A lookup leaves the cache sound and coherent.
LEMMA LookedGood ==
  ASSUME Tables, Cached, NEW c \in declared, NEW n \in Name
  PROVE  /\ Looked(c, n) \in [Slot -> CacheEntry \cup {None}]
         /\ \A h \in Slot :
              Looked(c, n)[h] # None => EntryGood(h, Looked(c, n)[h])
<1>1. c \in Class /\ mtdcache \in [Slot -> CacheEntry \cup {None}]
  BY DEF Tables, Cached
<1>2. CASE Looked(c, n) = mtdcache
  BY <1>2 DEF Cached
<1>3. CASE Looked(c, n) # mtdcache
  <2> DEFINE m == Scan(c, n)
             g == Hash[<<c, n>>]
  <2>1. m # None /\ Looked(c, n) = [mtdcache EXCEPT ![g] = Entry(c, n, m)]
    BY <1>3 DEF Looked
  <2>2. Answers(c, n, m) /\ m \in MethodsOf
    BY <1>1, <2>1, ScanFacts DEF Answers
  <2>3. EntryGood(g, Entry(c, n, m))
    BY <1>1, <2>2 DEF EntryGood, Entry, CacheEntry
  <2>4. Entry(c, n, m) \in CacheEntry
    BY <2>3 DEF EntryGood
  <2> QED BY <1>1, <2>1, <2>3, <2>4 DEF Cached
<1> QED BY <1>2, <1>3

-----------------------------------------------------------------------------
(* A definition.                                                           *)

\* What every AddMethod that METHOD_typing makes has found before.
Admitted(c, n) ==
  \/ Found(c, n) = None
  \/ Found(c, n) # None /\ Cid(Found(c, n)) # c /\ IsVirtual(Found(c, n))

\* The class has no method of the name, and nothing below the method that is
\* looked up is final.
LEMMA AdmittedIsNew ==
  ASSUME Tables, Cached, NEW c \in declared, NEW n \in Name, Admitted(c, n)
  PROVE  /\ Places(c, n) = {}
         /\ n \in late \/ Scan(c, n) = None
              \/ (IsVirtual(Scan(c, n)) /\ Cid(Scan(c, n)) # c)
<1>0. c \in Class
  BY DEF Tables
<1>1. CASE Found(c, n) = None
  <2>1. Scan(c, n) = None
    BY <1>0, <1>1, NotFound
  <2>2. Providers(c, n) = {} /\ c \in Above[c]
    BY <1>0, <2>1, ScanFinds, ClassesAreTree DEF TreeAssumption
  <2> QED BY <2>1, <2>2 DEF Providers
<1>2. CASE Found(c, n) # None
  <2>1. Answers(c, n, Found(c, n)) /\ (n \in late \/ Found(c, n) = Scan(c, n))
    BY <1>0, <1>2, FoundFacts
  <2>2. Cid(Found(c, n)) # c /\ IsVirtual(Found(c, n))
    BY <1>2 DEF Admitted
  <2> QED BY <2>1, <2>2 DEF Answers
<1> QED BY <1>1, <1>2

\* The effect of an AddMethod on the arrays: the array of c is longer by one,
LEMMA Added ==
  ASSUME Tables, NEW c \in Class, NEW n \in Name, NEW v \in BOOLEAN,
         AddMethod(c, n, v)
  PROVE  LET l == Len(methods[c]) IN
         /\ l \in Nat /\ Len(methods'[c]) = l + 1
         /\ \A j \in 1 .. l : methods'[c][j] = methods[c][j]
         /\ methods'[c][l + 1].mn = n
         /\ methods'[c][l + 1].virtual = v
         /\ \A d \in Class : d # c => methods'[d] = methods[d]
         /\ methods' \in [Class -> Seq([mn : Name, virtual : BOOLEAN])]
<1> DEFINE R == [mn : Name, virtual : BOOLEAN]
           r == [mn |-> n, virtual |-> v]
           l == Len(methods[c])
<1>1. methods \in [Class -> Seq(R)] /\ r \in R
  BY DEF Tables
<1>2. methods' = [methods EXCEPT ![c] = Append(@, r)]
  BY DEF AddMethod
<1>3. r.mn = n /\ r.virtual = v
  OBVIOUS
<1> HIDE DEF R, r
<1>4. \A d \in Class : d # c => methods'[d] = methods[d]
  BY <1>1, <1>2
<1>5. methods'[c] = Append(methods[c], r) /\ methods[c] \in Seq(R)
  BY <1>1, <1>2
<1>6. /\ l \in Nat /\ Len(methods'[c]) = l + 1
      /\ \A j \in 1 .. l : methods'[c][j] = methods[c][j]
      /\ methods'[c][l + 1] = r
      /\ methods'[c] \in Seq(R)
  BY <1>1, <1>5
<1>7. methods' \in [Class -> Seq(R)]
  BY <1>1, <1>2, <1>6
<1> QED BY <1>3, <1>4, <1>6, <1>7 DEF R

\* no method moves or changes,
LEMMA MethodsStay ==
  ASSUME Tables, NEW c \in Class, NEW n \in Name, NEW v \in BOOLEAN,
         AddMethod(c, n, v), NEW m \in MethodsOf
  PROVE  m \in MethodsOf' /\ Mn(m)' = Mn(m) /\ IsVirtual(m)' = IsVirtual(m)
<1>1. m \in Class \X (Nat \ {0}) /\ m[2] <= Len(methods[m[1]])
  BY DEF MethodsOf, Method
<1>2. m \in MethodsOf' /\ methods'[m[1]][m[2]] = methods[m[1]][m[2]]
  <2>1. CASE m[1] = c
    BY <1>1, <2>1, Added DEF MethodsOf, Method
  <2>2. CASE m[1] # c
    BY <1>1, <2>2, Added DEF MethodsOf, Method
  <2> QED BY <2>1, <2>2
<1> QED BY <1>2 DEF Mn, IsVirtual

\* the places of other names and classes stay what they were,
LEMMA PlacesStay ==
  ASSUME Tables, NEW c \in Class, NEW n \in Name, NEW v \in BOOLEAN,
         AddMethod(c, n, v), NEW d \in Class, NEW k \in Name, d # c \/ k # n
  PROVE  Places(d, k)' = Places(d, k)
<1>1. CASE d # c
  BY <1>1, Added DEF Places
<1>2. CASE d = c /\ k # n
  <2>1. \A j \in 1 .. Len(methods'[c]) :
          methods'[c][j].mn = k => j \in 1 .. Len(methods[c])
    BY <1>2, Added
  <2> QED BY <1>2, <2>1, Added DEF Places
<1> QED BY <1>1, <1>2

\* and there is one new place.
LEMMA PlaceAdded ==
  ASSUME Tables, NEW c \in Class, NEW n \in Name, NEW v \in BOOLEAN,
         AddMethod(c, n, v)
  PROVE  LET i == Len(methods[c]) + 1 IN
         /\ Places(c, n)' = Places(c, n) \cup {i}
         /\ i \in Nat \ {0}
         /\ <<c, i>> \in MethodsOf'
         /\ methods'[c][i].mn = n
<1> DEFINE i == Len(methods[c]) + 1
<1>1. i \in Nat \ {0} /\ methods'[c][i].mn = n /\ Len(methods'[c]) = i
  BY Added
<1>2. Places(c, n)' = Places(c, n) \cup {i}
  BY <1>1, Added DEF Places
<1>3. <<c, i>> \in MethodsOf'
  BY <1>1 DEF MethodsOf, Method
<1> QED BY <1>1, <1>2, <1>3

\* It disturbs the scans of its name that pass its class.
LEMMA ScanStays ==
  ASSUME Tables, NEW d \in Class, NEW k \in Name,
         \A a \in Above[d] : Places(a, k)' = Places(a, k)
  PROVE  Scan(d, k)' = Scan(d, k)
<1>1. Providers(d, k)' = Providers(d, k)
  BY DEF Providers
<1>2. CASE Providers(d, k) = {}
  BY <1>1, <1>2 DEF Scan
<1>3. CASE Providers(d, k) # {}
  <2>1. PICK a \in Above[d] : a = Lowest(Providers(d, k))
    BY <1>3, LowestProvider
  <2>2. Places(a, k)' = Places(a, k)
    OBVIOUS
  <2>3. First(a, k)' = First(a, k)
    BY <2>2 DEF First
  <2>4. Scan(d, k) = <<a, First(a, k)>> /\ Scan(d, k)' = <<a, First(a, k)'>>
    BY <1>1, <1>3, <2>1 DEF Scan
  <2> QED BY <2>3, <2>4
<1> QED BY <1>2, <1>3

LEMMA ScanAround ==
  ASSUME Tables, NEW c \in Class, NEW n \in Name, NEW v \in BOOLEAN,
         AddMethod(c, n, v), NEW d \in Class, NEW k \in Name,
         k # n \/ c \notin Above[d]
  PROVE  Scan(d, k)' = Scan(d, k)
<1>1. ASSUME NEW a \in Above[d]
      PROVE  Places(a, k)' = Places(a, k)
  <2>1. a \in Class /\ (a # c \/ k # n)
    BY ClassesAreTree DEF TreeAssumption
  <2> QED BY <2>1, PlacesStay
<1> QED BY <1>1, ScanStays

\* After it the scan of its own class finds the new method.
LEMMA ScanOfAdded ==
  ASSUME Tables, NEW c \in Class, NEW n \in Name, NEW v \in BOOLEAN,
         AddMethod(c, n, v), Places(c, n) = {},
         NEW i, i = Len(methods[c]) + 1
  PROVE  Scan(c, n)' = <<c, i>>
<1>1. Places(c, n)' = {i} /\ i \in Nat
  BY PlaceAdded, ZenonT(40)
<1>2. c \in Providers(c, n)'
  BY <1>1, ClassesAreTree DEF Providers, TreeAssumption
<1>3. Providers(c, n)' \in SUBSET Above[c] /\ Above[c] \subseteq Class
  BY ClassesAreTree DEF Providers, TreeAssumption
<1>4. \E a \in Providers(c, n)' : \A b \in Providers(c, n)' : b \in Above[a]
  BY <1>2, <1>3, ClassesAreTree DEF TreeAssumption
<1>5. LET a == Lowest(Providers(c, n)') IN
        a \in Providers(c, n)' /\ \A b \in Providers(c, n)' : b \in Above[a]
  BY <1>4 DEF Lowest
<1>6. Lowest(Providers(c, n)') = c
  BY <1>2, <1>3, <1>5, ClassesAreTree DEF TreeAssumption
<1>7. First(c, n)' = i
  BY <1>1 DEF First, Least
<1> QED BY <1>2, <1>6, <1>7 DEF Scan

\* Unless it comes too late, a class that is declared and whose scans it
\* disturbs is its own.
LEMMA InTime ==
  ASSUME Tables, NEW c \in Class, NEW n \in Name, NEW v \in BOOLEAN,
         AddMethod(c, n, v), n \notin late'
  PROVE  /\ n \notin late
         /\ <<c, n>> \notin called
         /\ \A d \in declared : c \in Above[d] => d = c
  BY DEF AddMethod, TooLate
\* The new entry of the cache is good, and the others stay so.
LEMMA AddKeepsCached ==
  ASSUME Tables, Cached, NEW c \in declared, NEW n \in Name, NEW v \in BOOLEAN,
         Admitted(c, n), AddMethod(c, n, v)
  PROVE  Cached'
<1> DEFINE g == Hash[<<c, n>>]
           L == Looked(c, n)
<1>1. PICK i : i = Len(methods[c]) + 1
  OBVIOUS
<1>2. c \in Class /\ declared' = declared /\ Places(c, n) = {}
      /\ late \subseteq late' /\ c \in Above[c]
  BY AdmittedIsNew, ClassesAreTree DEF Tables, AddMethod, TreeAssumption
<1>3. /\ L \in [Slot -> CacheEntry \cup {None}]
      /\ mtdcache' = [L EXCEPT ![g] = Entry(c, n, <<c, i>>)]
  BY <1>1, LookedGood DEF AddMethod
<1>4. <<c, i>> \in MethodsOf' /\ Mn(<<c, i>>)' = n /\ Scan(c, n)' = <<c, i>>
  BY <1>1, <1>2, PlaceAdded, ScanOfAdded DEF Mn
<1>5. EntryGood(g, Entry(c, n, <<c, i>>))'
  BY <1>2, <1>4 DEF EntryGood, Entry, CacheEntry, Answers, Cid
<1>6. ASSUME NEW h \in Slot, h # g, NEW e, e = L[h], e # None
      PROVE  EntryGood(h, e)'
  <2>1. EntryGood(h, e)
    BY <1>6, LookedGood
  <2> DEFINE d == e.cid
             k == e.mn
  <2>2. d \in declared /\ d \in Class /\ k \in Name /\ (d # c \/ k # n)
        /\ e = [cid |-> e.cid, mn |-> e.mn, mtd |-> e.mtd]
        /\ e.mtd \in MethodsOf
    BY <1>6, <2>1 DEF EntryGood, CacheEntry
  <2>3. e.mtd \in MethodsOf' /\ Mn(e.mtd)' = Mn(e.mtd)
    BY <1>2, <2>2, MethodsStay
  <2>4. Places(d, k)' = Places(d, k)
    BY <1>2, <2>2, PlacesStay
  <2>5. Answers(d, k, e.mtd)'
    BY <2>1, <2>3, <2>4 DEF EntryGood, Answers, Cid
  <2>6. k \in late' \/ e.mtd = Scan(d, k)'
    <3>1. CASE k # n \/ c \notin Above[d]
      <4>1. Scan(d, k)' = Scan(d, k)
        BY <1>2, <2>2, <3>1, ScanAround
      <4> QED BY <1>2, <2>1, <4>1 DEF EntryGood
    <3>2. CASE k = n /\ c \in Above[d]
      BY <1>2, <2>2, <3>2, InTime
    <3> QED BY <3>1, <3>2
  <2>7. e \in CacheEntry'
    BY <2>2, <2>3 DEF CacheEntry
  <2> QED BY <1>2, <2>1, <2>2, <2>5, <2>6, <2>7 DEF EntryGood
<1>7. ASSUME NEW h \in Slot, mtdcache'[h] # None
      PROVE  EntryGood(h, mtdcache[h])' /\ mtdcache'[h] \in CacheEntry'
  <2>1. PICK e : e = mtdcache'[h]
    OBVIOUS
  <2>2. EntryGood(h, e)'
    BY <1>3, <1>5, <1>6, <1>7, <2>1
  <2> QED BY <2>1, <2>2 DEF EntryGood
<1>8. mtdcache' \in [Slot -> CacheEntry' \cup {None}]
  BY <1>3, <1>7
<1> QED BY <1>7, <1>8 DEF Cached
LEMMA AddKeepsTables ==
  ASSUME Tables, Cached, NEW c \in declared, NEW n \in Name, NEW v \in BOOLEAN,
         Admitted(c, n), AddMethod(c, n, v)
  PROVE  Tables'
<1>1. PICK i : i = Len(methods[c]) + 1
  OBVIOUS
<1>2. c \in Class /\ Places(c, n)' = {i}
  <2>1. c \in Class /\ Places(c, n) = {}
    BY AdmittedIsNew DEF Tables
  <2> QED BY <1>1, <2>1, PlaceAdded, ZenonT(40)
<1>3. ASSUME NEW d \in Class, NEW k \in Name, d # c \/ k # n
      PROVE  Places(d, k)' = Places(d, k)
  BY <1>2, <1>3, PlacesStay
<1>4. OneMethodPerName'
  <2> SUFFICES ASSUME NEW d \in Class, NEW k \in Name,
                      NEW j \in Places(d, k)', NEW l \in Places(d, k)'
               PROVE  j = l
    BY DEF OneMethodPerName
  <2>1. CASE d = c /\ k = n
    BY <1>2, <2>1
  <2>2. CASE d # c \/ k # n
    BY <1>3, <2>2 DEF Tables, OneMethodPerName
  <2> QED BY <2>1, <2>2
<1>5. Upwards'
  <2>1. ASSUME NEW d \in Class, NEW k \in Name, Places(d, k)' # {}
        PROVE  d \in declared
    <3>1. CASE d = c
      BY <3>1
    <3>2. CASE d # c
      BY <1>3, <2>1, <3>2 DEF Tables, Upwards
    <3> QED BY <3>1, <3>2
  <2> QED BY <2>1 DEF AddMethod, Tables, Upwards
<1>6. methods' \in [Class -> Seq([mn : Name, virtual : BOOLEAN])]
  BY <1>2, Added
<1>7. declared' = declared /\ called' = called
      /\ late' = late \cup {k \in {n} : TooLate(c, n)}
  BY DEF AddMethod
<1> QED BY <1>4, <1>5, <1>6, <1>7 DEF Tables

\* A call that is compiled to a method cannot be overtaken: if the class of
\* the definition is below the type of the call, the lookup shows the final
\* method, and if it is above, the definition comes too late.
LEMMA FixedStays ==
  ASSUME Tables, Cached, NEW c \in declared, NEW n \in Name, NEW v \in BOOLEAN,
         Admitted(c, n), AddMethod(c, n, v),
         NEW k, CallSound(k), CallRight(k), k.fixed, k.mn = n, n \notin late',
         NEW d \in Below(k.type)
  PROVE  Scan(d, n)' = k.mtd
<1> DEFINE t == k.type
<1>1. /\ t \in declared /\ t \in Class /\ d \in Class /\ t \in Above[d]
      /\ c \in Class /\ k.mtd # None /\ ~ IsVirtual(k.mtd) /\ n \notin late
  BY InTime DEF Tables, CallSound, Below
<1>2. \A x \in Below(t) : Scan(x, n) = k.mtd
  BY <1>1 DEF CallRight
<1>3. ASSUME c \in Above[d] PROVE FALSE
  <2>1. c \in Above[t] \/ t \in Above[c]
    BY <1>1, <1>3, Comparable
  <2>2. CASE c \in Above[t]
    <3>1. t = c
      BY <1>1, <2>2, InTime
    <3>2. Scan(c, n) = k.mtd
      BY <1>1, <1>2, <3>1, ClassesAreTree DEF Below, TreeAssumption
    <3> QED BY <1>1, <3>2, AdmittedIsNew
  <2>3. CASE t \in Above[c]
    <3>1. Scan(c, n) = k.mtd
      BY <1>1, <1>2, <2>3 DEF Below
    <3> QED BY <1>1, <3>1, AdmittedIsNew
  <2> QED BY <2>1, <2>2, <2>3
<1> QED BY <1>1, <1>2, <1>3, ScanAround DEF Below

LEMMA AddKeepsCode ==
  ASSUME Tables, Cached, CodeGood, NEW c \in declared, NEW n \in Name,
         NEW v \in BOOLEAN, Admitted(c, n), AddMethod(c, n, v)
  PROVE  CodeGood'
<1>1. c \in Class /\ declared' = declared /\ called' = called /\ code' = code
      /\ late \subseteq late' /\ Places(c, n) = {}
  BY AdmittedIsNew DEF Tables, AddMethod
<1>2. ASSUME NEW k, k \in CallCode, CallSound(k), CallRight(k)
      PROVE  CallSound(k)' /\ CallRight(k)'
  <2>1. k.mtd # None =>
          k.mtd \in MethodsOf /\ k.mtd \in MethodsOf'
          /\ Mn(k.mtd)' = Mn(k.mtd) /\ IsVirtual(k.mtd)' = IsVirtual(k.mtd)
    BY <1>1, <1>2, MethodsStay DEF CallCode
  <2>2. k \in CallCode'
    BY <1>2, <2>1 DEF CallCode
  <2>3. CallSound(k)'
    BY <1>1, <1>2, <2>1, <2>2 DEF CallSound, Cid
  <2>4. CASE k.mn \in late'
    BY <2>3, <2>4 DEF CallRight
  <2>5. CASE k.mn \notin late' /\ k.fixed
    <3>1. ASSUME NEW d \in Below(k.type)
          PROVE  Scan(d, k.mn)' = k.mtd
      <4>1. d \in Class /\ k.mn \in Name
        BY <1>2 DEF Below, CallCode
      <4>2. CASE k.mn = n
        <5>1. Scan(d, n)' = k.mtd
          BY <1>1, <1>2, <2>5, <4>2, FixedStays
        <5> QED BY <4>2, <5>1
      <4>3. CASE k.mn # n
        <5>1. Scan(d, k.mn)' = Scan(d, k.mn)
          BY <1>1, <4>1, <4>3, ScanAround
        <5> QED BY <1>1, <1>2, <2>5, <5>1 DEF CallRight
      <4> QED BY <4>2, <4>3
    <3> QED BY <2>3, <2>5, <3>1 DEF CallRight
  <2>6. CASE k.mn \notin late' /\ ~ k.fixed
    <3>1. ASSUME k.cid # None
          PROVE  k.mtd = Scan(k.cid, k.mn)'
      <4> DEFINE d == k.cid
      <4>1. d \in declared /\ d \in Class /\ k.mn \in Name
            /\ k.mtd = Scan(d, k.mn) /\ k.mtd # None
        BY <1>1, <1>2, <2>6, <3>1 DEF CallSound, CallRight, CallCode, Tables
      <4>2. k.mn # n \/ c \notin Above[d]
        <5>1. ASSUME k.mn = n, c \in Above[d] PROVE FALSE
          <6>1. d = c /\ <<d, n>> \notin called
            BY <1>1, <2>6, <4>1, <5>1, InTime
          <6>2. k.mtd \in MethodsOf /\ Mn(k.mtd) = n /\ Cid(k.mtd) = c
            BY <1>2, <2>1, <3>1, <5>1, <6>1 DEF CallSound
          <6>3. methods[c] \in Seq([mn : Name, virtual : BOOLEAN])
            BY <1>1 DEF Tables
          <6>4. k.mtd[2] \in Places(c, n)
            BY <6>2, <6>3 DEF Places, MethodsOf, Method, Mn, Cid
          <6> QED BY <1>1, <6>4
        <5> QED BY <5>1
      <4>3. Scan(d, k.mn)' = Scan(d, k.mn)
        BY <1>1, <4>1, <4>2, ScanAround
      <4> QED BY <4>1, <4>3
    <3> QED BY <2>3, <2>6, <3>1 DEF CallRight
  <2> QED BY <2>3, <2>4, <2>5, <2>6
<1>3. ASSUME NEW s \in Site, code[s] # None
      PROVE  CallSound(code[s])' /\ CallRight(code[s])'
  <2>1. PICK k : k = code[s]
    OBVIOUS
  <2>2. CallSound(k)' /\ CallRight(k)'
    BY <1>2, <1>3, <2>1 DEF CodeGood
  <2>3. k = code'[s]
    BY <1>1, <2>1
  <2> QED BY <2>2, <2>3
<1>4. code' \in [Site -> CallCode' \cup {None}]
  <2>1. code \in [Site -> CallCode \cup {None}]
    BY DEF CodeGood
  <2>2. ASSUME NEW s \in Site, code[s] # None PROVE code[s] \in CallCode'
    <3>1. PICK k : k = code[s]
      OBVIOUS
    <3>2. k \in CallCode'
      BY <1>2, <2>2, <3>1 DEF CodeGood, CallSound
    <3> QED BY <3>1, <3>2
  <2> QED BY <1>1, <2>1, <2>2
<1> QED BY <1>1, <1>3, <1>4 DEF CodeGood

LEMMA AddKeepsFinals ==
  ASSUME Tables, Cached, FinalsKept, NEW c \in declared, NEW n \in Name,
         NEW v \in BOOLEAN, Admitted(c, n), AddMethod(c, n, v)
  PROVE  FinalsKept'
<1> SUFFICES ASSUME NEW a \in Class, NEW b \in Class, NEW k \in Name,
                    b \in Above[a], a # b, Places(a, k)' # {},
                    Places(b, k)' # {}, k \notin late'
             PROVE  methods'[b][First(b, k)'].virtual
  BY DEF FinalsKept
<1>1. c \in Class /\ k \notin late /\ Places(c, n) = {}
  BY AdmittedIsNew DEF Tables, AddMethod
<1>2. k = n => b # c
  <2> SUFFICES ASSUME k = n, b = c PROVE FALSE
    OBVIOUS
  <2>1. Places(a, k)' = Places(a, k)
    BY <1>1, PlacesStay
  <2>2. a \in declared
    BY <2>1 DEF Tables, Upwards
  <2> QED BY <1>1, <2>2, InTime
<1>3. Places(b, k)' = Places(b, k)
  BY <1>1, <1>2, PlacesStay
<1>4. First(b, k)' = First(b, k)
  BY <1>3 DEF First
<1>5. <<b, First(b, k)>> \in MethodsOf
  BY <1>3, FirstIsPlace
<1>6. methods'[b][First(b, k)] = methods[b][First(b, k)]
  <2>1. PICK l : l = First(b, k)
    OBVIOUS
  <2>2. CASE b # c
    BY <1>1, <2>2, Added
  <2>3. CASE b = c
    BY <1>1, <1>5, <2>3, Added DEF MethodsOf, Method
  <2> QED BY <2>2, <2>3
<1>7. methods[b][First(b, k)].virtual
  <2>1. CASE Places(a, k)' = Places(a, k)
    BY <1>1, <1>3, <2>1 DEF FinalsKept
  <2>2. CASE Places(a, k)' # Places(a, k)
    <3>1. a = c /\ k = n
      BY <1>1, <2>2, PlacesStay
    <3>2. b \in Providers(c, n)
      BY <1>3, <3>1 DEF Providers
    <3>3. Scan(c, n) # None
      BY <1>1, <3>2, ScanFinds
    <3> DEFINE m == Scan(c, n)
    <3>4. IsVirtual(m) /\ Cid(m) \in Class /\ m = <<Cid(m), First(Cid(m), n)>>
          /\ b \in Above[Cid(m)] /\ Places(Cid(m), n) # {}
      BY <1>1, <3>1, <3>2, <3>3, ScanFacts, AdmittedIsNew
    <3>5. CASE Cid(m) = b
      BY <3>1, <3>4, <3>5 DEF IsVirtual
    <3>6. CASE Cid(m) # b
      BY <1>1, <1>3, <3>1, <3>4, <3>6 DEF FinalsKept
    <3> QED BY <3>5, <3>6
  <2> QED BY <2>1, <2>2
<1> QED BY <1>4, <1>6, <1>7
-----------------------------------------------------------------------------
(* The steps that leave the arrays alone.                                  *)

\* They leave every scan, and what the invariant says of an entry or a call.
LEMMA ScansStay ==
  ASSUME Tables, methods' = methods, NEW d \in Class, NEW k \in Name
  PROVE  Scan(d, k)' = Scan(d, k)
<1>1. \A a \in Above[d] : Places(a, k)' = Places(a, k)
  BY DEF Places
<1> QED BY <1>1, ScanStays

LEMMA EntryStays ==
  ASSUME Tables, methods' = methods, declared \subseteq declared',
         late' = late, NEW h, NEW e, EntryGood(h, e)
  PROVE  EntryGood(h, e)'
<1>1. e.cid \in Class /\ e.mn \in Name
  BY DEF EntryGood, CacheEntry
<1>2. Scan(e.cid, e.mn)' = Scan(e.cid, e.mn)
  BY <1>1, ScansStay
<1>3. CacheEntry' = CacheEntry
  BY DEF CacheEntry, MethodsOf
<1>4. Answers(e.cid, e.mn, e.mtd)' = Answers(e.cid, e.mn, e.mtd)
  BY DEF Answers, MethodsOf, Mn, Cid, Places
<1> QED BY <1>2, <1>3, <1>4 DEF EntryGood

LEMMA CallStays ==
  ASSUME Tables, methods' = methods, declared \subseteq declared',
         called \subseteq called', late' = late,
         NEW k, CallSound(k), CallRight(k)
  PROVE  CallSound(k)' /\ CallRight(k)'
<1>1. k \in CallCode'
  BY DEF CallSound, CallCode, MethodsOf
<1>2. CallSound(k)'
  BY <1>1 DEF CallSound, Mn, IsVirtual, Cid
<1>3. k.mn \in Name /\ (k.cid # None => k.cid \in Class)
  BY DEF CallSound, CallCode
<1>4. \A d \in Class : Scan(d, k.mn)' = Scan(d, k.mn)
  BY <1>3, ScansStay
<1>5. CallRight(k)'
  BY <1>3, <1>4 DEF CallRight, Below
<1> QED BY <1>2, <1>5

\* Declared classes and the history may grow.
TablesSame ==
  /\ UNCHANGED <<methods, late>>
  /\ declared' = declared \/ \E c \in Class : Declare(c)
  /\ called' = called \/ \E c \in Class, n \in Name : called' = called \cup {<<c, n>>}

LEMMA SameKeepsTables ==
  ASSUME Tables, FinalsKept, TablesSame
  PROVE  Tables' /\ FinalsKept'
<1>1. Upwards'
  <2>1. \A c \in declared' : Above[c] \subseteq declared'
    <3>1. CASE declared' = declared
      BY <3>1 DEF Tables, Upwards
    <3>2. ASSUME NEW c \in Class, Declare(c)
          PROVE  \A d \in declared' : Above[d] \subseteq declared'
      BY <3>2 DEF Declare, Tables, Upwards
    <3> QED BY <3>1, <3>2 DEF TablesSame
  <2> QED BY <2>1 DEF TablesSame, Declare, Tables, Upwards, Places
<1>2. OneMethodPerName'
  BY DEF TablesSame, Tables, OneMethodPerName, Places
<1>3. FinalsKept'
  <2> SUFFICES ASSUME NEW a \in Class, NEW b \in Class, NEW k \in Name,
                      b \in Above[a], a # b, Places(a, k)' # {},
                      Places(b, k)' # {}, k \notin late'
               PROVE  methods'[b][First(b, k)'].virtual
    BY DEF FinalsKept
  <2>1. Places(a, k)' = Places(a, k) /\ Places(b, k)' = Places(b, k)
        /\ methods' = methods /\ late' = late
    BY DEF TablesSame, Places
  <2>2. First(b, k)' = First(b, k)
    BY <2>1 DEF First
  <2> QED BY <2>1, <2>2 DEF FinalsKept
<1>4. declared' \subseteq Class /\ called' \subseteq Class \X Name
  BY DEF TablesSame, Tables, Declare
<1> QED BY <1>1, <1>2, <1>3, <1>4 DEF Tables, TablesSame

CacheSame ==
  \/ mtdcache' = mtdcache
  \/ \E c \in declared, n \in Name : mtdcache' = Looked(c, n)

LEMMA SameKeepsCached ==
  ASSUME Tables, Cached, TablesSame, CacheSame
  PROVE  Cached'
<1>1. PICK L : L = mtdcache'
  OBVIOUS
<1>2. /\ L \in [Slot -> CacheEntry \cup {None}]
      /\ \A h \in Slot : L[h] # None => EntryGood(h, L[h])
  BY <1>1, LookedGood DEF CacheSame, Cached
<1>3. declared \subseteq declared' /\ methods' = methods /\ late' = late
  BY DEF TablesSame, Declare
<1>4. ASSUME NEW h \in Slot, L[h] # None PROVE EntryGood(h, L[h])'
  BY <1>2, <1>3, <1>4, EntryStays
<1>5. CacheEntry' = CacheEntry
  BY <1>3 DEF CacheEntry, MethodsOf
<1> QED BY <1>1, <1>2, <1>4, <1>5 DEF Cached

\* At most one call has changed, and it is good.
CodeSame ==
  \/ code' = code
  \/ \E s \in Site, k \in CallCode :
       /\ code' = [code EXCEPT ![s] = k]
       /\ CallSound(k)' /\ CallRight(k)'

LEMMA SameKeepsCode ==
  ASSUME Tables, CodeGood, TablesSame, CodeSame
  PROVE  CodeGood'
<1>1. /\ declared \subseteq declared' /\ methods' = methods /\ late' = late
      /\ called \subseteq called'
  BY DEF TablesSame, Declare
<1>2. CallCode' = CallCode
  BY <1>1 DEF CallCode, MethodsOf
<1>3. ASSUME NEW s \in Site, code[s] # None
      PROVE  CallSound(code[s]) /\ CallRight(code[s])
  BY <1>3 DEF CodeGood
<1>4. ASSUME NEW k, CallSound(k), CallRight(k)
      PROVE  CallSound(k)' /\ CallRight(k)'
  BY <1>1, <1>4, CallStays
<1>5. CASE code' = code
  <2>1. ASSUME NEW s \in Site, code'[s] # None
        PROVE  CallSound(code[s])' /\ CallRight(code[s])'
    <3>1. PICK k : k = code[s]
      OBVIOUS
    <3>2. CallSound(k)' /\ CallRight(k)' /\ k = code'[s]
      BY <1>3, <1>4, <1>5, <2>1, <3>1
    <3> QED BY <3>2
  <2> QED BY <1>2, <1>5, <2>1 DEF CodeGood
<1>6. ASSUME NEW t \in Site, NEW l \in CallCode,
             code' = [code EXCEPT ![t] = l], CallSound(l)', CallRight(l)'
      PROVE  CodeGood'
  <2>1. ASSUME NEW s \in Site, code'[s] # None
        PROVE  CallSound(code[s])' /\ CallRight(code[s])'
    <3>1. PICK k : k = code'[s]
      OBVIOUS
    <3>2. CallSound(k)' /\ CallRight(k)'
      <4>1. CASE s = t
        <5>1. k = l
          BY <1>6, <3>1, <4>1 DEF CodeGood
        <5> QED BY <1>6, <5>1
      <4>2. CASE s # t
        <5>1. k = code[s]
          BY <1>6, <3>1, <4>2 DEF CodeGood
        <5> QED BY <1>3, <1>4, <2>1, <3>1, <5>1
      <4> QED BY <4>1, <4>2
    <3> QED BY <3>1, <3>2
  <2> QED BY <1>2, <1>6, <2>1 DEF CodeGood
<1> QED BY <1>5, <1>6 DEF CodeSame
-----------------------------------------------------------------------------
(* The invariant.                                                          *)

\* What the compiler emits for a call is right for every object the
\* expression can have as its value.
LEMMA CallOfGood ==
  ASSUME Tables, Cached, FinalsKept, NEW c \in declared, NEW n \in Name,
         Found(c, n) # None
  PROVE  LET k == CallOf(c, n, Found(c, n)) IN CallSound(k) /\ CallRight(k)
<1>1. PICK m : m = Found(c, n)
  OBVIOUS
<1>2. PICK k : k = CallOf(c, n, m)
  OBVIOUS
<1>3. c \in Class /\ Above[c] \subseteq declared /\ Above[c] \subseteq Class
  BY ClassesAreTree DEF Tables, Upwards, TreeAssumption
<1>4. /\ Answers(c, n, m) /\ m \in MethodsOf /\ m # None
      /\ n \in late \/ m = Scan(c, n)
  BY <1>1, <1>3, FoundFacts
<1>5. Cid(m) \in Class /\ Cid(m) \in Above[Cid(m)] /\ Cid(m) \in declared
  BY <1>3, <1>4, ClassesAreTree DEF Answers, TreeAssumption
<1> DEFINE final == ~ IsVirtual(m)
<1>6. /\ k = Compiled(final, c, Cid(m), n, m)
      /\ k.fixed = final /\ k.type = c /\ k.cid = Cid(m) /\ k.mn = n
      /\ k.mtd = m
  BY <1>2 DEF CallOf, Compiled
<1>7. k \in CallCode
  <2>1. final \in BOOLEAN
    OBVIOUS
  <2> HIDE DEF final
  <2> QED BY <1>3, <1>4, <1>5, <1>6, <2>1 DEF CallCode, Compiled
<1>8. CallSound(k)
  BY <1>4, <1>5, <1>6, <1>7 DEF CallSound, Answers
<1>9. CASE n \in late
  BY <1>1, <1>2, <1>6, <1>8, <1>9 DEF CallRight
<1>10. CASE n \notin late
  <2> DEFINE x == Cid(m)
  <2>1. /\ m = Scan(c, n) /\ m = <<x, First(x, n)>> /\ Places(x, n) # {}
        /\ x \in Above[c]
    BY <1>3, <1>4, <1>10, ScanFacts DEF Answers
  <2>2. ASSUME NEW d \in Class, x \in Above[d], ~ IsVirtual(m) \/ d = x
        PROVE  Scan(d, n) = m
    <3>1. x \in Providers(d, n)
      BY <2>1, <2>2 DEF Providers
    <3> DEFINE y == Cid(Scan(d, n))
    <3>2. /\ y \in Class /\ Places(y, n) # {} /\ x \in Above[y]
          /\ y \in Above[d] /\ Scan(d, n) = <<y, First(y, n)>>
      BY <3>1, ScanFinds, ScanFacts DEF Answers
    <3>3. CASE d = x
      BY <1>5, <2>1, <3>2, <3>3, ClassesAreTree DEF TreeAssumption
    <3>4. CASE ~ IsVirtual(m)
      <4>1. ~ methods[x][First(x, n)].virtual
        BY <2>1, <3>4 DEF IsVirtual
      <4>2. y = x
        BY <1>5, <1>10, <2>1, <3>2, <4>1 DEF FinalsKept
      <4> QED BY <2>1, <3>2, <4>2
    <3> QED BY <2>2, <3>3, <3>4
  <2>3. CASE k.fixed
    <3>1. \A d \in Below(c) : d \in Class /\ x \in Above[d]
      BY <1>3, <2>1, ClassesAreTree DEF Below, TreeAssumption
    <3>2. \A d \in Below(c) : Scan(d, n) = m
      BY <1>6, <2>2, <2>3, <3>1
    <3>3. CallRight(k)
      BY <1>6, <2>3, <3>2 DEF CallRight
    <3> QED BY <1>1, <1>2, <1>8, <3>3
  <2>4. CASE ~ k.fixed
    <3>1. Scan(x, n) = m
      BY <1>5, <2>2
    <3>2. CallRight(k)
      BY <1>6, <2>4, <3>1 DEF CallRight
    <3> QED BY <1>1, <1>2, <1>8, <3>2
  <2> QED BY <2>3, <2>4
<1> QED BY <1>9, <1>10

LEMMA InvInit == Init => Inv
<1> SUFFICES ASSUME Init PROVE Inv
  OBVIOUS
<1>1. \A c \in Class, n \in Name : Places(c, n) = {}
  BY DEF Init, Places
<1>2. methods \in [Class -> Seq([mn : Name, virtual : BOOLEAN])]
  BY DEF Init
<1>3. Tables
  BY <1>1, <1>2 DEF Init, Tables, OneMethodPerName, Upwards
<1>4. Cached
  BY DEF Init, Cached
<1>5. CodeGood
  BY DEF Init, CodeGood
<1>6. FinalsKept
  BY <1>1 DEF FinalsKept
<1> QED BY <1>3, <1>4, <1>5, <1>6 DEF Inv

LEMMA AddKeepsInv ==
  ASSUME Inv, NEW c \in Class, NEW n \in Name, NEW v \in BOOLEAN,
         DefineNew(c, n, v) \/ DefineOverride(c, n, v)
  PROVE  Inv'
<1>1. c \in declared /\ Admitted(c, n) /\ AddMethod(c, n, v)
  BY DEF DefineNew, DefineOverride, Admitted
<1> QED BY <1>1, AddKeepsTables, AddKeepsCached, AddKeepsCode,
           AddKeepsFinals DEF Inv

LEMMA SameKeepsInv ==
  ASSUME Inv, TablesSame, CacheSame, CodeSame
  PROVE  Inv'
BY SameKeepsTables, SameKeepsCached, SameKeepsCode DEF Inv

\* What a call answers, whichever way it finds the method.
LEMMA CallFacts ==
  ASSUME Inv, NEW s \in Site, NEW d \in Class, Call(s, d)
  PROVE  \E n \in Name, m \in MethodsOf :
           /\ d \in declared
           /\ Answer(d, n, m)
           /\ Mn(m) = n /\ Cid(m) \in Above[d]
           /\ n \in late \/ m = Scan(d, n)
<1> DEFINE k == code[s]
<1>1. /\ d \in declared /\ k # None /\ (k.type = None \/ k.type \in Above[d])
      /\ k \in CallCode /\ CallSound(k) /\ CallRight(k)
  BY DEF Call, CallFixed, CallKnown, CallLookup, Receives, Inv, CodeGood,
         CallSound
<1>2. k.mn \in Name /\ (k.mtd # None => k.mtd \in MethodsOf)
      /\ k.type \in Class \cup {None}
  BY <1>1 DEF CallCode
<1>3. CASE CallFixed(s, d)
  <2>1. /\ k.fixed /\ Answer(d, k.mn, k.mtd) /\ k.type \in Class
        /\ k.mtd # None /\ Cid(k.mtd) \in Above[k.type]
    BY <1>1, <1>3 DEF CallFixed, CallSound, Inv, Tables
  <2>2. k.type \in Above[d] /\ d \in Below(k.type)
    BY <1>1, <2>1, NoneAssumption DEF Below
  <2>3. Cid(k.mtd) \in Above[d]
    BY <2>1, <2>2, ClassesAreTree DEF TreeAssumption
  <2>4. k.mn \in late \/ k.mtd = Scan(d, k.mn)
    BY <1>1, <2>1, <2>2 DEF CallRight
  <2> QED BY <1>1, <1>2, <2>1, <2>3, <2>4 DEF CallSound
<1>4. CASE CallKnown(s, d)
  <2>1. ~ k.fixed /\ k.cid = d /\ d # None /\ Answer(d, k.mn, k.mtd)
    BY <1>4, NoneAssumption DEF CallKnown
  <2> QED BY <1>1, <1>2, <2>1 DEF CallSound, CallRight
<1>5. CASE CallLookup(s, d)
  <2>1. Found(d, k.mn) # None /\ Answer(d, k.mn, Found(d, k.mn))
    BY <1>5 DEF CallLookup
  <2> QED BY <1>1, <1>2, <2>1, FoundFacts DEF Inv, Answers
<1> QED BY <1>3, <1>4, <1>5 DEF Call
LEMMA CallKeepsInv ==
  ASSUME Inv, NEW s \in Site, NEW d \in Class, Call(s, d)
  PROVE  Inv'
<1>1. TablesSame /\ d \in declared
  BY CallFacts DEF Answer, TablesSame
<1>2. CASE CallFixed(s, d) \/ CallKnown(s, d)
  BY <1>1, <1>2, SameKeepsInv DEF CallFixed, CallKnown, CacheSame, CodeSame
<1>3. CASE CallLookup(s, d)
  <2> DEFINE k == code[s]
  <2>1. k # None /\ k \in CallCode /\ CallSound(k) /\ ~ k.fixed
        /\ k.mn \in Name
    BY <1>3 DEF CallLookup, Receives, Inv, CodeGood, CallSound, CallCode
  <2>2. PICK m : m = Found(d, k.mn)
    OBVIOUS
  <2>3. PICK l : l = Compiled(FALSE, k.type, d, k.mn, m)
    OBVIOUS
  <2>4. /\ l.fixed = FALSE /\ l.type = k.type /\ l.cid = d /\ l.mn = k.mn
        /\ l.mtd = m /\ l \in CallCode
        /\ m # None /\ Answers(d, k.mn, m)
        /\ k.mn \in late \/ m = Scan(d, k.mn)
    <3>1. m # None /\ Answers(d, k.mn, m) /\ m \in MethodsOf
          /\ (k.mn \in late \/ m = Scan(d, k.mn))
      BY <1>3, <2>1, <2>2, FoundFacts DEF CallLookup, Inv
    <3> QED BY <2>1, <2>3, <3>1 DEF Compiled, CallCode
  <2>5. /\ code' = [code EXCEPT ![s] = l]
        /\ mtdcache' = Looked(d, k.mn)
        /\ called' = called \cup {<<d, k.mn>>}
        /\ methods' = methods /\ declared' = declared /\ late' = late
    BY <1>3, <2>1, <2>2, <2>3 DEF CallLookup, Answer, Inv, CodeGood
  <2>6. CallSound(l)'
    <3>1. l \in CallCode'
      BY <2>4, <2>5 DEF CallCode, MethodsOf
    <3> QED BY <1>1, <2>4, <2>5, <3>1 DEF CallSound, Answers, Mn, Cid
  <2>7. CallRight(l)'
    <3>1. Scan(d, l.mn)' = Scan(d, l.mn)
      BY <2>1, <2>4, <2>5, ScansStay DEF Inv
    <3> QED BY <2>4, <2>5, <3>1 DEF CallRight
  <2>8. CodeSame
    BY <2>4, <2>5, <2>6, <2>7 DEF CodeSame
  <2>9. CacheSame
    BY <1>1, <2>1, <2>5 DEF CacheSame
  <2> QED BY <1>1, <2>8, <2>9, SameKeepsInv
<1> QED BY <1>2, <1>3 DEF Call

LEMMA CompileKeepsInv ==
  ASSUME Inv, NEW s \in Site, NEW n \in Name, Compile(s, n)
  PROVE  Inv'
<1>1. TablesSame /\ methods' = methods /\ declared' = declared
      /\ called' = called /\ late' = late
  BY DEF Compile, CompileDynamic, CompileCall, TablesSame
<1>2. CASE CompileDynamic(s, n)
  <2>1. PICK k : k = Compiled(FALSE, None, None, n, None)
    OBVIOUS
  <2>2. k \in CallCode /\ k.fixed = FALSE /\ k.cid = None /\ k.mtd = None
        /\ k \in CallCode'
    BY <2>1 DEF Compiled, CallCode
  <2>3. CallSound(k)' /\ CallRight(k)'
    BY <2>2 DEF CallSound, CallRight
  <2>4. CodeSame /\ CacheSame
    BY <1>2, <2>1, <2>2, <2>3 DEF CompileDynamic, CodeSame, CacheSame
  <2> QED BY <1>1, <2>4, SameKeepsInv
<1>3. ASSUME NEW c \in Class, CompileCall(s, c, n) PROVE Inv'
  <2>1. c \in declared /\ Found(c, n) # None /\ mtdcache' = Looked(c, n)
    BY <1>3 DEF CompileCall
  <2>2. PICK k : k = CallOf(c, n, Found(c, n))
    OBVIOUS
  <2>3. CallSound(k) /\ CallRight(k) /\ k \in CallCode
    BY <2>1, <2>2, CallOfGood DEF Inv, CallSound
  <2>4. CallSound(k)' /\ CallRight(k)'
    BY <1>1, <2>3, CallStays DEF Inv
  <2>5. code' = [code EXCEPT ![s] = k]
    BY <1>3, <2>2 DEF CompileCall
  <2>6. CodeSame /\ CacheSame
    BY <2>1, <2>3, <2>4, <2>5 DEF CodeSame, CacheSame
  <2> QED BY <1>1, <2>6, SameKeepsInv
<1> QED BY <1>2, <1>3 DEF Compile

LEMMA InvNext == Inv /\ [Next]_vars => Inv'
<1> SUFFICES ASSUME Inv, [Next]_vars PROVE Inv'
  OBVIOUS
<1>1. ASSUME NEW c \in Class, Declare(c) PROVE Inv'
  <2>1. TablesSame /\ CacheSame /\ CodeSame
    BY <1>1 DEF Declare, TablesSame, CacheSame, CodeSame
  <2> QED BY <2>1, SameKeepsInv
<1>2. ASSUME NEW c \in Class, NEW n \in Name, Definition(c, n) PROVE Inv'
  <2>1. ASSUME NEW v \in BOOLEAN, DefineNew(c, n, v) \/ DefineOverride(c, n, v)
        PROVE  Inv'
    BY <2>1, AddKeepsInv
  <2>2. CASE DefineRefused(c, n) \/ DefineAgain(c, n) \/ Resolve(c, n)
    <3>1. TablesSame /\ CacheSame /\ CodeSame
      BY <2>2 DEF DefineRefused, DefineAgain, Resolve, TablesSame, CacheSame,
                  CodeSame
    <3> QED BY <3>1, SameKeepsInv
  <2> QED BY <1>2, <2>1, <2>2 DEF Definition
<1>3. CASE UNCHANGED vars
  <2>1. TablesSame /\ CacheSame /\ CodeSame
    BY <1>3 DEF vars, TablesSame, CacheSame, CodeSame
  <2> QED BY <2>1, SameKeepsInv
<1> QED BY <1>1, <1>2, <1>3, CompileKeepsInv, CallKeepsInv DEF Next

LEMMA InvAlways == Spec => []Inv
<1> QED BY InvInit, InvNext, PTL DEF Spec

-----------------------------------------------------------------------------
(* What follows.                                                           *)

\* The caches and the instructions hold methods of the arrays, under the name
\* and at the place they are kept for.
THEOREM TablesTyped == Spec => []TypeOK
<1>1. Inv => TypeOK
  BY DEF Inv, Tables, Cached, EntryGood, CodeGood, CallSound, TypeOK, Answers
<1> QED BY <1>1, InvAlways, PTL

\* METHOD_typing never gives a class two methods of a name, through whatever
\* cache it looks for the first.
THEOREM NeverTwice == Spec => []OneMethodPerName
<1>1. Inv => OneMethodPerName
  BY DEF Inv, Tables
<1> QED BY <1>1, InvAlways, PTL

\* The entries of mtdcache agree with the arrays, for every size of the cache
\* and every hash function, as long as definitions come in time.
THEOREM CacheIsCoherent == Spec => []CacheCoherent
<1>1. Inv => CacheCoherent
  BY DEF Inv, Cached, EntryGood, CacheCoherent
<1> QED BY <1>1, InvAlways, PTL

\* So do the instructions that remember a method, and a call compiled to a
\* method is right for every class the expression can have.
THEOREM SitesAreCoherent == Spec => []SitesCoherent
<1>1. Inv => SitesCoherent
  BY DEF Inv, CodeGood, CallRight, SitesCoherent
<1> QED BY <1>1, InvAlways, PTL

\* No class below that of a final method has a method of its name.
THEOREM FinalsAreKept == Spec => []FinalsKept
<1>1. Inv => FinalsKept
  BY DEF Inv
<1> QED BY <1>1, InvAlways, PTL

\* A step that late binding does not see.
Quiet == UNCHANGED <<declared, methods, called, late>> /\ answer' = None

LEMMA DefinitionRefines ==
  ASSUME Tables, Cached, NEW c \in declared, NEW n \in Name, NEW v \in BOOLEAN,
         Admitted(c, n), AddMethod(c, n, v)
  PROVE  LB!Define(c, n)
<1>1. c \in Class /\ Places(c, n) = {}
  BY AdmittedIsNew DEF Tables
<1>2. Own' = [Own EXCEPT ![c] = @ \cup {n}]
  <2>1. Places(c, n)' # {}
    BY <1>1, PlaceAdded
  <2>2. ASSUME NEW d \in Class, NEW k \in Name, d # c \/ k # n
        PROVE  Places(d, k)' = Places(d, k)
    BY <1>1, <2>2, PlacesStay
  <2>3. ASSUME NEW d \in Class
        PROVE  Own'[d] = IF d = c THEN Own[c] \cup {n} ELSE Own[d]
    <3>1. CASE d # c
      BY <2>2, <3>1 DEF Own
    <3>2. CASE d = c
      <4>1. \A k \in Name : k # n => Places(c, k)' = Places(c, k)
        BY <1>1, <2>2
      <4>2. \A k \in Name : Places(c, k)' # {} <=> Places(c, k) # {} \/ k = n
        BY <2>1, <4>1
      <4> QED BY <3>2, <4>2 DEF Own
    <3> QED BY <3>1, <3>2
  <2> QED BY <2>3 DEF Own
<1>3. n \notin Own[c]
  BY <1>1 DEF Own
<1>4. LB!TooLate(c, n) <=> TooLate(c, n)
  BY DEF TooLate, LB!TooLate
<1> QED BY <1>2, <1>3, <1>4 DEF AddMethod, LB!Define

LEMMA CallRefines ==
  ASSUME Inv, NEW s \in Site, NEW d \in Class, Call(s, d)
  PROVE  \E n \in Name : LB!Call(d, n)
<1>1. PICK n \in Name, m \in MethodsOf :
        /\ d \in declared
        /\ Answer(d, n, m)
        /\ Mn(m) = n /\ Cid(m) \in Above[d]
        /\ n \in late \/ m = Scan(d, n)
  BY CallFacts
<1> DEFINE a == Cid(m)
<1>2. m \in Class \X (Nat \ {0}) /\ a \in Class /\ m = <<a, m[2]>>
  BY DEF MethodsOf, Method, Cid
<1>3. LB!Providers(d, n) = Providers(d, n)
  BY <1>1, ClassesAreTree DEF LB!Providers, Providers, Own, TreeAssumption
<1>4. a \in Providers(d, n)
  <2>1. methods[a] \in Seq([mn : Name, virtual : BOOLEAN])
    BY <1>2 DEF Inv, Tables
  <2>2. m[2] \in Places(a, n)
    BY <1>1, <1>2, <2>1 DEF Places, MethodsOf, Mn, Cid
  <2> QED BY <1>1, <2>2 DEF Providers
<1>5. n \in late \/ a = Lowest(Providers(d, n))
  BY <1>1, <1>4, ScanFinds, ScanFacts DEF Inv
<1>6. Own' = Own
  BY <1>1 DEF Answer, Own, Places
<1>7. answer' = <<d, n, m>> /\ answer' # None
  <2>1. m \in Class \X Nat
    BY <1>2
  <2> QED BY <1>1, <2>1, NoneAssumption DEF Answer
<1>8. (IF answer' = None THEN None
       ELSE <<answer'[1], answer'[2], Cid(answer'[3])>>) = <<d, n, a>>
  BY <1>7 DEF Cid
<1>9. called' = called \cup {<<d, n>>} /\ declared' = declared /\ late' = late
  BY <1>1 DEF Answer
<1>10. LB!Call(d, n)
  BY <1>1, <1>3, <1>4, <1>5, <1>6, <1>8, <1>9 DEF LB!Call, LB!Lowest, Lowest,
     Cid
<1> QED BY <1>10

\* The calls of a program are those of late binding.
THEOREM CallsBindLate == Spec => ImplementsLateBinding
<1>1. Init => LB!Init
  BY DEF Init, LB!Init, Own, Places
<1>2. Inv /\ [Next]_vars => [LB!Next]_(LB!bindingVars)
  <2> SUFFICES ASSUME Inv, [Next]_vars
               PROVE  [LB!Next]_(LB!bindingVars)
    OBVIOUS
  <2>1. ASSUME NEW c \in Class, Declare(c) PROVE LB!Next
    <3>1. Own' = Own
      BY <2>1 DEF Declare, Own, Places
    <3>2. LB!Declare(c)
      BY <2>1, <3>1 DEF Declare, LB!Declare
    <3> QED BY <3>2 DEF LB!Next
  <2>2. ASSUME NEW c \in Class, NEW n \in Name, NEW v \in BOOLEAN,
               DefineNew(c, n, v) \/ DefineOverride(c, n, v)
        PROVE  LB!Next
    <3>1. LB!Define(c, n)
      BY <2>2, DefinitionRefines DEF Inv, DefineNew, DefineOverride, Admitted
    <3> QED BY <3>1 DEF LB!Next
  <2>3. ASSUME NEW s \in Site, NEW d \in Class, Call(s, d) PROVE LB!Next
    <3>1. PICK n \in Name : LB!Call(d, n)
      BY <2>3, CallRefines
    <3> QED BY <3>1 DEF LB!Next
  <2>4. ASSUME Quiet PROVE LB!Next
    <3>1. Own' = Own
      BY <2>4 DEF Quiet, Own, Places
    <3>2. LB!Other
      BY <2>4, <3>1 DEF Quiet, LB!Other
    <3> QED BY <3>2 DEF LB!Next
  <2>5. CASE UNCHANGED vars
    <3>1. Own' = Own
      BY <2>5 DEF vars, Own, Places
    <3> QED BY <2>5, <3>1 DEF vars, LB!bindingVars
  <2>6. ASSUME NEW c \in Class, NEW n \in Name, Definition(c, n)
        PROVE  LB!Next
    <3>1. DefineRefused(c, n) \/ DefineAgain(c, n) \/ Resolve(c, n) => Quiet
      BY DEF DefineRefused, DefineAgain, Resolve, Quiet
    <3> QED BY <2>2, <2>4, <2>6, <3>1 DEF Definition
  <2>7. ASSUME NEW s \in Site, NEW n \in Name, Compile(s, n)
        PROVE  LB!Next
    <3>1. Quiet
      BY <2>7 DEF Compile, CompileDynamic, CompileCall, Quiet
    <3> QED BY <2>4, <3>1
  <2> QED BY <2>1, <2>3, <2>5, <2>6, <2>7 DEF Next
<1>3. QED
  BY <1>1, <1>2, InvAlways, PTL DEF Spec, ImplementsLateBinding, LB!Spec
=============================================================================
