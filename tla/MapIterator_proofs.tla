------------------------- MODULE MapIterator_proofs -------------------------
(***************************************************************************)
(* Proofs about hash maps, pointer maps and their iterators.               *)
(***************************************************************************)
EXTENDS MapIterator, FiniteSetTheorems, WellFoundedInduction, TLAPS

(* A set of numbers that begins with 0 and goes on has them all. *)
LEMMA AllNumbers ==
  ASSUME NEW T \in SUBSET Nat, 0 \in T, \A n \in T : n + 1 \in T
  PROVE  T = Nat
<1> SUFFICES ASSUME Nat \ T # {}
             PROVE  FALSE
  OBVIOUS
<1>1. PICK d \in Nat \ T : \A c \in Nat \ T : ~(<<c, d>> \in OpToRel(<, Nat))
  BY NatLessThanWellFounded, WFMin
<1>2. d - 1 \in Nat /\ d - 1 < d /\ (d - 1) + 1 = d
  <2>1. d \in Nat /\ d # 0
    BY <1>1
  <2> QED
    BY <2>1
<1>3. d - 1 \notin Nat \ T
  BY <1>1, <1>2 DEF OpToRel
<1> QED
  BY <1>1, <1>2, <1>3

(* A set of positions has a largest one. *)
LEMMA LargestIs ==
  ASSUME NEW n \in Nat, NEW S \in SUBSET (1 .. n), S # {}
  PROVE  Largest(S) \in S /\ \A j \in S : j <= Largest(S)
<1> DEFINE T == {d \in Nat : n - d \in S}
<1>1. PICK d \in T : \A c \in T : ~(<<c, d>> \in OpToRel(<, Nat))
  <2>1. PICK i \in S : TRUE
    OBVIOUS
  <2>2. n - i \in Nat /\ n - (n - i) = i
    BY <2>1
  <2>3. T \subseteq Nat /\ T # {}
    BY <2>1, <2>2
  <2> HIDE DEF T
  <2> QED
    BY <2>3, NatLessThanWellFounded, WFMin
<1>2. d \in Nat /\ n - d \in S
  BY <1>1
<1>3. ASSUME NEW j \in S
      PROVE  j <= n - d
  <2>1. n - j \in Nat /\ n - (n - j) = j
    OBVIOUS
  <2>2. n - j \in T
    BY <2>1
  <2> HIDE DEF T
  <2>3. ~(n - j < d)
    BY <1>1, <1>2, <2>1, <2>2 DEF OpToRel
  <2> QED
    BY <1>2, <2>1, <2>3
<1> QED
  BY <1>2, <1>3 DEF Largest

-----------------------------------------------------------------------------
(***************************************************************************)
(* Lists over an arena of n entries, linked by nx.  X names the lists, and *)
(* c has their heads; w[i] is the list that entry i is on, and r[i] is its *)
(* rank there: the entries of a list come in descending order of rank.     *)
(***************************************************************************)
OnList(w, x) == {i \in DOMAIN w : w[i] = x}

Behind(w, r, i) == {j \in DOMAIN w : w[j] = w[i] /\ r[j] < r[i]}

(* t is the entry of the highest rank in S, or Null when there is none. *)
Leads(t, r, S) == IF t = 0 THEN S = {} ELSE t \in S /\ \A j \in S : r[j] <= r[t]

Lists(nx, c, w, r, X, n) ==
  /\ n \in Nat
  /\ nx \in [1 .. n -> 0 .. n]
  /\ c \in [X -> 0 .. n]
  /\ w \in [1 .. n -> X]
  /\ r \in [1 .. n -> Int]
  /\ \A i, j \in 1 .. n : w[i] = w[j] /\ r[i] = r[j] => i = j
  /\ \A x \in X : Leads(c[x], r, OnList(w, x))
  /\ \A i \in 1 .. n : Leads(nx[i], r, Behind(w, r, i))

(* Entry e is taken off its list and put at the head of list y. *)
Moved(nx, c, w, e, y, nx2, c2, n) ==
  /\ nx2 \in [1 .. n -> 0 .. n]
  /\ \A i \in 1 .. n : i # e => nx2[i] = IF nx[i] = e THEN nx[e] ELSE nx[i]
  /\ LET rest == IF c[w[e]] = e THEN [c EXCEPT ![w[e]] = nx[e]] ELSE c
     IN /\ nx2[e] = rest[y]
        /\ c2 = [rest EXCEPT ![y] = e]

(* It ranks above the entries of its new list. *)
LEMMA MoveKeeps ==
  ASSUME NEW X, NEW n, NEW nx, NEW c, NEW w, NEW r, Lists(nx, c, w, r, X, n),
         NEW e \in 1 .. n, NEW y \in X, NEW nx2, NEW c2,
         Moved(nx, c, w, e, y, nx2, c2, n),
         NEW q \in Int, \A j \in 1 .. n : w[j] = y => r[j] < q
  PROVE  Lists(nx2, c2, [w EXCEPT ![e] = y], [r EXCEPT ![e] = q], X, n)
<1>1. /\ n \in Nat /\ nx \in [1 .. n -> 0 .. n] /\ c \in [X -> 0 .. n]
      /\ w \in [1 .. n -> X] /\ r \in [1 .. n -> Int]
      /\ \A i, j \in 1 .. n : w[i] = w[j] /\ r[i] = r[j] => i = j
      /\ \A x \in X : Leads(c[x], r, OnList(w, x))
      /\ \A i \in 1 .. n : Leads(nx[i], r, Behind(w, r, i))
  BY DEF Lists
<1>2. PICK v : v = [w EXCEPT ![e] = y]
  OBVIOUS
<1>3. PICK s : s = [r EXCEPT ![e] = q]
  OBVIOUS
<1>4. /\ v \in [1 .. n -> X] /\ v[e] = y /\ \A i \in 1 .. n : i # e => v[i] = w[i]
      /\ s \in [1 .. n -> Int] /\ s[e] = q /\ \A i \in 1 .. n : i # e => s[i] = r[i]
  BY <1>1, <1>2, <1>3
<1>5. PICK x \in X : x = w[e]
  BY <1>1
<1>6. PICK d \in [X -> 0 .. n] : d = IF c[x] = e THEN [c EXCEPT ![x] = nx[e]] ELSE c
  BY <1>1
<1>7. /\ nx2 \in [1 .. n -> 0 .. n]
      /\ \A i \in 1 .. n : i # e => nx2[i] = IF nx[i] = e THEN nx[e] ELSE nx[i]
      /\ nx2[e] = d[y] /\ c2 = [d EXCEPT ![y] = e]
  BY <1>5, <1>6 DEF Moved
<1>8. /\ c2 \in [X -> 0 .. n] /\ c2[y] = e
      /\ \A z \in X : z # y => c2[z] = d[z]
  BY <1>6, <1>7
<1>9. \A i, j \in 1 .. n : v[i] = v[j] /\ s[i] = s[j] => i = j
  <2> SUFFICES ASSUME NEW i \in 1 .. n, NEW j \in 1 .. n, v[i] = v[j], s[i] = s[j]
               PROVE  i = j
    OBVIOUS
  <2>1. CASE i # e /\ j # e
    BY <1>1, <1>4, <2>1
  <2>2. ASSUME NEW k \in 1 .. n, k # e, v[k] = y
        PROVE  s[k] # q
    <3>1. w[k] = y /\ r[k] < q /\ s[k] = r[k] /\ r[k] \in Int
      BY <1>1, <1>4, <2>2
    <3> QED
      BY <3>1
  <2> QED
    BY <1>4, <2>1, <2>2
(* Without e, the lists are led as before, but where e was. *)
<1>10. ASSUME NEW z \in X
       PROVE  Leads(d[z], r, OnList(w, z) \ {e})
  <2>1. Leads(c[z], r, OnList(w, z)) /\ Leads(nx[e], r, Behind(w, r, e))
    BY <1>1
  <2>2. CASE z # x
    <3>1. d[z] = c[z] /\ OnList(w, z) \ {e} = OnList(w, z)
      BY <1>1, <1>5, <1>6, <2>2 DEF OnList
    <3> QED
      BY <2>1, <3>1
  <2>3. CASE z = x /\ c[x] # e
    <3>1. d[z] = c[z] /\ e \in OnList(w, z)
      BY <1>1, <1>5, <1>6, <2>3 DEF OnList
    <3> QED
      BY <2>1, <2>3, <3>1 DEF Leads
  <2>4. CASE z = x /\ c[x] = e
    <3>1. d[z] = nx[e]
      BY <1>1, <1>6, <2>4
    <3>2. OnList(w, z) \ {e} = Behind(w, r, e)
      <4>1. \A j \in 1 .. n : w[j] = x => r[j] <= r[e]
        BY <1>1, <2>1, <2>4 DEF Leads, OnList
      <4>2. \A j \in 1 .. n : w[j] = x /\ j # e => r[j] < r[e]
        BY <1>1, <1>5, <4>1
      <4>3. r[e] \in Int /\ ~(r[e] < r[e])
        BY <1>1
      <4> QED
        BY <1>1, <1>5, <2>4, <4>2, <4>3 DEF OnList, Behind
    <3> QED
      BY <2>1, <3>1, <3>2
  <2> QED
    BY <2>2, <2>3, <2>4
<1>11. ASSUME NEW z \in X
       PROVE  Leads(c2[z], s, OnList(v, z))
  <2>1. Leads(d[z], r, OnList(w, z) \ {e})
    BY <1>10
  <2>2. CASE z # y
    <3>1. c2[z] = d[z] /\ OnList(v, z) = OnList(w, z) \ {e}
      <4>1. DOMAIN v = 1 .. n /\ DOMAIN w = 1 .. n
        BY <1>1, <1>4
      <4>2. \A j \in 1 .. n : v[j] = z <=> w[j] = z /\ j # e
        BY <1>4, <2>2
      <4> QED
        BY <1>8, <2>2, <4>1, <4>2 DEF OnList
    <3>2. \A j \in OnList(w, z) \ {e} : s[j] = r[j]
      BY <1>1, <1>4 DEF OnList
    <3> QED
      BY <2>1, <3>1, <3>2 DEF Leads
  <2>3. CASE z = y
    <3>1. e \in OnList(v, z) /\ e # 0 /\ c2[z] = e
      BY <1>4, <1>8, <2>3 DEF OnList
    <3>2. ASSUME NEW j \in OnList(v, z)
          PROVE  s[j] <= s[e]
      <4>1. j \in 1 .. n /\ v[j] = y
        BY <1>4, <2>3 DEF OnList
      <4>2. r[j] \in Int /\ (w[j] = y => r[j] < q)
        BY <1>1, <4>1
      <4> QED
        BY <1>4, <4>1, <4>2
    <3> QED
      BY <3>1, <3>2 DEF Leads
  <2> QED
    BY <2>2, <2>3
<1>12. ASSUME NEW i \in 1 .. n
       PROVE  Leads(nx2[i], s, Behind(v, s, i))
  <2>1. CASE i = e
    <3>1. nx2[e] = d[y] /\ Leads(d[y], r, OnList(w, y) \ {e})
      BY <1>7, <1>10
    <3>2. Behind(v, s, e) = OnList(w, y) \ {e}
      <4>1. DOMAIN v = 1 .. n /\ DOMAIN w = 1 .. n
        BY <1>1, <1>4
      <4>2. ~(q < q)
        OBVIOUS
      <4>3. \A j \in 1 .. n : v[j] = y /\ s[j] < q <=> w[j] = y /\ j # e
        BY <1>4, <4>2
      <4> QED
        BY <1>4, <4>1, <4>3 DEF Behind, OnList
    <3>3. \A j \in OnList(w, y) \ {e} : s[j] = r[j]
      BY <1>1, <1>4 DEF OnList
    <3> QED
      BY <2>1, <3>1, <3>2, <3>3 DEF Leads
  <2>2. CASE i # e
    <3>1. Leads(nx[i], r, Behind(w, r, i)) /\ Leads(nx[e], r, Behind(w, r, e))
      BY <1>1
    <3>2. Behind(v, s, i) = Behind(w, r, i) \ {e}
      <4>1. ASSUME NEW j \in 1 .. n
            PROVE  v[j] = v[i] /\ s[j] < s[i] <=> w[j] = w[i] /\ r[j] < r[i] /\ j # e
        <5>1. CASE j # e
          BY <1>4, <2>2, <5>1
        <5>2. CASE j = e
          <6>1. v[i] = w[i] /\ s[i] = r[i] /\ v[e] = y /\ s[e] = q
            BY <1>4, <2>2
          <6>2. w[i] = y => r[i] < q
            OBVIOUS
          <6>3. r[i] \in Int
            BY <1>1
          <6> QED
            BY <5>2, <6>1, <6>2, <6>3
        <5> QED
          BY <5>1, <5>2
      <4> QED
        BY <1>1, <1>4, <4>1 DEF Behind
    <3>3. \A j \in Behind(w, r, i) \ {e} : s[j] = r[j]
      BY <1>1, <1>4 DEF Behind
    <3>4. Leads(nx2[i], r, Behind(w, r, i) \ {e})
      <4>1. CASE nx[i] # e
        <5>1. nx2[i] = nx[i]
          BY <1>7, <2>2, <4>1
        <5>2. nx[i] = 0 => Behind(w, r, i) \ {e} = Behind(w, r, i)
          BY <3>1 DEF Leads
        <5> QED
          BY <3>1, <4>1, <5>1, <5>2 DEF Leads
      <4>2. CASE nx[i] = e
        <5>1. nx2[i] = nx[e]
          BY <1>7, <2>2, <4>2
        <5>2. e \in Behind(w, r, i) /\ \A j \in Behind(w, r, i) : r[j] <= r[e]
          BY <3>1, <4>2 DEF Leads
        <5>3. Behind(w, r, i) \ {e} = Behind(w, r, e)
          <6>1. DOMAIN w = 1 .. n
            BY <1>1
          <6>2. w[e] = w[i] /\ r[e] < r[i] /\ r[e] \in Int /\ r[i] \in Int
            BY <1>1, <5>2 DEF Behind
          <6>3. ASSUME NEW j \in 1 .. n, w[j] = w[i]
                PROVE  r[j] < r[i] /\ j # e <=> r[j] < r[e]
            <7>1. r[j] \in Int /\ (r[j] = r[e] => j = e)
              BY <1>1, <6>2, <6>3
            <7>2. r[j] < r[i] => r[j] <= r[e]
              BY <5>2, <6>1, <6>3 DEF Behind
            <7> QED
              BY <6>2, <7>1, <7>2
          <6> QED
            BY <6>1, <6>2, <6>3 DEF Behind
        <5> QED
          BY <3>1, <5>1, <5>3
      <4> QED
        BY <4>1, <4>2
    <3> QED
      BY <3>2, <3>3, <3>4 DEF Leads
  <2> QED
    BY <2>1, <2>2
<1>13. Lists(nx2, c2, v, s, X, n)
  BY <1>1, <1>4, <1>7, <1>8, <1>9, <1>11, <1>12 DEF Lists
<1> QED
  BY <1>2, <1>3, <1>13

-----------------------------------------------------------------------------
(***************************************************************************)
(* Walking along a list.                                                   *)
(***************************************************************************)
Nexts(a) == [i \in 1 .. Len(a) |-> a[i].next]

(* f is the walk from e over n entries. *)
Walks(f, nx, n, e) ==
  /\ f \in [0 .. n -> 0 .. n]
  /\ f[0] = e
  /\ \A m \in 0 .. (n - 1) : f[m + 1] = IF f[m] = 0 THEN 0 ELSE nx[f[m]]

LEMMA WalkIs ==
  ASSUME NEW n \in Nat, n = ArenaSize, NEW nx \in [1 .. n -> 0 .. n], nx = Nexts(arena),
         NEW e \in 0 .. n
  PROVE  Walks(Walk(e), nx, n, e)
<1>1. \A i \in 0 .. n : /\ After(i) = IF i = 0 THEN 0 ELSE nx[i]
                        /\ After(i) \in 0 .. n
  BY DEF After, Null, Nexts, ArenaSize
<1> DEFINE Is(f, k) == /\ f \in [0 .. k -> 0 .. n]
                       /\ f[0] = e
                       /\ \A m \in 0 .. (k - 1) : f[m + 1] = After(f[m])
           T == {k \in Nat : \E f : Is(f, k)}
<1>2. T = Nat
  <2>1. T \subseteq Nat
    OBVIOUS
  <2>2. 0 \in T
    <3>1. Is([m \in 0 .. 0 |-> e], 0)
      OBVIOUS
    <3> QED
      BY <3>1
  <2>3. ASSUME NEW k \in T
        PROVE  k + 1 \in T
    <3>1. k \in Nat
      OBVIOUS
    <3>2. PICK f : Is(f, k)
      OBVIOUS
    <3>3. PICK g : g = [m \in 0 .. (k + 1) |-> IF m = 0 THEN e ELSE After(f[m - 1])]
      OBVIOUS
    <3>4. \A m \in 0 .. k : g[m] = f[m]
      <4> SUFFICES ASSUME NEW m \in 0 .. k
                   PROVE  g[m] = f[m]
        OBVIOUS
      <4>1. CASE m = 0
        BY <3>1, <3>2, <3>3, <4>1
      <4>2. CASE m # 0
        <5>1. m - 1 \in 0 .. (k - 1) /\ (m - 1) + 1 = m /\ m \in 0 .. (k + 1)
          BY <3>1, <4>2
        <5>2. f[m] = After(f[m - 1])
          BY <3>2, <5>1
        <5> QED
          BY <3>3, <4>2, <5>1, <5>2
      <4> QED
        BY <4>1, <4>2
    <3>5. g \in [0 .. (k + 1) -> 0 .. n]
      <4>1. ASSUME NEW m \in 0 .. (k + 1)
            PROVE  (IF m = 0 THEN e ELSE After(f[m - 1])) \in 0 .. n
        <5>1. m # 0 => m - 1 \in 0 .. k
          BY <3>1
        <5> QED
          BY <1>1, <3>2, <5>1
      <4> QED
        BY <3>3, <4>1
    <3>6. ASSUME NEW m \in 0 .. k
          PROVE  g[m + 1] = After(g[m])
      <4>1. m + 1 \in 0 .. (k + 1) /\ m + 1 # 0 /\ (m + 1) - 1 = m
        BY <3>1
      <4> QED
        BY <3>3, <3>4, <4>1
    <3>7. g[0] = e
      BY <3>1, <3>3
    <3>8. Is(g, k + 1)
      BY <3>1, <3>5, <3>6, <3>7
    <3>9. k + 1 \in Nat /\ \E h : Is(h, k + 1)
      <4> HIDE DEF Is
      <4> QED
        BY <3>1, <3>8
    <3> QED
      BY <3>9
  <2> HIDE DEF T
  <2> QED
    BY <2>1, <2>2, <2>3, AllNumbers
<1>3. PICK f \in [0 .. n -> 0 .. n] : Is(f, n)
  <2>1. PICK f : Is(f, n)
    BY <1>2
  <2> QED
    BY <2>1
<1> DEFINE Eq(g) == g = [m \in 0 .. ArenaSize |-> IF m = 0 THEN e ELSE After(g[m - 1])]
<1>4. Eq(f)
  <2>1. ASSUME NEW m \in 0 .. n
        PROVE  f[m] = IF m = 0 THEN e ELSE After(f[m - 1])
    <3>1. m # 0 => m - 1 \in 0 .. (n - 1) /\ (m - 1) + 1 = m
      OBVIOUS
    <3> QED
      BY <1>3, <3>1
  <2> QED
    BY <2>1
<1>5. Eq(Walk(e))
  <2>1. Walk(e) = CHOOSE g : Eq(g)
    BY DEF Walk
  <2> HIDE DEF Eq
  <2> QED
    BY <1>4, <2>1
<1>6. PICK g : g = Walk(e)
  OBVIOUS
<1> DEFINE S == {m \in Nat : m <= n => g[m] = f[m]}
<1>7. S = Nat
  <2>1. S \subseteq Nat
    OBVIOUS
  <2>2. 0 \in S
    BY <1>3, <1>5, <1>6
  <2>3. ASSUME NEW m \in S
        PROVE  m + 1 \in S
    <3>1. SUFFICES ASSUME m + 1 <= n
                   PROVE  g[m + 1] = f[m + 1]
      OBVIOUS
    <3>2. m + 1 \in 0 .. n /\ m + 1 # 0 /\ (m + 1) - 1 = m /\ m \in 0 .. (n - 1)
      BY <3>1
    <3>3. g[m] = f[m] /\ f[m + 1] = After(f[m])
      BY <1>3, <3>2
    <3>4. g[m + 1] = After(g[m])
      BY <1>5, <1>6, <3>2
    <3> QED
      BY <3>3, <3>4
  <2> HIDE DEF S
  <2> QED
    BY <2>1, <2>2, <2>3, AllNumbers
<1>8. ASSUME NEW m \in 0 .. n
      PROVE  g[m] = f[m]
  <2>1. m \in S
    <3> HIDE DEF S
    <3> QED
      BY <1>7
  <2> QED
    BY <2>1
<1>9. g = f
  <2>1. g = [m \in 0 .. n |-> IF m = 0 THEN e ELSE After(g[m - 1])]
    BY <1>5, <1>6
  <2>2. g = [m \in 0 .. n |-> g[m]]
    BY <2>1
  <2> HIDE DEF Eq, Is
  <2> QED
    BY <1>3, <1>8, <2>2
<1>10. ASSUME NEW m \in 0 .. (n - 1)
       PROVE  f[m + 1] = IF f[m] = 0 THEN 0 ELSE nx[f[m]]
  <2>1. f[m] \in 0 .. n /\ f[m + 1] = After(f[m])
    BY <1>3
  <2> QED
    BY <1>1, <2>1
<1>11. Walks(f, nx, n, e)
  BY <1>3, <1>10 DEF Walks
<1> QED
  BY <1>6, <1>9, <1>11

(* Sequence s has the entries of list x, in descending order of rank. *)
Lined(s, w, r, x) ==
  /\ s \in Seq(DOMAIN w)
  /\ \A i \in DOMAIN w : i \in OnList(w, x) <=> \E m \in 1 .. Len(s) : s[m] = i
  /\ \A m, l \in 1 .. Len(s) : m < l => r[s[l]] < r[s[m]]

(* What a walk along list x has passed when it is at its entry number l. *)
Passed(f, w, r, x, l) ==
  /\ f[l] # 0 => /\ f[l] \in OnList(w, x)
                 /\ \A k \in 0 .. (l - 1) : f[k] # 0 /\ r[f[l]] < r[f[k]]
  /\ \A i \in OnList(w, x) : \/ \E k \in 0 .. (l - 1) : f[k] = i
                             \/ f[l] # 0 /\ r[i] <= r[f[l]]

LEMMA PassesOn ==
  ASSUME NEW X, NEW n, NEW nx, NEW c, NEW w, NEW r, Lists(nx, c, w, r, X, n),
         NEW x \in X, NEW f \in [0 .. n -> 0 .. n], NEW l \in 0 .. (n - 1),
         Passed(f, w, r, x, l), f[l + 1] = IF f[l] = 0 THEN 0 ELSE nx[f[l]]
  PROVE  Passed(f, w, r, x, l + 1)
<1>1. /\ n \in Nat /\ w \in [1 .. n -> X] /\ r \in [1 .. n -> Int]
      /\ nx \in [1 .. n -> 0 .. n] /\ DOMAIN w = 1 .. n
      /\ \A i, j \in 1 .. n : w[i] = w[j] /\ r[i] = r[j] => i = j
      /\ \A i \in 1 .. n : Leads(nx[i], r, Behind(w, r, i))
  BY DEF Lists
<1>2. l \in Nat /\ l \in 0 .. n /\ l + 1 \in 0 .. n /\ (l + 1) - 1 = l
  BY <1>1
<1>3. \A k \in 0 .. l : k = l \/ k \in 0 .. (l - 1)
  BY <1>2
<1>4. CASE f[l] = 0
  <2>1. f[l + 1] = 0
    BY <1>4
  <2>2. \A i \in OnList(w, x) : \E k \in 0 .. l : f[k] = i
    <3> SUFFICES ASSUME NEW i \in OnList(w, x)
                 PROVE  \E k \in 0 .. l : f[k] = i
      OBVIOUS
    <3>1. PICK k \in 0 .. (l - 1) : f[k] = i
      BY <1>4 DEF Passed
    <3>2. k \in 0 .. l
      BY <1>2
    <3> QED
      BY <3>1, <3>2
  <2> QED
    BY <1>2, <2>1, <2>2 DEF Passed
<1>5. CASE f[l] # 0
  <2>1. PICK j \in 1 .. n : j = f[l]
    BY <1>1, <1>2, <1>5
  <2>2. PICK g \in 0 .. n : g = f[l + 1]
    BY <1>2
  <2>3. g = nx[j] /\ Leads(g, r, Behind(w, r, j)) /\ w[j] = x
    BY <1>1, <1>5, <2>1, <2>2 DEF Passed, OnList
  <2>4. ASSUME g # 0
        PROVE  /\ g \in OnList(w, x) /\ r[g] < r[j]
               /\ \A k \in 0 .. l : f[k] # 0 /\ r[g] < r[f[k]]
    <3>1. g \in 1 .. n /\ w[g] = x /\ r[g] < r[j]
      BY <1>1, <2>3, <2>4 DEF Leads, Behind
    <3>2. ASSUME NEW k \in 0 .. l
          PROVE  f[k] # 0 /\ r[g] < r[f[k]]
      <4>1. CASE k = l
        BY <1>5, <2>1, <3>1, <4>1
      <4>2. CASE k # l
        <5>1. f[k] # 0 /\ r[j] < r[f[k]]
          BY <1>3, <1>5, <2>1, <4>2 DEF Passed
        <5>2. f[k] \in 1 .. n
          <6>1. k \in 0 .. n
            BY <1>1, <1>2
          <6>2. PICK v \in 0 .. n : v = f[k]
            BY <6>1
          <6>3. v # 0
            BY <5>1, <6>2
          <6>4. v \in 1 .. n
            BY <1>1, <6>3
          <6> QED
            BY <6>2, <6>4
        <5>3. r[g] \in Int /\ r[j] \in Int /\ r[f[k]] \in Int
          BY <1>1, <3>1, <5>2
        <5> QED
          BY <3>1, <5>1, <5>3
      <4> QED
        BY <4>1, <4>2
    <3> QED
      BY <1>1, <3>1, <3>2 DEF OnList
  <2>5. ASSUME NEW i \in OnList(w, x)
        PROVE  \/ \E k \in 0 .. l : f[k] = i
               \/ g # 0 /\ r[i] <= r[g]
    <3>1. i \in 1 .. n /\ w[i] = x
      BY <1>1 DEF OnList
    <3>2. CASE \E k \in 0 .. (l - 1) : f[k] = i
      <4>1. PICK k \in 0 .. (l - 1) : f[k] = i
        BY <3>2
      <4>2. k \in 0 .. l
        BY <1>2
      <4> QED
        BY <4>1, <4>2
    <3>3. CASE r[i] <= r[j] /\ i = j
      <4>1. l \in 0 .. l
        BY <1>2
      <4> QED
        BY <2>1, <3>3, <4>1
    <3>4. CASE r[i] <= r[j] /\ i # j
      <4>1. r[i] < r[j]
        BY <1>1, <2>3, <3>1, <3>4
      <4>2. i \in Behind(w, r, j)
        BY <1>1, <2>3, <3>1, <4>1 DEF Behind
      <4> QED
        BY <2>3, <4>2 DEF Leads
    <3>5. (\E k \in 0 .. (l - 1) : f[k] = i) \/ r[i] <= r[j]
      BY <2>1 DEF Passed
    <3> QED
      BY <3>2, <3>3, <3>4, <3>5
  <2> QED
    BY <1>2, <2>2, <2>4, <2>5 DEF Passed
<1> QED
  BY <1>4, <1>5

LEMMA FromIs ==
  ASSUME NEW X, NEW n, n = ArenaSize, NEW nx, nx = Nexts(arena), NEW c, NEW w, NEW r,
         Lists(nx, c, w, r, X, n), NEW x \in X, NEW e, e = c[x]
  PROVE  Lined(From(e), w, r, x)
<1>1. /\ n \in Nat /\ w \in [1 .. n -> X] /\ r \in [1 .. n -> Int]
      /\ nx \in [1 .. n -> 0 .. n] /\ DOMAIN w = 1 .. n
      /\ c \in [X -> 0 .. n]
      /\ Leads(e, r, OnList(w, x))
  BY DEF Lists
<1>2. e \in 0 .. n
  BY <1>1
<1>3. PICK f : f = Walk(e)
  OBVIOUS
<1>4. /\ f \in [0 .. n -> 0 .. n] /\ f[0] = e
      /\ \A l \in 0 .. (n - 1) : f[l + 1] = IF f[l] = 0 THEN 0 ELSE nx[f[l]]
  <2>1. Walks(f, nx, n, e)
    BY <1>1, <1>2, <1>3, WalkIs
  <2> QED
    BY <2>1 DEF Walks
<1> DEFINE T == {l \in Nat : l <= n => Passed(f, w, r, x, l)}
<1>5. T = Nat
  <2>1. T \subseteq Nat
    OBVIOUS
  <2>2. 0 \in T
    <3>1. Passed(f, w, r, x, 0)
      BY <1>1, <1>4 DEF Passed, Leads
    <3> QED
      BY <3>1
  <2>3. ASSUME NEW l \in T
        PROVE  l + 1 \in T
    <3>1. l \in Nat /\ l + 1 \in Nat
      OBVIOUS
    <3>2. ASSUME l + 1 <= n
          PROVE  Passed(f, w, r, x, l + 1)
      <4>1. l \in 0 .. (n - 1) /\ Passed(f, w, r, x, l)
        BY <1>1, <3>1, <3>2
      <4>2. f[l + 1] = IF f[l] = 0 THEN 0 ELSE nx[f[l]]
        BY <1>4, <4>1
      <4>3. f \in [0 .. n -> 0 .. n]
        BY <1>4
      <4> HIDE DEF T
      <4> QED
        BY <4>1, <4>2, <4>3, PassesOn
    <3> QED
      BY <3>1, <3>2
  <2> HIDE DEF T
  <2> QED
    BY <2>1, <2>2, <2>3, AllNumbers
<1>6. ASSUME NEW l \in 0 .. n
      PROVE  Passed(f, w, r, x, l)
  <2>1. l \in T
    <3>1. l \in Nat
      BY <1>1
    <3> HIDE DEF T
    <3> QED
      BY <1>5, <3>1
  <2> QED
    BY <1>1, <2>1
<1> HIDE DEF T
<1>7. ASSUME NEW l \in 0 .. n, f[l] # 0
      PROVE  /\ f[l] \in OnList(w, x)
             /\ \A k \in 0 .. (l - 1) : f[k] # 0 /\ r[f[l]] < r[f[k]]
  BY <1>6, <1>7 DEF Passed
(* A walk with more steps than there are entries would pass one twice. *)
<1>8. f[n] = 0
  <2> SUFFICES ASSUME f[n] # 0
               PROVE  FALSE
    OBVIOUS
  <2>1. ASSUME NEW k \in 0 .. n
        PROVE  f[k] \in 1 .. n
    <3>1. n \in 0 .. n /\ (k # n => k \in 0 .. (n - 1))
      BY <1>1
    <3>2. f[k] # 0
      BY <1>7, <3>1
    <3>3. f[k] \in 0 .. n
      BY <1>4
    <3> QED
      BY <1>1, <3>2, <3>3
  <2>2. IsFiniteSet(0 .. n) /\ Cardinality(0 .. n) = n + 1
    BY <1>1, FS_Interval
  <2>3. IsFiniteSet(1 .. n) /\ Cardinality(1 .. n) = n
    BY <1>1, FS_Interval
  <2>4. PICK S, U : S = 0 .. n /\ U = 1 .. n
    OBVIOUS
  <2>5. PICK k \in S, l \in S : k # l /\ f[k] = f[l]
    <3>1. f = [k \in S |-> f[k]] /\ \A k \in S : f[k] \in U
      BY <1>4, <2>1, <2>4
    <3>2. f \in [S -> U]
      BY <3>1
    <3>3. Cardinality(U) < Cardinality(S)
      BY <1>1, <2>2, <2>3, <2>4
    <3>4. IsFiniteSet(S) /\ IsFiniteSet(U)
      BY <2>2, <2>3, <2>4
    <3> QED
      BY <3>2, <3>3, <3>4, FS_PigeonHole
  <2>6. ASSUME NEW i \in 0 .. n, NEW j \in 0 .. n, i < j
        PROVE  f[i] # f[j]
    <3>1. i \in 0 .. (j - 1)
      BY <1>1, <2>6
    <3>2. f[j] # 0 /\ r[f[j]] \in Int
      BY <1>1, <2>1
    <3>3. r[f[j]] < r[f[i]]
      BY <1>7, <3>1, <3>2
    <3> QED
      BY <3>2, <3>3
  <2>7. k \in 0 .. n /\ l \in 0 .. n /\ k # l /\ f[k] = f[l]
    BY <2>4, <2>5
  <2>8. k < l \/ l < k
    BY <1>1, <2>7
  <2> QED
    BY <2>6, <2>7, <2>8
<1>9. PICK L : L = {m \in 1 .. n : f[m - 1] # 0}
  OBVIOUS
<1>10. PICK z \in 0 .. n : /\ z = Largest(L)
                          /\ \A m \in 1 .. n : m <= z <=> f[m - 1] # 0
  <2>1. CASE L = {}
    <3>1. Largest(L) = 0
      BY <2>1 DEF Largest, Null
    <3>2. 0 \in 0 .. n
      BY <1>1
    <3>3. ASSUME NEW m \in 1 .. n
          PROVE  m <= 0 <=> f[m - 1] # 0
      <4>1. ~(m <= 0)
        BY <1>1
      <4>2. m \notin L
        BY <2>1
      <4>3. ~(f[m - 1] # 0)
        BY <1>9, <4>2
      <4> QED
        BY <4>1, <4>3
    <3> QED
      BY <3>1, <3>2, <3>3
  <2>2. CASE L # {}
    <3>1. L \in SUBSET (1 .. n)
      BY <1>9
    <3>2. PICK y : y = Largest(L)
      OBVIOUS
    <3>3. y \in L /\ \A m \in L : m <= y
      BY <1>1, <2>2, <3>1, <3>2, LargestIs
    <3>4. y \in 1 .. n /\ f[y - 1] # 0
      BY <1>9, <3>3
    <3>5. ASSUME NEW m \in 1 .. n
          PROVE  m <= y <=> f[m - 1] # 0
      <4>1. ASSUME m < y
            PROVE  f[m - 1] # 0
        <5>1. y - 1 \in 0 .. n /\ m - 1 \in 0 .. ((y - 1) - 1)
          BY <1>1, <3>4, <4>1
        <5> QED
          BY <1>7, <3>4, <5>1
      <4>2. f[m - 1] # 0 => m <= y
        BY <1>9, <3>3
      <4> QED
        BY <1>1, <3>4, <4>1, <4>2
    <3>6. y \in 0 .. n
      BY <1>1, <3>4
    <3> QED
      BY <3>2, <3>5, <3>6
  <2> QED
    BY <2>1, <2>2
<1>11. PICK s : s = [m \in 1 .. z |-> f[m - 1]]
  OBVIOUS
<1>12. From(e) = s
  BY <1>3, <1>9, <1>10, <1>11 DEF From, Null
<1>13. ASSUME NEW m \in 1 .. z
       PROVE  /\ m - 1 \in 0 .. n /\ s[m] = f[m - 1] /\ f[m - 1] # 0
              /\ f[m - 1] \in 1 .. n /\ f[m - 1] \in OnList(w, x)
  <2>1. m \in 1 .. n /\ m <= z /\ m - 1 \in 0 .. n
    BY <1>1
  <2>2. s[m] = f[m - 1] /\ f[m - 1] # 0
    BY <1>10, <1>11, <2>1
  <2>3. f[m - 1] \in 0 .. n
    BY <1>4, <2>1
  <2> QED
    BY <1>1, <1>7, <2>1, <2>2, <2>3
<1>14. s \in Seq(1 .. n) /\ Len(s) = z
  BY <1>11, <1>13
<1>15. ASSUME NEW i \in OnList(w, x)
       PROVE  \E m \in 1 .. z : s[m] = i
  <2>1. n \in 0 .. n
    BY <1>1
  <2>2. PICK k \in 0 .. (n - 1) : f[k] = i
    BY <1>6, <1>8, <2>1 DEF Passed
  <2>3. k + 1 \in 1 .. n /\ (k + 1) - 1 = k
    BY <1>1
  <2>4. i # 0
    BY <1>1 DEF OnList
  <2>5. k + 1 \in 1 .. z
    BY <1>10, <2>2, <2>3, <2>4
  <2> QED
    BY <1>13, <2>2, <2>3, <2>5
<1>16. ASSUME NEW m \in 1 .. z, NEW l \in 1 .. z, m < l
       PROVE  r[s[l]] < r[s[m]]
  <2>1. m - 1 \in 0 .. ((l - 1) - 1)
    BY <1>16
  <2> QED
    BY <1>7, <1>13, <2>1
<1>17. ASSUME NEW i \in DOMAIN w
       PROVE  i \in OnList(w, x) <=> \E m \in 1 .. z : s[m] = i
  BY <1>13, <1>15
<1>18. Lined(s, w, r, x)
  BY <1>1, <1>14, <1>16, <1>17 DEF Lined
<1> QED
  BY <1>12, <1>18
OnceEach(s, w, r, x, n) ==
  /\ Len(s) \in Nat
  /\ \A m \in 1 .. Len(s) : s[m] \in 1 .. n /\ w[s[m]] = x
  /\ \A i \in 1 .. n : w[i] = x <=> \E m \in 1 .. Len(s) : s[m] = i
  /\ \A m, l \in 1 .. Len(s) : m < l => r[s[l]] < r[s[m]]

LEMMA LinedParts ==
  ASSUME NEW n \in Nat, NEW w, DOMAIN w = 1 .. n, NEW r, NEW x, NEW s, Lined(s, w, r, x)
  PROVE  OnceEach(s, w, r, x, n)
<1>1. s \in Seq(1 .. n)
  BY DEF Lined
<1>2. ASSUME NEW i \in 1 .. n
      PROVE  w[i] = x <=> \E m \in 1 .. Len(s) : s[m] = i
  BY <1>2 DEF Lined, OnList
<1>3. ASSUME NEW m \in 1 .. Len(s)
      PROVE  s[m] \in 1 .. n /\ w[s[m]] = x
  <2>1. s[m] \in 1 .. n
    BY <1>1
  <2> QED
    BY <1>2, <2>1
<1>4. \A m, l \in 1 .. Len(s) : m < l => r[s[l]] < r[s[m]]
  BY DEF Lined
<1> QED
  BY <1>1, <1>2, <1>3, <1>4 DEF OnceEach

(* The sequence of a list has every entry of it once. *)
LEMMA LinedCounts ==
  ASSUME NEW n \in Nat, NEW w, DOMAIN w = 1 .. n, NEW r \in [1 .. n -> Int],
         NEW x, NEW s, Lined(s, w, r, x)
  PROVE  /\ Entries(s) = OnList(w, x)
         /\ IsFiniteSet(OnList(w, x)) /\ Len(s) = Cardinality(OnList(w, x))
<1>1. PICK z \in Nat : z = Len(s)
  BY DEF Lined
<1>2. PICK N, S : N = 1 .. z /\ S = OnList(w, x)
  OBVIOUS
<1>3. \A m \in N : s[m] \in S /\ s[m] \in 1 .. n
  <2>1. OnceEach(s, w, r, x, n)
    BY LinedParts
  <2> QED
    BY <1>1, <1>2, <2>1 DEF OnceEach, OnList
<1>4. \A i \in S : \E m \in N : s[m] = i
  BY <1>1, <1>2 DEF Lined, OnList
<1>5. ASSUME NEW m \in N, NEW l \in N, m < l
      PROVE  s[m] # s[l]
  <2>1. r[s[l]] < r[s[m]]
    BY <1>1, <1>2, <1>5 DEF Lined
  <2>2. r[s[m]] \in Int
    BY <1>3
  <2> QED
    BY <2>1, <2>2
<1>6. PICK f : f = [m \in N |-> s[m]]
  OBVIOUS
<1>7. f \in Bijection(N, S)
  <2>1. f \in [N -> S] /\ \A i \in S : \E m \in N : f[m] = i
    BY <1>3, <1>4, <1>6
  <2>2. ASSUME NEW m \in N, NEW l \in N, f[m] = f[l]
        PROVE  m = l
    <3>1. s[m] = s[l]
      BY <1>6, <2>2
    <3>2. ~(m < l) /\ ~(l < m)
      BY <1>5, <3>1
    <3> QED
      BY <1>2, <3>2
  <2> QED
    BY <2>1, <2>2 DEF Bijection, Injection, IsInjective, Surjection
<1>8. IsFiniteSet(N) /\ Cardinality(N) = z
  BY <1>2, FS_Interval
<1>9. IsFiniteSet(S) /\ Cardinality(S) = z
  <2>1. ExistsBijection(N, S)
    BY <1>7 DEF ExistsBijection
  <2> QED
    BY <1>8, <2>1, FS_Bijection
<1>10. Entries(s) = S
  BY <1>1, <1>2, <1>3, <1>4 DEF Entries
<1> QED
  BY <1>1, <1>2, <1>9, <1>10

(* The head of a list comes after no entry. *)
LEMMA HeadFollowsNone ==
  ASSUME NEW X, NEW n, NEW nx, NEW c, NEW w, NEW r, Lists(nx, c, w, r, X, n),
         NEW e \in 1 .. n, c[w[e]] = e, NEW i \in 1 .. n
  PROVE  nx[i] # e
<1> SUFFICES ASSUME nx[i] = e
             PROVE  FALSE
  OBVIOUS
<1>1. /\ w \in [1 .. n -> X] /\ r \in [1 .. n -> Int] /\ n \in Nat
      /\ Leads(nx[i], r, Behind(w, r, i))
      /\ \A x \in X : Leads(c[x], r, OnList(w, x))
  BY DEF Lists
<1>2. e # 0 /\ w[e] = w[i] /\ r[e] < r[i]
  BY <1>1 DEF Leads, Behind
<1>3. i \in OnList(w, w[e])
  BY <1>1, <1>2 DEF OnList
<1>4. w[e] \in X /\ r[e] \in Int /\ r[i] \in Int
  BY <1>1
<1>5. r[i] <= r[e]
  BY <1>1, <1>2, <1>3, <1>4 DEF Leads
<1> QED
  BY <1>2, <1>4, <1>5

(* Every other entry comes after one of its list. *)
LEMMA OthersFollow ==
  ASSUME NEW X, NEW n, NEW nx, NEW c, NEW w, NEW r, Lists(nx, c, w, r, X, n),
         NEW e \in 1 .. n, c[w[e]] # e, NEW s, Lined(s, w, r, w[e])
  PROVE  \E i \in 1 .. n : nx[i] = e
<1>1. /\ w \in [1 .. n -> X] /\ r \in [1 .. n -> Int] /\ n \in Nat
      /\ \A i \in 1 .. n : Leads(nx[i], r, Behind(w, r, i))
      /\ \A x \in X : Leads(c[x], r, OnList(w, x))
      /\ \A i, j \in 1 .. n : w[i] = w[j] /\ r[i] = r[j] => i = j
  BY DEF Lists
<1>2. PICK x \in X : x = w[e]
  BY <1>1
<1>3. PICK z \in Nat : z = Len(s)
  BY DEF Lined
<1>4. /\ \A m \in 1 .. z : s[m] \in 1 .. n
      /\ \A i \in 1 .. n : w[i] = x <=> \E m \in 1 .. z : s[m] = i
      /\ \A m, l \in 1 .. z : m < l => r[s[l]] < r[s[m]]
  <2>1. n \in Nat /\ DOMAIN w = 1 .. n /\ Lined(s, w, r, x)
    BY <1>1, <1>2
  <2>2. OnceEach(s, w, r, x, n)
    BY <2>1, LinedParts
  <2> QED
    BY <1>3, <2>2 DEF OnceEach
<1>5. PICK m \in 1 .. z : s[m] = e
  BY <1>2, <1>4
<1>6. m # 1
  <2> SUFFICES ASSUME m = 1
               PROVE  FALSE
    OBVIOUS
  <2>1. PICK j : j = c[x]
    OBVIOUS
  <2>2. Leads(j, r, OnList(w, x)) /\ e \in OnList(w, x)
    BY <1>1, <1>2, <2>1 DEF OnList
  <2>3. j \in 1 .. n /\ w[j] = x /\ r[e] <= r[j] /\ j # e
    BY <1>1, <1>2, <2>1, <2>2 DEF Leads, OnList
  <2>4. PICK l \in 1 .. z : s[l] = j
    BY <1>4, <2>3
  <2>5. 1 < l
    BY <1>5, <2>3, <2>4
  <2>6. r[j] < r[e] /\ r[j] \in Int /\ r[e] \in Int
    BY <1>1, <1>4, <1>5, <2>3, <2>4, <2>5
  <2> QED
    BY <2>3, <2>6
<1>7. PICK l \in 1 .. z : l = m - 1
  BY <1>3, <1>6
<1>8. PICK i \in 1 .. n : i = s[l]
  BY <1>4
<1>9. w[i] = x /\ r[e] < r[i]
  BY <1>4, <1>5, <1>7, <1>8
<1>10. PICK g : g = nx[i]
  OBVIOUS
<1>11. g # 0 /\ g \in 1 .. n /\ w[g] = x /\ r[g] < r[i] /\ r[e] <= r[g]
  <2>1. Leads(g, r, Behind(w, r, i)) /\ e \in Behind(w, r, i)
    BY <1>1, <1>2, <1>9, <1>10 DEF Behind
  <2> QED
    BY <1>1, <1>9, <2>1 DEF Leads, Behind
<1>12. PICK k \in 1 .. z : s[k] = g
  BY <1>4, <1>11
<1>13. /\ r[g] \in Int /\ r[e] \in Int /\ r[i] \in Int
       /\ r[s[k]] = r[g] /\ r[s[m]] = r[e] /\ r[s[l]] = r[i]
  BY <1>1, <1>5, <1>8, <1>11, <1>12
<1>14. k < l \/ k = l \/ k = m \/ m < k
  BY <1>7
<1>15. k = m
  <2>1. ~(k < l)
    BY <1>4, <1>11, <1>13
  <2>2. k # l
    BY <1>11, <1>13
  <2>3. ~(m < k)
    BY <1>4, <1>11, <1>13
  <2> QED
    BY <1>14, <2>1, <2>2, <2>3
<1> QED
  BY <1>5, <1>10, <1>12, <1>15

(* A rank above those of a list. *)
LEMMA RankAbove ==
  ASSUME NEW X, NEW n, NEW nx, NEW c, NEW w, NEW r, Lists(nx, c, w, r, X, n),
         NEW x \in X
  PROVE  \E q \in Int : \A j \in 1 .. n : w[j] = x => r[j] < q
<1>1. /\ w \in [1 .. n -> X] /\ r \in [1 .. n -> Int] /\ n \in Nat
      /\ Leads(c[x], r, OnList(w, x))
  BY DEF Lists
<1>2. PICK t : t = c[x]
  OBVIOUS
<1>3. CASE t = 0
  <2>1. \A j \in 1 .. n : w[j] # x
    BY <1>1, <1>2, <1>3 DEF Leads, OnList
  <2> QED
    BY <2>1
<1>4. CASE t # 0
  <2>1. t \in 1 .. n /\ \A j \in 1 .. n : w[j] = x => r[j] <= r[t]
    BY <1>1, <1>2, <1>4 DEF Leads, OnList
  <2>2. PICK p \in Int : p = r[t]
    BY <1>1, <2>1
  <2>3. p + 1 \in Int /\ \A j \in 1 .. n : w[j] = x => r[j] < p + 1
    BY <1>1, <2>1, <2>2
  <2> QED
    BY <2>3
<1> QED
  BY <1>3, <1>4

-----------------------------------------------------------------------------
(***************************************************************************)
(* The inductive invariant of a map of kind x with the arena a, H buckets  *)
(* b and the free list from u on.  Lists 0 .. H - 1 are the chains, list H *)
(* is the free list.                                                       *)
(***************************************************************************)
Bucket(c, H) == c % H

Heads(b, u, H) == [z \in 0 .. H |-> IF z = H THEN u ELSE b[z]]

Codes == {HashCode[k] : k \in Key} \cup {FreeCode}

Cell(n) == [hcode : Codes, key : Key \cup {NoKey, StaleKey},
            value : Value \cup {Zero}, next : 0 .. n]

UsedIn(w, H) == {i \in DOMAIN w : w[i] # H}

Holds(x, en, k) == en.hcode = HashCode[k] /\ (x \in {"OO", "ON"} => en.key = k)

SizeIs(a, n) == n = Len(a)

ArenaIs(a, n) == a \in [1 .. n -> Cell(n)]

BucketsAre(b, H, n) == b \in [0 .. (H - 1) -> 0 .. n]

(* The entries of the arena are on the lists. *)
Laid(a, b, u, H, w, r) ==
  /\ H \in Nat /\ H # 0 /\ Len(a) # 0
  /\ a \in Seq(Cell(Len(a)))
  /\ b \in [0 .. (H - 1) -> 0 .. Len(a)]
  /\ u \in 0 .. Len(a)
  /\ Lists(Nexts(a), Heads(b, u, H), w, r, 0 .. H, Len(a))
  /\ \A i \in UsedIn(w, H) : w[i] = Bucket(a[i].hcode, H)

(* What the program has stored. *)
Stored(x, en) ==
  /\ \E k \in KeysOf[x] : Holds(x, en, k)
  /\ x \notin {"ON", "NN"} => en.value # Zero
  /\ x \in {"NO", "NN"} => en.key = StaleKey

Freed(en) == en.hcode = FreeCode /\ en.value = Zero

Filled(x, a, w, H) ==
  /\ \A i \in DOMAIN w : IF w[i] = H THEN Freed(a[i]) ELSE Stored(x, a[i])
  /\ x # "rules" =>
       \A k \in KeysOf[x] : \A i, j \in UsedIn(w, H) :
         Holds(x, a[i], k) /\ Holds(x, a[j], k) => i = j

(* Of two rules for a key the younger has the higher position and rank. *)
Ranked(x, a, w, r, H) ==
  /\ \A k \in KeysOf[x] : \A i, j \in UsedIn(w, H) :
       Holds(x, a[i], k) /\ Holds(x, a[j], k) /\ i < j => r[i] < r[j]
  /\ x = "rules" =>
       \A i, j \in DOMAIN w : w[i] = H =>
         IF w[j] = H THEN i < j => r[j] < r[i] ELSE j < i

(* What the calls so far promise. *)
Answers(x, a, w, H, p) ==
  /\ p \in [Key -> Value \cup {NoValue}]
  /\ \A k \in Key : p[k] # NoValue => k \in KeysOf[x]
  /\ \A k \in KeysOf[x] :
       p[k] # NoValue <=> \E i \in UsedIn(w, H) : Holds(x, a[i], k)
  /\ x \notin {"ON", "NN"} =>
       \A k \in KeysOf[x] : \A i \in UsedIn(w, H) :
         /\ Holds(x, a[i], k)
         /\ \A j \in UsedIn(w, H) : Holds(x, a[j], k) => j <= i
         => p[k] = a[i].value

KeysIn(p) == {k \in Key : p[k] # NoValue}

Counts(x, w, H, p, sz) ==
  /\ sz = Cardinality(UsedIn(w, H))
  /\ IsFiniteSet(KeysIn(p))
  /\ x # "rules" => sz = Cardinality(KeysIn(p))

Sound(x, a, b, u, sz, p, H, w, r) ==
  /\ Laid(a, b, u, H, w, r)
  /\ Filled(x, a, w, H)
  /\ Ranked(x, a, w, r, H)
  /\ Answers(x, a, w, H, p)
  /\ Counts(x, w, H, p, sz)

-----------------------------------------------------------------------------
(***************************************************************************)
(* What an operation reads: the chains, the free list and Find.            *)
(***************************************************************************)
LEMMA LeastIs ==
  ASSUME NEW n \in Nat, NEW S \in SUBSET (1 .. n), S # {}
  PROVE  \E i \in S : \A j \in S : i <= j
<1>1. S \subseteq Nat
  OBVIOUS
<1>2. PICK i \in S : \A j \in S : ~(<<j, i>> \in OpToRel(<, Nat))
  BY <1>1, NatLessThanWellFounded, WFMin
<1>3. ASSUME NEW j \in S
      PROVE  i <= j
  <2>1. ~(j < i)
    BY <1>1, <1>2 DEF OpToRel
  <2> QED
    BY <1>1, <2>1
<1> QED
  BY <1>3

LEMMA HMaxIs ==
  ASSUME NEW H \in Nat, DOMAIN hentry = 0 .. (H - 1)
  PROVE  HMax = H
<1>1. PICK m \in Int : m = H - 1
  OBVIOUS
<1>2. Cardinality(0 .. m) = IF 0 > m THEN 0 ELSE m - 0 + 1
  BY FS_Interval
<1>3. HMax = Cardinality(0 .. m)
  BY <1>1 DEF HMax
<1> QED
  BY <1>1, <1>2, <1>3

LEMMA LaidParts ==
  ASSUME NEW a, NEW b, NEW u, NEW H, NEW w, NEW r, Laid(a, b, u, H, w, r)
  PROVE  /\ H \in Nat /\ H # 0 /\ Len(a) \in Nat /\ Len(a) # 0
         /\ DOMAIN w = 1 .. Len(a)
         /\ \A i \in 1 .. Len(a) : /\ w[i] \in 0 .. H /\ r[i] \in Int
                                   /\ a[i] \in Cell(Len(a))
                                   /\ w[i] # H => w[i] = Bucket(a[i].hcode, H)
         /\ DOMAIN b = 0 .. (H - 1)
         /\ \A z \in 0 .. (H - 1) : Heads(b, u, H)[z] = b[z]
         /\ Heads(b, u, H)[H] = u
         /\ Lists(Nexts(a), Heads(b, u, H), w, r, 0 .. H, Len(a))
<1>1. /\ H \in Nat /\ H # 0 /\ Len(a) # 0 /\ a \in Seq(Cell(Len(a)))
      /\ b \in [0 .. (H - 1) -> 0 .. Len(a)] /\ u \in 0 .. Len(a)
      /\ Lists(Nexts(a), Heads(b, u, H), w, r, 0 .. H, Len(a))
      /\ \A i \in UsedIn(w, H) : w[i] = Bucket(a[i].hcode, H)
  BY DEF Laid
<1>2. /\ Len(a) \in Nat /\ w \in [1 .. Len(a) -> 0 .. H]
      /\ r \in [1 .. Len(a) -> Int]
  BY <1>1 DEF Lists
<1>3. \A i \in 1 .. Len(a) : w[i] # H => w[i] = Bucket(a[i].hcode, H)
  BY <1>1, <1>2 DEF UsedIn
<1>4. \A i \in 1 .. Len(a) : a[i] \in Cell(Len(a))
  BY <1>1
<1>5. /\ \A z \in 0 .. (H - 1) : Heads(b, u, H)[z] = b[z]
      /\ Heads(b, u, H)[H] = u
  BY <1>1 DEF Heads
<1> QED
  BY <1>1, <1>2, <1>3, <1>4, <1>5

LEMMA ListsAreLined ==
  ASSUME NEW H, NEW w, NEW r, Laid(arena, hentry, unused, H, w, r)
  PROVE  /\ \A h \in 0 .. (H - 1) : Lined(From(hentry[h]), w, r, h)
         /\ Lined(From(unused), w, r, H)
<1>1. /\ H \in Nat /\ H # 0
      /\ \A z \in 0 .. (H - 1) : Heads(hentry, unused, H)[z] = hentry[z]
      /\ Heads(hentry, unused, H)[H] = unused
      /\ Lists(Nexts(arena), Heads(hentry, unused, H), w, r, 0 .. H, Len(arena))
  BY LaidParts
<1>2. PICK n, nx, c : n = ArenaSize /\ nx = Nexts(arena) /\ c = Heads(hentry, unused, H)
  OBVIOUS
<1>3. PICK X : X = 0 .. H
  OBVIOUS
<1>4. Lists(nx, c, w, r, X, n)
  BY <1>1, <1>2, <1>3 DEF ArenaSize
<1>5. ASSUME NEW h \in X
      PROVE  Lined(From(c[h]), w, r, h)
  <2>1. PICK e : e = c[h]
    OBVIOUS
  <2>2. Lined(From(e), w, r, h)
    BY <1>2, <1>4, <2>1, FromIs
  <2> QED
    BY <2>1, <2>2
<1>6. H \in X /\ \A h \in 0 .. (H - 1) : h \in X
  BY <1>1, <1>3
<1>7. c[H] = unused /\ \A h \in 0 .. (H - 1) : c[h] = hentry[h]
  BY <1>1, <1>2
<1> QED
  BY <1>5, <1>6, <1>7

LEMMA BucketIn ==
  ASSUME NEW c \in Nat, NEW H \in Nat \ {0}
  PROVE  Bucket(c, H) \in 0 .. (H - 1)
BY DEF Bucket

LEMMA CodesAreNumbers == Codes \subseteq Nat
BY HashAssumption DEF Codes

LEMMA LookupIs ==
  ASSUME NEW H, NEW w, NEW r, Laid(arena, hentry, unused, H, w, r),
         Ranked(spi, arena, w, r, H), spi \in Spi, NEW k \in KeysOf[spi]
  PROVE  LET Hit(i) == i \in UsedIn(w, H) /\ Holds(spi, arena[i], k)
         IN  IF Find(k) = Null THEN \A i : ~Hit(i)
             ELSE Hit(Find(k)) /\ \A i : Hit(i) => i <= Find(k)
<1> DEFINE Hit(i) == i \in UsedIn(w, H) /\ Holds(spi, arena[i], k)
<1>1. PICK n : n = Len(arena)
  OBVIOUS
<1>2. /\ H \in Nat /\ H # 0 /\ n \in Nat /\ DOMAIN w = 1 .. n
      /\ \A i \in 1 .. n : /\ w[i] \in 0 .. H /\ r[i] \in Int
                           /\ w[i] # H => w[i] = Bucket(arena[i].hcode, H)
      /\ DOMAIN hentry = 0 .. (H - 1)
  BY <1>1, LaidParts
<1>3. k \in Key /\ HashCode[k] \in Nat
  BY HashAssumption
<1>4. PICK h : h = Bucket(HashCode[k], H)
  OBVIOUS
<1>5. h \in 0 .. (H - 1)
  BY <1>2, <1>3, <1>4, BucketIn
<1>6. PICK s : s = From(hentry[h])
  OBVIOUS
<1>7. Chain(HashCode[k]) = s
  BY <1>2, <1>4, <1>6, HMaxIs DEF Chain, Bucket
<1>8. /\ Len(s) \in Nat
      /\ \A m \in 1 .. Len(s) : s[m] \in 1 .. n /\ w[s[m]] = h
      /\ \A i \in 1 .. n : w[i] = h <=> \E m \in 1 .. Len(s) : s[m] = i
      /\ \A m, l \in 1 .. Len(s) : m < l => r[s[l]] < r[s[m]]
  <2>1. Lined(s, w, r, h)
    BY <1>5, <1>6, ListsAreLined
  <2>2. OnceEach(s, w, r, h, n)
    BY <1>2, <2>1, LinedParts
  <2> QED
    BY <2>2 DEF OnceEach
<1>9. PICK hits : hits = {m \in 1 .. Len(s) : Same(s[m], k)}
  OBVIOUS
<1>10. \A i : Holds(spi, arena[i], k) <=> Same(i, k)
  BY DEF Holds, Same, BoxedKey
<1>11. ASSUME NEW i, Hit(i)
       PROVE  \E m \in hits : s[m] = i
  <2>1. i \in 1 .. n /\ w[i] # H /\ arena[i].hcode = HashCode[k]
    BY <1>2, <1>11 DEF UsedIn, Holds
  <2>2. w[i] = h
    BY <1>2, <1>4, <2>1
  <2> QED
    BY <1>8, <1>9, <1>10, <1>11, <2>1, <2>2
<1>12. ASSUME NEW m \in hits
       PROVE  Hit(s[m]) /\ s[m] \in 1 .. n
  <2>1. m \in 1 .. Len(s) /\ Same(s[m], k)
    BY <1>9
  <2>2. s[m] \in 1 .. n /\ w[s[m]] = h /\ h # H
    BY <1>2, <1>5, <1>8, <2>1
  <2> QED
    BY <1>2, <1>10, <2>1, <2>2 DEF UsedIn
<1>13. CASE hits = {}
  <2>1. Find(k) = Null
    BY <1>7, <1>9, <1>13 DEF Find
  <2> QED
    BY <1>11, <1>13, <2>1
<1>14. CASE hits # {}
  <2>1. PICK m : m = CHOOSE l \in hits : \A j \in hits : l <= j
    OBVIOUS
  <2>2. m \in hits /\ \A j \in hits : m <= j
    <3>1. \E l \in hits : \A j \in hits : l <= j
      BY <1>8, <1>9, <1>14, LeastIs
    <3> QED
      BY <2>1, <3>1
  <2>3. Find(k) = s[m]
    BY <1>7, <1>9, <1>14, <2>1 DEF Find
  <2>4. PICK e : e = s[m]
    OBVIOUS
  <2>5. Hit(e) /\ e \in 1 .. n /\ e # Null
    BY <1>12, <2>2, <2>4 DEF Null
  <2>6. ASSUME NEW i, Hit(i)
        PROVE  i <= e
    <3>1. PICK l \in hits : s[l] = i
      BY <1>11, <2>6
    <3>2. i \in 1 .. n
      BY <1>12, <3>1
    <3>3. m = l \/ r[i] < r[e]
      BY <1>8, <1>9, <2>2, <2>4, <3>1
    <3>4. i = e \/ r[i] < r[e]
      BY <2>4, <3>1, <3>3
    <3>5. ~(e < i)
      <4>1. e < i => r[e] < r[i]
        BY <2>5, <2>6 DEF Ranked
      <4>2. r[e] \in Int /\ r[i] \in Int
        BY <1>2, <2>5, <3>2
      <4> QED
        BY <2>5, <3>2, <3>4, <4>1, <4>2
    <3> QED
      BY <2>5, <3>2, <3>5
  <2> QED
    BY <2>3, <2>4, <2>5, <2>6
<1> QED
  BY <1>13, <1>14

-----------------------------------------------------------------------------
(***************************************************************************)
(* What a change of one entry, e, does to the contents: it goes to list y. *)
(***************************************************************************)
SetTo(p, k, v, p2) == p2 = [p EXCEPT ![k] = v]

Alike(en, en2) ==
  en.hcode = en2.hcode /\ en.key = en2.key /\ en.value = en2.value

Changed(a, w, a2, w2, e, y) ==
  /\ DOMAIN w2 = DOMAIN w /\ e \in DOMAIN w /\ w2[e] = y
  /\ \A i \in DOMAIN w : i # e => w2[i] = w[i] /\ Alike(a2[i], a[i])

(* The other entries. *)
Others(x, a, w, a2, w2, e, y, H) ==
  /\ e \in UsedIn(w2, H) <=> y # H
  /\ \A i \in DOMAIN w : i # e =>
       /\ w2[i] = w[i]
       /\ i \in UsedIn(w2, H) <=> i \in UsedIn(w, H)
       /\ \A k : Holds(x, a2[i], k) <=> Holds(x, a[i], k)
       /\ Stored(x, a2[i]) <=> Stored(x, a[i])
       /\ Freed(a2[i]) <=> Freed(a[i])
       /\ a2[i].value = a[i].value

LEMMA AlikeSame ==
  ASSUME NEW en, NEW en2, Alike(en, en2), NEW x
  PROVE  /\ \A k : Holds(x, en, k) <=> Holds(x, en2, k)
         /\ Stored(x, en) <=> Stored(x, en2)
         /\ Freed(en) <=> Freed(en2)
         /\ en.value = en2.value
<1>1. \A k : Holds(x, en, k) <=> Holds(x, en2, k)
  BY DEF Alike, Holds
<1> QED
  BY <1>1 DEF Alike, Stored, Freed

LEMMA ChangedOthers ==
  ASSUME NEW a, NEW w, NEW a2, NEW w2, NEW e, NEW y, Changed(a, w, a2, w2, e, y),
         NEW x, NEW H
  PROVE  Others(x, a, w, a2, w2, e, y, H)
<1>1. /\ DOMAIN w2 = DOMAIN w /\ e \in DOMAIN w /\ w2[e] = y
      /\ \A i \in DOMAIN w : i # e => w2[i] = w[i] /\ Alike(a2[i], a[i])
  BY DEF Changed
<1>2. e \in UsedIn(w2, H) <=> y # H
  BY <1>1 DEF UsedIn
<1>3. ASSUME NEW i \in DOMAIN w, i # e
      PROVE  i \in UsedIn(w2, H) <=> i \in UsedIn(w, H)
  BY <1>1, <1>3 DEF UsedIn
<1>4. ASSUME NEW i \in DOMAIN w, i # e
      PROVE  /\ \A k : Holds(x, a2[i], k) <=> Holds(x, a[i], k)
             /\ Stored(x, a2[i]) <=> Stored(x, a[i])
             /\ Freed(a2[i]) <=> Freed(a[i])
             /\ a2[i].value = a[i].value
  <2>1. PICK en, en2 : en = a2[i] /\ en2 = a[i]
    OBVIOUS
  <2>2. Alike(en, en2)
    BY <1>1, <1>4, <2>1
  <2> QED
    BY <2>1, <2>2, AlikeSame
<1> QED
  BY <1>1, <1>2, <1>3, <1>4 DEF Others

LEMMA FilledKeeps ==
  ASSUME NEW a, NEW w, NEW a2, NEW w2, NEW e, NEW y, Changed(a, w, a2, w2, e, y),
         NEW x, NEW H, Filled(x, a, w, H),
         IF y = H THEN Freed(a2[e]) ELSE Stored(x, a2[e]),
         y # H /\ x # "rules" =>
           \A k \in KeysOf[x] : \A i \in UsedIn(w, H) :
             i # e /\ Holds(x, a[i], k) => ~Holds(x, a2[e], k)
  PROVE  Filled(x, a2, w2, H)
<1>1. DOMAIN w2 = DOMAIN w /\ e \in DOMAIN w /\ w2[e] = y
  BY DEF Changed
<1>0. Others(x, a, w, a2, w2, e, y, H)
  BY ChangedOthers
<1>2. ASSUME NEW i \in DOMAIN w2
      PROVE  IF w2[i] = H THEN Freed(a2[i]) ELSE Stored(x, a2[i])
  <2>1. CASE i = e
    BY <1>1, <2>1
  <2>2. CASE i # e
    BY <1>0, <1>1, <2>2 DEF Filled, Others
  <2> QED
    BY <2>1, <2>2
<1>3. ASSUME x # "rules", NEW k \in KeysOf[x],
             NEW i \in UsedIn(w2, H), NEW j \in UsedIn(w2, H),
             Holds(x, a2[i], k), Holds(x, a2[j], k)
      PROVE  i = j
  <2>1. i \in DOMAIN w /\ j \in DOMAIN w
    BY <1>1 DEF UsedIn
  <2>2. CASE i # e /\ j # e
    <3>1. /\ i \in UsedIn(w, H) /\ Holds(x, a[i], k)
          /\ j \in UsedIn(w, H) /\ Holds(x, a[j], k)
      BY <1>0, <1>3, <2>1, <2>2 DEF Others
    <3> QED
      BY <1>3, <3>1 DEF Filled
  <2>3. CASE i = e /\ j # e
    <3>1. y # H /\ j \in UsedIn(w, H) /\ Holds(x, a[j], k)
      BY <1>0, <1>3, <2>1, <2>3 DEF Others
    <3> QED
      BY <1>3, <2>3, <3>1
  <2>4. CASE i # e /\ j = e
    <3>1. y # H /\ i \in UsedIn(w, H) /\ Holds(x, a[i], k)
      BY <1>0, <1>3, <2>1, <2>4 DEF Others
    <3> QED
      BY <1>3, <2>4, <3>1
  <2> QED
    BY <2>2, <2>3, <2>4
<1> QED
  BY <1>2, <1>3 DEF Filled

LEMMA RankedKeeps ==
  ASSUME NEW a, NEW w, NEW a2, NEW w2, NEW e, NEW y, Changed(a, w, a2, w2, e, y),
         NEW x, NEW H, NEW r, NEW r2, Ranked(x, a, w, r, H), DOMAIN w \subseteq Nat,
         \A i \in DOMAIN w : i # e => r2[i] = r[i],
         y # H =>
           \A k \in KeysOf[x] : \A i \in UsedIn(w, H) :
             i # e /\ Holds(x, a[i], k) /\ Holds(x, a2[e], k) =>
               i < e /\ r[i] < r2[e],
         x = "rules" => y # H /\ \A i \in DOMAIN w : i # e /\ w[i] = H => e < i
  PROVE  Ranked(x, a2, w2, r2, H)
<1>1. DOMAIN w2 = DOMAIN w /\ e \in DOMAIN w /\ w2[e] = y
  BY DEF Changed
<1>0. Others(x, a, w, a2, w2, e, y, H)
  BY ChangedOthers
<1>2. ASSUME NEW k \in KeysOf[x], NEW i \in UsedIn(w2, H), NEW j \in UsedIn(w2, H),
             Holds(x, a2[i], k), Holds(x, a2[j], k), i < j
      PROVE  r2[i] < r2[j]
  <2>1. i \in DOMAIN w /\ j \in DOMAIN w
    BY <1>1 DEF UsedIn
  <2>2. CASE i # e /\ j # e
    <3>1. /\ i \in UsedIn(w, H) /\ Holds(x, a[i], k)
          /\ j \in UsedIn(w, H) /\ Holds(x, a[j], k)
      BY <1>0, <1>2, <2>1, <2>2 DEF Others
    <3> QED
      BY <1>2, <2>1, <2>2, <3>1 DEF Ranked
  <2>3. CASE i # e /\ j = e
    <3>1. y # H /\ i \in UsedIn(w, H) /\ Holds(x, a[i], k)
      BY <1>0, <1>2, <2>1, <2>3 DEF Others
    <3> QED
      BY <1>2, <2>1, <2>3, <3>1
  <2>4. CASE i = e
    <3>1. j # e
      BY <1>2, <2>1, <2>4
    <3>2. y # H /\ j \in UsedIn(w, H) /\ Holds(x, a[j], k)
      BY <1>0, <1>2, <2>1, <2>4, <3>1 DEF Others
    <3>3. j < e
      BY <1>2, <2>4, <3>1, <3>2
    <3> QED
      BY <1>2, <2>1, <2>4, <3>3
  <2> QED
    BY <2>2, <2>3, <2>4
<1>3. ASSUME x = "rules", NEW i \in DOMAIN w2, NEW j \in DOMAIN w2, w2[i] = H
      PROVE  IF w2[j] = H THEN i < j => r2[j] < r2[i] ELSE j < i
  <2>1. i # e /\ w[i] = H
    BY <1>0, <1>1, <1>3 DEF Others
  <2>2. CASE j = e
    BY <1>1, <1>3, <2>1, <2>2
  <2>3. CASE j # e
    <3>1. w2[j] = w[j] /\ r2[j] = r[j] /\ r2[i] = r[i]
      BY <1>0, <1>1, <2>1, <2>3 DEF Others
    <3> QED
      BY <1>1, <1>3, <2>1, <3>1 DEF Ranked
  <2> QED
    BY <2>2, <2>3
<1> QED
  BY <1>2, <1>3 DEF Ranked

(* An entry is for one key. *)
LEMMA OneKey ==
  ASSUME NEW x \in Spi, NEW k \in KeysOf[x], NEW j \in KeysOf[x], NEW en,
         Holds(x, en, k), Holds(x, en, j)
  PROVE  j = k
<1>1. CASE x \in {"OO", "ON"}
  BY <1>1 DEF Holds
<1>2. CASE x \notin {"OO", "ON"}
  BY <1>2, HashAssumption DEF Holds
<1> QED
  BY <1>1, <1>2

(* The used entries that hold a key are the same as before, with their values. *)
SameHolders(x, a, w, a2, w2, H, j) ==
  \A i \in DOMAIN w : i \in UsedIn(w, H) /\ Holds(x, a[i], j)
                      <=> i \in UsedIn(w2, H) /\ Holds(x, a2[i], j)

SameValues(x, a, w, a2, H, j) ==
  \A i \in UsedIn(w, H) : Holds(x, a[i], j) => a2[i].value = a[i].value

LEMMA SameAnswer ==
  ASSUME NEW a, NEW w, NEW a2, NEW w2, DOMAIN w2 = DOMAIN w, NEW x, NEW H, NEW p,
         Answers(x, a, w, H, p), NEW j \in KeysOf[x],
         SameHolders(x, a, w, a2, w2, H, j), SameValues(x, a, w, a2, H, j)
  PROVE  /\ p[j] # NoValue <=> \E i \in UsedIn(w2, H) : Holds(x, a2[i], j)
         /\ x \notin {"ON", "NN"} =>
              \A i \in UsedIn(w2, H) :
                /\ Holds(x, a2[i], j)
                /\ \A l \in UsedIn(w2, H) : Holds(x, a2[l], j) => l <= i
                => p[j] = a2[i].value
<1>1. \A i : i \in UsedIn(w, H) /\ Holds(x, a[i], j)
             <=> i \in UsedIn(w2, H) /\ Holds(x, a2[i], j)
  BY DEF UsedIn, SameHolders
<1>2. p[j] # NoValue <=> \E i \in UsedIn(w2, H) : Holds(x, a2[i], j)
  BY <1>1 DEF Answers
<1>3. ASSUME x \notin {"ON", "NN"}, NEW i \in UsedIn(w2, H), Holds(x, a2[i], j),
             \A l \in UsedIn(w2, H) : Holds(x, a2[l], j) => l <= i
      PROVE  p[j] = a2[i].value
  <2>1. i \in UsedIn(w, H) /\ Holds(x, a[i], j)
    BY <1>1, <1>3
  <2>2. \A l \in UsedIn(w, H) : Holds(x, a[l], j) => l <= i
    BY <1>1, <1>3
  <2>3. p[j] = a[i].value
    BY <1>3, <2>1, <2>2 DEF Answers
  <2> QED
    BY <2>1, <2>3 DEF SameValues
<1> QED
  BY <1>2, <1>3

(* Entry e gets the value v of key k. *)
LEMMA StoreAnswers ==
  ASSUME NEW a, NEW w, NEW a2, NEW w2, NEW e, NEW y, Changed(a, w, a2, w2, e, y),
         NEW x \in Spi, NEW H, NEW p, Answers(x, a, w, H, p), y # H,
         NEW k \in KeysOf[x], NEW v \in Value,
         Holds(x, a2[e], k), x \notin {"ON", "NN"} => a2[e].value = v,
         e \in UsedIn(w, H) => Holds(x, a[e], k),
         DOMAIN w \subseteq Nat,
         \A i \in UsedIn(w, H) : i # e /\ Holds(x, a[i], k) => i < e,
         NEW p2, SetTo(p, k, v, p2)
  PROVE  Answers(x, a2, w2, H, p2)
<1>0. Others(x, a, w, a2, w2, e, y, H)
  BY ChangedOthers
<1>1. DOMAIN w2 = DOMAIN w /\ e \in DOMAIN w /\ w2[e] = y
  BY DEF Changed
<1>2. k \in Key /\ KeysOf[x] \subseteq Key /\ v # NoValue
  BY HashAssumption
<1>3. /\ p \in [Key -> Value \cup {NoValue}]
      /\ \A j \in Key : p[j] # NoValue => j \in KeysOf[x]
  BY DEF Answers
<1>4. /\ p2 \in [Key -> Value \cup {NoValue}] /\ p2[k] = v
      /\ \A j \in Key : j # k => p2[j] = p[j]
  BY <1>2, <1>3 DEF SetTo
<1>5. \A j \in Key : p2[j] # NoValue => j \in KeysOf[x]
  BY <1>3, <1>4
<1>6. ASSUME NEW j \in KeysOf[x], j # k
      PROVE  SameHolders(x, a, w, a2, w2, H, j) /\ SameValues(x, a, w, a2, H, j)
  <2>1. ~Holds(x, a2[e], j) /\ (e \in UsedIn(w, H) => ~Holds(x, a[e], j))
    BY <1>6, OneKey
  <2>2. SameHolders(x, a, w, a2, w2, H, j)
    BY <1>0, <2>1 DEF SameHolders, Others
  <2>3. SameValues(x, a, w, a2, H, j)
    BY <1>0, <2>1 DEF SameValues, Others, UsedIn
  <2> QED
    BY <2>2, <2>3
<1>7. ASSUME NEW j \in KeysOf[x]
      PROVE  /\ p2[j] # NoValue <=> \E i \in UsedIn(w2, H) : Holds(x, a2[i], j)
             /\ x \notin {"ON", "NN"} =>
                  \A i \in UsedIn(w2, H) :
                    /\ Holds(x, a2[i], j)
                    /\ \A l \in UsedIn(w2, H) : Holds(x, a2[l], j) => l <= i
                    => p2[j] = a2[i].value
  <2>1. CASE j # k
    <3>1. p2[j] = p[j]
      BY <1>2, <1>4, <2>1
    <3> QED
      BY <1>1, <1>6, <2>1, <3>1, SameAnswer
  <2>2. CASE j = k
    <3>1. e \in UsedIn(w2, H) /\ Holds(x, a2[e], j)
      BY <1>0, <2>2 DEF Others
    <3>2. ASSUME x \notin {"ON", "NN"}, NEW i \in UsedIn(w2, H), Holds(x, a2[i], j),
                 \A l \in UsedIn(w2, H) : Holds(x, a2[l], j) => l <= i
          PROVE  p2[j] = a2[i].value
      <4>1. e <= i /\ i \in DOMAIN w
        BY <1>1, <3>1, <3>2 DEF UsedIn
      <4>2. i # e => i < e
        BY <1>0, <2>2, <3>2, <4>1 DEF Others
      <4>3. i = e
        BY <1>1, <4>1, <4>2
      <4> QED
        BY <1>4, <2>2, <3>2, <4>3
    <3> QED
      BY <1>2, <1>4, <2>2, <3>1, <3>2
  <2> QED
    BY <2>1, <2>2
<1> QED
  BY <1>4, <1>5, <1>7 DEF Answers

(* Entry e, the only one for key k, is freed. *)
LEMMA FreeAnswers ==
  ASSUME NEW a, NEW w, NEW a2, NEW w2, NEW e, NEW y, Changed(a, w, a2, w2, e, y),
         NEW x \in Spi, x # "rules", NEW H, NEW p, Answers(x, a, w, H, p),
         Filled(x, a, w, H), y = H,
         NEW k \in KeysOf[x], e \in UsedIn(w, H), Holds(x, a[e], k),
         NEW p2, SetTo(p, k, NoValue, p2)
  PROVE  Answers(x, a2, w2, H, p2)
<1>0. Others(x, a, w, a2, w2, e, y, H)
  BY ChangedOthers
<1>1. DOMAIN w2 = DOMAIN w /\ e \in DOMAIN w /\ w2[e] = y
  BY DEF Changed
<1>2. k \in Key /\ KeysOf[x] \subseteq Key
  BY HashAssumption
<1>3. /\ p \in [Key -> Value \cup {NoValue}]
      /\ \A j \in Key : p[j] # NoValue => j \in KeysOf[x]
  BY DEF Answers
<1>4. /\ p2 \in [Key -> Value \cup {NoValue}] /\ p2[k] = NoValue
      /\ \A j \in Key : j # k => p2[j] = p[j]
  BY <1>2, <1>3 DEF SetTo
<1>5. \A j \in Key : p2[j] # NoValue => j \in KeysOf[x]
  BY <1>3, <1>4
<1>6. ASSUME NEW j \in KeysOf[x], j # k
      PROVE  SameHolders(x, a, w, a2, w2, H, j) /\ SameValues(x, a, w, a2, H, j)
  <2>1. e \notin UsedIn(w2, H) /\ ~Holds(x, a[e], j)
    BY <1>0, <1>6, OneKey DEF Others
  <2>2. SameHolders(x, a, w, a2, w2, H, j)
    BY <1>0, <2>1 DEF SameHolders, Others
  <2>3. SameValues(x, a, w, a2, H, j)
    BY <1>0, <2>1 DEF SameValues, Others, UsedIn
  <2> QED
    BY <2>2, <2>3
<1>7. ASSUME NEW j \in KeysOf[x]
      PROVE  /\ p2[j] # NoValue <=> \E i \in UsedIn(w2, H) : Holds(x, a2[i], j)
             /\ x \notin {"ON", "NN"} =>
                  \A i \in UsedIn(w2, H) :
                    /\ Holds(x, a2[i], j)
                    /\ \A l \in UsedIn(w2, H) : Holds(x, a2[l], j) => l <= i
                    => p2[j] = a2[i].value
  <2>1. CASE j # k
    <3>1. p2[j] = p[j]
      BY <1>2, <1>4, <2>1
    <3> QED
      BY <1>1, <1>6, <2>1, <3>1, SameAnswer
  <2>2. CASE j = k
    <3>1. ASSUME NEW i \in UsedIn(w2, H), Holds(x, a2[i], j)
          PROVE  FALSE
      <4>1. i # e /\ i \in DOMAIN w
        BY <1>0, <1>1, <3>1 DEF Others, UsedIn
      <4>2. i \in UsedIn(w, H) /\ Holds(x, a[i], j)
        BY <1>0, <3>1, <4>1 DEF Others
      <4> QED
        BY <2>2, <4>1, <4>2 DEF Filled
    <3> QED
      BY <1>4, <2>2, <3>1
  <2> QED
    BY <2>1, <2>2
<1> QED
  BY <1>4, <1>5, <1>7 DEF Answers

(* Entry e moves within its list. *)
LEMMA TopAnswers ==
  ASSUME NEW a, NEW w, NEW a2, NEW w2, NEW e, NEW y, Changed(a, w, a2, w2, e, y),
         NEW x, NEW H, NEW p, Answers(x, a, w, H, p), y # H, e \in UsedIn(w, H),
         Alike(a2[e], a[e])
  PROVE  Answers(x, a2, w2, H, p)
<1>0. Others(x, a, w, a2, w2, e, y, H)
  BY ChangedOthers
<1>1. DOMAIN w2 = DOMAIN w /\ e \in DOMAIN w /\ w2[e] = y
  BY DEF Changed
<1>2. e \in UsedIn(w2, H) /\ (\A k : Holds(x, a2[e], k) <=> Holds(x, a[e], k))
      /\ a2[e].value = a[e].value
  BY <1>0 DEF Others, Holds, Alike
<1>3. ASSUME NEW j \in KeysOf[x]
      PROVE  SameHolders(x, a, w, a2, w2, H, j) /\ SameValues(x, a, w, a2, H, j)
  <2>2. SameHolders(x, a, w, a2, w2, H, j)
    BY <1>0, <1>2 DEF SameHolders, Others
  <2>3. SameValues(x, a, w, a2, H, j)
    BY <1>0, <1>2 DEF SameValues, Others, UsedIn
  <2> QED
    BY <2>2, <2>3
<1>4. ASSUME NEW j \in KeysOf[x]
      PROVE  /\ p[j] # NoValue <=> \E i \in UsedIn(w2, H) : Holds(x, a2[i], j)
             /\ x \notin {"ON", "NN"} =>
                  \A i \in UsedIn(w2, H) :
                    /\ Holds(x, a2[i], j)
                    /\ \A l \in UsedIn(w2, H) : Holds(x, a2[l], j) => l <= i
                    => p[j] = a2[i].value
  BY <1>1, <1>3, SameAnswer
<1> QED
  BY <1>4 DEF Answers

LEMMA UsedFinite ==
  ASSUME NEW n \in Nat, NEW w, DOMAIN w = 1 .. n, NEW H
  PROVE  IsFiniteSet(UsedIn(w, H))
<1>1. IsFiniteSet(1 .. n)
  BY FS_Interval
<1>2. UsedIn(w, H) \in SUBSET (1 .. n)
  BY DEF UsedIn
<1> QED
  BY <1>1, <1>2, FS_Subset

LEMMA StoreCounts ==
  ASSUME NEW a, NEW w, NEW a2, NEW w2, NEW e, NEW y, Changed(a, w, a2, w2, e, y),
         NEW x, NEW H, NEW p, NEW sz, Counts(x, w, H, p, sz), y # H, w[e] = H,
         IsFiniteSet(UsedIn(w, H)), Answers(x, a, w, H, p),
         NEW k \in Key, x # "rules" => p[k] = NoValue, NEW v, v # NoValue,
         NEW p2, SetTo(p, k, v, p2)
  PROVE  Counts(x, w2, H, p2, sz + 1)
<1>1. PICK S, S2, K, K2 : /\ S = UsedIn(w, H) /\ S2 = UsedIn(w2, H)
                          /\ K = KeysIn(p) /\ K2 = KeysIn(p2)
  OBVIOUS
<1>2. e \notin S /\ S2 = S \cup {e}
  BY <1>1 DEF UsedIn, Changed
<1>3. K2 = K \cup {k} /\ (x # "rules" => k \notin K)
  BY <1>1 DEF KeysIn, SetTo, Answers
<1>4. IsFiniteSet(S)
  BY <1>1
<1>5. Cardinality(S2) = Cardinality(S) + 1
  BY <1>2, <1>4, FS_AddElement
<1>6. IsFiniteSet(K)
  BY <1>1 DEF Counts
<1>7. IsFiniteSet(K2) /\ (x # "rules" => Cardinality(K2) = Cardinality(K) + 1)
  BY <1>3, <1>6, FS_AddElement
<1> QED
  BY <1>1, <1>5, <1>7 DEF Counts

LEMMA FreeCounts ==
  ASSUME NEW a, NEW w, NEW a2, NEW w2, NEW e, NEW y, Changed(a, w, a2, w2, e, y),
         NEW x, NEW H, NEW p, NEW sz, Counts(x, w, H, p, sz), y = H, w[e] # H,
         IsFiniteSet(UsedIn(w, H)), Answers(x, a, w, H, p),
         NEW k \in Key, p[k] # NoValue, NEW p2, SetTo(p, k, NoValue, p2)
  PROVE  Counts(x, w2, H, p2, sz - 1)
<1>1. PICK S, S2, K, K2 : /\ S = UsedIn(w, H) /\ S2 = UsedIn(w2, H)
                          /\ K = KeysIn(p) /\ K2 = KeysIn(p2)
  OBVIOUS
<1>2. e \in S /\ S2 = S \ {e}
  BY <1>1 DEF UsedIn, Changed
<1>3. K2 = K \ {k} /\ k \in K
  BY <1>1 DEF KeysIn, SetTo, Answers
<1>4. IsFiniteSet(S)
  BY <1>1
<1>5. Cardinality(S2) = Cardinality(S) - 1
  BY <1>2, <1>4, FS_RemoveElement
<1>6. IsFiniteSet(K)
  BY <1>1 DEF Counts
<1>7. IsFiniteSet(K2) /\ Cardinality(K2) = Cardinality(K) - 1
  BY <1>3, <1>6, FS_RemoveElement
<1> QED
  BY <1>1, <1>5, <1>7 DEF Counts

LEMMA SameCounts ==
  ASSUME NEW a, NEW w, NEW a2, NEW w2, NEW e, NEW y, Changed(a, w, a2, w2, e, y),
         NEW x, NEW H, NEW p, NEW sz, Counts(x, w, H, p, sz), y # H, w[e] # H,
         NEW p2, KeysIn(p2) = KeysIn(p)
  PROVE  Counts(x, w2, H, p2, sz)
<1>1. UsedIn(w2, H) = UsedIn(w, H)
  BY DEF UsedIn, Changed
<1> QED
  BY <1>1 DEF Counts

-----------------------------------------------------------------------------
(***************************************************************************)
(* The operations on the links.                                            *)
(***************************************************************************)
LEMMA FunctionIsSeq ==
  ASSUME NEW n \in Nat, NEW S, NEW f \in [1 .. n -> S]
  PROVE  f \in Seq(S) /\ Len(f) = n
OBVIOUS

Sent(w, r, e, y, q, w2, r2) ==
  w2 = [w EXCEPT ![e] = y] /\ r2 = [r EXCEPT ![e] = q]

LEMMA MoveLaid ==
  ASSUME NEW a, NEW b, NEW u, NEW H, NEW w, NEW r, Laid(a, b, u, H, w, r),
         NEW n, SizeIs(a, n), NEW e \in 1 .. n, NEW y \in 0 .. H,
         NEW a2, ArenaIs(a2, n), NEW b2, BucketsAre(b2, H, n), NEW u2 \in 0 .. n,
         Moved(Nexts(a), Heads(b, u, H), w, e, y, Nexts(a2), Heads(b2, u2, H), n),
         \A i \in 1 .. n : i # e => a2[i].hcode = a[i].hcode,
         y # H => y = Bucket(a2[e].hcode, H),
         NEW q \in Int, \A j \in 1 .. n : w[j] = y => r[j] < q,
         NEW w2, NEW r2, Sent(w, r, e, y, q, w2, r2)
  PROVE  Laid(a2, b2, u2, H, w2, r2)
<1>1. /\ H \in Nat /\ H # 0 /\ n \in Nat /\ n # 0 /\ DOMAIN w = 1 .. n
      /\ \A i \in 1 .. n : w[i] # H => w[i] = Bucket(a[i].hcode, H)
      /\ Lists(Nexts(a), Heads(b, u, H), w, r, 0 .. H, n)
  BY LaidParts DEF SizeIs
<1>2. a2 \in Seq(Cell(n)) /\ Len(a2) = n /\ DOMAIN a2 = 1 .. n
  <2>1. a2 \in [1 .. n -> Cell(n)]
    BY DEF ArenaIs
  <2> QED
    BY <1>1, <2>1, FunctionIsSeq
<1>3. PICK nx, c, nx2, c2, X : /\ nx = Nexts(a) /\ c = Heads(b, u, H)
                               /\ nx2 = Nexts(a2) /\ c2 = Heads(b2, u2, H)
                               /\ X = 0 .. H
  OBVIOUS
<1>4. Lists(nx, c, w, r, X, n) /\ Moved(nx, c, w, e, y, nx2, c2, n) /\ y \in X
  BY <1>1, <1>3
<1>5. Lists(nx2, c2, w2, r2, X, n)
  BY <1>4, MoveKeeps DEF Sent
<1>6. \A i \in UsedIn(w2, H) : w2[i] = Bucket(a2[i].hcode, H)
  BY <1>1 DEF UsedIn, Sent
<1>7. b2 \in [0 .. (H - 1) -> 0 .. n]
  BY DEF BucketsAre
<1> QED
  BY <1>1, <1>2, <1>3, <1>5, <1>6, <1>7 DEF Laid

LEMMA EntryIs ==
  ASSUME NEW hc, NEW key, NEW v, NEW next
  PROVE  /\ Entry(hc, key, v, next).hcode = hc /\ Entry(hc, key, v, next).key = key
         /\ Entry(hc, key, v, next).value = v /\ Entry(hc, key, v, next).next = next
BY DEF Entry

LEMMA EntryInCell ==
  ASSUME NEW n, NEW hc \in Codes, NEW key \in Key \cup {NoKey, StaleKey},
         NEW v \in Value \cup {Zero}, NEW next \in 0 .. n
  PROVE  Entry(hc, key, v, next) \in Cell(n)
BY DEF Entry, Cell

LEMMA LinkedIs ==
  ASSUME NEW n, NEW en \in Cell(n), NEW next
  PROVE  /\ Linked(en, next).next = next /\ Alike(Linked(en, next), en)
         /\ next \in 0 .. n => Linked(en, next) \in Cell(n)
BY DEF Linked, Entry, Cell, Alike

(* The head of the free list. *)
LEMMA FreeHead ==
  ASSUME NEW a, NEW b, NEW u, NEW H, NEW w, NEW r, Laid(a, b, u, H, w, r),
         NEW n, SizeIs(a, n), u # 0
  PROVE  /\ u \in 1 .. n /\ w[u] = H
         /\ \A j \in 1 .. n : w[j] = H => r[j] <= r[u]
<1>1. /\ H \in Nat /\ n \in Nat /\ DOMAIN w = 1 .. n
      /\ Heads(b, u, H)[H] = u
      /\ Lists(Nexts(a), Heads(b, u, H), w, r, 0 .. H, n)
  BY LaidParts DEF SizeIs
<1>2. H \in 0 .. H
  BY <1>1
<1>3. Leads(u, r, OnList(w, H))
  BY <1>1, <1>2 DEF Lists
<1> QED
  BY <1>1, <1>3 DEF Leads, OnList

LEMMA NextsIs ==
  ASSUME NEW a, NEW b, NEW u, NEW H, NEW w, NEW r, Laid(a, b, u, H, w, r),
         NEW n, SizeIs(a, n)
  PROVE  /\ n \in Nat
         /\ Nexts(a) \in [1 .. n -> 0 .. n]
         /\ \A i \in 1 .. n : Nexts(a)[i] = a[i].next /\ a[i] \in Cell(n)
         /\ a \in [1 .. n -> Cell(n)] /\ b \in [0 .. (H - 1) -> 0 .. n] /\ u \in 0 .. n
<1>1. n \in Nat /\ Nexts(a) \in [1 .. n -> 0 .. n]
  BY DEF Laid, Lists, SizeIs
<1>2. a \in Seq(Cell(n)) /\ b \in [0 .. (H - 1) -> 0 .. n] /\ u \in 0 .. n
  BY DEF Laid, SizeIs
<1>3. a \in [1 .. n -> Cell(n)] /\ \A i \in 1 .. n : a[i] \in Cell(n)
  BY <1>1, <1>2 DEF SizeIs
<1>4. \A i \in 1 .. n : Nexts(a)[i] = a[i].next
  BY DEF Nexts, SizeIs
<1> QED
  BY <1>1, <1>2, <1>3, <1>4

(* Rank q is above those of list h. *)
TopOf(w, r, h, q, n) == \A j \in 1 .. n : w[j] = h => r[j] < q

(* hmap_add to chain h. *)
Push(a, b, u, h, en, a2, b2, u2) ==
  /\ a2 = [a EXCEPT ![u] = en]
  /\ b2 = [b EXCEPT ![h] = u]
  /\ u2 = a[u].next

Pushed(a, b, u, H, hc, key, v, h, a2, b2, u2) ==
  /\ h = Bucket(hc, H)
  /\ Push(a, b, u, h, Entry(hc, key, v, b[h]), a2, b2, u2)

LEMMA PushLaid ==
  ASSUME NEW a, NEW b, NEW u, NEW H, NEW w, NEW r, Laid(a, b, u, H, w, r),
         NEW n, SizeIs(a, n), u # 0,
         NEW hc \in Codes, NEW key \in Key \cup {NoKey, StaleKey},
         NEW v \in Value \cup {Zero},
         NEW h, NEW a2, NEW b2, NEW u2, Pushed(a, b, u, H, hc, key, v, h, a2, b2, u2)
  PROVE  \E q \in Int : /\ TopOf(w, r, h, q, n)
                        /\ Laid(a2, b2, u2, H, [w EXCEPT ![u] = h], [r EXCEPT ![u] = q])
<1>1. /\ H \in Nat /\ H # 0 /\ n \in Nat /\ DOMAIN w = 1 .. n
      /\ \A z \in 0 .. (H - 1) : Heads(b, u, H)[z] = b[z]
      /\ Heads(b, u, H)[H] = u
  BY LaidParts DEF SizeIs
<1>2. u \in 1 .. n /\ w[u] = H
  BY FreeHead
<1>3. h \in 0 .. (H - 1) /\ h \in 0 .. H /\ h # H
  <2>1. hc \in Nat
    BY CodesAreNumbers
  <2>2. h \in 0 .. (H - 1)
    BY <1>1, <2>1, BucketIn DEF Pushed
  <2> QED
    BY <1>1, <2>2
<1>4. /\ Nexts(a) \in [1 .. n -> 0 .. n]
      /\ \A i \in 1 .. n : Nexts(a)[i] = a[i].next /\ a[i] \in Cell(n)
      /\ a \in [1 .. n -> Cell(n)] /\ b \in [0 .. (H - 1) -> 0 .. n]
  BY NextsIs
<1>5. PICK nx, c : nx = Nexts(a) /\ c = Heads(b, u, H)
  OBVIOUS
<1>6. /\ Lists(nx, c, w, r, 0 .. H, n) /\ c[H] = u /\ c \in [0 .. H -> 0 .. n]
      /\ \A z \in 0 .. (H - 1) : c[z] = b[z]
  <2>1. Lists(nx, c, w, r, 0 .. H, n)
    BY <1>5, LaidParts DEF SizeIs
  <2> QED
    BY <1>1, <1>5, <2>1 DEF Lists
<1>7. PICK X : X = 0 .. H
  OBVIOUS
<1>8. PICK q \in Int : \A j \in 1 .. n : w[j] = h => r[j] < q
  <2>1. Lists(nx, c, w, r, X, n) /\ h \in X
    BY <1>3, <1>6, <1>7
  <2> QED
    BY <2>1, RankAbove
<1>9. PICK en : en = Entry(hc, key, v, b[h])
  OBVIOUS
<1>10. en \in Cell(n) /\ en.hcode = hc /\ en.next = b[h]
  <2>1. PICK t \in 0 .. n : t = b[h]
    BY <1>3, <1>4
  <2>2. en = Entry(hc, key, v, t)
    BY <1>9, <2>1
  <2>3. en \in Cell(n)
    BY <2>2, EntryInCell
  <2>4. en.hcode = hc /\ en.next = t
    BY <2>2, EntryIs
  <2> QED
    BY <2>1, <2>3, <2>4
<1>11. /\ a2 \in [1 .. n -> Cell(n)] /\ a2[u] = en
       /\ \A i \in 1 .. n : i # u => a2[i] = a[i]
  BY <1>2, <1>4, <1>9, <1>10 DEF Push, Pushed
<1>12. b2 \in [0 .. (H - 1) -> 0 .. n] /\ u2 \in 0 .. n
  BY <1>1, <1>2, <1>3, <1>4 DEF Push, Pushed
<1>13. PICK nx2 : nx2 = Nexts(a2)
  OBVIOUS
<1>14. /\ nx2 \in [1 .. n -> 0 .. n] /\ nx2[u] = b[h]
       /\ \A i \in 1 .. n : i # u => nx2[i] = nx[i]
  <2>1. Len(a2) = n
    BY <1>1, <1>11, FunctionIsSeq
  <2>2. nx2 = [i \in 1 .. n |-> a2[i].next]
    BY <1>13, <2>1 DEF Nexts
  <2>3. \A i \in 1 .. n : a2[i].next \in 0 .. n
    BY <1>11 DEF Cell
  <2> QED
    BY <1>2, <1>4, <1>5, <1>10, <1>11, <2>2, <2>3
<1>15. PICK c2 : c2 = Heads(b2, u2, H)
  OBVIOUS
<1>16. PICK rest : rest = [c EXCEPT ![H] = nx[u]]
  OBVIOUS
<1>17. rest[h] = b[h] /\ c2 = [rest EXCEPT ![h] = u]
  <2>1. H \in 0 .. H
    BY <1>1
  <2>2. nx[u] = u2
    BY <1>2, <1>4, <1>5 DEF Push, Pushed
  <2>3. rest = [z \in 0 .. H |-> IF z = H THEN u2 ELSE b[z]]
    <3>1. \A z \in 0 .. H : z # H => z \in 0 .. (H - 1)
      BY <1>1
    <3> QED
      BY <1>6, <1>16, <2>1, <2>2, <3>1
  <2>4. c2 = [z \in 0 .. H |-> IF z = H THEN u2 ELSE b2[z]]
    BY <1>15 DEF Heads
  <2>5. \A z \in 0 .. H : z # H => b2[z] = IF z = h THEN u ELSE b[z]
    <3>1. \A z \in 0 .. H : z # H => z \in 0 .. (H - 1)
      BY <1>1
    <3> QED
      BY <1>4, <3>1 DEF Push, Pushed
  <2> QED
    BY <1>3, <2>3, <2>4, <2>5
<1>18. Moved(nx, c, w, u, h, nx2, c2, n)
  <2>1. \A i \in 1 .. n : nx[i] # u
    <3>1. c[w[u]] = u
      BY <1>2, <1>6
    <3>2. Lists(nx, c, w, r, X, n)
      BY <1>6, <1>7
    <3> QED
      BY <1>2, <3>1, <3>2, HeadFollowsNone
  <2>2. \A i \in 1 .. n : i # u => nx2[i] = IF nx[i] = u THEN nx[u] ELSE nx[i]
    BY <1>14, <2>1
  <2>3. rest = IF c[w[u]] = u THEN [c EXCEPT ![w[u]] = nx[u]] ELSE c
    BY <1>2, <1>6, <1>16
  <2>4. nx2 \in [1 .. n -> 0 .. n] /\ nx2[u] = rest[h] /\ c2 = [rest EXCEPT ![h] = u]
    BY <1>14, <1>17
  <2> QED
    BY <2>2, <2>3, <2>4 DEF Moved
<1>19. Laid(a2, b2, u2, H, [w EXCEPT ![u] = h], [r EXCEPT ![u] = q])
  <2>1. Moved(Nexts(a), Heads(b, u, H), w, u, h, Nexts(a2), Heads(b2, u2, H), n)
    BY <1>5, <1>13, <1>15, <1>18
  <2>2. \A i \in 1 .. n : i # u => a2[i].hcode = a[i].hcode
    BY <1>11
  <2>3. h = Bucket(a2[u].hcode, H)
    BY <1>10, <1>11 DEF Pushed
  <2>4. PICK w2, r2 : Sent(w, r, u, h, q, w2, r2)
    BY DEF Sent
  <2>5. Laid(a2, b2, u2, H, w2, r2)
    <3>1. ArenaIs(a2, n) /\ BucketsAre(b2, H, n)
      BY <1>11, <1>12 DEF ArenaIs, BucketsAre
    <3>2. u \in 1 .. n /\ h \in 0 .. H /\ u2 \in 0 .. n
      BY <1>2, <1>3, <1>12
    <3> QED
      BY <1>8, <2>1, <2>2, <2>3, <2>4, <3>1, <3>2, MoveLaid
  <2> QED
    BY <2>4, <2>5 DEF Sent
<1> QED
  BY <1>8, <1>19 DEF TopOf

(* The arena when e leaves its place on a list and becomes top. *)
Bypass(a, e, top, n, a2) ==
  a2 = [i \in 1 .. n |-> IF i = e THEN top
                         ELSE IF a[i].next = e THEN Linked(a[i], a[e].next)
                         ELSE a[i]]

LEMMA BypassIs ==
  ASSUME NEW n \in Nat, NEW a, ArenaIs(a, n), NEW e \in 1 .. n,
         NEW top \in Cell(n), NEW a2, Bypass(a, e, top, n, a2)
  PROVE  /\ ArenaIs(a2, n) /\ a2[e] = top
         /\ \A i \in 1 .. n : i # e =>
              /\ Alike(a2[i], a[i])
              /\ a2[i].next = IF a[i].next = e THEN a[e].next ELSE a[i].next
<1>1. ASSUME NEW i \in 1 .. n, i # e
      PROVE  /\ a2[i] \in Cell(n) /\ Alike(a2[i], a[i])
             /\ a2[i].next = IF a[i].next = e THEN a[e].next ELSE a[i].next
  <2>1. PICK en, t : en = a[i] /\ t = a[e].next
    OBVIOUS
  <2>2. en \in Cell(n) /\ t \in 0 .. n
    <3>1. a[e] \in Cell(n) /\ a[i] \in Cell(n)
      BY DEF ArenaIs
    <3> QED
      BY <2>1, <3>1 DEF Cell
  <2>3. a2[i] = IF en.next = e THEN Linked(en, t) ELSE en
    BY <1>1, <2>1 DEF Bypass
  <2>4. /\ Linked(en, t).next = t /\ Alike(Linked(en, t), en)
        /\ Linked(en, t) \in Cell(n)
    BY <2>2, LinkedIs
  <2>5. Alike(en, en)
    BY DEF Alike
  <2> QED
    BY <2>1, <2>2, <2>3, <2>4, <2>5
<1>2. a2[e] = top
  BY DEF Bypass
<1>3. \A i \in 1 .. n : a2[i] \in Cell(n)
  BY <1>1, <1>2
<1>4. a2 = [i \in 1 .. n |-> a2[i]]
  BY DEF Bypass
<1>5. ArenaIs(a2, n)
  BY <1>3, <1>4 DEF ArenaIs
<1> QED
  BY <1>1, <1>2, <1>5

(* hmap_remove, hmap_unuse, of an entry of chain h. *)
Drop(a, b, u, h, e, n, a2, b2) ==
  /\ Bypass(a, e, FreeEntry(u), n, a2)
  /\ b2 = IF b[h] = e THEN [b EXCEPT ![h] = a[e].next] ELSE b

(* hmap_top of an entry that is not the head of chain h. *)
Top(a, b, h, e, n, a2, b2) ==
  /\ Bypass(a, e, Linked(a[e], b[h]), n, a2)
  /\ b2 = [b EXCEPT ![h] = e]

LEMMA DropLaid ==
  ASSUME NEW a, NEW b, NEW u, NEW H, NEW w, NEW r, Laid(a, b, u, H, w, r),
         NEW n, SizeIs(a, n), NEW e \in 1 .. n, w[e] # H,
         NEW h, h = w[e], NEW a2, NEW b2, Drop(a, b, u, h, e, n, a2, b2)
  PROVE  \E q \in Int : Laid(a2, b2, e, H, [w EXCEPT ![e] = H], [r EXCEPT ![e] = q])
<1>1. /\ H \in Nat /\ H # 0 /\ n \in Nat /\ DOMAIN w = 1 .. n
      /\ \A i \in 1 .. n : w[i] \in 0 .. H
      /\ \A z \in 0 .. (H - 1) : Heads(b, u, H)[z] = b[z]
      /\ Heads(b, u, H)[H] = u
  BY LaidParts DEF SizeIs
<1>2. h \in 0 .. (H - 1) /\ H \in 0 .. H /\ h # H
  BY <1>1
<1>3. /\ Nexts(a) \in [1 .. n -> 0 .. n]
      /\ \A i \in 1 .. n : Nexts(a)[i] = a[i].next
      /\ a \in [1 .. n -> Cell(n)] /\ b \in [0 .. (H - 1) -> 0 .. n] /\ u \in 0 .. n
  BY NextsIs
<1>4. PICK nx : nx = Nexts(a)
  OBVIOUS
<1>5. PICK c : c = Heads(b, u, H)
  OBVIOUS
<1>6. PICK X : X = 0 .. H
  OBVIOUS
<1>7. /\ Lists(nx, c, w, r, X, n) /\ c[H] = u /\ H \in X
      /\ \A z \in 0 .. (H - 1) : c[z] = b[z]
  <2>1. Lists(nx, c, w, r, 0 .. H, n)
    BY <1>4, <1>5, LaidParts DEF SizeIs
  <2> QED
    BY <1>1, <1>2, <1>5, <1>6, <2>1
<1>8. PICK q \in Int : \A j \in 1 .. n : w[j] = H => r[j] < q
  BY <1>7, RankAbove
<1>9. PICK top \in Cell(n) : top = FreeEntry(u) /\ top.next = u
  <2>1. FreeCode \in Codes /\ NoKey \in Key \cup {NoKey, StaleKey} /\ Zero \in Value \cup {Zero}
    BY DEF Codes
  <2>2. FreeEntry(u) = Entry(FreeCode, NoKey, Zero, u)
    BY DEF FreeEntry
  <2>3. Entry(FreeCode, NoKey, Zero, u) \in Cell(n)
    BY <1>3, <2>1, EntryInCell
  <2>4. Entry(FreeCode, NoKey, Zero, u).next = u
    BY EntryIs
  <2> QED
    BY <2>2, <2>3, <2>4
<1>10. /\ ArenaIs(a2, n) /\ a2[e] = top
       /\ \A i \in 1 .. n : i # e =>
            /\ Alike(a2[i], a[i])
            /\ a2[i].next = IF nx[i] = e THEN nx[e] ELSE nx[i]
  <2>1. /\ ArenaIs(a2, n) /\ a2[e] = top
        /\ \A i \in 1 .. n : i # e =>
             /\ Alike(a2[i], a[i])
             /\ a2[i].next = IF a[i].next = e THEN a[e].next ELSE a[i].next
    <3>1. Bypass(a, e, top, n, a2)
      BY <1>9 DEF Drop
    <3>2. ArenaIs(a, n)
      BY <1>3 DEF ArenaIs
    <3> QED
      BY <1>1, <3>1, <3>2, BypassIs
  <2> QED
    BY <1>3, <1>4, <2>1
<1>11. Len(a2) = n
  <2>1. a2 \in [1 .. n -> Cell(n)]
    BY <1>10 DEF ArenaIs
  <2> QED
    BY <1>1, <2>1, FunctionIsSeq
<1>12. nx[e] = a[e].next /\ nx[e] \in 0 .. n
  BY <1>3, <1>4
<1>13. BucketsAre(b2, H, n)
  BY <1>3, <1>12 DEF Drop, BucketsAre
<1>14. PICK nx2 : nx2 = Nexts(a2)
  OBVIOUS
<1>15. nx2 \in [1 .. n -> 0 .. n] /\ \A i \in 1 .. n : nx2[i] = a2[i].next
  <2>1. nx2 = [i \in 1 .. n |-> a2[i].next]
    BY <1>11, <1>14 DEF Nexts
  <2>2. \A i \in 1 .. n : a2[i].next \in 0 .. n
    BY <1>10 DEF Cell, ArenaIs
  <2> QED
    BY <2>1, <2>2
<1>16. PICK c2 : c2 = Heads(b2, e, H)
  OBVIOUS
<1>17. PICK rest : rest = IF c[h] = e THEN [c EXCEPT ![h] = nx[e]] ELSE c
  OBVIOUS
<1>18. c = [z \in 0 .. H |-> IF z = H THEN u ELSE b[z]]
  BY <1>5 DEF Heads
<1>19. rest[H] = u /\ c2 = [rest EXCEPT ![H] = e]
  <2>1. c2 = [z \in 0 .. H |-> IF z = H THEN e ELSE b2[z]]
    BY <1>16 DEF Heads
  <2>2. \A z \in 0 .. H : z # H => z \in 0 .. (H - 1)
    BY <1>1
  <2>3. CASE c[h] = e
    <3>1. rest = [c EXCEPT ![h] = nx[e]] /\ b2 = [b EXCEPT ![h] = nx[e]]
      BY <1>2, <1>7, <1>12, <1>17, <2>3 DEF Drop
    <3>2. \A z \in 0 .. H : z # H => b2[z] = rest[z]
      BY <1>2, <1>3, <1>18, <2>2, <3>1
    <3>3. rest[H] = u /\ DOMAIN rest = 0 .. H
      BY <1>2, <1>18, <3>1
    <3>4. [rest EXCEPT ![H] = e] = [z \in 0 .. H |-> IF z = H THEN e ELSE rest[z]]
      BY <3>3
    <3>5. c2 = [z \in 0 .. H |-> IF z = H THEN e ELSE rest[z]]
      BY <2>1, <3>2
    <3> QED
      BY <3>3, <3>4, <3>5
  <2>4. CASE c[h] # e
    <3>1. rest = c /\ b2 = b
      BY <1>2, <1>7, <1>17, <2>4 DEF Drop
    <3> QED
      BY <1>2, <1>18, <2>1, <3>1
  <2> QED
    BY <2>3, <2>4
<1>20. Moved(nx, c, w, e, H, nx2, c2, n)
  <2>1. \A i \in 1 .. n : i # e => nx2[i] = IF nx[i] = e THEN nx[e] ELSE nx[i]
    BY <1>10, <1>15
  <2>2. rest = IF c[w[e]] = e THEN [c EXCEPT ![w[e]] = nx[e]] ELSE c
    BY <1>17
  <2>3. nx2 \in [1 .. n -> 0 .. n] /\ nx2[e] = rest[H] /\ c2 = [rest EXCEPT ![H] = e]
    BY <1>9, <1>10, <1>15, <1>19
  <2> QED
    BY <2>1, <2>2, <2>3 DEF Moved
<1>21. Laid(a2, b2, e, H, [w EXCEPT ![e] = H], [r EXCEPT ![e] = q])
  <2>1. Moved(Nexts(a), Heads(b, u, H), w, e, H, Nexts(a2), Heads(b2, e, H), n)
    BY <1>4, <1>5, <1>14, <1>16, <1>20
  <2>2. \A i \in 1 .. n : i # e => a2[i].hcode = a[i].hcode
    BY <1>10 DEF Alike
  <2>3. PICK w2, r2 : Sent(w, r, e, H, q, w2, r2)
    BY DEF Sent
  <2>4. PICK y \in 0 .. H : y = H
    BY <1>2
  <2>5. PICK u2 \in 0 .. n : u2 = e
    BY <1>1
  <2>6. /\ Moved(Nexts(a), Heads(b, u, H), w, e, y, Nexts(a2), Heads(b2, u2, H), n)
        /\ y # H => y = Bucket(a2[e].hcode, H)
        /\ \A j \in 1 .. n : w[j] = y => r[j] < q
        /\ Sent(w, r, e, y, q, w2, r2)
    BY <1>8, <1>10, <2>1, <2>3, <2>4, <2>5
  <2>7. Laid(a2, b2, u2, H, w2, r2)
    BY <1>10, <1>13, <2>2, <2>3, <2>6, MoveLaid
  <2> QED
    BY <2>3, <2>5, <2>7, <2>4 DEF Sent
<1> QED
  BY <1>21

LEMMA TopLaid ==
  ASSUME NEW a, NEW b, NEW u, NEW H, NEW w, NEW r, Laid(a, b, u, H, w, r),
         NEW n, SizeIs(a, n), NEW e \in 1 .. n, w[e] # H,
         NEW h, h = w[e], b[h] # e,
         NEW a2, NEW b2, Top(a, b, h, e, n, a2, b2)
  PROVE  \E q \in Int : /\ TopOf(w, r, h, q, n)
                        /\ Laid(a2, b2, u, H, [w EXCEPT ![e] = h], [r EXCEPT ![e] = q])
<1>1. /\ H \in Nat /\ H # 0 /\ n \in Nat /\ DOMAIN w = 1 .. n
      /\ \A i \in 1 .. n : w[i] \in 0 .. H /\ (w[i] # H => w[i] = Bucket(a[i].hcode, H))
      /\ \A z \in 0 .. (H - 1) : Heads(b, u, H)[z] = b[z]
      /\ Heads(b, u, H)[H] = u
  BY LaidParts DEF SizeIs
<1>2. h \in 0 .. (H - 1) /\ h \in 0 .. H /\ H \in 0 .. H /\ h # H
  BY <1>1
<1>3. /\ Nexts(a) \in [1 .. n -> 0 .. n]
      /\ \A i \in 1 .. n : Nexts(a)[i] = a[i].next
      /\ a \in [1 .. n -> Cell(n)] /\ b \in [0 .. (H - 1) -> 0 .. n] /\ u \in 0 .. n
  BY NextsIs
<1>4. PICK nx : nx = Nexts(a)
  OBVIOUS
<1>5. PICK c : c = Heads(b, u, H)
  OBVIOUS
<1>6. PICK X : X = 0 .. H
  OBVIOUS
<1>7. /\ Lists(nx, c, w, r, X, n) /\ c[H] = u /\ h \in X
      /\ \A z \in 0 .. (H - 1) : c[z] = b[z]
  <2>1. Lists(nx, c, w, r, 0 .. H, n)
    BY <1>4, <1>5, LaidParts DEF SizeIs
  <2> QED
    BY <1>1, <1>2, <1>5, <1>6, <2>1
<1>8. PICK q \in Int : \A j \in 1 .. n : w[j] = h => r[j] < q
  <2>1. Lists(nx, c, w, r, X, n) /\ h \in X
    BY <1>7
  <2> QED
    BY <2>1, RankAbove
<1>9. PICK top \in Cell(n) : /\ top = Linked(a[e], b[h])
                           /\ top.next = b[h] /\ Alike(top, a[e])
  <2>1. PICK en \in Cell(n) : en = a[e]
    BY <1>3
  <2>2. PICK t \in 0 .. n : t = b[h]
    BY <1>2, <1>3
  <2>3. PICK top : top = Linked(en, t)
    OBVIOUS
  <2>4. top \in Cell(n) /\ top.next = t /\ Alike(top, en)
    BY <2>3, LinkedIs
  <2> QED
    BY <2>1, <2>2, <2>3, <2>4
<1>10. /\ ArenaIs(a2, n) /\ a2[e] = top
       /\ \A i \in 1 .. n : i # e =>
            /\ Alike(a2[i], a[i])
            /\ a2[i].next = IF nx[i] = e THEN nx[e] ELSE nx[i]
  <2>1. /\ ArenaIs(a2, n) /\ a2[e] = top
        /\ \A i \in 1 .. n : i # e =>
             /\ Alike(a2[i], a[i])
             /\ a2[i].next = IF a[i].next = e THEN a[e].next ELSE a[i].next
    <3>1. Bypass(a, e, top, n, a2)
      BY <1>9 DEF Top
    <3>2. ArenaIs(a, n)
      BY <1>3 DEF ArenaIs
    <3> QED
      BY <1>1, <3>1, <3>2, BypassIs
  <2> QED
    BY <1>3, <1>4, <2>1
<1>11. Len(a2) = n
  <2>1. a2 \in [1 .. n -> Cell(n)]
    BY <1>10 DEF ArenaIs
  <2> QED
    BY <1>1, <2>1, FunctionIsSeq
<1>12. BucketsAre(b2, H, n)
  BY <1>1, <1>3 DEF Top, BucketsAre
<1>13. PICK nx2 : nx2 = Nexts(a2)
  OBVIOUS
<1>14. nx2 \in [1 .. n -> 0 .. n] /\ \A i \in 1 .. n : nx2[i] = a2[i].next
  <2>1. nx2 = [i \in 1 .. n |-> a2[i].next]
    BY <1>11, <1>13 DEF Nexts
  <2>2. \A i \in 1 .. n : a2[i].next \in 0 .. n
    BY <1>10 DEF Cell, ArenaIs
  <2> QED
    BY <2>1, <2>2
<1>15. PICK c2 : c2 = Heads(b2, u, H)
  OBVIOUS
<1>16. c = [z \in 0 .. H |-> IF z = H THEN u ELSE b[z]]
  BY <1>5 DEF Heads
<1>17. c2 = [c EXCEPT ![h] = e]
  <2>1. c2 = [z \in 0 .. H |-> IF z = H THEN u ELSE b2[z]]
    BY <1>15 DEF Heads
  <2>2. \A z \in 0 .. H : z # H => b2[z] = IF z = h THEN e ELSE b[z]
    <3>1. \A z \in 0 .. H : z # H => z \in 0 .. (H - 1)
      BY <1>1
    <3> QED
      BY <1>3, <3>1 DEF Top
  <2> QED
    BY <1>2, <1>16, <2>1, <2>2
<1>18. Moved(nx, c, w, e, h, nx2, c2, n)
  <2>1. \A i \in 1 .. n : i # e => nx2[i] = IF nx[i] = e THEN nx[e] ELSE nx[i]
    BY <1>10, <1>14
  <2>2. c = IF c[w[e]] = e THEN [c EXCEPT ![w[e]] = nx[e]] ELSE c
    BY <1>2, <1>7
  <2>3. nx2 \in [1 .. n -> 0 .. n] /\ nx2[e] = c[h]
    BY <1>2, <1>7, <1>9, <1>10, <1>14
  <2> QED
    BY <1>17, <2>1, <2>2, <2>3 DEF Moved
<1>19. Laid(a2, b2, u, H, [w EXCEPT ![e] = h], [r EXCEPT ![e] = q])
  <2>1. Moved(Nexts(a), Heads(b, u, H), w, e, h, Nexts(a2), Heads(b2, u, H), n)
    BY <1>4, <1>5, <1>13, <1>15, <1>18
  <2>2. \A i \in 1 .. n : i # e => a2[i].hcode = a[i].hcode
    BY <1>10 DEF Alike
  <2>3. h = Bucket(a2[e].hcode, H)
    BY <1>1, <1>9, <1>10 DEF Alike
  <2>4. PICK w2, r2 : Sent(w, r, e, h, q, w2, r2)
    BY DEF Sent
  <2>5. Laid(a2, b2, u, H, w2, r2)
    <3>1. ArenaIs(a2, n) /\ u \in 0 .. n /\ h \in 0 .. H
      BY <1>2, <1>3, <1>10
    <3> QED
      BY <1>8, <1>12, <2>1, <2>2, <2>3, <2>4, <3>1, MoveLaid
  <2> QED
    BY <2>4, <2>5 DEF Sent
<1> QED
  BY <1>8, <1>19 DEF TopOf

-----------------------------------------------------------------------------
(***************************************************************************)
(* Init and hmap_rehash: n entries in their buckets, the highest position  *)
(* first, and the entries behind them free, the lowest position first.     *)
(***************************************************************************)
Mates(a, i, H) == {j \in 1 .. (i - 1) : a[j].hcode % H = a[i].hcode % H}

InBucket(a, n, h, H) == {i \in 1 .. n : a[i].hcode % H = h}

Fresh(a, b, u, H, n, N) ==
  /\ ArenaIs(a, N)
  /\ \A i \in 1 .. N :
       a[i].next = IF i <= n THEN Largest(Mates(a, i, H))
                   ELSE IF i = N THEN 0 ELSE i + 1
  /\ b = [h \in 0 .. (H - 1) |-> Largest(InBucket(a, n, h, H))]
  /\ u = n + 1

FreshLists(a, H, n, N) ==
  [i \in 1 .. N |-> IF i <= n THEN Bucket(a[i].hcode, H) ELSE H]

FreshRanks(n, N) == [i \in 1 .. N |-> IF i <= n THEN i ELSE 0 - i]

LEMMA LargestLeads ==
  ASSUME NEW n \in Nat, NEW S \in SUBSET (1 .. n), NEW r, \A j \in S : r[j] = j
  PROVE  Leads(Largest(S), r, S) /\ Largest(S) \in 0 .. n
<1>1. CASE S = {}
  BY <1>1 DEF Leads, Largest, Null
<1>2. CASE S # {}
  <2>1. PICK t : t = Largest(S)
    OBVIOUS
  <2>2. t \in S /\ \A j \in S : j <= t
    BY <1>2, <2>1, LargestIs
  <2>3. t \in 0 .. n /\ Leads(t, r, S)
    BY <2>2 DEF Leads
  <2> QED
    BY <2>1, <2>3
<1> QED
  BY <1>1, <1>2

LEMMA FreshLaid ==
  ASSUME NEW a, NEW b, NEW u, NEW H \in Nat \ {0}, NEW n \in Nat, NEW N \in Nat,
         n < N, Fresh(a, b, u, H, n, N),
         NEW w, w = FreshLists(a, H, n, N), NEW r, r = FreshRanks(n, N)
  PROVE  Laid(a, b, u, H, w, r)
<1>1. /\ a \in [1 .. N -> Cell(N)] /\ a \in Seq(Cell(N)) /\ Len(a) = N
      /\ \A i \in 1 .. N : a[i] \in Cell(N)
  <2>1. a \in [1 .. N -> Cell(N)]
    BY DEF Fresh, ArenaIs
  <2> QED
    BY <2>1, FunctionIsSeq
<1>2. \A i \in 1 .. N : /\ a[i].next \in 0 .. N
                        /\ Bucket(a[i].hcode, H) \in 0 .. (H - 1)
  <2>1. \A i \in 1 .. N : a[i].hcode \in Nat /\ a[i].next \in 0 .. N
    BY <1>1, CodesAreNumbers DEF Cell
  <2> QED
    BY <2>1, BucketIn
<1>3. /\ w \in [1 .. N -> 0 .. H] /\ DOMAIN w = 1 .. N
      /\ \A i \in 1 .. N : w[i] = IF i <= n THEN Bucket(a[i].hcode, H) ELSE H
      /\ \A i \in 1 .. N : w[i] # H <=> i <= n
  <2>1. DOMAIN w = 1 .. N
    BY DEF FreshLists
  <2>2. \A i \in 1 .. N : w[i] = IF i <= n THEN Bucket(a[i].hcode, H) ELSE H
    BY DEF FreshLists
  <2>3. \A i \in 1 .. N : w[i] \in 0 .. H /\ (w[i] # H <=> i <= n)
    BY <1>2, <2>2
  <2>4. w = [i \in 1 .. N |-> w[i]]
    BY DEF FreshLists
  <2> QED
    BY <2>1, <2>2, <2>3, <2>4
<1>4. /\ r \in [1 .. N -> Int]
      /\ \A i \in 1 .. N : r[i] = IF i <= n THEN i ELSE 0 - i
  BY DEF FreshRanks
<1>5. /\ b \in [0 .. (H - 1) -> 0 .. N]
      /\ \A h \in 0 .. (H - 1) : /\ b[h] = Largest(InBucket(a, n, h, H))
                                 /\ Leads(b[h], r, OnList(w, h))
  <2>1. ASSUME NEW h \in 0 .. (H - 1)
        PROVE  /\ Largest(InBucket(a, n, h, H)) \in 0 .. N
               /\ Leads(Largest(InBucket(a, n, h, H)), r, OnList(w, h))
    <3>1. PICK S : S = InBucket(a, n, h, H)
      OBVIOUS
    <3>2. S \in SUBSET (1 .. N) /\ \A j \in S : r[j] = j
      <4>1. \A j \in S : j \in 1 .. n
        BY <3>1 DEF InBucket
      <4>2. \A j \in 1 .. n : j \in 1 .. N /\ r[j] = j
        BY <1>4
      <4> QED
        BY <4>1, <4>2
    <3>3. OnList(w, h) = S
      <4>1. \A i \in 1 .. N : w[i] = h <=> i <= n /\ a[i].hcode % H = h
        BY <1>3 DEF Bucket
      <4>2. \A i \in 1 .. n : i \in 1 .. N /\ i <= n
        OBVIOUS
      <4>3. \A i \in 1 .. N : i <= n => i \in 1 .. n
        OBVIOUS
      <4> QED
        BY <1>3, <3>1, <4>1, <4>2, <4>3 DEF OnList, InBucket
    <3> QED
      BY <3>1, <3>2, <3>3, LargestLeads
  <2>2. b = [h \in 0 .. (H - 1) |-> Largest(InBucket(a, n, h, H))]
    BY DEF Fresh
  <2> QED
    BY <2>1, <2>2
<1>6. u \in 0 .. N /\ Leads(u, r, OnList(w, H))
  <2>1. u = n + 1 /\ u \in 1 .. N
    BY DEF Fresh
  <2>2. \A j \in 1 .. N : w[j] = H => r[j] <= r[u]
    BY <1>3, <1>4, <2>1
  <2>3. u \in OnList(w, H) /\ u # 0
    BY <1>3, <2>1 DEF OnList
  <2> QED
    BY <1>3, <2>1, <2>2, <2>3 DEF Leads, OnList
<1>7. ASSUME NEW i \in 1 .. N
      PROVE  Leads(a[i].next, r, Behind(w, r, i))
  <2>1. CASE i <= n
    <3>1. PICK S : S = Mates(a, i, H)
      OBVIOUS
    <3>2. S \in SUBSET (1 .. N) /\ \A j \in S : r[j] = j
      BY <1>4, <2>1, <3>1 DEF Mates
    <3>3. Behind(w, r, i) = S
      <4>1. ASSUME NEW j \in 1 .. N
            PROVE  w[j] = w[i] /\ r[j] < r[i]
                   <=> j \in 1 .. (i - 1) /\ a[j].hcode % H = a[i].hcode % H
        <5>1. w[i] = a[i].hcode % H /\ r[i] = i /\ w[i] # H
          BY <1>3, <1>4, <2>1 DEF Bucket
        <5>2. CASE j <= n
          <6>1. w[j] = a[j].hcode % H /\ r[j] = j
            BY <1>3, <1>4, <5>2 DEF Bucket
          <6> QED
            BY <5>1, <6>1
        <5>3. CASE ~(j <= n)
          <6>1. w[j] = H /\ j \notin 1 .. (i - 1)
            BY <1>3, <2>1, <5>3
          <6> QED
            BY <5>1, <6>1
        <5> QED
          BY <5>2, <5>3
      <4>2. \A j \in 1 .. (i - 1) : j \in 1 .. N
        OBVIOUS
      <4> QED
        BY <1>3, <3>1, <4>1, <4>2 DEF Behind, Mates
    <3>4. a[i].next = Largest(S)
      BY <2>1, <3>1 DEF Fresh
    <3> QED
      BY <3>2, <3>3, <3>4, LargestLeads
  <2>2. CASE ~(i <= n)
    <3>1. a[i].next = IF i = N THEN 0 ELSE i + 1
      BY <2>2 DEF Fresh
    <3>2. \A j \in 1 .. N : j \in Behind(w, r, i) <=> i < j
      <4>1. ASSUME NEW j \in 1 .. N
            PROVE  w[j] = w[i] /\ r[j] < r[i] <=> i < j
        <5>1. w[i] = H /\ r[i] = 0 - i
          BY <1>3, <1>4, <2>2
        <5>2. w[j] = H <=> ~(j <= n)
          BY <1>3
        <5>3. ~(j <= n) => r[j] = 0 - j
          BY <1>4
        <5> QED
          BY <2>2, <5>1, <5>2, <5>3
      <4> QED
        BY <1>3, <4>1 DEF Behind
    <3>3. CASE i = N
      BY <1>3, <3>1, <3>2, <3>3 DEF Leads, Behind
    <3>4. CASE i # N
      <4>1. i + 1 \in 1 .. N /\ i + 1 # 0 /\ i < i + 1
        BY <3>4
      <4>2. \A j \in 1 .. N : i < j => r[j] <= r[i + 1]
        BY <1>4, <2>2, <4>1
      <4> QED
        BY <1>3, <3>1, <3>2, <3>4, <4>1, <4>2 DEF Leads, Behind
    <3> QED
      BY <3>3, <3>4
  <2> QED
    BY <2>1, <2>2
<1>8. \A i, j \in 1 .. N : w[i] = w[j] /\ r[i] = r[j] => i = j
  <2>1. ASSUME NEW i \in 1 .. N, NEW j \in 1 .. N, r[i] = r[j]
        PROVE  i = j
    <3>1. PICK k \in Int, l \in Int : k = i /\ l = j
      OBVIOUS
    <3>2. IF k <= n THEN k > 0 /\ r[i] = k ELSE k > 0 /\ r[i] = 0 - k
      BY <1>4, <3>1
    <3>3. IF l <= n THEN l > 0 /\ r[j] = l ELSE l > 0 /\ r[j] = 0 - l
      BY <1>4, <3>1
    <3>4. k = l
      BY <2>1, <3>2, <3>3
    <3> QED
      BY <3>1, <3>4
  <2> QED
    BY <2>1
<1>9. Lists(Nexts(a), Heads(b, u, H), w, r, 0 .. H, N)
  <2>1. PICK nx, c, X : nx = Nexts(a) /\ c = Heads(b, u, H) /\ X = 0 .. H
    OBVIOUS
  <2>2. nx \in [1 .. N -> 0 .. N] /\ \A i \in 1 .. N : nx[i] = a[i].next
    BY <1>1, <1>2, <2>1 DEF Nexts
  <2>3. c \in [X -> 0 .. N] /\ \A z \in X : c[z] = IF z = H THEN u ELSE b[z]
    <3>1. \A z \in X : z # H => z \in 0 .. (H - 1)
      BY <2>1
    <3> QED
      BY <1>5, <1>6, <2>1, <3>1 DEF Heads
  <2>4. \A z \in X : Leads(c[z], r, OnList(w, z))
    <3>1. \A z \in X : z # H => z \in 0 .. (H - 1)
      BY <2>1
    <3> QED
      BY <1>5, <1>6, <2>3, <3>1
  <2>5. \A i \in 1 .. N : Leads(nx[i], r, Behind(w, r, i))
    BY <1>7, <2>2
  <2>6. w \in [1 .. N -> X]
    BY <1>3, <2>1
  <2>7. Lists(nx, c, w, r, X, N)
    BY <1>4, <1>8, <2>2, <2>3, <2>4, <2>5, <2>6 DEF Lists
  <2> QED
    BY <2>1, <2>7
<1>10. \A i \in UsedIn(w, H) : w[i] = Bucket(a[i].hcode, H)
  BY <1>3 DEF UsedIn
<1> QED
  BY <1>1, <1>5, <1>6, <1>9, <1>10 DEF Laid

(* The first n entries are those of a map whose arena is full. *)
LEMMA FreshSound ==
  ASSUME NEW x, NEW a, NEW b, NEW u, NEW H, NEW w, NEW r, NEW sz, NEW p,
         Sound(x, a, b, u, sz, p, H, w, r),
         NEW n, SizeIs(a, n), \A i \in 1 .. n : w[i] # H,
         NEW a2, NEW b2, NEW u2, NEW K \in Nat \ {0}, NEW N \in Nat, n < N,
         Fresh(a2, b2, u2, K, n, N),
         \A i \in 1 .. n : Alike(a2[i], a[i]),
         \A i \in (n + 1) .. N : Freed(a2[i]),
         NEW v, v = FreshLists(a2, K, n, N), NEW s, s = FreshRanks(n, N)
  PROVE  /\ Sound(x, a2, b2, u2, sz, p, K, v, s)
         /\ UsedIn(v, K) = UsedIn(w, H)
<1>1. n \in Nat /\ DOMAIN w = 1 .. n
  <2>1. Laid(a, b, u, H, w, r)
    BY DEF Sound
  <2> QED
    BY <2>1, LaidParts DEF SizeIs
<1>2. Laid(a2, b2, u2, K, v, s)
  BY <1>1, FreshLaid
<1>3. \A i \in 1 .. N : a2[i].hcode \in Nat
  BY CodesAreNumbers DEF Fresh, ArenaIs, Cell
<1>4. DOMAIN v = 1 .. N /\ \A i \in 1 .. N : v[i] # K <=> i <= n
  <2>1. \A i \in 1 .. N : v[i] = IF i <= n THEN Bucket(a2[i].hcode, K) ELSE K
    BY DEF FreshLists
  <2>2. \A i \in 1 .. N : Bucket(a2[i].hcode, K) # K
    <3> SUFFICES ASSUME NEW i \in 1 .. N
                 PROVE  Bucket(a2[i].hcode, K) # K
      OBVIOUS
    <3>1. PICK c \in Nat : c = a2[i].hcode
      BY <1>3
    <3>2. Bucket(c, K) \in 0 .. (K - 1)
      BY BucketIn
    <3> QED
      BY <3>1, <3>2
  <2>3. DOMAIN v = 1 .. N
    BY DEF FreshLists
  <2> QED
    BY <2>1, <2>2, <2>3
<1>5. UsedIn(w, H) = 1 .. n
  BY <1>1 DEF UsedIn
<1>6. UsedIn(v, K) = 1 .. n
  <2>1. \A i \in 1 .. n : i \in 1 .. N /\ i <= n
    BY <1>1
  <2>2. \A i \in 1 .. N : i <= n => i \in 1 .. n
    BY <1>1
  <2> QED
    BY <1>4, <2>1, <2>2 DEF UsedIn
<1>7. ASSUME NEW i \in 1 .. n
      PROVE  /\ \A k : Holds(x, a2[i], k) <=> Holds(x, a[i], k)
             /\ Stored(x, a2[i]) <=> Stored(x, a[i])
             /\ a2[i].value = a[i].value
  <2>1. PICK en, en2 : en = a2[i] /\ en2 = a[i]
    OBVIOUS
  <2>2. Alike(en, en2)
    BY <2>1
  <2> QED
    BY <2>1, <2>2, AlikeSame
<1>8. /\ \A i \in DOMAIN w : IF w[i] = H THEN Freed(a[i]) ELSE Stored(x, a[i])
      /\ x # "rules" =>
           \A k \in KeysOf[x] : \A i, j \in UsedIn(w, H) :
             Holds(x, a[i], k) /\ Holds(x, a[j], k) => i = j
  BY DEF Sound, Filled
<1>9. Filled(x, a2, v, K)
  <2>1. ASSUME NEW i \in DOMAIN v
        PROVE  IF v[i] = K THEN Freed(a2[i]) ELSE Stored(x, a2[i])
    <3>1. CASE i <= n
      <4>1. i \in 1 .. n
        BY <1>4, <3>1
      <4> QED
        BY <1>1, <1>4, <1>7, <1>8, <3>1, <4>1
    <3>2. CASE ~(i <= n)
      <4>1. i \in (n + 1) .. N
        BY <1>1, <1>4, <3>2
      <4> QED
        BY <1>4, <3>2, <4>1
    <3> QED
      BY <3>1, <3>2
  <2> QED
    BY <1>5, <1>6, <1>7, <1>8, <2>1 DEF Filled
<1>10. Ranked(x, a2, v, s, K)
  <2>1. \A i \in 1 .. N : s[i] = IF i <= n THEN i ELSE 0 - i
    BY DEF FreshRanks
  <2>2. \A i \in 1 .. n : s[i] = i
    BY <1>1, <2>1
  <2>3. ASSUME NEW i \in DOMAIN v, NEW j \in DOMAIN v, v[i] = K
        PROVE  IF v[j] = K THEN i < j => s[j] < s[i] ELSE j < i
    BY <1>1, <1>4, <2>1, <2>3
  <2> QED
    BY <1>6, <2>2, <2>3 DEF Ranked
<1>11. Answers(x, a2, v, K, p)
  <2>1. Answers(x, a, w, H, p)
    BY DEF Sound
  <2> QED
    BY <1>5, <1>6, <1>7, <2>1 DEF Answers
<1>12. Counts(x, v, K, p, sz)
  BY <1>5, <1>6 DEF Sound, Counts
<1> QED
  BY <1>2, <1>5, <1>6, <1>9, <1>10, <1>11, <1>12 DEF Sound

(* The used entries are entries that were used before. *)
Kept(x, a, w, H, a2, v, K) ==
  \A i \in UsedIn(v, K) :
    i \in UsedIn(w, H) /\ \A k : Holds(x, a2[i], k) <=> Holds(x, a[i], k)

LEMMA ConcatIs ==
  ASSUME NEW S, NEW f \in Seq(S), NEW g \in Seq(S)
  PROVE  f \o g \in Seq(S) /\ Len(f \o g) = Len(f) + Len(g)
OBVIOUS

(* The doubled arena of hmap_rehash. *)
LEMMA RehashIsFresh ==
  ASSUME NEW H, NEW w, NEW r, Laid(arena, hentry, unused, H, w, r), unused = 0,
         NEW n, SizeIs(arena, n)
  PROVE  /\ Fresh(RoomyArena, RoomyBuckets, RoomyUnused, H * 2 + 1, n, n * 2)
         /\ \A i \in 1 .. n : Alike(RoomyArena[i], arena[i])
         /\ \A i \in (n + 1) .. (n * 2) : Freed(RoomyArena[i])
         /\ DOMAIN RoomyBuckets = 0 .. (H * 2)
<1>1. /\ H \in Nat /\ H # 0 /\ n \in Nat /\ n # 0 /\ DOMAIN hentry = 0 .. (H - 1)
      /\ n = ArenaSize
  BY LaidParts DEF SizeIs, ArenaSize
<1>2. \A i \in 1 .. n : arena[i] \in Cell(n)
  BY NextsIs
<1>3. PICK K \in Nat : K = H * 2 + 1
  BY <1>1
<1>4. HMax * 2 + 1 = K
  BY <1>1, <1>3, HMaxIs
<1>5. PICK A, F, G : /\ A = RoomyArena
                     /\ F = [i \in 1 .. n |-> Linked(arena[i], Largest(Mates(arena, i, K)))]
                     /\ G = FreeList(n + 1, 2 * n)
  OBVIOUS
<1>6. A = F \o G
  BY <1>1, <1>4, <1>5 DEF RoomyArena, Mates, Null
<1>7. ASSUME NEW i \in 1 .. n
      PROVE  /\ F[i].next = Largest(Mates(arena, i, K)) /\ F[i] \in Cell(n * 2)
             /\ Alike(F[i], arena[i])
  <2>1. Mates(arena, i, K) \in SUBSET (1 .. n)
    BY <1>1 DEF Mates
  <2>2. PICK t : t = Largest(Mates(arena, i, K))
    OBVIOUS
  <2>3. t \in 0 .. n
    <3>1. PICK S : S = Mates(arena, i, K)
      OBVIOUS
    <3>2. S # {} => Largest(S) \in S
      BY <1>1, <2>1, <3>1, LargestIs
    <3>3. S = {} => Largest(S) = 0
      BY DEF Largest, Null
    <3> QED
      BY <1>1, <2>1, <2>2, <3>1, <3>2, <3>3
  <2>4. PICK en : en = arena[i]
    OBVIOUS
  <2>5. F[i] = Linked(en, t)
    BY <1>5, <2>2, <2>4
  <2>6. en \in Cell(n * 2)
    <3>1. \A m \in 0 .. n : m \in 0 .. (n * 2)
      BY <1>1
    <3> QED
      BY <1>2, <2>4, <3>1 DEF Cell
  <2>7. t \in 0 .. (n * 2)
    BY <1>1, <2>3
  <2>8. PICK N : N = n * 2
    OBVIOUS
  <2>9. Linked(en, t).next = t /\ Alike(Linked(en, t), en) /\ Linked(en, t) \in Cell(N)
    BY <2>6, <2>7, <2>8, LinkedIs
  <2> QED
    BY <2>2, <2>4, <2>5, <2>8, <2>9
<1>8. ASSUME NEW j \in 1 .. n
      PROVE  /\ G[j].next = IF j = n THEN 0 ELSE n + j + 1
             /\ G[j] \in Cell(n * 2) /\ Freed(G[j])
  <2>1. PICK t : t = IF j = n THEN 0 ELSE n + j + 1
    OBVIOUS
  <2>2. G[j] = FreeEntry(t)
    <3>1. 2 * n - (n + 1) + 1 = n
      BY <1>1
    <3>2. G[j] = FreeEntry(IF (n + 1) + j - 1 = 2 * n THEN 0 ELSE (n + 1) + j)
      BY <1>5, <3>1 DEF FreeList, Null
    <3>3. ((n + 1) + j - 1 = 2 * n <=> j = n) /\ (n + 1) + j = n + j + 1
      BY <1>1
    <3> QED
      BY <2>1, <3>2, <3>3
  <2>3. t \in 0 .. (n * 2)
    BY <1>1, <2>1
  <2>4. FreeCode \in Codes /\ NoKey \in Key \cup {NoKey, StaleKey} /\ Zero \in Value \cup {Zero}
    BY DEF Codes
  <2>5. PICK N : N = n * 2
    OBVIOUS
  <2>6. /\ FreeEntry(t) \in Cell(N) /\ FreeEntry(t).next = t
        /\ FreeEntry(t).hcode = FreeCode /\ FreeEntry(t).value = Zero
    BY <2>3, <2>4, <2>5, EntryIs, EntryInCell DEF FreeEntry
  <2> QED
    BY <2>1, <2>2, <2>5, <2>6 DEF Freed
<1>9. /\ \A i \in 1 .. n : A[i] = F[i] /\ A[n + i] = G[i]
      /\ A \in [1 .. (n * 2) -> Cell(n * 2)]
  <2>1. F \in Seq(Cell(n * 2)) /\ Len(F) = n
    <3>1. F \in [1 .. n -> Cell(n * 2)]
      BY <1>5, <1>7
    <3> QED
      BY <1>1, <3>1, FunctionIsSeq
  <2>2. G \in Seq(Cell(n * 2)) /\ Len(G) = n
    <3>1. 2 * n - (n + 1) + 1 = n
      BY <1>1
    <3>2. DOMAIN G = 1 .. n /\ G = [j \in 1 .. n |-> G[j]]
      BY <1>5, <3>1 DEF FreeList
    <3>3. G \in [1 .. n -> Cell(n * 2)]
      BY <1>8, <3>2
    <3> QED
      BY <1>1, <3>3, FunctionIsSeq
  <2>3. A \in Seq(Cell(n * 2)) /\ Len(A) = n * 2
    <3>1. A \in Seq(Cell(n * 2)) /\ Len(A) = Len(F) + Len(G)
      BY <1>6, <2>1, <2>2, ConcatIs
    <3> QED
      BY <1>1, <2>1, <2>2, <3>1
  <2>4. ASSUME NEW i \in 1 .. n
        PROVE  A[i] = F[i] /\ A[n + i] = G[i]
    BY <1>1, <1>6, <2>1, <2>2
  <2> QED
    BY <2>3, <2>4
<1>10. ASSUME NEW i \in (n + 1) .. (n * 2)
       PROVE  i - n \in 1 .. n /\ n + (i - n) = i /\ A[i] = G[i - n]
  BY <1>1, <1>9
<1>11. \A i \in 1 .. n : Alike(A[i], arena[i])
  BY <1>7, <1>9
<1>12. \A i \in (n + 1) .. (n * 2) : Freed(A[i])
  BY <1>8, <1>10
<1>13. ASSUME NEW i \in 1 .. n
       PROVE  Mates(A, i, K) = Mates(arena, i, K)
  <2>1. \A j \in 1 .. (i - 1) : j \in 1 .. n
    BY <1>1
  <2>2. \A j \in 1 .. n : A[j].hcode = arena[j].hcode
    BY <1>11 DEF Alike
  <2> QED
    BY <1>1, <2>1, <2>2 DEF Mates
<1>14. ASSUME NEW i \in 1 .. (n * 2)
       PROVE  A[i].next = IF i <= n THEN Largest(Mates(A, i, K))
                          ELSE IF i = n * 2 THEN 0 ELSE i + 1
  <2>1. CASE i <= n
    BY <1>7, <1>9, <1>13, <2>1
  <2>2. CASE ~(i <= n)
    <3>1. i \in (n + 1) .. (n * 2)
      BY <1>1, <2>2
    <3>2. A[i] = G[i - n] /\ i - n \in 1 .. n
      BY <1>10, <3>1
    <3>3. A[i].next = IF i - n = n THEN 0 ELSE n + (i - n) + 1
      BY <1>8, <3>2
    <3> QED
      BY <1>1, <2>2, <3>3
  <2> QED
    BY <2>1, <2>2
<1>15. RoomyBuckets = [h \in 0 .. (K - 1) |-> Largest(InBucket(A, n, h, K))]
  <2>1. RoomyBuckets = [h \in 0 .. (K - 1) |-> Largest({i \in 1 .. n : arena[i].hcode % K = h})]
    BY <1>1, <1>4 DEF RoomyBuckets, Null
  <2>2. ASSUME NEW h \in 0 .. (K - 1)
        PROVE  InBucket(A, n, h, K) = {i \in 1 .. n : arena[i].hcode % K = h}
    <3>1. \A j \in 1 .. n : A[j].hcode = arena[j].hcode
      BY <1>11 DEF Alike
    <3> QED
      BY <3>1 DEF InBucket
  <2> QED
    BY <2>1, <2>2
<1>16. RoomyUnused = n + 1
  BY <1>1 DEF RoomyUnused, Null
<1>17. Fresh(A, RoomyBuckets, RoomyUnused, K, n, n * 2)
  BY <1>9, <1>14, <1>15, <1>16 DEF Fresh, ArenaIs
<1>18. DOMAIN RoomyBuckets = 0 .. (H * 2)
  BY <1>1, <1>3, <1>15
<1> QED
  BY <1>3, <1>5, <1>11, <1>12, <1>17, <1>18

-----------------------------------------------------------------------------
(***************************************************************************)
(* The operations keep the invariant.                                      *)
(***************************************************************************)
Adds(x, a, b, u, H, k, key, v, a2, b2, u2) ==
  LET h == Bucket(HashCode[k], H)
  IN Push(a, b, u, h, Entry(HashCode[k], key, v, b[h]), a2, b2, u2)

FitKey(x, k, key) ==
  /\ key \in Key \cup {NoKey, StaleKey}
  /\ x \in {"OO", "ON"} => key = k
  /\ x \in {"NO", "NN"} => key = StaleKey

FitValue(x, v) == v \in Value /\ (x \notin {"ON", "NN"} => v # Zero)

(* The used entries but e are used entries of before. *)
KeptBut(x, a, w, H, a2, v, K, e) ==
  \A i \in UsedIn(v, K) : i # e =>
    i \in UsedIn(w, H) /\ \A k : Holds(x, a2[i], k) <=> Holds(x, a[i], k)

LEMMA ChangedKept ==
  ASSUME NEW a, NEW w, NEW a2, NEW w2, NEW e, NEW y, Changed(a, w, a2, w2, e, y),
         NEW x, NEW H
  PROVE  KeptBut(x, a, w, H, a2, w2, H, e)
<1>1. Others(x, a, w, a2, w2, e, y, H)
  BY ChangedOthers
<1>2. DOMAIN w2 = DOMAIN w
  BY DEF Changed
<1> QED
  BY <1>1, <1>2 DEF Others, KeptBut, UsedIn

(* hmap_add of a new entry for k. *)
LEMMA PushSound ==
  ASSUME NEW x \in Spi, NEW a, NEW b, NEW u, NEW H, NEW w, NEW r, NEW sz, NEW p,
         Sound(x, a, b, u, sz, p, H, w, r), u # 0,
         NEW k \in KeysOf[x], NEW key, FitKey(x, k, key), NEW v, FitValue(x, v),
         x # "rules" => \A i \in UsedIn(w, H) : ~Holds(x, a[i], k),
         NEW a2, NEW b2, NEW u2, Adds(x, a, b, u, H, k, key, v, a2, b2, u2),
         NEW p2, SetTo(p, k, v, p2)
  PROVE  \E w2, r2 : /\ Sound(x, a2, b2, u2, sz + 1, p2, H, w2, r2)
                     /\ KeptBut(x, a, w, H, a2, w2, H, u)
                     /\ DOMAIN w2 = DOMAIN w
<1>1. /\ Laid(a, b, u, H, w, r) /\ Filled(x, a, w, H) /\ Ranked(x, a, w, r, H)
      /\ Answers(x, a, w, H, p) /\ Counts(x, w, H, p, sz)
  BY DEF Sound
<1>2. PICK n : SizeIs(a, n)
  BY DEF SizeIs
<1>3. /\ H \in Nat /\ H # 0 /\ n \in Nat /\ DOMAIN w = 1 .. n
      /\ \A i \in 1 .. n : w[i] \in 0 .. H /\ r[i] \in Int /\ a[i] \in Cell(n)
      /\ \A i \in 1 .. n : w[i] # H => w[i] = Bucket(a[i].hcode, H)
  BY <1>1, <1>2, LaidParts DEF SizeIs
<1>4. /\ u \in 1 .. n /\ w[u] = H
      /\ \A j \in 1 .. n : w[j] = H => r[j] <= r[u]
  BY <1>1, <1>2, FreeHead
<1>5. k \in Key /\ HashCode[k] \in Nat /\ HashCode[k] \in Codes /\ KeysOf[x] \subseteq Key
  BY HashAssumption DEF Codes
<1>6. PICK h : h = Bucket(HashCode[k], H)
  OBVIOUS
<1>7. h \in 0 .. (H - 1) /\ h # H
  <2>1. PICK c \in Nat : c = HashCode[k]
    BY <1>5
  <2>2. Bucket(c, H) \in 0 .. (H - 1)
    BY <1>3, BucketIn
  <2> QED
    BY <1>3, <1>6, <2>1, <2>2
<1>8. PICK en : en = Entry(HashCode[k], key, v, b[h])
  OBVIOUS
<1>9. /\ en.hcode = HashCode[k] /\ en.key = key /\ en.value = v
      /\ Push(a, b, u, h, en, a2, b2, u2)
  <2>1. Push(a, b, u, h, en, a2, b2, u2)
    BY <1>6, <1>8 DEF Adds
  <2> QED
    BY <1>8, <2>1, EntryIs
<1>10. \E q \in Int : /\ TopOf(w, r, h, q, n)
                      /\ Laid(a2, b2, u2, H, [w EXCEPT ![u] = h], [r EXCEPT ![u] = q])
  <2>1. v \in Value \cup {Zero} /\ key \in Key \cup {NoKey, StaleKey}
    BY DEF FitValue, FitKey
  <2>2. PICK hc \in Codes : hc = HashCode[k]
    BY <1>5
  <2>3. Pushed(a, b, u, H, hc, key, v, h, a2, b2, u2)
    BY <1>6, <1>8, <1>9, <2>2 DEF Pushed
  <2> QED
    BY <1>1, <1>2, <2>1, <2>3, PushLaid
<1>11. PICK q \in Int : /\ \A j \in 1 .. n : w[j] = h => r[j] < q
                        /\ Laid(a2, b2, u2, H, [w EXCEPT ![u] = h], [r EXCEPT ![u] = q])
  BY <1>10 DEF TopOf
<1>12. PICK w2, r2 : Sent(w, r, u, h, q, w2, r2)
  BY DEF Sent
<1>13. Laid(a2, b2, u2, H, w2, r2)
  BY <1>11, <1>12 DEF Sent
<1>14. a2[u] = en /\ \A i \in 1 .. n : i # u => a2[i] = a[i]
  <2>1. a \in [1 .. n -> Cell(n)]
    BY <1>1, <1>2, NextsIs
  <2> QED
    BY <1>4, <1>9, <2>1 DEF Push
<1>15. Changed(a, w, a2, w2, u, h)
  BY <1>3, <1>4, <1>12, <1>14 DEF Changed, Sent, Alike
<1>16. /\ u \notin UsedIn(w, H) /\ DOMAIN w2 = 1 .. n
       /\ r2[u] = q /\ \A i \in 1 .. n : i # u => r2[i] = r[i]
  <2>1. DOMAIN r = 1 .. n
    BY <1>1, <1>2 DEF Laid, Lists, SizeIs
  <2> QED
    BY <1>3, <1>4, <1>12, <2>1 DEF UsedIn, Sent
<1>17. /\ Holds(x, a2[u], k) /\ a2[u].value = v /\ Stored(x, a2[u])
  <2>1. Holds(x, en, k)
    BY <1>9 DEF Holds, FitKey
  <2>2. Stored(x, en)
    BY <1>9, <2>1 DEF Stored, FitKey, FitValue
  <2> QED
    BY <1>9, <1>14, <2>1, <2>2
<1>18. \A j \in KeysOf[x] : Holds(x, a2[u], j) => j = k
  BY <1>17, OneKey
<1>19. Filled(x, a2, w2, H)
  <2>1. h # H /\ x # "rules" =>
          \A j \in KeysOf[x] : \A i \in UsedIn(w, H) :
            i # u /\ Holds(x, a[i], j) => ~Holds(x, a2[u], j)
    BY <1>18
  <2>2. IF h = H THEN Freed(a2[u]) ELSE Stored(x, a2[u])
    BY <1>7, <1>17
  <2> QED
    BY <1>1, <1>15, <2>1, <2>2, FilledKeeps
<1>20. Ranked(x, a2, w2, r2, H)
  <2>1. ASSUME NEW j \in KeysOf[x], NEW i \in UsedIn(w, H), i # u,
               Holds(x, a[i], j), Holds(x, a2[u], j)
        PROVE  i < u /\ r[i] < r2[u]
    <3>1. j = k /\ x = "rules"
      BY <1>18, <2>1
    <3>2. i \in 1 .. n /\ w[i] # H
      BY <1>3 DEF UsedIn
    <3>3. w[i] = h
      BY <1>3, <1>6, <2>1, <3>1, <3>2 DEF Holds
    <3>4. i < u
      BY <1>1, <1>3, <1>4, <3>1, <3>2 DEF Ranked
    <3> QED
      BY <1>11, <1>16, <3>2, <3>3, <3>4
  <2>2. ASSUME x = "rules", NEW i \in 1 .. n, i # u, w[i] = H
        PROVE  u < i
    <3>1. i < u => r[u] < r[i]
      BY <1>1, <1>3, <1>4, <2>2 DEF Ranked
    <3>2. r[i] <= r[u] /\ r[i] \in Int /\ r[u] \in Int
      BY <1>3, <1>4, <2>2
    <3> QED
      BY <1>4, <2>2, <3>1, <3>2
  <2>3. DOMAIN w \subseteq Nat /\ \A i \in DOMAIN w : i # u => r2[i] = r[i]
    BY <1>3, <1>16
  <2>4. x = "rules" => h # H /\ \A i \in DOMAIN w : i # u /\ w[i] = H => u < i
    BY <1>3, <1>7, <2>2
  <2>5. h # H => \A j \in KeysOf[x] : \A i \in UsedIn(w, H) :
          i # u /\ Holds(x, a[i], j) /\ Holds(x, a2[u], j) => i < u /\ r[i] < r2[u]
    BY <2>1
  <2> QED
    BY <1>1, <1>15, <2>3, <2>4, <2>5, RankedKeeps
<1>21. Answers(x, a2, w2, H, p2)
  <2>1. \A i \in UsedIn(w, H) : i # u /\ Holds(x, a[i], k) => i < u
    <3> SUFFICES ASSUME NEW i \in UsedIn(w, H), Holds(x, a[i], k)
                 PROVE  i < u
      OBVIOUS
    <3>1. x = "rules" /\ i \in 1 .. n /\ w[i] # H
      BY <1>3 DEF UsedIn
    <3> QED
      BY <1>1, <1>3, <1>4, <3>1 DEF Ranked
  <2>2. v \in Value /\ DOMAIN w \subseteq Nat
    BY <1>3 DEF FitValue
  <2> QED
    BY <1>1, <1>7, <1>15, <1>16, <1>17, <2>1, <2>2, StoreAnswers
<1>22. Counts(x, w2, H, p2, sz + 1)
  <2>1. IsFiniteSet(UsedIn(w, H))
    BY <1>3, UsedFinite
  <2>2. x # "rules" => p[k] = NoValue
    BY <1>1 DEF Answers
  <2>3. v # NoValue
    BY HashAssumption DEF FitValue
  <2>4. Counts(x, w, H, p, sz) /\ Answers(x, a, w, H, p) /\ h # H /\ w[u] = H /\ k \in Key
    BY <1>1, <1>4, <1>5, <1>7
  <2> QED
    BY <1>15, <2>1, <2>2, <2>3, <2>4, StoreCounts
<1>23. KeptBut(x, a, w, H, a2, w2, H, u)
  BY <1>15, ChangedKept
<1> QED
  BY <1>3, <1>13, <1>16, <1>19, <1>20, <1>21, <1>22, <1>23 DEF Sound

(* There is room for a new entry. *)
LEMMA RoomySound ==
  ASSUME NEW H, NEW w, NEW r,
         Sound(spi, arena, hentry, unused, size, promised, H, w, r)
  PROVE  \E K, v, s :
           /\ Sound(spi, RoomyArena, RoomyBuckets, RoomyUnused, size, promised, K, v, s)
           /\ RoomyUnused # 0
           /\ Kept(spi, arena, w, H, RoomyArena, v, K)
           /\ DOMAIN w \subseteq DOMAIN v
           /\ Cardinality(DOMAIN RoomyBuckets) = K
<1>1. Laid(arena, hentry, unused, H, w, r)
  BY DEF Sound
<1>2. PICK n : SizeIs(arena, n)
  BY DEF SizeIs
<1>3. /\ H \in Nat /\ H # 0 /\ n \in Nat /\ n # 0 /\ DOMAIN w = 1 .. n
      /\ DOMAIN hentry = 0 .. (H - 1)
      /\ \A i \in 1 .. n : w[i] # H => w[i] = Bucket(arena[i].hcode, H)
  BY <1>1, <1>2, LaidParts DEF SizeIs
<1>4. CASE unused # 0
  <2>1. RoomyArena = arena /\ RoomyBuckets = hentry /\ RoomyUnused = unused
    BY <1>4 DEF RoomyArena, RoomyBuckets, RoomyUnused, Null
  <2>2. Kept(spi, arena, w, H, arena, w, H)
    BY DEF Kept
  <2>3. Cardinality(DOMAIN hentry) = H
    BY <1>3, HMaxIs DEF HMax
  <2> QED
    BY <1>4, <2>1, <2>2, <2>3
<1>5. CASE unused = 0
  <2>1. /\ Fresh(RoomyArena, RoomyBuckets, RoomyUnused, H * 2 + 1, n, n * 2)
        /\ \A i \in 1 .. n : Alike(RoomyArena[i], arena[i])
        /\ \A i \in (n + 1) .. (n * 2) : Freed(RoomyArena[i])
        /\ DOMAIN RoomyBuckets = 0 .. (H * 2)
    BY <1>1, <1>2, <1>5, RehashIsFresh
  <2>2. PICK K \in Nat \ {0} : K = H * 2 + 1
    BY <1>3
  <2>3. PICK N \in Nat : N = n * 2 /\ n < N
    BY <1>3
  <2>4. PICK A, B, U : A = RoomyArena /\ B = RoomyBuckets /\ U = RoomyUnused
    OBVIOUS
  <2>5. /\ Fresh(A, B, U, K, n, N)
        /\ \A i \in 1 .. n : Alike(A[i], arena[i])
        /\ \A i \in (n + 1) .. N : Freed(A[i])
    BY <2>1, <2>2, <2>3, <2>4
  <2>6. \A i \in 1 .. n : w[i] # H
    <3>1. Lists(Nexts(arena), Heads(hentry, unused, H), w, r, 0 .. H, n)
      BY <1>1, <1>2, LaidParts DEF SizeIs
    <3>2. Heads(hentry, unused, H)[H] = 0 /\ H \in 0 .. H
      BY <1>1, <1>3, <1>5, LaidParts
    <3>3. Leads(0, r, OnList(w, H))
      BY <3>1, <3>2 DEF Lists
    <3> QED
      BY <1>3, <3>3 DEF Leads, OnList
  <2>7. PICK v, s : v = FreshLists(A, K, n, N) /\ s = FreshRanks(n, N)
    OBVIOUS
  <2>8. /\ Sound(spi, A, B, U, size, promised, K, v, s)
        /\ UsedIn(v, K) = UsedIn(w, H)
    BY <1>2, <2>3, <2>5, <2>6, <2>7, FreshSound
  <2>9. U # 0
    BY <1>3, <2>5 DEF Fresh
  <2>10. Kept(spi, arena, w, H, A, v, K)
    <3>1. \A i \in UsedIn(w, H) : i \in 1 .. n
      BY <1>3 DEF UsedIn
    <3>2. \A i \in 1 .. n : \A k : Holds(spi, A[i], k) <=> Holds(spi, arena[i], k)
      BY <2>5 DEF Alike, Holds
    <3> QED
      BY <2>8, <3>1, <3>2 DEF Kept
  <2>11. DOMAIN w \subseteq DOMAIN v
    <3>1. DOMAIN v = 1 .. N
      BY <2>7 DEF FreshLists
    <3> QED
      BY <1>3, <2>3, <3>1
  <2>12. Cardinality(DOMAIN B) = K
    <3>1. PICK m \in Int : m = H * 2
      BY <1>3
    <3>2. Cardinality(0 .. m) = IF 0 > m THEN 0 ELSE m - 0 + 1
      BY FS_Interval
    <3>3. DOMAIN B = 0 .. m
      BY <2>1, <2>4, <3>1
    <3> QED
      BY <1>3, <2>2, <3>1, <3>2, <3>3
  <2> QED
    BY <2>4, <2>8, <2>9, <2>10, <2>11, <2>12
<1> QED
  BY <1>4, <1>5

(* What a step does not do to the used entries: an entry for a key that was *)
(* promised before and still is has been there before.                      *)
Grown(x, a, w, H, p, a2, w2, K, p2) ==
  /\ DOMAIN w \subseteq DOMAIN w2
  /\ x # "rules" =>
       \A k \in KeysOf[x] : p[k] # NoValue /\ p2[k] # NoValue =>
         \A i \in UsedIn(w2, K) : Holds(x, a2[i], k) =>
           i \in UsedIn(w, H) /\ Holds(x, a[i], k)

SoundAfter(x, a, w, H, p, a2, b2, u2, sz2, p2) ==
  \E K, w2, r2 : /\ Sound(x, a2, b2, u2, sz2, p2, K, w2, r2)
                 /\ Grown(x, a, w, H, p, a2, w2, K, p2)

LEMMA LookupSound ==
  ASSUME NEW H, NEW w, NEW r, spi \in Spi,
         Sound(spi, arena, hentry, unused, size, promised, H, w, r),
         NEW k \in KeysOf[spi]
  PROVE  /\ Find(k) = Null => /\ \A i \in UsedIn(w, H) : ~Holds(spi, arena[i], k)
                              /\ promised[k] = NoValue
         /\ Find(k) # Null => /\ Find(k) \in UsedIn(w, H)
                              /\ Holds(spi, arena[Find(k)], k)
                              /\ \A i \in UsedIn(w, H) :
                                   Holds(spi, arena[i], k) => i <= Find(k)
                              /\ promised[k] # NoValue
<1>1. /\ Laid(arena, hentry, unused, H, w, r) /\ Ranked(spi, arena, w, r, H)
      /\ Answers(spi, arena, w, H, promised)
  BY DEF Sound
<1>2. IF Find(k) = Null THEN \A i : ~(i \in UsedIn(w, H) /\ Holds(spi, arena[i], k))
      ELSE /\ Find(k) \in UsedIn(w, H) /\ Holds(spi, arena[Find(k)], k)
           /\ \A i : i \in UsedIn(w, H) /\ Holds(spi, arena[i], k) => i <= Find(k)
  BY <1>1, LookupIs
<1>3. promised[k] # NoValue <=> \E i \in UsedIn(w, H) : Holds(spi, arena[i], k)
  BY <1>1 DEF Answers
<1> QED
  BY <1>2, <1>3

(* new_hentry, the assignment of key and value, and hmap_add. *)
LEMMA AddEntrySound ==
  ASSUME NEW H, NEW w, NEW r, spi \in Spi,
         Sound(spi, arena, hentry, unused, size, promised, H, w, r),
         NEW k \in KeysOf[spi], NEW key, FitKey(spi, k, key), NEW v, FitValue(spi, v),
         spi # "rules" => Find(k) = Null,
         AddEntry(HashCode[k], key, v), promised' = [promised EXCEPT ![k] = v]
  PROVE  SoundAfter(spi, arena, w, H, promised, arena', hentry', unused', size', promised')
<1>1. PICK A, B, U : A = RoomyArena /\ B = RoomyBuckets /\ U = RoomyUnused
  OBVIOUS
<1>2. PICK K, v0, s0 : /\ Sound(spi, A, B, U, size, promised, K, v0, s0)
                       /\ U # 0 /\ Kept(spi, arena, w, H, A, v0, K)
                       /\ DOMAIN w \subseteq DOMAIN v0
                       /\ Cardinality(DOMAIN B) = K
  BY <1>1, RoomySound
<1>3. PICK a2, b2, u2, p2 : /\ a2 = arena' /\ b2 = hentry' /\ u2 = unused'
                            /\ p2 = promised'
  OBVIOUS
<1>4. Adds(spi, A, B, U, K, k, key, v, a2, b2, u2) /\ size' = size + 1
  BY <1>1, <1>2, <1>3 DEF AddEntry, Adds, Push, Bucket
<1>5. SetTo(promised, k, v, p2)
  BY <1>3 DEF SetTo
<1>6. spi # "rules" => \A i \in UsedIn(v0, K) : ~Holds(spi, A[i], k)
  <2>1. spi # "rules" => \A i \in UsedIn(w, H) : ~Holds(spi, arena[i], k)
    BY LookupSound
  <2> QED
    BY <1>2, <2>1 DEF Kept
<1>7. PICK w2, r2 : /\ Sound(spi, a2, b2, u2, size + 1, p2, K, w2, r2)
                    /\ KeptBut(spi, A, v0, K, a2, w2, K, U)
                    /\ DOMAIN w2 = DOMAIN v0
  BY <1>2, <1>4, <1>5, <1>6, PushSound
<1>8. Grown(spi, arena, w, H, promised, a2, w2, K, p2)
  <2>1. ASSUME spi # "rules", NEW j \in KeysOf[spi], promised[j] # NoValue,
               NEW i \in UsedIn(w2, K), Holds(spi, a2[i], j)
        PROVE  i \in UsedIn(w, H) /\ Holds(spi, arena[i], j)
    <3>1. j # k
      BY <2>1, LookupSound
    <3>2. Holds(spi, a2[U], k)
      <4>1. k \in KeysOf[spi] /\ a2[U].hcode = HashCode[k] /\ a2[U].key = key
        <5>1. U \in DOMAIN A
          <6>1. Laid(A, B, U, K, v0, s0)
            BY <1>2 DEF Sound
          <6>2. PICK n : SizeIs(A, n)
            BY DEF SizeIs
          <6>3. U \in 1 .. n /\ A \in [1 .. n -> Cell(n)]
            BY <1>2, <6>1, <6>2, FreeHead, NextsIs
          <6> QED
            BY <6>3
        <5>2. a2[U] = Entry(HashCode[k], key, v, B[Bucket(HashCode[k], K)])
          BY <1>4, <5>1 DEF Adds, Push
        <5> QED
          BY <5>2, EntryIs
      <4> QED
        BY <4>1 DEF Holds, FitKey
    <3>3. i # U
      BY <2>1, <3>1, <3>2, OneKey
    <3> QED
      BY <1>2, <1>7, <2>1, <3>3 DEF Kept, KeptBut
  <2> QED
    BY <1>2, <1>7, <2>1 DEF Grown
<1> QED
  BY <1>3, <1>4, <1>7, <1>8 DEF SoundAfter

(* The entry before e on its chain. *)
LEMMA BeforeIs ==
  ASSUME NEW H, NEW w, NEW r, Laid(arena, hentry, unused, H, w, r),
         NEW n, SizeIs(arena, n), NEW e \in 1 .. n, w[e] # H
  PROVE  LET h == w[e]
             before == {i \in Entries(From(hentry[h])) : arena[i].next = e}
         IN  /\ arena[e].hcode % HMax = h
             /\ \A i \in 1 .. n : i \in before <=> arena[i].next = e
             /\ before = {} <=> hentry[h] = e
<1>1. /\ H \in Nat /\ H # 0 /\ n \in Nat /\ DOMAIN w = 1 .. n
      /\ DOMAIN hentry = 0 .. (H - 1)
      /\ \A i \in 1 .. n : /\ w[i] \in 0 .. H /\ r[i] \in Int
                           /\ w[i] # H => w[i] = Bucket(arena[i].hcode, H)
      /\ \A z \in 0 .. (H - 1) : Heads(hentry, unused, H)[z] = hentry[z]
  BY LaidParts DEF SizeIs
<1>2. PICK h : h = w[e]
  OBVIOUS
<1>3. h \in 0 .. (H - 1) /\ h # H
  BY <1>1, <1>2
<1>4. arena[e].hcode % HMax = h
  <2>1. HMax = H
    BY <1>1, HMaxIs
  <2> QED
    BY <1>1, <1>2, <2>1 DEF Bucket
<1>5. PICK nx, c, X : /\ nx = Nexts(arena) /\ c = Heads(hentry, unused, H)
                      /\ X = 0 .. H
  OBVIOUS
<1>6. Lists(nx, c, w, r, X, n)
  BY <1>5, LaidParts DEF SizeIs
<1>7. /\ \A i \in 1 .. n : nx[i] = arena[i].next
      /\ c[h] = hentry[h]
  <2>1. \A i \in 1 .. n : nx[i] = arena[i].next
    BY <1>5, NextsIs
  <2> QED
    BY <1>1, <1>3, <1>5, <2>1
<1>8. PICK s : s = From(hentry[h])
  OBVIOUS
<1>9. Lined(s, w, r, h)
  BY <1>3, <1>8, ListsAreLined
<1>10. Entries(s) = OnList(w, h)
  <2>1. r \in [1 .. n -> Int]
    BY <1>6 DEF Lists
  <2> QED
    BY <1>1, <1>9, <2>1, LinedCounts
<1>11. ASSUME NEW i \in 1 .. n, nx[i] = e
       PROVE  w[i] = h
  <2>1. Leads(nx[i], r, Behind(w, r, i))
    BY <1>6 DEF Lists
  <2>2. e # 0
    BY <1>1
  <2> QED
    BY <1>2, <1>11, <2>1, <2>2 DEF Leads, Behind
<1>12. PICK before : before = {i \in Entries(From(hentry[h])) : arena[i].next = e}
  OBVIOUS
<1>13. \A i \in 1 .. n : i \in before <=> nx[i] = e
  <2>1. \A i \in 1 .. n : i \in OnList(w, h) <=> w[i] = h
    BY <1>1 DEF OnList
  <2> QED
    BY <1>7, <1>8, <1>10, <1>11, <1>12, <2>1
<1>14. before \subseteq 1 .. n
  BY <1>1, <1>8, <1>10, <1>12 DEF OnList
<1>15. CASE hentry[h] = e
  <2>1. c[w[e]] = e
    BY <1>2, <1>7, <1>15
  <2>2. \A i \in 1 .. n : nx[i] # e
    BY <1>6, <2>1, HeadFollowsNone
  <2>3. before = {}
    BY <1>13, <1>14, <2>2
  <2> QED
    BY <1>2, <1>4, <1>7, <1>12, <1>13, <1>15, <2>3
<1>16. CASE hentry[h] # e
  <2>1. c[w[e]] # e /\ Lined(s, w, r, w[e])
    BY <1>2, <1>7, <1>9, <1>16
  <2>2. \E i \in 1 .. n : nx[i] = e
    BY <1>6, <2>1, OthersFollow
  <2>3. before # {}
    BY <1>13, <2>2
  <2> QED
    BY <1>2, <1>4, <1>7, <1>12, <1>13, <1>16, <2>3
<1> QED
  BY <1>15, <1>16

(* hmap_remove and hmap_unuse of the only entry for k. *)
LEMMA DropSound ==
  ASSUME NEW x \in Spi, x # "rules",
         NEW a, NEW b, NEW u, NEW H, NEW w, NEW r, NEW sz, NEW p,
         Sound(x, a, b, u, sz, p, H, w, r), NEW k \in KeysOf[x],
         NEW e, e \in UsedIn(w, H), Holds(x, a[e], k), p[k] # NoValue,
         NEW n, SizeIs(a, n),
         NEW a2, NEW b2, Drop(a, b, u, w[e], e, n, a2, b2),
         NEW p2, SetTo(p, k, NoValue, p2)
  PROVE  SoundAfter(x, a, w, H, p, a2, b2, e, sz - 1, p2)
<1>1. /\ Laid(a, b, u, H, w, r) /\ Filled(x, a, w, H) /\ Ranked(x, a, w, r, H)
      /\ Answers(x, a, w, H, p) /\ Counts(x, w, H, p, sz)
  BY DEF Sound
<1>2. /\ H \in Nat /\ n \in Nat /\ DOMAIN w = 1 .. n
  BY <1>1, LaidParts DEF SizeIs
<1>3. e \in 1 .. n /\ w[e] # H
  BY <1>2 DEF UsedIn
<1>4. PICK h : h = w[e]
  OBVIOUS
<1>5. \E q \in Int : Laid(a2, b2, e, H, [w EXCEPT ![e] = H], [r EXCEPT ![e] = q])
  <2>1. Drop(a, b, u, h, e, n, a2, b2)
    BY <1>4
  <2> QED
    BY <1>1, <1>3, <1>4, <2>1, DropLaid
<1>6. PICK q \in Int : Laid(a2, b2, e, H, [w EXCEPT ![e] = H], [r EXCEPT ![e] = q])
  BY <1>5
<1>7. PICK y : y = H
  OBVIOUS
<1>8. PICK w2, r2 : Sent(w, r, e, y, q, w2, r2)
  BY DEF Sent
<1>9. Laid(a2, b2, e, H, w2, r2)
  BY <1>6, <1>7, <1>8 DEF Sent
<1>10. /\ Freed(a2[e])
       /\ \A i \in 1 .. n : i # e => Alike(a2[i], a[i])
  <2>1. PICK top : top = FreeEntry(u)
    OBVIOUS
  <2>2. ArenaIs(a, n) /\ u \in 0 .. n
    BY <1>1, NextsIs DEF ArenaIs
  <2>3. top \in Cell(n) /\ Freed(top)
    <3>1. FreeCode \in Codes /\ NoKey \in Key \cup {NoKey, StaleKey} /\ Zero \in Value \cup {Zero}
      BY DEF Codes
    <3> QED
      BY <2>1, <2>2, <3>1, EntryInCell, EntryIs DEF FreeEntry, Freed
  <2>4. Bypass(a, e, top, n, a2)
    BY <2>1 DEF Drop
  <2>5. /\ a2[e] = top
        /\ \A i \in 1 .. n : i # e =>
             /\ Alike(a2[i], a[i])
             /\ a2[i].next = IF a[i].next = e THEN a[e].next ELSE a[i].next
    BY <1>2, <1>3, <2>2, <2>3, <2>4, BypassIs
  <2> QED
    BY <2>3, <2>5
<1>11. Changed(a, w, a2, w2, e, y)
  BY <1>2, <1>3, <1>8, <1>10 DEF Changed, Sent
<1>12. DOMAIN w2 = DOMAIN w /\ \A i \in DOMAIN w : i # e => r2[i] = r[i]
  <2>1. DOMAIN r = 1 .. n
    BY <1>1 DEF Laid, Lists, SizeIs
  <2> QED
    BY <1>2, <1>8, <2>1 DEF Sent
<1>13. Filled(x, a2, w2, H)
  BY <1>1, <1>7, <1>10, <1>11, FilledKeeps
<1>14. Ranked(x, a2, w2, r2, H)
  <2>1. DOMAIN w \subseteq Nat
    BY <1>2
  <2> QED
    BY <1>1, <1>7, <1>11, <1>12, <2>1, RankedKeeps
<1>15. Answers(x, a2, w2, H, p2)
  BY <1>1, <1>7, <1>11, FreeAnswers
<1>16. Counts(x, w2, H, p2, sz - 1)
  <2>1. IsFiniteSet(UsedIn(w, H))
    BY <1>2, UsedFinite
  <2>2. k \in Key
    BY HashAssumption
  <2>3. Counts(x, w, H, p, sz) /\ Answers(x, a, w, H, p)
    BY <1>1
  <2> QED
    BY <1>3, <1>7, <1>11, <2>1, <2>2, <2>3, FreeCounts
<1>17. Grown(x, a, w, H, p, a2, w2, H, p2)
  <2>1. Others(x, a, w, a2, w2, e, y, H)
    BY <1>11, ChangedOthers
  <2>2. \A i \in UsedIn(w2, H) : i \in DOMAIN w /\ i # e
    BY <1>7, <1>12, <2>1 DEF Others, UsedIn
  <2> QED
    BY <1>12, <2>1, <2>2 DEF Grown, Others
<1> QED
  BY <1>9, <1>13, <1>14, <1>15, <1>16, <1>17 DEF Sound, SoundAfter

LEMMA RemoveEntrySound ==
  ASSUME NEW H, NEW w, NEW r, spi \in Spi, spi # "rules",
         Sound(spi, arena, hentry, unused, size, promised, H, w, r),
         NEW k \in KeysOf[spi], Find(k) # Null,
         RemoveEntry(Find(k)), promised' = [promised EXCEPT ![k] = NoValue]
  PROVE  SoundAfter(spi, arena, w, H, promised, arena', hentry', unused', size', promised')
<1>1. PICK e : e = Find(k)
  OBVIOUS
<1>2. /\ e \in UsedIn(w, H) /\ Holds(spi, arena[e], k) /\ promised[k] # NoValue
  BY <1>1, LookupSound
<1>3. PICK n : SizeIs(arena, n)
  BY DEF SizeIs
<1>4. Laid(arena, hentry, unused, H, w, r)
  BY DEF Sound
<1>5. e \in 1 .. n /\ w[e] # H
  BY <1>2, <1>3, <1>4, LaidParts DEF SizeIs, UsedIn
<1>6. PICK before, h : h = w[e] /\ before = {i \in Entries(From(hentry[h])) : arena[i].next = e}
  OBVIOUS
<1>7. /\ arena[e].hcode % HMax = h
      /\ \A i \in 1 .. n : i \in before <=> arena[i].next = e
      /\ before = {} <=> hentry[h] = e
  BY <1>3, <1>4, <1>5, <1>6, BeforeIs
<1>8. PICK a2, b2, p2 : a2 = arena' /\ b2 = hentry' /\ p2 = promised'
  OBVIOUS
<1>9. Drop(arena, hentry, unused, w[e], e, n, a2, b2)
  <2>1. /\ b2 = IF before # {} THEN hentry ELSE [hentry EXCEPT ![h] = arena[e].next]
        /\ a2 = [i \in 1 .. n |->
                    IF i = e THEN FreeEntry(unused)
                    ELSE IF i \in before
                      THEN Linked(arena[i], arena[e].next)
                      ELSE arena[i]]
    BY <1>1, <1>3, <1>6, <1>7, <1>8 DEF RemoveEntry, Unlink, SizeIs, ArenaSize
  <2>2. Bypass(arena, e, FreeEntry(unused), n, a2)
    BY <1>7, <2>1 DEF Bypass
  <2> QED
    BY <1>6, <1>7, <2>1, <2>2 DEF Drop
<1>10. SetTo(promised, k, NoValue, p2)
  BY <1>8 DEF SetTo
<1>11. SoundAfter(spi, arena, w, H, promised, a2, b2, e, size - 1, p2)
  BY <1>2, <1>3, <1>9, <1>10, DropSound
<1> QED
  BY <1>1, <1>8, <1>11 DEF RemoveEntry

(* Entries for the same key are on the same chain. *)
LEMMA HoldersTogether ==
  ASSUME NEW a, NEW b, NEW u, NEW H, NEW w, NEW r, Laid(a, b, u, H, w, r), NEW x,
         NEW k, NEW i \in UsedIn(w, H), NEW j \in UsedIn(w, H),
         Holds(x, a[i], k), Holds(x, a[j], k)
  PROVE  w[i] = w[j]
<1>1. /\ w[i] = Bucket(a[i].hcode, H) /\ w[j] = Bucket(a[j].hcode, H)
  BY DEF Laid
<1> QED
  BY <1>1 DEF Holds

(* hmap_top of the first entry for k. *)
LEMMA TopSound ==
  ASSUME NEW x \in Spi, NEW a, NEW b, NEW u, NEW H, NEW w, NEW r, NEW sz, NEW p,
         Sound(x, a, b, u, sz, p, H, w, r), NEW k \in KeysOf[x],
         NEW e, e \in UsedIn(w, H), Holds(x, a[e], k),
         \A i \in UsedIn(w, H) : Holds(x, a[i], k) => i <= e,
         NEW n, SizeIs(a, n), b[w[e]] # e,
         NEW a2, NEW b2, Top(a, b, w[e], e, n, a2, b2)
  PROVE  SoundAfter(x, a, w, H, p, a2, b2, u, sz, p)
<1>1. /\ Laid(a, b, u, H, w, r) /\ Filled(x, a, w, H) /\ Ranked(x, a, w, r, H)
      /\ Answers(x, a, w, H, p) /\ Counts(x, w, H, p, sz)
  BY DEF Sound
<1>2. /\ H \in Nat /\ n \in Nat /\ DOMAIN w = 1 .. n
      /\ \A i \in 1 .. n : w[i] \in 0 .. H /\ (w[i] # H => w[i] = Bucket(a[i].hcode, H))
      /\ \A i \in 1 .. n : a[i] \in Cell(n)
  BY <1>1, LaidParts DEF SizeIs
<1>3. e \in 1 .. n /\ w[e] # H
  BY <1>2 DEF UsedIn
<1>4. PICK h : h = w[e]
  OBVIOUS
<1>5. \E q \in Int : /\ TopOf(w, r, h, q, n)
                     /\ Laid(a2, b2, u, H, [w EXCEPT ![e] = h], [r EXCEPT ![e] = q])
  <2>1. Top(a, b, h, e, n, a2, b2) /\ b[h] # e
    BY <1>4
  <2> QED
    BY <1>1, <1>3, <1>4, <2>1, TopLaid
<1>6. PICK q \in Int : /\ \A j \in 1 .. n : w[j] = h => r[j] < q
                       /\ Laid(a2, b2, u, H, [w EXCEPT ![e] = h], [r EXCEPT ![e] = q])
  BY <1>5 DEF TopOf
<1>8. PICK w2, r2 : Sent(w, r, e, h, q, w2, r2)
  BY DEF Sent
<1>9. Laid(a2, b2, u, H, w2, r2)
  BY <1>6, <1>8 DEF Sent
<1>10. /\ Alike(a2[e], a[e])
       /\ \A i \in 1 .. n : i # e => Alike(a2[i], a[i])
  <2>2. ArenaIs(a, n) /\ b \in [0 .. (H - 1) -> 0 .. n]
    BY <1>1, NextsIs DEF ArenaIs
  <2>1. PICK en \in Cell(n) : en = a[e]
    BY <1>2, <1>3
  <2>3. PICK t \in 0 .. n : t = b[h]
    <3>1. h \in 0 .. (H - 1)
      BY <1>2, <1>3, <1>4
    <3> QED
      BY <2>2, <3>1
  <2>4. PICK top \in Cell(n) : top = Linked(en, t) /\ Alike(top, en)
    BY LinkedIs
  <2>5. Bypass(a, e, top, n, a2)
    BY <1>4, <2>1, <2>3, <2>4 DEF Top
  <2>6. /\ a2[e] = top
        /\ \A i \in 1 .. n : i # e =>
             /\ Alike(a2[i], a[i])
             /\ a2[i].next = IF a[i].next = e THEN a[e].next ELSE a[i].next
    BY <1>2, <1>3, <2>2, <2>4, <2>5, BypassIs
  <2> QED
    BY <2>1, <2>4, <2>6
<1>11. Changed(a, w, a2, w2, e, h)
  BY <1>2, <1>3, <1>8, <1>10 DEF Changed, Sent
<1>12. /\ DOMAIN w2 = DOMAIN w /\ r2[e] = q
       /\ \A i \in DOMAIN w : i # e => r2[i] = r[i]
  <2>1. DOMAIN r = 1 .. n
    BY <1>1 DEF Laid, Lists, SizeIs
  <2> QED
    BY <1>2, <1>3, <1>8, <2>1 DEF Sent
<1>7. /\ \A j : Holds(x, a2[e], j) <=> Holds(x, a[e], j)
      /\ Stored(x, a2[e]) <=> Stored(x, a[e])
  <2>1. PICK en, en2 : en = a[e] /\ en2 = a2[e]
    OBVIOUS
  <2>2. Alike(en2, en)
    BY <1>10, <2>1
  <2> QED
    BY <2>1, <2>2, AlikeSame
<1>13. Filled(x, a2, w2, H)
  <2>1. Stored(x, a2[e])
    BY <1>1, <1>2, <1>3, <1>7 DEF Filled
  <2>2. x # "rules" =>
          \A j \in KeysOf[x] : \A i \in UsedIn(w, H) :
            i # e /\ Holds(x, a[i], j) => ~Holds(x, a2[e], j)
    BY <1>1, <1>7 DEF Filled
  <2>3. Filled(x, a, w, H) /\ h # H
    BY <1>1, <1>3, <1>4
  <2> QED
    BY <1>11, <2>1, <2>2, <2>3, FilledKeeps
<1>14. Ranked(x, a2, w2, r2, H)
  <2>1. DOMAIN w \subseteq Nat
    BY <1>2
  <2>2. ASSUME NEW j \in KeysOf[x], NEW i \in UsedIn(w, H), i # e,
               Holds(x, a[i], j), Holds(x, a2[e], j)
        PROVE  i < e /\ r[i] < r2[e]
    <3>1. Holds(x, a[e], j)
      BY <1>7, <2>2
    <3>2. j = k
      BY <3>1, OneKey
    <3>3. i <= e
      BY <2>2, <3>2
    <3>4. w[i] = w[e]
      BY <1>1, <2>2, <3>1, HoldersTogether
    <3>5. i \in 1 .. n
      BY <1>2 DEF UsedIn
    <3> QED
      BY <1>3, <1>4, <1>6, <1>12, <2>2, <3>3, <3>4, <3>5
  <2>3. x = "rules" => \A i \in DOMAIN w : i # e /\ w[i] = H => e < i
    BY <1>1, <1>2, <1>3 DEF Ranked
  <2>4. Ranked(x, a, w, r, H) /\ h # H
    BY <1>1, <1>3, <1>4
  <2> QED
    BY <1>11, <1>12, <2>1, <2>2, <2>3, <2>4, RankedKeeps
<1>15. Answers(x, a2, w2, H, p)
  <2>1. Answers(x, a, w, H, p) /\ h # H
    BY <1>1, <1>3, <1>4
  <2> QED
    BY <1>10, <1>11, <2>1, TopAnswers
<1>16. Counts(x, w2, H, p, sz)
  <2>1. Counts(x, w, H, p, sz) /\ h # H
    BY <1>1, <1>3, <1>4
  <2> QED
    BY <1>3, <1>11, <2>1, SameCounts
<1>17. Grown(x, a, w, H, p, a2, w2, H, p)
  <2>1. Others(x, a, w, a2, w2, e, h, H)
    BY <1>11, ChangedOthers
  <2>2. \A i \in UsedIn(w2, H) : i \in DOMAIN w
    BY <1>12 DEF UsedIn
  <2>3. ASSUME NEW j \in KeysOf[x], NEW i \in UsedIn(w2, H), Holds(x, a2[i], j)
        PROVE  i \in UsedIn(w, H) /\ Holds(x, a[i], j)
    <3>1. CASE i = e
      BY <1>7, <2>3, <3>1
    <3>2. CASE i # e
      BY <2>1, <2>2, <2>3, <3>2 DEF Others
    <3> QED
      BY <3>1, <3>2
  <2> QED
    BY <1>12, <2>3 DEF Grown
<1> QED
  BY <1>9, <1>13, <1>14, <1>15, <1>16, <1>17 DEF Sound, SoundAfter

LEMMA StaySound ==
  ASSUME NEW x, NEW a, NEW b, NEW u, NEW H, NEW w, NEW r, NEW sz, NEW p,
         Sound(x, a, b, u, sz, p, H, w, r)
  PROVE  SoundAfter(x, a, w, H, p, a, b, u, sz, p)
<1>1. Grown(x, a, w, H, p, a, w, H, p)
  BY DEF Grown
<1> QED
  BY <1>1 DEF SoundAfter

LEMMA MoveToTopSound ==
  ASSUME NEW H, NEW w, NEW r, spi \in Spi,
         Sound(spi, arena, hentry, unused, size, promised, H, w, r),
         NEW k \in KeysOf[spi], Find(k) # Null, MoveToTop(Find(k)),
         promised' = promised
  PROVE  SoundAfter(spi, arena, w, H, promised, arena', hentry', unused', size', promised')
<1>1. PICK e : e = Find(k)
  OBVIOUS
<1>2. /\ e \in UsedIn(w, H) /\ Holds(spi, arena[e], k)
      /\ \A i \in UsedIn(w, H) : Holds(spi, arena[i], k) => i <= e
  BY <1>1, LookupSound
<1>3. PICK n : SizeIs(arena, n)
  BY DEF SizeIs
<1>4. Laid(arena, hentry, unused, H, w, r)
  BY DEF Sound
<1>5. e \in 1 .. n /\ w[e] # H
  BY <1>2, <1>3, <1>4, LaidParts DEF SizeIs, UsedIn
<1>6. PICK before, h : h = w[e] /\ before = {i \in Entries(From(hentry[h])) : arena[i].next = e}
  OBVIOUS
<1>7. /\ arena[e].hcode % HMax = h
      /\ \A i \in 1 .. n : i \in before <=> arena[i].next = e
  BY <1>3, <1>4, <1>5, <1>6, BeforeIs
<1>8. PICK a2, b2 : a2 = arena' /\ b2 = hentry'
  OBVIOUS
<1>9. /\ b2 = [hentry EXCEPT ![h] = e]
      /\ a2 = [i \in 1 .. n |->
                 IF hentry[h] = e THEN arena[i]
                 ELSE IF i = e THEN Linked(arena[e], hentry[h])
                 ELSE IF i \in before
                   THEN Linked(arena[i], arena[e].next)
                 ELSE arena[i]]
  BY <1>1, <1>3, <1>6, <1>7, <1>8 DEF MoveToTop, SizeIs, ArenaSize
<1>10. arena \in [1 .. n -> Cell(n)] /\ hentry \in [0 .. (H - 1) -> 0 .. n]
  BY <1>3, <1>4, NextsIs
<1>11. SoundAfter(spi, arena, w, H, promised, a2, b2, unused, size, promised)
  <2>1. CASE hentry[h] = e
    <3>1. b2 = hentry
      BY <1>9, <1>10, <2>1
    <3>2. a2 = arena
      BY <1>9, <1>10, <2>1
    <3> QED
      BY <3>1, <3>2, StaySound
  <2>2. CASE hentry[h] # e
    <3>1. Top(arena, hentry, w[e], e, n, a2, b2)
      <4>1. Bypass(arena, e, Linked(arena[e], hentry[h]), n, a2)
        BY <1>7, <1>9, <2>2 DEF Bypass
      <4> QED
        BY <1>6, <1>9, <4>1 DEF Top
    <3>2. hentry[w[e]] # e
      BY <1>6, <2>2
    <3> QED
      BY <1>2, <1>3, <3>1, <3>2, TopSound
  <2> QED
    BY <2>1, <2>2
<1> QED
  BY <1>8, <1>11 DEF MoveToTop

(* The value of an entry is stored. *)
Put(a, e, d, a2) ==
  a2 = [a EXCEPT ![e] = Entry(a[e].hcode, a[e].key, d, a[e].next)]

LEMMA PutIs ==
  ASSUME NEW n \in Nat, NEW a, ArenaIs(a, n), NEW e \in 1 .. n,
         NEW d \in Value, NEW a2, Put(a, e, d, a2)
  PROVE  /\ ArenaIs(a2, n)
         /\ \A i \in 1 .. n : /\ a2[i].next = a[i].next
                              /\ a2[i].hcode = a[i].hcode /\ a2[i].key = a[i].key
         /\ a2[e].value = d
         /\ \A i \in 1 .. n : i # e => a2[i] = a[i]
<1>1. PICK en : en = a[e]
  OBVIOUS
<1>2. PICK new : new = Entry(en.hcode, en.key, d, en.next)
  OBVIOUS
<1>3. en \in Cell(n)
  BY <1>1 DEF ArenaIs
<1>4. /\ new.hcode = en.hcode /\ new.key = en.key /\ new.value = d
      /\ new.next = en.next
  BY <1>2, EntryIs
<1>5. new \in Cell(n)
  <2>1. /\ en.hcode \in Codes /\ en.key \in Key \cup {NoKey, StaleKey}
        /\ en.next \in 0 .. n /\ d \in Value \cup {Zero}
    BY <1>3 DEF Cell
  <2> QED
    BY <1>2, <2>1, EntryInCell
<1>6. a2 = [a EXCEPT ![e] = new]
  BY <1>1, <1>2 DEF Put
<1>7. a2[e] = new /\ \A i \in 1 .. n : i # e => a2[i] = a[i]
  BY <1>6 DEF ArenaIs
<1>8. ArenaIs(a2, n)
  BY <1>5, <1>6 DEF ArenaIs
<1>9. ASSUME NEW i \in 1 .. n
      PROVE  /\ a2[i].next = a[i].next
             /\ a2[i].hcode = a[i].hcode /\ a2[i].key = a[i].key
  <2>1. CASE i = e
    BY <1>1, <1>4, <1>7, <2>1
  <2>2. CASE i # e
    BY <1>7, <2>2
  <2> QED
    BY <2>1, <2>2
<1> QED
  BY <1>4, <1>7, <1>8, <1>9

(* hmap_setOO, SO, NO of a key the map has; d is what is stored. *)
LEMMA PutSound ==
  ASSUME NEW x \in Spi, x # "rules",
         NEW a, NEW b, NEW u, NEW H, NEW w, NEW r, NEW sz, NEW p,
         Sound(x, a, b, u, sz, p, H, w, r), NEW k \in KeysOf[x],
         NEW e, e \in UsedIn(w, H), Holds(x, a[e], k), p[k] # NoValue,
         NEW n, SizeIs(a, n), NEW v, FitValue(x, v), NEW d \in Value,
         x \notin {"ON", "NN"} => d = v,
         NEW a2, Put(a, e, d, a2), NEW p2, SetTo(p, k, v, p2)
  PROVE  SoundAfter(x, a, w, H, p, a2, b, u, sz, p2)
<1>1. /\ Laid(a, b, u, H, w, r) /\ Filled(x, a, w, H) /\ Ranked(x, a, w, r, H)
      /\ Answers(x, a, w, H, p) /\ Counts(x, w, H, p, sz)
  BY DEF Sound
<1>2. /\ H \in Nat /\ H # 0 /\ n \in Nat /\ n # 0 /\ DOMAIN w = 1 .. n
  BY <1>1, LaidParts DEF SizeIs
<1>3. e \in 1 .. n /\ w[e] # H
  BY <1>2 DEF UsedIn
<1>4. PICK y : y = w[e]
  OBVIOUS
<1>5. ArenaIs(a, n) /\ b \in [0 .. (H - 1) -> 0 .. n] /\ u \in 0 .. n
  BY <1>1, NextsIs DEF ArenaIs
<1>6. /\ ArenaIs(a2, n)
      /\ \A i \in 1 .. n : /\ a2[i].next = a[i].next
                           /\ a2[i].hcode = a[i].hcode /\ a2[i].key = a[i].key
      /\ a2[e].value = d
      /\ \A i \in 1 .. n : i # e => a2[i] = a[i]
  BY <1>2, <1>3, <1>5, PutIs
<1>7. Laid(a2, b, u, H, w, r)
  <2>1. a2 \in Seq(Cell(n)) /\ Len(a2) = n
    <3>1. a2 \in [1 .. n -> Cell(n)]
      BY <1>6 DEF ArenaIs
    <3> QED
      BY <1>2, <3>1, FunctionIsSeq
  <2>2. Nexts(a2) = Nexts(a)
    BY <1>6, <2>1 DEF Nexts, SizeIs
  <2>3. Lists(Nexts(a2), Heads(b, u, H), w, r, 0 .. H, n)
    BY <1>1, <2>2, LaidParts DEF SizeIs
  <2>4. \A i \in UsedIn(w, H) : w[i] = Bucket(a2[i].hcode, H)
    <3>1. \A i \in UsedIn(w, H) : w[i] = Bucket(a[i].hcode, H)
      BY <1>1 DEF Laid
    <3>2. \A i \in UsedIn(w, H) : a2[i].hcode = a[i].hcode
      BY <1>2, <1>6 DEF UsedIn
    <3> QED
      BY <3>1, <3>2
  <2> QED
    BY <1>2, <1>5, <2>1, <2>3, <2>4 DEF Laid
<1>8. Changed(a, w, a2, w, e, y)
  BY <1>2, <1>3, <1>4, <1>6 DEF Changed, Alike
<1>9. \A j : Holds(x, a2[e], j) <=> Holds(x, a[e], j)
  BY <1>3, <1>6 DEF Holds
<1>10. y # H /\ Holds(x, a2[e], k)
  BY <1>3, <1>4, <1>9
<1>11. \A j \in KeysOf[x] : \A i \in UsedIn(w, H) :
         i # e /\ Holds(x, a[i], j) => ~Holds(x, a2[e], j)
  BY <1>1, <1>9 DEF Filled
<1>12. Filled(x, a2, w, H)
  <2>1. Stored(x, a[e])
    BY <1>1, <1>2, <1>3 DEF Filled
  <2>2. Stored(x, a2[e])
    BY <1>3, <1>6, <1>9, <2>1 DEF Stored, FitValue
  <2> QED
    BY <1>1, <1>8, <1>10, <1>11, <2>2, FilledKeeps
<1>13. Ranked(x, a2, w, r, H)
  <2>1. DOMAIN w \subseteq Nat
    BY <1>2
  <2> QED
    BY <1>1, <1>8, <1>11, <2>1, RankedKeeps
<1>14. Answers(x, a2, w, H, p2)
  <2>1. DOMAIN w \subseteq Nat /\ v \in Value
    BY <1>2 DEF FitValue
  <2>2. \A i \in UsedIn(w, H) : i # e /\ Holds(x, a[i], k) => i < e
    BY <1>1 DEF Filled
  <2>3. x \notin {"ON", "NN"} => a2[e].value = v
    BY <1>6
  <2> QED
    BY <1>1, <1>8, <1>10, <2>1, <2>2, <2>3, StoreAnswers
<1>15. Counts(x, w, H, p2, sz)
  <2>1. KeysIn(p2) = KeysIn(p)
    <3>1. v # NoValue
      BY HashAssumption DEF FitValue
    <3>2. p \in [Key -> Value \cup {NoValue}]
      BY <1>1 DEF Answers
    <3> QED
      BY <3>1, <3>2 DEF KeysIn, SetTo
  <2> QED
    BY <1>1, <2>1 DEF Counts
<1>16. Grown(x, a, w, H, p, a2, w, H, p2)
  <2>1. \A i \in UsedIn(w, H) : \A j : Holds(x, a2[i], j) => Holds(x, a[i], j)
    BY <1>2, <1>6 DEF UsedIn, Holds
  <2> QED
    BY <2>1 DEF Grown
<1> QED
  BY <1>7, <1>12, <1>13, <1>14, <1>15, <1>16 DEF Sound, SoundAfter

LEMMA SetOldSound ==
  ASSUME NEW H, NEW w, NEW r, spi \in Spi, spi # "rules",
         Sound(spi, arena, hentry, unused, size, promised, H, w, r),
         NEW k \in KeysOf[spi], NEW v, FitValue(spi, v),
         SetOld(k, v), promised' = [promised EXCEPT ![k] = v]
  PROVE  SoundAfter(spi, arena, w, H, promised, arena', hentry', unused', size', promised')
<1>1. PICK e : e = Find(k)
  OBVIOUS
<1>2. /\ e \in UsedIn(w, H) /\ Holds(spi, arena[e], k) /\ promised[k] # NoValue
  BY <1>1, LookupSound DEF SetOld
<1>3. PICK n : SizeIs(arena, n)
  BY DEF SizeIs
<1>4. PICK a2, p2 : a2 = arena' /\ p2 = promised'
  OBVIOUS
<1>5. PICK d \in Value : /\ Put(arena, e, d, a2)
                         /\ spi \notin {"ON", "NN"} => d = v
  BY <1>1, <1>4, HashAssumption DEF SetOld, Put, BoxedValue, FitValue
<1>6. SetTo(promised, k, v, p2)
  BY <1>4 DEF SetTo
<1>7. SoundAfter(spi, arena, w, H, promised, a2, hentry, unused, size, p2)
  BY <1>2, <1>3, <1>5, <1>6, PutSound
<1> QED
  BY <1>4, <1>7 DEF SetOld

-----------------------------------------------------------------------------
(***************************************************************************)
(* Every call of a program keeps the invariant.                            *)
(***************************************************************************)
LEMMA MapStep ==
  ASSUME NEW H, NEW w, NEW r, spi \in Spi,
         Sound(spi, arena, hentry, unused, size, promised, H, w, r),
         Next \/ PtrNext
  PROVE  /\ spi' = spi
         /\ SoundAfter(spi, arena, w, H, promised, arena', hentry', unused', size', promised')
<1> DEFINE After2 ==
      SoundAfter(spi, arena, w, H, promised, arena', hentry', unused', size', promised')
<1>1. ASSUME Hashed, NEW k \in KeysOf[spi], Remove(k)
      PROVE  spi' = spi /\ After2
  <2>1. spi' = spi /\ RemoveKey(k) /\ promised' = [promised EXCEPT ![k] = NoValue]
    BY <1>1 DEF Remove, Promise!Remove
  <2>2. CASE Find(k) = Null
    <3>1. /\ arena' = arena /\ hentry' = hentry /\ unused' = unused /\ size' = size
      BY <2>1, <2>2 DEF RemoveKey, mapVars
    <3>2. promised[k] = NoValue
      BY <2>2, LookupSound
    <3>3. promised' = promised
      <4>1. promised \in [Key -> Value \cup {NoValue}]
        BY DEF Sound, Answers
      <4> QED
        BY <2>1, <3>2, <4>1
    <3>4. SoundAfter(spi, arena, w, H, promised, arena, hentry, unused, size, promised)
      BY StaySound
    <3> QED
      BY <2>1, <3>1, <3>3, <3>4
  <2>3. CASE Find(k) # Null
    <3>1. spi # "rules" /\ RemoveEntry(Find(k))
      BY <1>1, <2>1, <2>3 DEF Hashed, RemoveKey
    <3> QED
      BY <2>1, <2>3, <3>1, RemoveEntrySound
  <2> QED
    BY <2>2, <2>3
<1>2. ASSUME Hashed, NEW k \in KeysOf[spi], NEW v \in Storable, Set(k, v)
      PROVE  spi' = spi /\ After2
  <2>1. /\ spi' = spi /\ promised' = [promised EXCEPT ![k] = v]
        /\ SetNew(k, v) \/ SetOld(k, v)
    BY <1>2 DEF Set, Promise!Set
  <2>2. FitValue(spi, v) /\ spi # "rules"
    BY <1>2 DEF Storable, FitValue, BoxedValue, Hashed
  <2>3. CASE SetNew(k, v)
    <3>1. PICK key : key = IF BoxedKey THEN k ELSE StaleKey
      OBVIOUS
    <3>2. FitKey(spi, k, key)
      BY <3>1, HashAssumption DEF FitKey, BoxedKey
    <3>3. Find(k) = Null /\ AddEntry(HashCode[k], key, v)
      BY <2>3, <3>1 DEF SetNew
    <3> QED
      BY <2>1, <2>2, <3>2, <3>3, AddEntrySound
  <2>4. CASE SetOld(k, v)
    BY <2>1, <2>2, <2>4, SetOldSound
  <2> QED
    BY <2>1, <2>3, <2>4
<1>3. ASSUME NEW k \in KeysOf[spi], PtrGet(k)
      PROVE  spi' = spi /\ After2
  <2>1. spi' = spi /\ promised' = promised
    BY <1>3 DEF PtrGet
  <2>2. CASE Find(k) = Null
    <3>1. /\ arena' = arena /\ hentry' = hentry /\ unused' = unused /\ size' = size
      BY <1>3, <2>2 DEF PtrGet, mapVars
    <3>2. SoundAfter(spi, arena, w, H, promised, arena, hentry, unused, size, promised)
      BY StaySound
    <3> QED
      BY <2>1, <3>1, <3>2
  <2>3. CASE Find(k) # Null
    <3>1. MoveToTop(Find(k))
      BY <1>3, <2>3 DEF PtrGet
    <3> QED
      BY <2>1, <2>3, <3>1, MoveToTopSound
  <2> QED
    BY <2>2, <2>3
<1>4. ASSUME NEW k \in KeysOf[spi], PtrRm(k)
      PROVE  spi' = spi /\ After2
  <2>1. /\ spi' = spi /\ promised' = [promised EXCEPT ![k] = NoValue]
        /\ spi # "rules" /\ Find(k) # Null /\ RemoveEntry(Find(k))
    BY <1>4 DEF PtrRm, Promise!Remove
  <2> QED
    BY <2>1, RemoveEntrySound
<1>5. ASSUME NEW k \in KeysOf[spi], NEW v \in Storable, PtrAdd(k, v)
      PROVE  spi' = spi /\ After2
  <2>1. /\ spi' = spi /\ promised' = [promised EXCEPT ![k] = v]
        /\ spi \in {"rules", "xdata"} /\ AddEntry(HashCode[k], NoKey, v)
        /\ spi # "rules" => Find(k) = Null
    BY <1>5 DEF PtrAdd, Promise!Set
  <2>2. FitValue(spi, v) /\ FitKey(spi, k, NoKey)
    BY <2>1 DEF Storable, FitValue, BoxedValue, FitKey
  <2> QED
    BY <2>1, <2>2, AddEntrySound
<1>6. CASE Next
  <2>1. PICK k \in KeysOf[spi] : Hashed /\ (Remove(k) \/ \E v \in Storable : Set(k, v))
    BY <1>6 DEF Next
  <2> QED
    BY <1>1, <1>2, <2>1
<1>7. CASE PtrNext
  <2>1. PICK k \in KeysOf[spi] : PtrGet(k) \/ PtrRm(k) \/ \E v \in Storable : PtrAdd(k, v)
    BY <1>7 DEF PtrNext
  <2> QED
    BY <1>3, <1>4, <1>5, <2>1
<1> QED
  BY <1>6, <1>7

LEMMA InitSound ==
  ASSUME Init
  PROVE  \E H, w, r : Sound(spi, arena, hentry, unused, size, promised, H, w, r)
<1>1. PICK H \in Nat \ {0} : H = InitBuckets /\ H >= 2
  BY HashAssumption
<1>2. PICK N \in Nat : N = (H * 3) \div 4 /\ N # 0
  <2>1. (H * 3) \div 4 \in Nat /\ (H * 3) \div 4 # 0
    BY <1>1
  <2> QED
    BY <2>1
<1>3. arena = FreeList(1, N) /\ unused = 1 /\ size = 0
  BY <1>1, <1>2 DEF Init
<1>4. \A z \in 0 .. (H - 1) : hentry[z] = 0
  BY <1>1 DEF Init, Null
<1>5. hentry = [z \in 0 .. (H - 1) |-> 0]
  BY <1>1 DEF Init, Null
<1>6. ASSUME NEW i \in 1 .. N
      PROVE  /\ arena[i].next = IF i = N THEN 0 ELSE i + 1
             /\ arena[i] \in Cell(N) /\ Freed(arena[i])
  <2>1. PICK t : t = IF i = N THEN 0 ELSE i + 1
    OBVIOUS
  <2>2. arena[i] = FreeEntry(t)
    <3>1. FreeList(1, N)[i] = FreeEntry(IF 1 + i - 1 = N THEN Null ELSE 1 + i)
      BY DEF FreeList
    <3>2. (IF 1 + i - 1 = N THEN Null ELSE 1 + i) = t
      BY <2>1 DEF Null
    <3> QED
      BY <1>3, <3>1, <3>2
  <2>3. t \in 0 .. N
    BY <2>1
  <2>4. FreeCode \in Codes /\ NoKey \in Key \cup {NoKey, StaleKey} /\ Zero \in Value \cup {Zero}
    BY DEF Codes
  <2>5. /\ FreeEntry(t).next = t /\ FreeEntry(t) \in Cell(N) /\ Freed(FreeEntry(t))
    BY <2>3, <2>4, EntryInCell, EntryIs DEF FreeEntry, Freed
  <2> QED
    BY <2>1, <2>2, <2>5
<1>7. Fresh(arena, hentry, unused, H, 0, N)
  <2>1. ArenaIs(arena, N)
    <3>1. arena = [i \in 1 .. N |-> arena[i]]
      BY <1>3 DEF FreeList
    <3>2. \A i \in 1 .. N : arena[i] \in Cell(N)
      BY <1>6
    <3> QED
      BY <3>1, <3>2 DEF ArenaIs
  <2>2. ASSUME NEW z
        PROVE  Largest(InBucket(arena, 0, z, H)) = 0
    <3>1. InBucket(arena, 0, z, H) = {}
      BY DEF InBucket
    <3> QED
      BY <3>1 DEF Largest, Null
  <2>3. hentry = [z \in 0 .. (H - 1) |-> Largest(InBucket(arena, 0, z, H))]
    BY <1>5, <2>2
  <2>4. \A i \in 1 .. N : ~(i <= 0)
    OBVIOUS
  <2> QED
    BY <1>3, <1>6, <2>1, <2>3, <2>4 DEF Fresh
<1>8. PICK w, r : w = FreshLists(arena, H, 0, N) /\ r = FreshRanks(0, N)
  OBVIOUS
<1>9. Laid(arena, hentry, unused, H, w, r)
  <2>1. 0 \in Nat /\ 0 < N
    BY <1>2
  <2> QED
    BY <1>7, <1>8, <2>1, FreshLaid
<1>10. /\ DOMAIN w = 1 .. N
       /\ \A i \in 1 .. N : w[i] = H /\ r[i] = 0 - i
  BY <1>8 DEF FreshLists, FreshRanks
<1>11. UsedIn(w, H) = {}
  BY <1>10 DEF UsedIn
<1>12. Filled(spi, arena, w, H)
  BY <1>6, <1>10, <1>11 DEF Filled
<1>13. Ranked(spi, arena, w, r, H)
  <2>1. \A i, j \in 1 .. N : i < j => r[j] < r[i]
    BY <1>10
  <2> QED
    BY <1>10, <1>11, <2>1 DEF Ranked
<1>14. promised = [k \in Key |-> NoValue]
  BY DEF Init, Promise!Init
<1>15. Answers(spi, arena, w, H, promised)
  BY <1>11, <1>14, HashAssumption DEF Answers, Init
<1>16. Counts(spi, w, H, promised, size)
  <2>1. KeysIn(promised) = {}
    BY <1>14 DEF KeysIn
  <2>2. Cardinality({}) = 0 /\ IsFiniteSet({})
    BY FS_EmptySet
  <2> QED
    BY <1>3, <1>11, <2>1, <2>2 DEF Counts
<1> QED
  BY <1>9, <1>12, <1>13, <1>15, <1>16 DEF Sound

-----------------------------------------------------------------------------
(***************************************************************************)
(* The iterator.                                                           *)
(***************************************************************************)
(* The entry of k does not look free. *)
Shows(x, k) == x \notin {"ON", "NN"} \/ HashCode[k] # FreeCode

(* An iterator of boxed keys has answered the keys it has passed. *)
Seen(x, a, w, H, ix, it, yl, sn, p) ==
  /\ ix = 0 \/ ix \in DOMAIN w
  /\ it \in {"no", "yes", "ended"}
  /\ yl \subseteq Key \cup {StaleKey}
  /\ sn \subseteq KeysIn(p)
  /\ x \in {"rules", "xdata"} => it = "no"
  /\ x \in {"OO", "ON"} /\ it = "yes" =>
       \A i \in UsedIn(w, H) : \A k \in sn :
         i <= ix /\ Holds(x, a[i], k) /\ Shows(x, k) => k \in yl
  /\ x \in {"OO", "ON"} /\ it = "ended" =>
       \A k \in sn : Shows(x, k) => k \in yl

IInv ==
  /\ spi \in Spi
  /\ \E H, w, r :
       /\ Sound(spi, arena, hentry, unused, size, promised, H, w, r)
       /\ Seen(spi, arena, w, H, index, iterating, yielded, since, promised)

LEMMA PresentIs == Promise!Present = KeysIn(promised)
BY DEF Promise!Present, KeysIn

LEMMA CountIs ==
  ASSUME NEW H, NEW w, NEW r, spi # "rules",
         Sound(spi, arena, hentry, unused, size, promised, H, w, r)
  PROVE  size = Promise!Size
<1>1. size = Cardinality(KeysIn(promised))
  BY DEF Sound, Counts
<1>2. Promise!Size = Cardinality({k \in Key : promised[k] # NoValue})
  <2>1. Promise!Size = Promise!Cardinality({k \in Key : promised[k] # NoValue})
    BY DEF Promise!Size, Promise!Present
  <2>2. \A S : Promise!Cardinality(S) = Cardinality(S)
    BY DEF Promise!Cardinality, Cardinality
  <2> QED
    BY <2>1, <2>2
<1> QED
  BY <1>1, <1>2 DEF KeysIn

LEMMA PositionsAre ==
  ASSUME NEW H, NEW w, NEW r,
         Sound(spi, arena, hentry, unused, size, promised, H, w, r)
  PROVE  /\ ArenaSize \in Nat /\ DOMAIN w = 1 .. ArenaSize
         /\ \A i \in 1 .. ArenaSize : arena[i].key \in Key \cup {NoKey, StaleKey}
         /\ \A i \in 1 .. ArenaSize :
              i \in UsedIn(w, H) \/ LooksFree(i)
         /\ \A i \in UsedIn(w, H) : i \in 1 .. ArenaSize /\ Stored(spi, arena[i])
<1>1. /\ Laid(arena, hentry, unused, H, w, r) /\ Filled(spi, arena, w, H)
  BY DEF Sound
<1>2. /\ ArenaSize \in Nat /\ DOMAIN w = 1 .. ArenaSize
      /\ \A i \in 1 .. ArenaSize : arena[i] \in Cell(ArenaSize)
  BY <1>1, LaidParts DEF ArenaSize
<1>3. \A i \in 1 .. ArenaSize : arena[i].key \in Key \cup {NoKey, StaleKey}
  BY <1>2 DEF Cell
<1>4. ASSUME NEW i \in 1 .. ArenaSize, i \notin UsedIn(w, H)
      PROVE  LooksFree(i)
  BY <1>1, <1>2, <1>4 DEF UsedIn, Filled, Freed, LooksFree
<1>5. ASSUME NEW i \in UsedIn(w, H)
      PROVE  i \in 1 .. ArenaSize /\ Stored(spi, arena[i])
  BY <1>1, <1>2 DEF UsedIn, Filled
<1> QED
  BY <1>2, <1>3, <1>4, <1>5

(* An entry that holds a key of boxed keys is the iterator's. *)
LEMMA LooksUsed ==
  ASSUME NEW k, NEW i, Stored(spi, arena[i]), Holds(spi, arena[i], k), Shows(spi, k)
  PROVE  ~LooksFree(i)
BY DEF Stored, Holds, Shows, LooksFree

LEMMA IterateKeeps ==
  ASSUME IInv, Iterate
  PROVE  IInv'
<1>1. PICK H, w, r : /\ spi \in Spi
                     /\ Sound(spi, arena, hentry, unused, size, promised, H, w, r)
  BY DEF IInv
<1>2. /\ index' = 0 /\ iterating' = "yes" /\ yielded' = {}
      /\ since' = KeysIn(promised) /\ spi \notin {"rules", "xdata"}
  BY PresentIs DEF Iterate, Hashed
<1>3. /\ spi' = spi /\ arena' = arena /\ hentry' = hentry /\ unused' = unused
      /\ size' = size /\ promised' = promised
  BY DEF Iterate, vars, mapVars
<1>4. \A i \in UsedIn(w, H) : ~(i <= 0)
  BY <1>1, PositionsAre
<1>5. Seen(spi, arena, w, H, 0, "yes", {}, KeysIn(promised), promised)
  BY <1>2, <1>4 DEF Seen
<1> QED
  BY <1>1, <1>2, <1>3, <1>5 DEF IInv

LEMMA NextEntryKeeps ==
  ASSUME IInv, NextEntry
  PROVE  IInv'
<1>1. PICK H, w, r :
        /\ spi \in Spi
        /\ Sound(spi, arena, hentry, unused, size, promised, H, w, r)
        /\ Seen(spi, arena, w, H, index, iterating, yielded, since, promised)
  BY DEF IInv
<1>2. PICK i \in (index + 1) .. ArenaSize :
        /\ ~LooksFree(i)
        /\ \A j \in (index + 1) .. (i - 1) : LooksFree(j)
        /\ yielded' = yielded \cup {arena[i].key}
        /\ index' = i
  BY DEF NextEntry
<1>3. /\ spi' = spi /\ arena' = arena /\ hentry' = hentry /\ unused' = unused
      /\ size' = size /\ promised' = promised /\ iterating = "yes"
      /\ iterating' = iterating /\ since' = since
  BY DEF NextEntry, vars, mapVars
<1>4. /\ ArenaSize \in Nat /\ DOMAIN w = 1 .. ArenaSize
      /\ \A j \in 1 .. ArenaSize : j \in UsedIn(w, H) \/ LooksFree(j)
      /\ \A j \in UsedIn(w, H) : j \in 1 .. ArenaSize /\ Stored(spi, arena[j])
  BY <1>1, PositionsAre
<1>5. index \in Nat /\ i \in 1 .. ArenaSize
  <2>1. index \in Nat
    BY <1>1, <1>4 DEF Seen
  <2> QED
    BY <1>4, <2>1
<1>6. i \in UsedIn(w, H) /\ Stored(spi, arena[i])
  BY <1>2, <1>4, <1>5
<1>7. arena[i].key \in Key \cup {StaleKey}
  <2>1. spi \notin {"rules", "xdata"}
    BY <1>1, <1>3 DEF Seen
  <2>2. PICK k \in KeysOf[spi] : Holds(spi, arena[i], k)
    BY <1>6 DEF Stored
  <2>3. k \in Key
    BY <1>1, HashAssumption
  <2>4. CASE spi \in {"OO", "ON"}
    BY <2>2, <2>3, <2>4 DEF Holds
  <2>5. CASE spi \in {"NO", "NN"}
    BY <1>6, <2>5 DEF Stored
  <2> QED
    BY <1>1, <2>1, <2>4, <2>5, HashAssumption DEF Kinds
<1>8. ASSUME spi \in {"OO", "ON"}, NEW j \in UsedIn(w, H), NEW k \in since,
             j <= i, Holds(spi, arena[j], k), Shows(spi, k)
      PROVE  k \in yielded'
  <2>1. j \in 1 .. ArenaSize /\ Stored(spi, arena[j])
    BY <1>4
  <2>2. ~LooksFree(j)
    BY <1>8, <2>1, LooksUsed
  <2>3. CASE j <= index
    BY <1>1, <1>2, <1>3, <1>8, <2>3 DEF Seen
  <2>4. CASE j > index /\ j # i
    BY <1>2, <1>5, <1>8, <2>1, <2>2, <2>4
  <2>5. CASE j = i
    <3>1. arena[j].key = k
      BY <1>8 DEF Holds
    <3> QED
      BY <1>2, <2>5, <3>1
  <2> QED
    BY <1>5, <2>1, <2>3, <2>4, <2>5
<1>9. Seen(spi, arena, w, H, i, "yes", yielded', since, promised)
  <2>1. yielded' \subseteq Key \cup {StaleKey}
    BY <1>1, <1>2, <1>7 DEF Seen
  <2>2. i \in DOMAIN w
    BY <1>4, <1>5
  <2>3. since \subseteq KeysIn(promised) /\ spi \notin {"rules", "xdata"}
    BY <1>1, <1>3 DEF Seen
  <2> QED
    BY <1>8, <2>1, <2>2, <2>3 DEF Seen
<1> QED
  BY <1>1, <1>2, <1>3, <1>9 DEF IInv

LEMMA NextEndKeeps ==
  ASSUME IInv, NextEnd
  PROVE  IInv'
<1>1. PICK H, w, r :
        /\ spi \in Spi
        /\ Sound(spi, arena, hentry, unused, size, promised, H, w, r)
        /\ Seen(spi, arena, w, H, index, iterating, yielded, since, promised)
  BY DEF IInv
<1>2. /\ \A i \in (index + 1) .. ArenaSize : LooksFree(i)
      /\ index' = ArenaSize /\ iterating' = "ended" /\ iterating = "yes"
  BY DEF NextEnd
<1>3. /\ spi' = spi /\ arena' = arena /\ hentry' = hentry /\ unused' = unused
      /\ size' = size /\ promised' = promised /\ yielded' = yielded /\ since' = since
  BY DEF NextEnd, vars, mapVars
<1>4. /\ ArenaSize \in Nat /\ DOMAIN w = 1 .. ArenaSize
      /\ \A j \in UsedIn(w, H) : j \in 1 .. ArenaSize /\ Stored(spi, arena[j])
  BY <1>1, PositionsAre
<1>5. index \in Nat
  BY <1>1, <1>4 DEF Seen
<1>6. ASSUME spi \in {"OO", "ON"}, NEW k \in since, Shows(spi, k)
      PROVE  k \in yielded
  <2>1. promised[k] # NoValue /\ k \in KeysOf[spi]
    BY <1>1, <1>6 DEF Seen, KeysIn, Sound, Answers
  <2>2. PICK i \in UsedIn(w, H) : Holds(spi, arena[i], k)
    BY <1>1, <2>1 DEF Sound, Answers
  <2>3. i \in 1 .. ArenaSize /\ Stored(spi, arena[i])
    BY <1>4
  <2>4. ~LooksFree(i)
    BY <1>6, <2>2, <2>3, LooksUsed
  <2>5. i <= index
    BY <1>2, <1>4, <1>5, <2>3, <2>4
  <2> QED
    BY <1>1, <1>2, <1>6, <2>2, <2>5 DEF Seen
<1>7. Seen(spi, arena, w, H, ArenaSize, "ended", yielded, since, promised)
  <2>1. ArenaSize = 0 \/ ArenaSize \in DOMAIN w
    BY <1>4
  <2>2. /\ since \subseteq KeysIn(promised) /\ spi \notin {"rules", "xdata"}
        /\ yielded \subseteq Key \cup {StaleKey}
    BY <1>1, <1>2 DEF Seen
  <2> QED
    BY <1>6, <2>1, <2>2 DEF Seen
<1> QED
  BY <1>1, <1>2, <1>3, <1>7 DEF IInv

(* What the program does to the map does not disturb the iterator. *)
LEMMA SeenKept ==
  ASSUME NEW x, NEW a, NEW w, NEW H, NEW ix, NEW it, NEW yl, NEW sn, NEW p,
         Seen(x, a, w, H, ix, it, yl, sn, p),
         \A k \in Key : p[k] # NoValue => k \in KeysOf[x],
         NEW a2, NEW w2, NEW K, NEW p2, Grown(x, a, w, H, p, a2, w2, K, p2)
  PROVE  Seen(x, a2, w2, K, ix, it, yl, sn \cap KeysIn(p2), p2)
<1>1. PICK S : S = sn \cap KeysIn(p2)
  OBVIOUS
<1>2. S \subseteq KeysIn(p2) /\ S \subseteq sn
  BY <1>1
<1>3. ix = 0 \/ ix \in DOMAIN w2
  BY DEF Seen, Grown
<1>4. ASSUME x \in {"OO", "ON"}, it = "yes", NEW i \in UsedIn(w2, K), NEW k \in S,
             i <= ix, Holds(x, a2[i], k), Shows(x, k)
      PROVE  k \in yl
  <2>1. k \in Key /\ p[k] # NoValue /\ p2[k] # NoValue /\ k \in sn
    BY <1>2 DEF Seen, KeysIn
  <2>2. x # "rules" /\ k \in KeysOf[x]
    BY <1>4, <2>1
  <2>3. i \in UsedIn(w, H) /\ Holds(x, a[i], k)
    BY <1>4, <2>1, <2>2 DEF Grown
  <2> QED
    BY <1>4, <2>1, <2>3 DEF Seen
<1>5. x \in {"OO", "ON"} /\ it = "ended" => \A k \in S : Shows(x, k) => k \in yl
  BY <1>2 DEF Seen
<1>6. /\ it \in {"no", "yes", "ended"} /\ yl \subseteq Key \cup {StaleKey}
      /\ x \in {"rules", "xdata"} => it = "no"
  BY DEF Seen
<1>7. Seen(x, a2, w2, K, ix, it, yl, S, p2)
  BY <1>2, <1>3, <1>4, <1>5, <1>6 DEF Seen
<1> QED
  BY <1>1, <1>7

LEMMA MeanwhileKeeps ==
  ASSUME IInv, Meanwhile
  PROVE  IInv'
<1>1. PICK H, w, r :
        /\ spi \in Spi
        /\ Sound(spi, arena, hentry, unused, size, promised, H, w, r)
        /\ Seen(spi, arena, w, H, index, iterating, yielded, since, promised)
  BY DEF IInv
<1>2. /\ since' = since \cap Promise!Present' /\ index' = index
      /\ iterating' = iterating /\ yielded' = yielded
      /\ Next \/ PtrNext
  BY DEF Meanwhile
<1>3. Promise!Present' = KeysIn(promised')
  BY DEF Promise!Present, KeysIn
<1>4. PICK a2, b2, u2, sz2, p2, S :
        /\ a2 = arena' /\ b2 = hentry' /\ u2 = unused' /\ sz2 = size'
        /\ p2 = promised' /\ S = since'
  OBVIOUS
<1>5. spi' = spi /\ SoundAfter(spi, arena, w, H, promised, a2, b2, u2, sz2, p2)
  BY <1>1, <1>2, <1>4, MapStep
<1>6. PICK K, w2, r2 : /\ Sound(spi, a2, b2, u2, sz2, p2, K, w2, r2)
                       /\ Grown(spi, arena, w, H, promised, a2, w2, K, p2)
  BY <1>5 DEF SoundAfter
<1>7. Seen(spi, a2, w2, K, index, iterating, yielded, S, p2)
  <2>1. \A k \in Key : promised[k] # NoValue => k \in KeysOf[spi]
    BY <1>1 DEF Sound, Answers
  <2>2. Seen(spi, a2, w2, K, index, iterating, yielded, since \cap KeysIn(p2), p2)
    BY <1>1, <1>6, <2>1, SeenKept
  <2>3. S = since \cap KeysIn(p2)
    BY <1>2, <1>3, <1>4
  <2> QED
    BY <2>2, <2>3
<1> QED
  BY <1>1, <1>2, <1>4, <1>5, <1>6, <1>7 DEF IInv

LEMMA Inductive == ItrSpec => []IInv
<1>1. ItrInit => IInv
  <2> SUFFICES ASSUME ItrInit
               PROVE  IInv
    OBVIOUS
  <2>1. PICK H, w, r : Sound(spi, arena, hentry, unused, size, promised, H, w, r)
    BY InitSound DEF ItrInit
  <2>2. Seen(spi, arena, w, H, index, iterating, yielded, since, promised)
    BY DEF ItrInit, Seen
  <2> QED
    BY <2>1, <2>2 DEF IInv, ItrInit, Init
<1>2. IInv /\ [ItrNext]_<<vars, itrVars>> => IInv'
  <2> SUFFICES ASSUME IInv, [ItrNext]_<<vars, itrVars>>
               PROVE  IInv'
    OBVIOUS
  <2>1. CASE Iterate
    BY <2>1, IterateKeeps
  <2>2. CASE NextEntry
    BY <2>2, NextEntryKeeps
  <2>3. CASE NextEnd
    BY <2>3, NextEndKeeps
  <2>4. CASE Meanwhile
    BY <2>4, MeanwhileKeeps
  <2>5. CASE UNCHANGED <<vars, itrVars>>
    <3>1. /\ spi' = spi /\ arena' = arena /\ hentry' = hentry /\ unused' = unused
          /\ size' = size /\ promised' = promised /\ index' = index
          /\ iterating' = iterating /\ yielded' = yielded /\ since' = since
      BY <2>5 DEF vars, mapVars, itrVars
    <3> QED
      BY <3>1 DEF IInv
  <2> QED
    BY <2>1, <2>2, <2>3, <2>4, <2>5 DEF ItrNext
<1> QED
  BY <1>1, <1>2, PTL DEF ItrSpec

(* Used entries and free ones are all there are. *)
LEMMA AllCounted ==
  ASSUME NEW n \in Nat, NEW w, DOMAIN w = 1 .. n, NEW H
  PROVE  /\ Cardinality(UsedIn(w, H)) \in 0 .. n
         /\ Cardinality(OnList(w, H)) = n - Cardinality(UsedIn(w, H))
<1>1. IsFiniteSet(1 .. n) /\ Cardinality(1 .. n) = n
  BY FS_Interval
<1>2. PICK S, U : S = 1 .. n /\ U = UsedIn(w, H)
  OBVIOUS
<1>3. U \subseteq S /\ OnList(w, H) = S \ U
  BY <1>2 DEF UsedIn, OnList
<1>4. IsFiniteSet(S) /\ Cardinality(S) = n
  BY <1>1, <1>2
<1>5. IsFiniteSet(U) /\ Cardinality(U) <= n /\ Cardinality(U) \in Nat
  BY <1>3, <1>4, FS_Subset, FS_CardinalityType
<1>6. S \cap U = U
  BY <1>3
<1>7. Cardinality(S \ U) = n - Cardinality(U)
  <2>1. Cardinality(S \ U) = Cardinality(S) - Cardinality(S \cap U)
    BY <1>4, FS_Difference
  <2> QED
    BY <1>4, <1>6, <2>1
<1> QED
  BY <1>2, <1>3, <1>5, <1>7

(* The types of a map and of an iterator over it. *)
THEOREM MapsTyped == ItrSpec => []ItrTypeOK
<1>1. ASSUME IInv
      PROVE  ItrTypeOK
  <2>1. PICK H, w, r :
          /\ spi \in Spi
          /\ Sound(spi, arena, hentry, unused, size, promised, H, w, r)
          /\ Seen(spi, arena, w, H, index, iterating, yielded, since, promised)
    BY <1>1 DEF IInv
  <2>2. Laid(arena, hentry, unused, H, w, r)
    BY <2>1 DEF Sound
  <2>3. PICK n \in Nat : n = ArenaSize /\ DOMAIN w = 1 .. n
    BY <2>1, PositionsAre
  <2>4. HMax = H
    BY <2>2, LaidParts, HMaxIs
  <2>5. /\ arena \in Seq(Cell(ArenaSize))
        /\ hentry \in [0 .. (HMax - 1) -> 0 .. ArenaSize]
        /\ unused \in 0 .. ArenaSize
    BY <2>2, <2>4 DEF Laid, ArenaSize
  <2>6. size \in 0 .. ArenaSize
    <3>1. size = Cardinality(UsedIn(w, H))
      BY <2>1 DEF Sound, Counts
    <3> QED
      BY <2>3, <3>1, AllCounted
  <2>7. promised \in [Key -> Value \cup {NoValue}]
    BY <2>1 DEF Sound, Answers
  <2>8. /\ index \in 0 .. ArenaSize /\ iterating \in {"no", "yes", "ended"}
        /\ yielded \subseteq Key \cup {StaleKey} /\ since \subseteq Key
    BY <2>1, <2>3 DEF Seen, KeysIn
  <2> QED
    BY <2>1, <2>5, <2>6, <2>7, <2>8 DEF ItrTypeOK, TypeOK, Cell, Codes
<1> QED
  BY <1>1, Inductive, PTL

(* Through every insertion, removal, change of the order of a chain and      *)
(* rehash, an entry of the arena is once on the free list or once on the      *)
(* chain of its hash code: none is lost, and none is handed out while it is   *)
(* still on a chain.                                                          *)
THEOREM EntriesPartitioned == ItrSpec => []ArenaPartitioned
<1>1. ASSUME IInv
      PROVE  ArenaPartitioned
  <2>1. PICK H, w, r : Sound(spi, arena, hentry, unused, size, promised, H, w, r)
    BY <1>1 DEF IInv
  <2>2. Laid(arena, hentry, unused, H, w, r)
    BY <2>1 DEF Sound
  <2>3. PICK n \in Nat : n = ArenaSize /\ DOMAIN w = 1 .. n
    BY <2>1, PositionsAre
  <2>4. /\ HMax = H /\ H \in Nat /\ DOMAIN hentry = 0 .. (H - 1)
        /\ \A i \in 1 .. n : w[i] # H => w[i] = Bucket(arena[i].hcode, H)
        /\ \A i \in 1 .. n : w[i] \in 0 .. H
    <3>1. /\ H \in Nat /\ DOMAIN hentry = 0 .. (H - 1)
          /\ \A i \in 1 .. Len(arena) :
               w[i] \in 0 .. H /\ (w[i] # H => w[i] = Bucket(arena[i].hcode, H))
      BY <2>2, LaidParts
    <3>2. HMax = H
      BY <3>1, HMaxIs
    <3> QED
      BY <2>3, <3>1, <3>2 DEF ArenaSize
  <2>5. r \in [1 .. n -> Int]
    BY <2>2, <2>3 DEF Laid, Lists, ArenaSize
  <2>6. /\ \A h \in 0 .. (H - 1) : Lined(From(hentry[h]), w, r, h)
        /\ Lined(From(unused), w, r, H)
    BY <2>2, ListsAreLined
  <2>7. PICK free : free = From(unused)
    OBVIOUS
  <2>8. Entries(free) = OnList(w, H) /\ Len(free) = Cardinality(OnList(w, H))
    BY <2>3, <2>5, <2>6, <2>7, LinedCounts
  <2>9. ASSUME NEW h \in 0 .. (H - 1)
        PROVE  Entries(From(hentry[h])) = OnList(w, h)
    <3>1. PICK s : s = From(hentry[h])
      OBVIOUS
    <3>2. Lined(s, w, r, h)
      BY <2>6, <3>1
    <3> QED
      BY <2>3, <2>5, <3>1, <3>2, LinedCounts
  <2>10. \A i \in 1 .. n : \A x : i \in OnList(w, x) <=> w[i] = x
    BY <2>3 DEF OnList
  <2>11. ASSUME NEW i \in 1 .. n
         PROVE  IF i \in Entries(free)
                  THEN \A h \in DOMAIN hentry : i \notin Entries(From(hentry[h]))
                  ELSE \A h \in DOMAIN hentry :
                         i \in Entries(From(hentry[h])) <=> (h = arena[i].hcode % HMax)
    <3>1. CASE w[i] = H
      BY <2>4, <2>8, <2>9, <2>10, <3>1
    <3>2. CASE w[i] # H
      <4>1. w[i] = arena[i].hcode % HMax /\ i \notin Entries(free)
        BY <2>4, <2>8, <2>10, <3>2 DEF Bucket
      <4> QED
        BY <2>4, <2>9, <2>10, <4>1
    <3> QED
      BY <3>1, <3>2
  <2>12. Len(free) = Cardinality(Entries(free))
    BY <2>8
  <2>13. size + Len(free) = ArenaSize
    <3>1. size = Cardinality(UsedIn(w, H))
      BY <2>1 DEF Sound, Counts
    <3>2. /\ Cardinality(UsedIn(w, H)) \in 0 .. n
          /\ Cardinality(OnList(w, H)) = n - Cardinality(UsedIn(w, H))
      BY <2>3, AllCounted
    <3> QED
      BY <2>3, <2>8, <3>1, <3>2
  <2> QED
    BY <2>3, <2>7, <2>11, <2>12, <2>13 DEF ArenaPartitioned
<1> QED
  BY <1>1, Inductive, PTL

(* A get finds a key if and only if the program has set it and not removed  *)
(* it since, and size counts these keys: of a map of any kind.  The rules   *)
(* shadow each other, and are not counted.                                  *)
KeysKept ==
  /\ \A k \in KeysOf[spi] : Found(k) # NoValue <=> promised[k] # NoValue
  /\ spi # "rules" => size = Promise!Size

THEOREM MapKeepsKeys == ItrSpec => []KeysKept
<1>1. ASSUME IInv
      PROVE  KeysKept
  <2>1. PICK H, w, r : /\ spi \in Spi
                       /\ Sound(spi, arena, hentry, unused, size, promised, H, w, r)
    BY <1>1 DEF IInv
  <2>2. ASSUME NEW k \in KeysOf[spi]
        PROVE  Found(k) # NoValue <=> promised[k] # NoValue
    <3>1. CASE Find(k) = Null
      BY <2>1, <3>1, LookupSound DEF Found
    <3>2. CASE Find(k) # Null
      <4>1. Find(k) \in UsedIn(w, H) /\ promised[k] # NoValue
        BY <2>1, <3>2, LookupSound
      <4>2. Laid(arena, hentry, unused, H, w, r)
        BY <2>1 DEF Sound
      <4>3. arena[Find(k)] \in Cell(Len(arena))
        BY <4>1, <4>2, LaidParts DEF UsedIn
      <4>4. arena[Find(k)].value # NoValue
        BY <4>3, HashAssumption DEF Cell
      <4> QED
        BY <3>2, <4>1, <4>4 DEF Found
    <3> QED
      BY <3>1, <3>2
  <2>3. spi # "rules" => size = Promise!Size
    BY <2>1, CountIs
  <2> QED
    BY <2>2, <2>3 DEF KeysKept
<1> QED
  BY <1>1, Inductive, PTL

(* A map of boxed values, and the pointer maps, answer what was set last for *)
(* a key, through collisions, rehashes and changes of the order of a chain.  *)
(* Of a map of unboxed values this is false: the setters of an existing key  *)
(* store the .ndata of the slot of the key.                                  *)
THEOREM MapImplements == ItrSpec => [](spi \notin {"ON", "NN"} => ImplementsMap)
<1>1. ASSUME IInv, spi \notin {"ON", "NN"}
      PROVE  ImplementsMap
  <2>1. PICK H, w, r : /\ spi \in Spi
                       /\ Sound(spi, arena, hentry, unused, size, promised, H, w, r)
    BY <1>1 DEF IInv
  <2>2. ASSUME NEW k \in KeysOf[spi]
        PROVE  Found(k) = promised[k]
    <3>1. CASE Find(k) = Null
      BY <2>1, <3>1, LookupSound DEF Found
    <3>2. CASE Find(k) # Null
      <4>1. /\ Find(k) \in UsedIn(w, H) /\ Holds(spi, arena[Find(k)], k)
            /\ \A i \in UsedIn(w, H) : Holds(spi, arena[i], k) => i <= Find(k)
        BY <2>1, <3>2, LookupSound
      <4>2. promised[k] = arena[Find(k)].value
        BY <1>1, <2>1, <4>1 DEF Sound, Answers
      <4> QED
        BY <3>2, <4>2 DEF Found
    <3> QED
      BY <3>1, <3>2
  <2>3. spi # "rules" => size = Promise!Size
    BY <2>1, CountIs
  <2> QED
    BY <2>2, <2>3 DEF ImplementsMap
<1>2. IInv => (spi \notin {"ON", "NN"} => ImplementsMap)
  BY <1>1
<1> QED
  BY <1>2, Inductive, PTL

(* An iterator over a map of boxed keys answers every key the map had from   *)
(* its creation to its end, whatever was set and removed meanwhile.  Of a    *)
(* map of unboxed keys it answers the stale .o of the slot of the key.       *)
THEOREM IteratorComplete ==
  ItrSpec => [](spi \notin {"NO", "NN"} => IterationComplete)
<1>1. ASSUME IInv, spi \notin {"NO", "NN"}
      PROVE  IterationComplete
  <2>1. PICK H, w :
          /\ spi \in Spi
          /\ Seen(spi, arena, w, H, index, iterating, yielded, since, promised)
    BY <1>1 DEF IInv
  <2>2. ASSUME iterating = "ended", NEW k \in since,
               BoxedValue \/ HashCode[k] # FreeCode
        PROVE  k \in yielded
    <3>1. spi \in {"OO", "ON"}
      BY <1>1, <2>1, <2>2, HashAssumption DEF Seen, Kinds
    <3>2. Shows(spi, k)
      BY <2>2 DEF Shows, BoxedValue
    <3> QED
      BY <2>1, <2>2, <3>1, <3>2 DEF Seen
  <2> QED
    BY <2>2 DEF IterationComplete
<1>2. IInv => (spi \notin {"NO", "NN"} => IterationComplete)
  BY <1>1
<1> QED
  BY <1>2, Inductive, PTL
=============================================================================
