------------------------- MODULE Exceptions_proofs -------------------------
(***************************************************************************)
(* The chain of handlers nests as the open tries do, the open assures are  *)
(* listed where a throw will look for them, and an exception is caught     *)
(* inside the launch it was thrown in, for stacks of any size and for any  *)
(* number of handlers and objects.                                         *)
(*                                                                         *)
(* A launched script that leaves a try or an assure by the way ("loose")   *)
(* spoils the chain for the rest of its launch.  That it spoils nothing    *)
(* outside needs an invariant of its own, Confined: what the script can    *)
(* reach from the innermost handler through parent was set inside the      *)
(* launch, up to the handler of the launch itself, which closes the way    *)
(* out.  The parts of the invariant are written over values, b for blocks, *)
(* s for stack, e for ehdr, p for parent, t for at, L for loose and y for  *)
(* stacklist, to be stated of a state and of the one that follows it.      *)
(***************************************************************************)
EXTENDS Exceptions, FiniteSetTheorems, WellFoundedInduction, TLAPS

Block == Code \cup {"launch"}
Opener == {"launch", "try"}

(* OpenBelow and Outer. *)
Openers(b, i) == {j \in 1..(i - 1) : b[j] \in Opener}
OuterOf(b, s, i) == IF Openers(b, i) = {} THEN Null ELSE s[Highest(Openers(b, i))]

(* Nothing was left by the way in the launch that block i is in. *)
Clean(b, L, i) == \A l \in L : l < i => \E m \in (l + 1)..(i - 1) : b[m] = "launch"

(* A launch comes first, and runs a method. *)
Shape(b) ==
  /\ Len(b) > 0 => b[1] = "launch"
  /\ \A i \in 1..(Len(b) - 1) : b[i] = "launch" => b[i + 1] = "method"

Holding(b, s) == \A i \in Openers(b, Len(b) + 1) : s[i] \in Handlers

(* A handler that can be thrown to has been set. *)
WasSet(e, p, t) ==
  /\ e \in Handlers => t[e] # 0
  /\ \A h \in Handlers : p[h] \in Handlers => t[p[h]] # 0

Chained(b, s, p, t, L) ==
  \A i \in Openers(b, Len(b) + 1) :
    t[s[i]] = i /\ (Clean(b, L, i) => p[s[i]] = OuterOf(b, s, i))

Innermost(b, s, e, L) ==
  Clean(b, L, Len(b) + 1) => e = OuterOf(b, s, Len(b) + 1)

(* The handlers C that are within reach in the launch of block l. *)
Reach(b, s, e, p, t, l, C) ==
  /\ e \in C /\ s[l] \in C
  /\ \A i \in Openers(b, Len(b) + 1) : i > l => s[i] \in C
  /\ \A h \in C \ {s[l]} : p[h] \in C /\ t[h] > l

Confined(b, s, e, p, t) ==
  \A l \in 1..Len(b) :
    b[l] = "launch" => \E C \in SUBSET Handlers : Reach(b, s, e, p, t, l, C)

(* Assures and Above. *)
AssuresOf(b) == {k \in 1..Len(b) : b[k] = "assure"}
AboveOf(b, k) == {j \in AssuresOf(b) : j > k /\ Openers(b, j) = Openers(b, k)}

IsListed(list, above, o) ==
  LET place == Len(list) - Cardinality(above)
  IN place \in DOMAIN list /\ list[place] = o

Listed(b, s, L, y) ==
  \A k \in AssuresOf(b) :
    Clean(b, L, k) => IsListed(y[OuterOf(b, s, k)], AboveOf(b, k), s[k])

(* Where the lists of the handlers hold an object. *)
Places(y, a) == {q \in Handlers \X Nat : q[2] \in DOMAIN y[q[1]] /\ y[q[1]][q[2]] = a}

Counted(y, c) ==
  \A a \in Assurance : /\ IsFiniteSet(Places(y, a))
                       /\ c[a] >= Cardinality(Places(y, a))

Formed == TypeOK /\ Shape(blocks) /\ Holding(blocks, stack) /\ WasSet(ehdr, parent, at)

Nested ==
  /\ Chained(blocks, stack, parent, at, loose)
  /\ Innermost(blocks, stack, ehdr, loose)
  /\ Confined(blocks, stack, ehdr, parent, at)

Kept == Listed(blocks, stack, loose, stacklist) /\ Counted(stacklist, checkedIn)

(* Once a handler has been set anew while its try was open, the process    *)
(* may do anything that keeps its stack well formed.                       *)
ChainInv == Formed /\ UnwindsInside /\ (~shared => Nested /\ Kept)

-----------------------------------------------------------------------------
(***************************************************************************)
(* The slots of a stack of blocks.                                         *)
(***************************************************************************)
(* A set of slots that is not empty has a highest one. *)
LEMMA HighestIs ==
  ASSUME NEW n \in Nat, NEW S \in SUBSET (1..n), S # {}
  PROVE  Highest(S) \in S /\ \A j \in S : j <= Highest(S)
<1> DEFINE T == {d \in Nat : \E i \in S : d = n - i}
<1>1. PICK d \in T : \A c \in T : d <= c
  <2>1. T \subseteq Nat /\ T # {}
    <3>1. PICK i \in S : TRUE
      OBVIOUS
    <3>2. n - i \in T
      BY <3>1
    <3> QED
      BY <3>2
  <2> HIDE DEF T
  <2>2. PICK d \in T : \A c \in T : ~(<<c, d>> \in OpToRel(<, Nat))
    BY <2>1, NatLessThanWellFounded, WFMin
  <2>3. \A c \in T : ~(c < d)
    BY <2>1, <2>2 DEF OpToRel
  <2> QED
    BY <2>1, <2>3
<1>2. PICK i \in S : d = n - i
  BY <1>1
<1>3. \A j \in S : j <= i
  <2> SUFFICES ASSUME NEW j \in S PROVE j <= i
    OBVIOUS
  <2>1. n - j \in T
    OBVIOUS
  <2>2. n - i <= n - j
    BY <1>1, <1>2, <2>1
  <2> QED
    BY <2>2
<1> QED
  BY <1>3 DEF Highest

(* The innermost of the open tries and launches below a slot. *)
LEMMA OuterIs ==
  ASSUME NEW b, NEW s, NEW i \in Nat, Openers(b, i) # {}
  PROVE  \E o \in Openers(b, i) :
           /\ OuterOf(b, s, i) = s[o]
           /\ \A j \in Openers(b, i) : j <= o
<1>1. Openers(b, i) \in SUBSET (1..i)
  BY DEF Openers
<1>2. PICK S : S = Openers(b, i)
  OBVIOUS
<1>3. Highest(S) \in S /\ \A j \in S : j <= Highest(S)
  BY <1>1, <1>2, HighestIs
<1> QED
  BY <1>2, <1>3 DEF OuterOf

(* The blocks c are the first n of the blocks b, with at most one above    *)
(* them that is no try and no launch.                                      *)
Rewound(b, c, n) ==
  /\ n \in 0..Len(b) /\ Len(c) \in n..(n + 1)
  /\ \A i \in 1..n : c[i] = b[i]
  /\ Len(c) = n + 1 => c[n + 1] \notin Opener

LEMMA OpenersKept ==
  ASSUME NEW b \in Seq(Block), NEW c \in Seq(Block), NEW n \in Nat, Rewound(b, c, n)
  PROVE  /\ \A i \in 1..(n + 1) : Openers(c, i) = Openers(b, i)
         /\ Openers(c, Len(c) + 1) = Openers(b, n + 1)
<1>1. PICK m \in Nat : m = Len(c)
  OBVIOUS
<1> QED
  BY <1>1 DEF Openers, Rewound

(* The slots up to n are those of s. *)
SameUpTo(s, z, n) == \A i \in 1..n : z[i] = s[i]

LEMMA OuterKept ==
  ASSUME NEW b \in Seq(Block), NEW c \in Seq(Block), NEW n \in Nat, Rewound(b, c, n),
         NEW s, NEW z, SameUpTo(s, z, n)
  PROVE  /\ \A i \in 1..(n + 1) : OuterOf(c, z, i) = OuterOf(b, s, i)
         /\ OuterOf(c, z, Len(c) + 1) = OuterOf(b, s, n + 1)
<1>1. \A i \in 1..(n + 1) : /\ Openers(c, i) = Openers(b, i)
                            /\ Openers(b, i) \subseteq 1..n
  BY OpenersKept DEF Openers
<1>2. \A i \in 1..(n + 1) :
        Openers(b, i) # {} => \E o \in Openers(b, i) : Highest(Openers(b, i)) = o
  <2> SUFFICES ASSUME NEW i \in 1..(n + 1), Openers(b, i) # {}
               PROVE  \E o \in Openers(b, i) : Highest(Openers(b, i)) = o
    OBVIOUS
  <2>1. PICK S \in SUBSET (1..n) : S = Openers(b, i)
    BY <1>1
  <2>2. Highest(S) \in S
    BY <2>1, HighestIs
  <2> QED
    BY <2>1, <2>2
<1>3. \A i \in 1..(n + 1) : OuterOf(c, z, i) = OuterOf(b, s, i)
  BY <1>1, <1>2 DEF OuterOf, SameUpTo
<1>4. Openers(c, Len(c) + 1) = Openers(b, n + 1) /\ n + 1 \in 1..(n + 1)
  BY OpenersKept
<1>5. OuterOf(c, z, Len(c) + 1) = OuterOf(c, z, n + 1)
  BY <1>1, <1>4 DEF OuterOf
<1> QED
  BY <1>3, <1>4, <1>5

LEMMA CleanKept ==
  ASSUME NEW b \in Seq(Block), NEW c \in Seq(Block), NEW n \in Nat, Rewound(b, c, n),
         NEW L \in SUBSET (1..Len(b)), NEW M, L \cap (1..n) \subseteq M
  PROVE  /\ \A i \in 1..(n + 1) : Clean(c, M, i) => Clean(b, L, i)
         /\ Clean(c, M, Len(c) + 1) => Clean(b, L, n + 1)
<1>1. PICK m \in Nat : m = Len(c)
  OBVIOUS
<1>2. \A i \in 1..(n + 1) : \A l \in L : l < i => l \in M /\ l \in 1..n
  OBVIOUS
<1>3. ASSUME NEW i \in 1..(n + 1), Clean(c, M, i)
      PROVE  Clean(b, L, i)
  BY <1>2, <1>3 DEF Clean, Rewound
<1>4. ASSUME Clean(c, M, m + 1)
      PROVE  Clean(b, L, n + 1)
  <2> SUFFICES ASSUME NEW l \in L, l < n + 1
               PROVE  \E k \in (l + 1)..n : b[k] = "launch"
    BY DEF Clean
  <2>1. l \in M /\ l \in 1..n /\ l < m + 1 /\ m \in n..(n + 1)
    BY <1>1, <1>2 DEF Rewound
  <2>2. PICK k \in (l + 1)..m : c[k] = "launch"
    BY <1>4, <2>1 DEF Clean
  <2>3. k # n + 1
    BY <1>1, <2>1, <2>2 DEF Rewound, Opener
  <2> QED
    BY <2>1, <2>2, <2>3 DEF Rewound
<1> QED
  BY <1>1, <1>3, <1>4

(* Two slots with the same tries and launches around them have none        *)
(* between them.                                                           *)
LEMMA SameOpeners ==
  ASSUME NEW b, NEW i \in Nat, NEW k \in Nat, i < k, i >= 1
  PROVE  Openers(b, i) = Openers(b, k) <=> \A j \in i..(k - 1) : b[j] \notin Opener
<1>1. Openers(b, i) = Openers(b, k) => \A j \in i..(k - 1) : b[j] \notin Opener
  <2> SUFFICES ASSUME NEW j \in i..(k - 1), b[j] \in Opener
               PROVE  Openers(b, i) # Openers(b, k)
    OBVIOUS
  <2>1. j \in Openers(b, k) /\ j \notin Openers(b, i)
    BY DEF Openers
  <2> QED
    BY <2>1
<1>2. (\A j \in i..(k - 1) : b[j] \notin Opener) => Openers(b, i) = Openers(b, k)
  BY DEF Openers
<1> QED
  BY <1>1, <1>2

(* The innermost of them tells which they are. *)
LEMMA SameInnermost ==
  ASSUME NEW b, NEW i \in Nat, NEW k \in Nat, i < k, i >= 1,
         NEW o \in Openers(b, i), \A j \in Openers(b, k) : j <= o
  PROVE  Openers(b, i) = Openers(b, k)
BY DEF Openers

-----------------------------------------------------------------------------
(***************************************************************************)
(* What the parts of the invariant keep when blocks are left.              *)
(***************************************************************************)
LEMMA RewindShape ==
  ASSUME NEW b \in Seq(Block), NEW c \in Seq(Block), NEW n \in Nat, Rewound(b, c, n),
         Shape(b), n = 0 => Len(c) = 0,
         Len(c) = n + 1 => b[n] # "launch" \/ c[n + 1] = "method"
  PROVE  Shape(c)
<1>1. PICK m \in Nat : m = Len(c)
  OBVIOUS
<1>2. PICK k \in Nat : k = Len(b)
  OBVIOUS
<1>3. n \in 0..k /\ m \in n..(n + 1) /\ \A i \in 1..n : c[i] = b[i]
  BY <1>1, <1>2 DEF Rewound
<1>4. m > 0 => c[1] = "launch"
  BY <1>1, <1>2, <1>3 DEF Shape
<1>5. ASSUME NEW i \in 1..(m - 1), c[i] = "launch"
      PROVE  c[i + 1] = "method"
  <2>1. i \in 1..n /\ b[i] = "launch"
    BY <1>3, <1>5
  <2>2. CASE i = n
    BY <1>1, <1>3, <2>1, <2>2
  <2>3. CASE i < n
    <3>1. i \in 1..(k - 1) /\ i + 1 \in 1..n
      BY <1>3, <2>3
    <3> QED
      BY <1>2, <1>3, <2>1, <3>1 DEF Shape
  <2> QED
    BY <2>1, <2>2, <2>3
<1> QED
  BY <1>1, <1>4, <1>5 DEF Shape

LEMMA RewindChained ==
  ASSUME NEW b \in Seq(Block), NEW c \in Seq(Block), NEW n \in Nat, Rewound(b, c, n),
         NEW s, NEW z, SameUpTo(s, z, n), NEW p, NEW t,
         NEW L \in SUBSET (1..Len(b)), NEW M, L \cap (1..n) \subseteq M
  PROVE  /\ Holding(b, s) => Holding(c, z)
         /\ Chained(b, s, p, t, L) => Chained(c, z, p, t, M)
<1>1. \A i \in Openers(c, Len(c) + 1) : i \in 1..n /\ i \in Openers(b, Len(b) + 1)
  BY OpenersKept DEF Openers, Rewound
<1>2. \A i \in 1..(n + 1) : OuterOf(c, z, i) = OuterOf(b, s, i)
  BY OuterKept
<1>3. \A i \in 1..(n + 1) : Clean(c, M, i) => Clean(b, L, i)
  BY CleanKept
<1> QED
  BY <1>1, <1>2, <1>3 DEF Holding, Chained, SameUpTo

LEMMA RewindConfined ==
  ASSUME NEW b \in Seq(Block), NEW c \in Seq(Block), NEW n \in Nat, Rewound(b, c, n),
         NEW s, NEW z, SameUpTo(s, z, n), NEW p, NEW t, NEW e, NEW f,
         Confined(b, s, e, p, t),
         \A l \in 1..n : \A C \in SUBSET Handlers :
           b[l] = "launch" /\ Reach(b, s, e, p, t, l, C) => f \in C
  PROVE  Confined(c, z, f, p, t)
<1>1. \A i \in Openers(c, Len(c) + 1) : i \in 1..n /\ i \in Openers(b, Len(b) + 1)
  BY OpenersKept DEF Openers, Rewound
<1> SUFFICES ASSUME NEW l \in 1..Len(c), c[l] = "launch"
             PROVE  \E C \in SUBSET Handlers : Reach(c, z, f, p, t, l, C)
  BY DEF Confined
<1>2. l \in 1..n /\ b[l] = "launch" /\ l \in 1..Len(b)
  BY DEF Rewound, Opener
<1>3. PICK C \in SUBSET Handlers : Reach(b, s, e, p, t, l, C)
  BY <1>2 DEF Confined
<1>4. f \in C
  BY <1>2, <1>3
<1>5. Reach(c, z, f, p, t, l, C)
  BY <1>1, <1>2, <1>3, <1>4 DEF Reach, SameUpTo
<1> QED
  BY <1>5

(* What is left above slot n is in no list with what stays and is clean. *)
Apart(b, c, n, M) ==
  \A k \in AssuresOf(b), j \in AssuresOf(b) :
    k <= n /\ n < j /\ Clean(c, M, k) => Openers(b, j) # Openers(b, k)

(* The lists x of the assures up to slot n are the lists y. *)
ListsKept(b, s, L, n, y, x) ==
  \A k \in AssuresOf(b) :
    k <= n /\ Clean(b, L, k) => x[OuterOf(b, s, k)] = y[OuterOf(b, s, k)]

LEMMA RewindListed ==
  ASSUME NEW b \in Seq(Block), NEW c \in Seq(Block), NEW n \in Nat, Rewound(b, c, n),
         NEW s, NEW z, SameUpTo(s, z, n), NEW y, NEW x,
         NEW L \in SUBSET (1..Len(b)), NEW M, L \cap (1..n) \subseteq M,
         Listed(b, s, L, y),
         Len(c) = n + 1 => c[n + 1] # "assure",
         Apart(b, c, n, M), ListsKept(b, s, L, n, y, x)
  PROVE  Listed(c, z, M, x)
<1>0. \A i \in 1..(n + 1) : OuterOf(c, z, i) = OuterOf(b, s, i)
  BY OuterKept
<1> SUFFICES ASSUME NEW k \in AssuresOf(c), Clean(c, M, k)
             PROVE  IsListed(x[OuterOf(c, z, k)], AboveOf(c, k), z[k])
  BY DEF Listed
<1>1. \A j \in AssuresOf(c) : j \in 1..n /\ j \in AssuresOf(b)
  BY DEF AssuresOf, Rewound
<1>2. \A j \in AssuresOf(b) : j <= n => j \in AssuresOf(c)
  BY DEF AssuresOf, Rewound
<1>3. \A j \in 1..n : Openers(c, j) = Openers(b, j)
  BY OpenersKept
<1>4. OuterOf(c, z, k) = OuterOf(b, s, k) /\ Clean(b, L, k)
  <2>1. \A i \in 1..(n + 1) : Clean(c, M, i) => Clean(b, L, i)
    BY CleanKept
  <2> QED
    BY <1>0, <1>1, <2>1
<1>5. AboveOf(c, k) = AboveOf(b, k)
  <2>1. \A j \in AboveOf(b, k) : j <= n /\ j \in 1..Len(b)
    BY <1>1 DEF AboveOf, AssuresOf, Apart
  <2> QED
    BY <1>1, <1>2, <1>3, <2>1 DEF AboveOf, Apart
<1> QED
  BY <1>1, <1>4, <1>5 DEF Listed, ListsKept, SameUpTo

-----------------------------------------------------------------------------
(***************************************************************************)
(* Where the program is: in its launch, and in the frame of its method.    *)
(***************************************************************************)
LEMMA SizeOfBlocks ==
  ASSUME TypeOK
  PROVE  blocks \in Seq(Block) /\ Esp \in 0..MaxSlot /\ MaxSlot \in Nat
BY BoundsAssumption DEF TypeOK, Block, Esp

(* Top runs no code on an empty stack, nor where a launch waits. *)
LEMMA TopIs ==
  ASSUME TypeOK, Top # "none"
  PROVE  Esp > 0 /\ blocks # <<>> /\ Top = blocks[Esp]
<1>1. blocks \in Seq(Block) /\ blocks # <<>>
  BY SizeOfBlocks DEF Top
<1> QED
  BY <1>1 DEF Top, Last, Esp

LEMMA InLaunch ==
  ASSUME TypeOK, Shape(blocks), Esp > 0
  PROVE  /\ CurrentLaunch \in 1..Esp /\ blocks[CurrentLaunch] = "launch"
         /\ \A i \in (CurrentLaunch + 1)..Esp : blocks[i] # "launch"
<1>1. PICK n \in Nat : n = Esp
  BY SizeOfBlocks
<1>2. PICK S \in SUBSET (1..n) : S = {i \in 1..Esp : blocks[i] = "launch"}
  BY <1>1
<1>3. 1 \in S
  BY <1>1, <1>2 DEF Shape, Esp
<1>4. Highest(S) \in S /\ \A j \in S : j <= Highest(S)
  BY <1>3, HighestIs
<1>5. CurrentLaunch = Highest(S)
  BY <1>2 DEF CurrentLaunch
<1> QED
  BY <1>1, <1>2, <1>4, <1>5

LEMMA InFrame ==
  ASSUME TypeOK, Shape(blocks), Top \in Code
  PROVE  /\ Esp > 1 /\ Top = blocks[Esp]
         /\ Frame \in 2..Esp /\ blocks[Frame] = "method"
         /\ \A i \in Frame..Esp : blocks[i] # "launch"
         /\ CurrentLaunch < Frame
<1>1. Esp > 0 /\ Top = blocks[Esp] /\ Top # "launch"
  BY TopIs DEF Code
<1>2. PICK n \in Nat : n = Esp
  BY SizeOfBlocks
<1>3. blocks[1] = "launch" /\ \A i \in 1..(n - 1) : blocks[i] = "launch" => blocks[i + 1] = "method"
  BY <1>1, <1>2 DEF Shape, Esp
<1>4. n > 1
  BY <1>1, <1>2, <1>3
<1>5. PICK S \in SUBSET (1..n) : S = {i \in 1..Esp : blocks[i] = "method"}
  BY <1>2
<1>6. 2 \in S
  BY <1>2, <1>3, <1>4, <1>5
<1>7. PICK f \in S : f = Highest(S) /\ \A j \in S : j <= f
  BY <1>6, HighestIs
<1>8. Frame = f
  BY <1>5, <1>7 DEF Frame
<1>9. \A i \in f..n : blocks[i] # "launch"
  <2> SUFFICES ASSUME NEW i \in f..n, blocks[i] = "launch"
               PROVE  FALSE
    OBVIOUS
  <2>1. i \in 1..(n - 1)
    BY <1>1, <1>2
  <2>2. i + 1 \in S
    BY <1>2, <1>3, <1>5, <2>1
  <2> QED
    BY <1>7, <2>2
<1>10. f \in 2..n /\ blocks[f] = "method"
  <2>1. f \in 1..n /\ blocks[f] = "method" /\ f >= 2
    BY <1>5, <1>6, <1>7
  <2> QED
    BY <2>1
<1>11. CurrentLaunch < f
  BY <1>1, <1>2, <1>9, <1>10, InLaunch
<1> QED
  BY <1>1, <1>2, <1>4, <1>8, <1>9, <1>10, <1>11

(* The innermost handler was set in the launch the program is in, or by    *)
(* the launch itself; when nothing was left by the way there, it is that   *)
(* of the innermost try.                                                   *)
LEMMA WhereItIs ==
  ASSUME Formed, Nested, Esp > 0
  PROVE  /\ ehdr \in Handlers /\ at[ehdr] >= CurrentLaunch
         /\ at[ehdr] \in Slot
         /\ CurrentLaunch \notin loose =>
              \E o \in Openers(blocks, Esp + 1) :
                /\ ehdr = stack[o] /\ at[ehdr] = o
                /\ ehdr = OuterOf(blocks, stack, Esp + 1)
                /\ \A j \in Openers(blocks, Esp + 1) : j <= o
<1>1. TypeOK /\ Shape(blocks)
  BY DEF Formed
<1>2. PICK l \in Nat : l = CurrentLaunch
  BY <1>1, InLaunch, SizeOfBlocks
<1>3. PICK n \in Nat : n = Esp
  BY <1>1, SizeOfBlocks
<1>4. l \in 1..n /\ blocks[l] = "launch" /\ \A i \in (l + 1)..n : blocks[i] # "launch"
  BY <1>1, <1>2, <1>3, InLaunch
<1>5. l \in Openers(blocks, n + 1)
  BY <1>4 DEF Openers, Opener
<1>6. \A i \in Openers(blocks, n + 1) : at[stack[i]] = i
  BY <1>3 DEF Nested, Chained, Esp
<1>7. PICK C \in SUBSET Handlers : Reach(blocks, stack, ehdr, parent, at, l, C)
  BY <1>3, <1>4 DEF Nested, Confined, Esp
<1>8. ehdr \in Handlers /\ at[ehdr] >= l /\ at[ehdr] # 0
  <2>1. ehdr \in C /\ (ehdr # stack[l] => at[ehdr] > l)
    BY <1>7 DEF Reach
  <2>2. at[stack[l]] = l
    BY <1>5, <1>6
  <2>3. at[ehdr] \in Int
    BY <1>1, <2>1, SizeOfBlocks DEF TypeOK
  <2> QED
    BY <1>4, <2>1, <2>2, <2>3
<1>9. at[ehdr] \in Slot
  BY <1>1, <1>8, SizeOfBlocks DEF TypeOK, Slot
<1>10. ASSUME l \notin loose
       PROVE  \E o \in Openers(blocks, n + 1) :
                /\ ehdr = stack[o] /\ at[ehdr] = o
                /\ ehdr = OuterOf(blocks, stack, n + 1)
                /\ \A j \in Openers(blocks, n + 1) : j <= o
  <2>1. Clean(blocks, loose, n + 1)
    <3> SUFFICES ASSUME NEW i \in loose, i < n + 1
                 PROVE  \E m \in (i + 1)..n : blocks[m] = "launch"
      BY DEF Clean
    <3>1. i \in 1..n /\ blocks[i] = "launch"
      BY <1>1, <1>3 DEF TypeOK
    <3>2. i < l
      BY <1>4, <1>10, <3>1
    <3> QED
      BY <1>4, <3>1, <3>2
  <2>2. ehdr = OuterOf(blocks, stack, n + 1)
    BY <1>3, <2>1 DEF Nested, Innermost, Esp
  <2>3. PICK o \in Openers(blocks, n + 1) : /\ OuterOf(blocks, stack, n + 1) = stack[o]
                                            /\ \A j \in Openers(blocks, n + 1) : j <= o
    BY <1>5, OuterIs
  <2> QED
    BY <1>6, <2>2, <2>3
<1> QED
  BY <1>2, <1>3, <1>8, <1>9, <1>10

-----------------------------------------------------------------------------
(***************************************************************************)
(* What the lists of the handlers hold, counted.                           *)
(***************************************************************************)
LEMMA OccurrencesCount ==
  ASSUME NEW s \in Seq(Assurance), NEW a
  PROVE  /\ IsFiniteSet({k \in DOMAIN s : s[k] = a})
         /\ Occurrences(a, s) \in Nat
<1>1. PICK n \in Nat : n = Len(s)
  OBVIOUS
<1>2. IsFiniteSet(1..n)
  BY <1>1, FS_Interval
<1>3. {k \in DOMAIN s : s[k] = a} \subseteq 1..n
  BY <1>1
<1>4. IsFiniteSet({k \in DOMAIN s : s[k] = a})
  BY <1>2, <1>3, FS_Subset
<1> QED
  BY <1>4, FS_CardinalityType DEF Occurrences

(* A list that is emptied takes its occurrences along. *)
LEMMA CountTrimmed ==
  ASSUME NEW y \in [Handlers -> Seq(Assurance)], NEW c \in [Assurance -> Int],
         NEW h \in Handlers, Counted(y, c)
  PROVE  Counted([y EXCEPT ![h] = <<>>],
                 [a \in Assurance |-> c[a] - Occurrences(a, y[h])])
<1> DEFINE x == [y EXCEPT ![h] = <<>>]
<1> SUFFICES ASSUME NEW a \in Assurance
             PROVE  /\ IsFiniteSet(Places(x, a))
                    /\ c[a] - Occurrences(a, y[h]) >= Cardinality(Places(x, a))
  BY DEF Counted
<1>1. PICK P : P = Places(y, a) /\ IsFiniteSet(P) /\ c[a] >= Cardinality(P)
  BY DEF Counted
<1>2. PICK K : K = {k \in DOMAIN y[h] : y[h][k] = a}
  OBVIOUS
<1>3. IsFiniteSet(K) /\ Occurrences(a, y[h]) = Cardinality(K)
  <2>1. y[h] \in Seq(Assurance)
    OBVIOUS
  <2> QED
    BY <1>2, <2>1, OccurrencesCount DEF Occurrences
<1> DEFINE f == [k \in K |-> <<h, k>>]
           R == {<<h, k>> : k \in K}
<1>4. f \in Bijection(K, R)
  <2>1. f \in [K -> R] /\ \A q \in R : \E k \in K : f[k] = q
    OBVIOUS
  <2>2. \A j, k \in K : f[j] = f[k] => j = k
    OBVIOUS
  <2> HIDE DEF f, R
  <2> QED
    BY <2>1, <2>2 DEF Bijection, Injection, Surjection, IsInjective
<1>5. IsFiniteSet(R) /\ Cardinality(R) = Cardinality(K)
  <2> HIDE DEF f, R
  <2>1. ExistsBijection(K, R)
    BY <1>4 DEF ExistsBijection
  <2> QED
    BY <1>3, <2>1, FS_Bijection
<1>6. R \subseteq P
  BY <1>1, <1>2 DEF Places
<1>7. Places(x, a) = P \ R
  <2>1. ASSUME NEW g \in Handlers, NEW k \in Nat
        PROVE  <<g, k>> \in Places(x, a) <=> <<g, k>> \in P \ R
    <3>1. CASE g = h
      BY <1>1, <1>2, <3>1 DEF Places
    <3>2. CASE g # h
      BY <1>1, <3>2 DEF Places
    <3> QED
      BY <3>1, <3>2
  <2>2. Places(x, a) \subseteq Handlers \X Nat /\ P \subseteq Handlers \X Nat
    BY <1>1 DEF Places
  <2> HIDE DEF x, R
  <2> QED
    BY <2>1, <2>2
<1>8. /\ IsFiniteSet(P \ R)
      /\ Cardinality(P \ R) = Cardinality(P) - Cardinality(P \cap R)
  BY <1>1, FS_Difference
<1>9. P \cap R = R
  BY <1>6
<1>10. /\ Cardinality(P) \in Nat /\ Cardinality(R) \in Nat /\ c[a] \in Int
  <2> HIDE DEF R
  <2> QED
    BY <1>1, <1>3, <1>5, FS_CardinalityType
<1> HIDE DEF x, R
<1>11. Cardinality(P \ R) = Cardinality(P) - Cardinality(R)
  BY <1>8, <1>9
<1>12. PICK q \in Nat, r \in Nat : q = Cardinality(P) /\ r = Cardinality(R)
  BY <1>10
<1>13. Occurrences(a, y[h]) = r /\ c[a] >= q
  BY <1>1, <1>3, <1>5, <1>12
<1>14. IsFiniteSet(Places(x, a)) /\ Cardinality(Places(x, a)) = q - r
  BY <1>7, <1>8, <1>11, <1>12
<1> QED
  BY <1>10, <1>13, <1>14

LEMMA CountEmptied ==
  ASSUME NEW y \in [Handlers -> Seq(Assurance)], NEW c \in [Assurance -> Int],
         NEW h \in Handlers, Counted(y, c)
  PROVE  Counted([y EXCEPT ![h] = <<>>], c)
<1> DEFINE x == [y EXCEPT ![h] = <<>>]
<1> SUFFICES ASSUME NEW a \in Assurance
             PROVE  IsFiniteSet(Places(x, a)) /\ c[a] >= Cardinality(Places(x, a))
  BY DEF Counted
<1>1. PICK P : P = Places(y, a) /\ IsFiniteSet(P) /\ c[a] >= Cardinality(P)
  BY DEF Counted
<1>2. Places(x, a) \subseteq P
  BY <1>1 DEF Places
<1>3. PICK Q : Q = Places(x, a)
  OBVIOUS
<1>4. IsFiniteSet(Q) /\ Cardinality(Q) <= Cardinality(P)
  BY <1>1, <1>2, <1>3, FS_Subset
<1>5. Cardinality(P) \in Nat /\ Cardinality(Q) \in Nat
  BY <1>1, <1>4, FS_CardinalityType
<1> QED
  BY <1>1, <1>3, <1>4, <1>5

LEMMA CountAppended ==
  ASSUME NEW y \in [Handlers -> Seq(Assurance)], NEW c \in [Assurance -> Int],
         NEW h \in Handlers, NEW d \in Assurance, Counted(y, c)
  PROVE  Counted([y EXCEPT ![h] = Append(@, d)], [c EXCEPT ![d] = @ + 1])
<1> DEFINE x == [y EXCEPT ![h] = Append(@, d)]
<1> SUFFICES ASSUME NEW a \in Assurance
             PROVE  /\ IsFiniteSet(Places(x, a))
                    /\ [c EXCEPT ![d] = @ + 1][a] >= Cardinality(Places(x, a))
  BY DEF Counted
<1>1. PICK P : P = Places(y, a) /\ IsFiniteSet(P) /\ c[a] >= Cardinality(P)
  BY DEF Counted
<1>2. PICK n \in Nat : n = Len(y[h])
  OBVIOUS
<1>3. /\ DOMAIN x[h] = 1..(n + 1) /\ DOMAIN y[h] = 1..n
      /\ \A k \in 1..n : x[h][k] = y[h][k]
      /\ x[h][n + 1] = d
  BY <1>2
<1>4. \A g \in Handlers : g # h => x[g] = y[g]
  OBVIOUS
<1>5. ASSUME NEW g \in Handlers, NEW k \in Nat
      PROVE  <<g, k>> \in Places(x, a) <=>
               <<g, k>> \in P \/ (a = d /\ <<g, k>> = <<h, n + 1>>)
  <2> HIDE DEF x
  <2>1. CASE g = h
    BY <1>1, <1>3, <2>1 DEF Places
  <2>2. CASE g # h
    BY <1>1, <1>4, <2>2 DEF Places
  <2> QED
    BY <2>1, <2>2
<1>6. Places(x, a) \subseteq Handlers \X Nat /\ P \subseteq Handlers \X Nat
  BY <1>1 DEF Places
<1>7. Cardinality(P) \in Nat /\ c[a] \in Int
  BY <1>1, FS_CardinalityType
<1> HIDE DEF x
<1>8. CASE a = d
  <2>1. <<h, n + 1>> \in Handlers \X Nat
    OBVIOUS
  <2>2. Places(x, a) = P \cup {<<h, n + 1>>}
    BY <1>5, <1>6, <1>8, <2>1
  <2>3. /\ IsFiniteSet(P \cup {<<h, n + 1>>})
        /\ Cardinality(P \cup {<<h, n + 1>>}) =
             IF <<h, n + 1>> \in P THEN Cardinality(P) ELSE Cardinality(P) + 1
    BY <1>1, FS_AddElement
  <2>4. PICK q \in Nat : q = Cardinality(P)
    BY <1>7
  <2>5. IsFiniteSet(Places(x, a)) /\ Cardinality(Places(x, a)) \in {q, q + 1}
    BY <2>2, <2>3, <2>4
  <2> QED
    BY <1>1, <1>7, <1>8, <2>4, <2>5
<1>9. CASE a # d
  <2>1. \A g \in Handlers, k \in Nat : <<g, k>> \in Places(x, a) <=> <<g, k>> \in P
    BY <1>5, <1>9
  <2>2. Places(x, a) = P
    <3>1. ASSUME NEW q \in Handlers \X Nat
          PROVE  q \in Places(x, a) <=> q \in P
      BY <2>1
    <3> QED
      BY <1>6, <3>1
  <2> QED
    BY <1>1, <1>9, <2>2
<1> QED
  BY <1>8, <1>9

LEMMA CountFronted ==
  ASSUME NEW y \in [Handlers -> Seq(Assurance)], NEW c \in [Assurance -> Int],
         NEW h \in Handlers, y[h] # <<>>, Counted(y, c)
  PROVE  Counted([y EXCEPT ![h] = Front(@)], [c EXCEPT ![Last(y[h])] = @ - 1])
<1> DEFINE x == [y EXCEPT ![h] = Front(@)]
<1>0. PICK d \in Assurance : d = Last(y[h])
  BY DEF Last
<1> SUFFICES ASSUME NEW a \in Assurance
             PROVE  /\ IsFiniteSet(Places(x, a))
                    /\ [c EXCEPT ![d] = @ - 1][a] >= Cardinality(Places(x, a))
  BY <1>0 DEF Counted
<1>1. PICK P : P = Places(y, a) /\ IsFiniteSet(P) /\ c[a] >= Cardinality(P)
  BY DEF Counted
<1>2. PICK n \in Nat : n + 1 = Len(y[h])
  <2>1. PICK m \in Nat : m = Len(y[h])
    OBVIOUS
  <2>2. m # 0
    BY <2>1
  <2>3. m - 1 \in Nat /\ (m - 1) + 1 = m
    BY <2>2
  <2> QED
    BY <2>1, <2>3
<1>3. /\ DOMAIN x[h] = 1..n /\ DOMAIN y[h] = 1..(n + 1)
      /\ \A k \in 1..n : x[h][k] = y[h][k]
      /\ y[h][n + 1] = d
  BY <1>0, <1>2 DEF Front, Last
<1>4. \A g \in Handlers : g # h => x[g] = y[g]
  OBVIOUS
<1>5. ASSUME NEW g \in Handlers, NEW k \in Nat
      PROVE  <<g, k>> \in Places(x, a) <=>
               <<g, k>> \in P /\ <<g, k>> # <<h, n + 1>>
  <2> HIDE DEF x
  <2>1. CASE g = h
    <3>1. <<h, k>> \in Places(x, a) <=> k \in 1..n /\ y[h][k] = a
      BY <1>3 DEF Places
    <3>2. <<h, k>> \in P <=> k \in 1..(n + 1) /\ y[h][k] = a
      BY <1>1, <1>3 DEF Places
    <3> QED
      BY <2>1, <3>1, <3>2
  <2>2. CASE g # h
    BY <1>1, <1>4, <2>2 DEF Places
  <2> QED
    BY <2>1, <2>2
<1>6. Places(x, a) \subseteq Handlers \X Nat /\ P \subseteq Handlers \X Nat
  BY <1>1 DEF Places
<1>7. Cardinality(P) \in Nat /\ c[a] \in Int
  BY <1>1, FS_CardinalityType
<1> HIDE DEF x
<1>8. Places(x, a) = P \ {<<h, n + 1>>}
  BY <1>5, <1>6
<1>9. /\ IsFiniteSet(P \ {<<h, n + 1>>})
      /\ Cardinality(P \ {<<h, n + 1>>}) =
           IF <<h, n + 1>> \in P THEN Cardinality(P) - 1 ELSE Cardinality(P)
  BY <1>1, FS_RemoveElement
<1>10. a = d <=> <<h, n + 1>> \in P
  BY <1>1, <1>3 DEF Places
<1>11. PICK q \in Nat : q = Cardinality(P)
  BY <1>7
<1>12. /\ IsFiniteSet(Places(x, a))
       /\ Cardinality(Places(x, a)) = IF a = d THEN q - 1 ELSE q
  BY <1>8, <1>9, <1>10, <1>11
<1> QED
  BY <1>1, <1>7, <1>11, <1>12

-----------------------------------------------------------------------------
(***************************************************************************)
(* The open assures and the lists that should hold their objects.          *)
(***************************************************************************)
LEMMA AboveCount ==
  ASSUME NEW b \in Seq(Block), NEW k
  PROVE  IsFiniteSet(AboveOf(b, k)) /\ Cardinality(AboveOf(b, k)) \in Nat
<1>1. PICK n \in Nat : n = Len(b)
  OBVIOUS
<1>2. IsFiniteSet(1..n)
  BY <1>1, FS_Interval
<1>3. AboveOf(b, k) \subseteq 1..n
  BY <1>1 DEF AboveOf, AssuresOf
<1>4. IsFiniteSet(AboveOf(b, k))
  BY <1>2, <1>3, FS_Subset
<1> QED
  BY <1>4, FS_CardinalityType

(* An open assure is in a launch, so it has a handler, set below it. *)
LEMMA OuterOfAssure ==
  ASSUME Formed, Nested, NEW k \in AssuresOf(blocks)
  PROVE  \E o \in Openers(blocks, k) :
           /\ OuterOf(blocks, stack, k) = stack[o]
           /\ stack[o] \in Handlers /\ at[stack[o]] = o
           /\ o \in 1..(k - 1) /\ k \in 1..Esp
           /\ \A j \in Openers(blocks, k) : j <= o
<1>1. PICK n \in Nat : n = Esp
  BY SizeOfBlocks DEF Formed
<1>2. k \in 1..n /\ blocks[k] = "assure"
  BY <1>1 DEF AssuresOf, Esp
<1>3. blocks[1] = "launch"
  BY <1>1, <1>2 DEF Formed, Shape, Esp
<1>4. 1 \in Openers(blocks, k)
  BY <1>2, <1>3 DEF Openers, Opener
<1>5. PICK o \in Openers(blocks, k) : /\ OuterOf(blocks, stack, k) = stack[o]
                                      /\ \A j \in Openers(blocks, k) : j <= o
  BY <1>2, <1>4, OuterIs
<1>6. o \in 1..(k - 1) /\ o \in Openers(blocks, n + 1)
  BY <1>2 DEF Openers
<1>7. stack[o] \in Handlers /\ at[stack[o]] = o
  BY <1>1, <1>6 DEF Formed, Nested, Holding, Chained, Esp
<1> QED
  BY <1>1, <1>2, <1>5, <1>6, <1>7

(* Two open assures with the same handler have the same tries around them, *)
(* and the inner one has fewer above it.                                   *)
LEMMA InnerHasFewer ==
  ASSUME Formed, Nested,
         NEW k \in AssuresOf(blocks), NEW j \in AssuresOf(blocks), k < j,
         OuterOf(blocks, stack, k) = OuterOf(blocks, stack, j)
  PROVE  Cardinality(AboveOf(blocks, j)) < Cardinality(AboveOf(blocks, k))
<1>1. PICK n \in Nat : n = Esp
  BY SizeOfBlocks DEF Formed
<1>2. k \in 1..n /\ j \in 1..n
  BY <1>1 DEF AssuresOf, Esp
<1>3. PICK o \in Openers(blocks, k) : /\ OuterOf(blocks, stack, k) = stack[o]
                                      /\ at[stack[o]] = o
  BY OuterOfAssure
<1>4. PICK q \in Openers(blocks, j) : /\ OuterOf(blocks, stack, j) = stack[q]
                                      /\ at[stack[q]] = q
                                      /\ \A i \in Openers(blocks, j) : i <= q
  BY OuterOfAssure
<1>5. Openers(blocks, k) = Openers(blocks, j)
  <2>1. \A i \in Openers(blocks, j) : i <= o
    BY <1>3, <1>4
  <2>2. k \in Nat /\ j \in Nat /\ k >= 1
    BY <1>2
  <2> QED
    BY <2>1, <2>2, SameInnermost
<1>6. AboveOf(blocks, j) \cup {j} \subseteq AboveOf(blocks, k)
  BY <1>2, <1>5 DEF AboveOf, AssuresOf
<1>7. j \notin AboveOf(blocks, j)
  BY <1>2 DEF AboveOf
<1>8. blocks \in Seq(Block)
  BY SizeOfBlocks DEF Formed
<1>9. PICK S, T : S = AboveOf(blocks, j) /\ T = AboveOf(blocks, k)
  OBVIOUS
<1>10. /\ IsFiniteSet(S) /\ Cardinality(S) \in Nat
       /\ IsFiniteSet(T) /\ Cardinality(T) \in Nat
  BY <1>8, <1>9, AboveCount
<1>11. IsFiniteSet(S \cup {j}) /\ Cardinality(S \cup {j}) = Cardinality(S) + 1
  BY <1>7, <1>9, <1>10, FS_AddElement
<1>12. Cardinality(S \cup {j}) <= Cardinality(T)
  BY <1>6, <1>9, <1>10, FS_Subset
<1> QED
  BY <1>9, <1>10, <1>11, <1>12

(* So each open assure has a place of its own in the lists. *)
LEMMA EachHasItsPlace ==
  ASSUME Formed, Nested, Kept, NEW a \in Assurance,
         \A k \in AssuresOf(blocks) : Clean(blocks, loose, k)
  PROVE  Cardinality({k \in AssuresOf(blocks) : stack[k] = a}) <= checkedIn[a]
<1> DEFINE S == {k \in AssuresOf(blocks) : stack[k] = a}
           T == Places(stacklist, a)
           list(k) == stacklist[OuterOf(blocks, stack, k)]
           place(k) == Len(list(k)) - Cardinality(AboveOf(blocks, k))
           f == [k \in S |-> <<OuterOf(blocks, stack, k), place(k)>>]
<1>1. ASSUME NEW k \in S
      PROVE  <<OuterOf(blocks, stack, k), place(k)>> \in T
  <2>1. PICK h \in Handlers : h = OuterOf(blocks, stack, k)
    BY OuterOfAssure
  <2>2. place(k) \in DOMAIN list(k) /\ list(k)[place(k)] = a
    BY DEF Kept, Listed, IsListed
  <2>3. list(k) \in Seq(Assurance)
    BY <2>1 DEF Formed, TypeOK
  <2>4. place(k) \in Nat
    BY <2>2, <2>3
  <2> HIDE DEF place
  <2> QED
    BY <2>1, <2>2, <2>4 DEF Places
<1>2. ASSUME NEW k \in S, NEW j \in S, k < j, OuterOf(blocks, stack, k) = OuterOf(blocks, stack, j)
      PROVE  place(k) # place(j)
  <2>1. blocks \in Seq(Block) /\ OuterOf(blocks, stack, k) \in Handlers
    BY SizeOfBlocks, OuterOfAssure DEF Formed
  <2>2. PICK m \in Nat : m = Len(list(k))
    BY <2>1 DEF Formed, TypeOK
  <2>3. PICK x \in Nat, z \in Nat : /\ x = Cardinality(AboveOf(blocks, k))
                                    /\ z = Cardinality(AboveOf(blocks, j))
    BY <2>1, AboveCount
  <2>4. z < x
    BY <1>2, <2>3, InnerHasFewer
  <2> QED
    BY <1>2, <2>2, <2>3, <2>4
<1>3. S \subseteq Nat
  BY SizeOfBlocks DEF AssuresOf, Formed, Esp
<1>4. f \in Injection(S, T)
  <2>1. f \in [S -> T]
    BY <1>1
  <2>2. ASSUME NEW k \in S, NEW j \in S, f[k] = f[j]
        PROVE  k = j
    <3>1. OuterOf(blocks, stack, k) = OuterOf(blocks, stack, j) /\ place(k) = place(j)
      BY <2>2
    <3>2. ~(k < j) /\ ~(j < k)
      BY <1>2, <3>1
    <3> QED
      BY <1>3, <3>2
  <2> HIDE DEF f, S, T
  <2> QED
    BY <2>1, <2>2 DEF Injection, IsInjective
<1>5. IsFiniteSet(T) /\ checkedIn[a] >= Cardinality(T)
  BY DEF Kept, Counted
<1>6. IsFiniteSet(S) /\ Cardinality(S) <= Cardinality(T)
  <2> HIDE DEF f, S, T
  <2> QED
    BY <1>4, <1>5, FS_Injection
<1>7. Cardinality(S) \in Nat /\ Cardinality(T) \in Nat /\ checkedIn[a] \in Int
  <2>1. checkedIn[a] \in Int
    BY DEF Formed, TypeOK
  <2> HIDE DEF S, T
  <2> QED
    BY <1>5, <1>6, <2>1, FS_CardinalityType
<1> HIDE DEF S, T
<1>8. Cardinality(S) <= checkedIn[a]
  BY <1>5, <1>6, <1>7
<1> QED
  BY <1>8 DEF S

-----------------------------------------------------------------------------
(***************************************************************************)
(* Steps that leave blocks, or enter one that is no try and no launch.     *)
(***************************************************************************)
LEMMA Popped ==
  ASSUME NEW b \in Seq(Block), NEW n \in 0..Len(b)
  PROVE  /\ SubSeq(b, 1, n) \in Seq(Block) /\ Len(SubSeq(b, 1, n)) = n
         /\ Rewound(b, SubSeq(b, 1, n), n)
<1>1. PICK c : c = SubSeq(b, 1, n)
  OBVIOUS
<1>2. c \in Seq(Block) /\ Len(c) = n /\ \A i \in 1..n : c[i] = b[i]
  BY <1>1
<1> QED
  BY <1>1, <1>2 DEF Rewound

LEMMA PoppedAndPushed ==
  ASSUME NEW b \in Seq(Block), NEW n \in 0..Len(b), NEW x \in Block \ Opener
  PROVE  /\ Append(SubSeq(b, 1, n), x) \in Seq(Block)
         /\ Len(Append(SubSeq(b, 1, n), x)) = n + 1
         /\ Append(SubSeq(b, 1, n), x)[n + 1] = x
         /\ Rewound(b, Append(SubSeq(b, 1, n), x), n)
<1>1. PICK c : c = SubSeq(b, 1, n)
  OBVIOUS
<1>2. c \in Seq(Block) /\ Len(c) = n /\ \A i \in 1..n : c[i] = b[i]
  BY <1>1
<1>3. PICK d : d = Append(c, x)
  OBVIOUS
<1>4. d \in Seq(Block) /\ Len(d) = n + 1 /\ d[n + 1] = x /\ \A i \in 1..n : d[i] = b[i]
  BY <1>2, <1>3
<1>5. Rewound(b, d, n)
  BY <1>4 DEF Rewound
<1> QED
  BY <1>1, <1>3, <1>4, <1>5

LEMMA Pushed ==
  ASSUME NEW b \in Seq(Block), NEW n \in Nat, n = Len(b), NEW x \in Block \ Opener
  PROVE  /\ Append(b, x) \in Seq(Block) /\ Len(Append(b, x)) = n + 1
         /\ Append(b, x)[n + 1] = x
         /\ Rewound(b, Append(b, x), n)
BY DEF Rewound

LEMMA Replaced ==
  ASSUME NEW b \in Seq(Block), NEW n \in Nat, n + 1 = Len(b), NEW x \in Block \ Opener
  PROVE  /\ [b EXCEPT ![n + 1] = x] \in Seq(Block)
         /\ Len([b EXCEPT ![n + 1] = x]) = n + 1
         /\ [b EXCEPT ![n + 1] = x][n + 1] = x
         /\ Rewound(b, [b EXCEPT ![n + 1] = x], n)
BY DEF Rewound

LEMMA LeavesFormed ==
  ASSUME Formed, NEW n \in Nat, blocks' \in Seq(Block), Esp' <= MaxSlot,
         Rewound(blocks, blocks', n), n = 0 => Esp' = 0,
         Esp' = n + 1 => blocks[n] # "launch" \/ blocks'[n + 1] = "method",
         stack' \in [Slot -> Handlers \cup Assurance \cup {Null}],
         SameUpTo(stack, stack', n),
         UNCHANGED <<parent, at>>, ehdr' = ehdr \/ \E h \in Handlers : ehdr' = parent[h],
         stacklist' \in [Handlers -> Seq(Assurance)], checkedIn' \in [Assurance -> Int],
         throwing' \in BOOLEAN, UNCHANGED shared,
         loose' \subseteq {i \in 1..n : blocks[i] = "launch"},
         status' \in {"running", "assertion", "exit", "lost"}
  PROVE  Formed'
<1>1. blocks \in Seq(Block) /\ loose \subseteq 1..Len(blocks)
  BY SizeOfBlocks DEF Formed, TypeOK, Esp
<1>2. Shape(blocks')
  <2>1. /\ n = 0 => Len(blocks') = 0
        /\ Len(blocks') = n + 1 => blocks[n] # "launch" \/ blocks'[n + 1] = "method"
    BY DEF Esp
  <2>2. Shape(blocks)
    BY DEF Formed
  <2> QED
    BY <1>1, <2>1, <2>2, RewindShape
<1>3. Holding(blocks', stack')
  <2>1. Holding(blocks, stack)
    BY DEF Formed
  <2>2. loose \cap (1..n) \subseteq loose
    OBVIOUS
  <2> QED
    BY <1>1, <2>1, <2>2, RewindChained
<1>4. WasSet(ehdr', parent', at')
  BY DEF Formed, WasSet
<1>5. TypeOK'
  <2>1. loose' \subseteq {i \in 1..Len(blocks') : blocks'[i] = "launch"}
    BY <1>1 DEF Rewound
  <2>2. ehdr' \in Handlers \cup {Null}
    BY DEF Formed, TypeOK
  <2>3. UNCHANGED <<parent, at, shared>> /\ TypeOK /\ blocks' \in Seq(Code \cup {"launch"})
    BY DEF Formed, Block
  <2> QED
    BY <2>1, <2>2, <2>3 DEF TypeOK, Esp, Handlers
<1> QED
  BY <1>2, <1>3, <1>4, <1>5 DEF Formed

(* A launch below slot i in which something was left by the way. *)
LEMMA NotClean ==
  ASSUME NEW b, NEW M, NEW i \in Nat, NEW l \in M, l < i,
         \A m \in (l + 1)..(i - 1) : b[m] # "launch"
  PROVE  ~Clean(b, M, i)
BY DEF Clean

(* The blocks above n that are left have no try, or their launch is loose. *)
LeavesNoTry(n) ==
  \/ \A j \in (n + 1)..Esp : blocks[j] \notin Opener
  \/ CurrentLaunch <= n /\ CurrentLaunch \in loose'

LEMMA LeavesUnclean ==
  ASSUME Formed, NEW n \in Nat, blocks' \in Seq(Block), Rewound(blocks, blocks', n),
         Esp > 0, CurrentLaunch <= n, CurrentLaunch \in loose'
  PROVE  \A i \in (CurrentLaunch + 1)..(Esp' + 1) : ~Clean(blocks', loose', i)
<1>1. PICK l \in Nat, m \in Nat : l = CurrentLaunch /\ m = Esp'
  BY InLaunch, SizeOfBlocks DEF Formed, Esp
<1>2. TypeOK /\ Shape(blocks)
  BY DEF Formed
<1>3. \A i \in (l + 1)..Esp : blocks[i] # "launch"
  BY <1>1, <1>2, InLaunch
<1>4. \A i \in (l + 1)..m : blocks'[i] # "launch"
  BY <1>1, <1>2, <1>3, SizeOfBlocks DEF Rewound, Opener, Esp
<1> SUFFICES ASSUME NEW i \in (l + 1)..(m + 1)
             PROVE  ~Clean(blocks', loose', i)
  BY <1>1
<1>5. l \in loose'
  BY <1>1
<1>6. l < i /\ i \in Nat
  BY <1>1
<1>7. \A j \in (l + 1)..(i - 1) : j \in (l + 1)..m
  OBVIOUS
<1>8. \A j \in (l + 1)..(i - 1) : blocks'[j] # "launch"
  BY <1>4, <1>7
<1> QED
  BY <1>5, <1>6, <1>8, NotClean

LEMMA LeavesNested ==
  ASSUME Formed, Nested, NEW n \in Nat, blocks' \in Seq(Block),
         Rewound(blocks, blocks', n), SameUpTo(stack, stack', n),
         UNCHANGED <<ehdr, parent, at>>, loose \cap (1..n) \subseteq loose',
         LeavesNoTry(n)
  PROVE  Nested'
<1>1. blocks \in Seq(Block) /\ loose \subseteq 1..Len(blocks)
  BY SizeOfBlocks DEF Formed, TypeOK, Esp
<1>2. PICK p, t, e : p = parent /\ t = at /\ e = ehdr
  OBVIOUS
<1>3. Chained(blocks', stack', p, t, loose')
  <2>1. Chained(blocks, stack, p, t, loose)
    BY <1>2 DEF Nested
  <2> QED
    BY <1>1, <2>1, RewindChained
<1>4. Confined(blocks', stack', e, p, t)
  <2>1. Confined(blocks, stack, e, p, t)
    BY <1>2 DEF Nested
  <2>2. \A l \in 1..n : \A C \in SUBSET Handlers :
          blocks[l] = "launch" /\ Reach(blocks, stack, e, p, t, l, C) => e \in C
    BY DEF Reach
  <2> QED
    BY <1>1, <2>1, <2>2, RewindConfined
<1>5. Innermost(blocks', stack', ehdr, loose')
  <2>1. PICK m \in Nat, k \in Nat : m = Len(blocks') /\ k = Len(blocks)
    BY <1>1
  <2>2. n \in 0..k /\ m \in n..(n + 1)
    BY <2>1 DEF Rewound
  <2>3. CASE \A j \in (n + 1)..k : blocks[j] \notin Opener
    <3>1. Openers(blocks, n + 1) = Openers(blocks, k + 1)
      BY <2>2, <2>3 DEF Openers
    <3>2. OuterOf(blocks', stack', m + 1) = OuterOf(blocks, stack, k + 1)
      <4>1. OuterOf(blocks', stack', m + 1) = OuterOf(blocks, stack, n + 1)
        BY <1>1, <2>1, OuterKept
      <4> QED
        BY <3>1, <4>1 DEF OuterOf
    <3>3. ASSUME Clean(blocks', loose', m + 1)
          PROVE  Clean(blocks, loose, k + 1)
      <4>1. Clean(blocks', loose', Len(blocks') + 1)
        BY <2>1, <3>3
      <4>2. Clean(blocks, loose, n + 1)
        BY <1>1, <4>1, CleanKept
      <4>3. \A l \in loose : l \in 1..k /\ blocks[l] = "launch"
        BY <1>1, <2>1 DEF Formed, TypeOK
      <4>4. \A l \in loose : l < n + 1
        BY <2>2, <2>3, <4>3 DEF Opener
      <4> QED
        BY <2>2, <4>2, <4>3, <4>4 DEF Clean
    <3> QED
      BY <2>1, <3>2, <3>3 DEF Nested, Innermost
  <2>4. CASE CurrentLaunch <= n /\ CurrentLaunch \in loose' /\ k > 0
    <3>1. \A i \in (CurrentLaunch + 1)..(m + 1) : ~Clean(blocks', loose', i)
      BY <2>1, <2>4, LeavesUnclean DEF Esp
    <3>2. CurrentLaunch \in 1..k
      BY <2>1, <2>4, InLaunch DEF Formed, Esp
    <3>3. m + 1 \in (CurrentLaunch + 1)..(m + 1)
      BY <2>2, <2>4, <3>2
    <3> QED
      BY <2>1, <3>1, <3>3 DEF Innermost
  <2>5. k > 0 \/ \A j \in (n + 1)..k : blocks[j] \notin Opener
    BY <2>1
  <2> QED
    BY <2>1, <2>3, <2>4, <2>5 DEF LeavesNoTry, Esp
<1> QED
  BY <1>2, <1>3, <1>4, <1>5 DEF Nested

(* A loose launch keeps the assures inside it apart from those outside. *)
LEMMA AssuresApart ==
  ASSUME Formed, NEW n \in Nat, blocks' \in Seq(Block), Rewound(blocks, blocks', n),
         CurrentLaunch <= n, CurrentLaunch \in loose',
         NEW k \in AssuresOf(blocks), NEW j \in AssuresOf(blocks),
         k <= n, n < j, Clean(blocks', loose', k)
  PROVE  Openers(blocks, j) # Openers(blocks, k)
<1>1. blocks \in Seq(Block) /\ loose \subseteq 1..Len(blocks)
  BY SizeOfBlocks DEF Formed, TypeOK, Esp
<1>2. PICK m \in Nat, q \in Nat : m = Esp' /\ q = Esp
  BY <1>1 DEF Esp
<1>3. /\ k \in 1..q /\ j \in 1..q /\ blocks[k] = "assure" /\ blocks[j] = "assure"
      /\ m \in n..(n + 1)
  BY <1>2 DEF AssuresOf, Esp, Rewound
<1>4. PICK l \in 1..q : /\ l = CurrentLaunch /\ blocks[l] = "launch"
                        /\ l <= n /\ l \in loose'
  BY <1>2, <1>3, InLaunch DEF Formed
<1>5. k < l
  <2>1. \A i \in (l + 1)..(m + 1) : ~Clean(blocks', loose', i)
    <3>1. Esp > 0
      BY <1>2, <1>3
    <3>2. \A i \in (CurrentLaunch + 1)..(Esp' + 1) : ~Clean(blocks', loose', i)
      BY <3>1, LeavesUnclean
    <3> QED
      BY <1>2, <1>4, <3>2
  <2>2. ~(k \in (l + 1)..(m + 1)) /\ k # l
    BY <1>3, <1>4, <2>1
  <2> QED
    BY <1>3, <1>4, <2>2
<1>6. l \in Openers(blocks, j) /\ l \notin Openers(blocks, k)
  BY <1>3, <1>4, <1>5 DEF Openers, Opener
<1> QED
  BY <1>6

(* Nor an assure. *)
LeavesNoAssure(n) ==
  \/ \A j \in (n + 1)..Esp : blocks[j] # "assure"
  \/ CurrentLaunch <= n /\ CurrentLaunch \in loose'

LEMMA LeavesListed ==
  ASSUME Formed, NEW n \in Nat, blocks' \in Seq(Block),
         Rewound(blocks, blocks', n), SameUpTo(stack, stack', n),
         Esp' = n + 1 => blocks'[n + 1] # "assure",
         loose \cap (1..n) \subseteq loose', LeavesNoAssure(n)
  PROVE  Listed(blocks, stack, loose, stacklist) => Listed(blocks', stack', loose', stacklist)
<1> SUFFICES ASSUME Listed(blocks, stack, loose, stacklist)
             PROVE  Listed(blocks', stack', loose', stacklist)
  OBVIOUS
<1>1. blocks \in Seq(Block) /\ loose \subseteq 1..Len(blocks)
  BY SizeOfBlocks DEF Formed, TypeOK, Esp
<1>2. PICK y : y = stacklist
  OBVIOUS
<1>3. ASSUME NEW k \in AssuresOf(blocks), NEW j \in AssuresOf(blocks),
             k <= n, n < j, Clean(blocks', loose', k)
      PROVE  Openers(blocks, j) # Openers(blocks, k)
  <2>1. j \in 1..Esp /\ blocks[j] = "assure"
    BY DEF AssuresOf, Esp
  <2>2. CurrentLaunch <= n /\ CurrentLaunch \in loose'
    BY <1>3, <2>1, SizeOfBlocks DEF LeavesNoAssure, Formed
  <2> QED
    BY <1>3, <2>2, AssuresApart
<1>4. /\ Len(blocks') = n + 1 => blocks'[n + 1] # "assure"
      /\ Listed(blocks, stack, loose, y)
      /\ Apart(blocks, blocks', n, loose')
      /\ ListsKept(blocks, stack, loose, n, y, y)
  BY <1>2, <1>3 DEF Esp, Apart, ListsKept
<1>5. Listed(blocks', stack', loose', y)
  BY <1>1, <1>4, RewindListed
<1> QED
  BY <1>2, <1>5

-----------------------------------------------------------------------------
(***************************************************************************)
(* The jump to where a handler was set.                                    *)
(***************************************************************************)
(* The jump of Land, for a handler set in slot n + 1. *)
Landing(n) ==
  /\ n + 1 <= Esp /\ at[ehdr] = n + 1 /\ stack[n + 1] = ehdr
  /\ blocks[n + 1] \notin {"method", "assure"}
  /\ blocks' \in Seq(Block) /\ Rewound(blocks, blocks', n)
  /\ Esp' = n + 1 => blocks'[n + 1] \in {"catch", "finally"}
  /\ loose' = loose \cap 1..Esp' /\ ehdr' = parent[ehdr]
  /\ UNCHANGED <<stack, parent, at>>

(* It lands on an open try or launch, or inside a loose launch. *)
LEMMA LandsWhere ==
  ASSUME Formed, Nested, NEW n \in Nat, Landing(n)
  PROVE  \/ n + 1 \in Openers(blocks, Esp + 1)
         \/ CurrentLaunch <= n /\ CurrentLaunch \in loose'
<1>1. PICK q \in Nat : q = Esp
  BY SizeOfBlocks DEF Formed
<1>2. q > 0 /\ n + 1 <= q
  BY <1>1 DEF Landing
<1>3. CASE CurrentLaunch \notin loose
  <2>1. \E o \in Openers(blocks, Esp + 1) : at[ehdr] = o
    BY <1>1, <1>2, <1>3, WhereItIs
  <2> QED
    BY <2>1 DEF Landing
<1>4. CASE CurrentLaunch \in loose
  <2>1. PICK l \in 1..q : /\ l = CurrentLaunch /\ blocks[l] = "launch" /\ l <= at[ehdr]
    BY <1>1, <1>2, InLaunch, WhereItIs DEF Formed
  <2>2. l <= n + 1
    BY <2>1 DEF Landing
  <2>3. CASE l = n + 1
    <3>1. n + 1 \in Openers(blocks, q + 1)
      BY <1>2, <2>1, <2>3 DEF Openers, Opener
    <3> QED
      BY <1>1, <3>1
  <2>4. CASE l <= n
    <3>1. Esp' \in n..(n + 1)
      BY DEF Landing, Rewound, Esp
    <3>2. l \in 1..Esp'
      BY <2>1, <2>4, <3>1
    <3> QED
      BY <1>4, <2>1, <2>4, <3>2 DEF Landing
  <2> QED
    BY <2>1, <2>2, <2>3, <2>4
<1> QED
  BY <1>3, <1>4

LEMMA LandsNested ==
  ASSUME Formed, Nested, NEW n \in Nat, Landing(n)
  PROVE  Nested'
<1>1. /\ blocks \in Seq(Block) /\ loose \subseteq 1..Len(blocks)
      /\ blocks' \in Seq(Block) /\ Rewound(blocks, blocks', n)
      /\ SameUpTo(stack, stack', n)
  BY SizeOfBlocks DEF Formed, TypeOK, Esp, Landing, SameUpTo
<1>2. PICK p, t, e, f : p = parent /\ t = at /\ e = ehdr /\ f = ehdr'
  OBVIOUS
<1>3. PICK q \in Nat, m \in Nat : q = Len(blocks) /\ m = Len(blocks')
  BY <1>1
<1>4. loose \cap (1..n) \subseteq loose'
  BY <1>1, <1>3 DEF Landing, Rewound, Esp
<1>5. Chained(blocks', stack', p, t, loose')
  <2>1. Chained(blocks, stack, p, t, loose)
    BY <1>2 DEF Nested
  <2> QED
    BY <1>1, <1>4, <2>1, RewindChained
<1>6. Confined(blocks', stack', f, p, t)
  <2>1. Confined(blocks, stack, e, p, t)
    BY <1>2 DEF Nested
  <2>2. ASSUME NEW l \in 1..n, NEW C \in SUBSET Handlers, blocks[l] = "launch",
               Reach(blocks, stack, e, p, t, l, C)
        PROVE  f \in C
    <3>1. l \in Openers(blocks, q + 1)
      BY <1>1, <1>3, <2>2 DEF Openers, Opener, Rewound
    <3>2. t[stack[l]] = l
      BY <1>2, <1>3, <3>1 DEF Nested, Chained
    <3>3. t[e] = n + 1 /\ f = p[e]
      BY <1>2 DEF Landing
    <3> QED
      BY <2>2, <3>2, <3>3 DEF Reach
  <2>3. \A l \in 1..n : \A C \in SUBSET Handlers :
          blocks[l] = "launch" /\ Reach(blocks, stack, e, p, t, l, C) => f \in C
    BY <2>2
  <2> QED
    BY <1>1, <2>1, <2>3, RewindConfined
<1>8. OuterOf(blocks', stack', Len(blocks') + 1) = OuterOf(blocks, stack, n + 1)
  BY <1>1, OuterKept
<1>7. Innermost(blocks', stack', ehdr', loose')
  <2> SUFFICES ASSUME Clean(blocks', loose', m + 1)
               PROVE  f = OuterOf(blocks', stack', m + 1)
    BY <1>2, <1>3 DEF Innermost
  <2>1. CASE n + 1 \in Openers(blocks, q + 1)
    <3>1. Clean(blocks', loose', Len(blocks') + 1)
      BY <1>3
    <3>2. Clean(blocks, loose, n + 1)
      BY <1>1, <1>4, <3>1, CleanKept
    <3>3. parent[stack[n + 1]] = OuterOf(blocks, stack, n + 1)
      BY <1>3, <2>1, <3>2 DEF Nested, Chained
    <3> QED
      BY <1>2, <1>3, <1>8, <3>3 DEF Landing
  <2>2. CASE CurrentLaunch <= n /\ CurrentLaunch \in loose'
    <3>1. Esp > 0 /\ Esp' = m /\ Esp = q /\ m >= n /\ q > 0
      BY <1>1, <1>3 DEF Landing, Rewound, Esp
    <3>2. \A i \in (CurrentLaunch + 1)..(m + 1) : ~Clean(blocks', loose', i)
      BY <1>1, <2>2, <3>1, LeavesUnclean
    <3>3. CurrentLaunch \in 1..q
      BY <3>1, InLaunch DEF Formed
    <3>4. m + 1 \in (CurrentLaunch + 1)..(m + 1)
      BY <2>2, <3>1, <3>3
    <3> QED
      BY <3>2, <3>4
  <2> QED
    BY <1>3, <2>1, <2>2, LandsWhere DEF Esp
<1> QED
  BY <1>2, <1>5, <1>6, <1>7 DEF Nested, Landing

LEMMA LandsListed ==
  ASSUME Formed, Nested, NEW n \in Nat, Landing(n),
         Listed(blocks, stack, loose, stacklist),
         stacklist' = [stacklist EXCEPT ![ehdr] = <<>>]
  PROVE  Listed(blocks', stack', loose', stacklist')
<1>1. /\ blocks \in Seq(Block) /\ loose \subseteq 1..Len(blocks)
      /\ blocks' \in Seq(Block) /\ Rewound(blocks, blocks', n)
      /\ SameUpTo(stack, stack', n)
  BY SizeOfBlocks DEF Formed, TypeOK, Esp, Landing, SameUpTo
<1>2. PICK y, x : y = stacklist /\ x = stacklist'
  OBVIOUS
<1>3. loose \cap (1..n) \subseteq loose'
  <2>1. PICK m \in Nat : m = Len(blocks')
    BY <1>1
  <2> QED
    BY <1>1, <2>1 DEF Landing, Rewound, Esp
<1>4. ASSUME NEW k \in AssuresOf(blocks), NEW j \in AssuresOf(blocks),
             k <= n, n < j, Clean(blocks', loose', k)
      PROVE  Openers(blocks, j) # Openers(blocks, k)
  <2>1. CASE n + 1 \in Openers(blocks, Esp + 1)
    <3>1. j # n + 1 /\ j \in Nat
      BY <1>1 DEF AssuresOf, Landing
    <3>2. n + 1 < j /\ n + 1 \in 1..(j - 1) /\ blocks[n + 1] \in Opener
      BY <1>4, <2>1, <3>1 DEF Openers
    <3>3. n + 1 \in Openers(blocks, j) /\ n + 1 \notin Openers(blocks, k)
      BY <1>1, <1>4, <3>2 DEF Openers, AssuresOf
    <3> QED
      BY <3>3
  <2>2. CASE CurrentLaunch <= n /\ CurrentLaunch \in loose'
    BY <1>1, <1>4, <2>2, AssuresApart
  <2> QED
    BY <2>1, <2>2, LandsWhere
<1>5. ASSUME NEW k \in AssuresOf(blocks), k <= n
      PROVE  x[OuterOf(blocks, stack, k)] = y[OuterOf(blocks, stack, k)]
  <2>1. PICK h \in Handlers : /\ h = OuterOf(blocks, stack, k)
                              /\ at[h] \in 1..(k - 1)
    BY OuterOfAssure
  <2>2. h # ehdr
    <3>1. at[ehdr] = n + 1 /\ k \in Nat
      BY <1>1 DEF Landing, AssuresOf
    <3> QED
      BY <1>5, <2>1, <3>1
  <2>3. stacklist \in [Handlers -> Seq(Assurance)]
    BY DEF Formed, TypeOK
  <2> QED
    BY <1>2, <2>1, <2>2, <2>3
<1>6. /\ Len(blocks') = n + 1 => blocks'[n + 1] # "assure"
      /\ Listed(blocks, stack, loose, y)
      /\ Apart(blocks, blocks', n, loose')
      /\ ListsKept(blocks, stack, loose, n, y, x)
  BY <1>2, <1>4, <1>5 DEF Esp, Landing, Apart, ListsKept
<1>7. Listed(blocks', stack', loose', x)
  BY <1>1, <1>3, <1>6, RewindListed
<1> QED
  BY <1>2, <1>7

-----------------------------------------------------------------------------
(***************************************************************************)
(* The handler that a try or a launch sets.                                *)
(***************************************************************************)
(* The blocks c are the n blocks b with a try, or a launch and its method. *)
Entered(b, c, n) ==
  /\ n = Len(b) /\ \A i \in 1..n : c[i] = b[i]
  /\ \/ Len(c) = n + 1 /\ c[n + 1] = "try"
     \/ Len(c) = n + 2 /\ c[n + 1] = "launch" /\ c[n + 2] = "method"

Entering(h, n) ==
  /\ n < MaxSlot /\ Esp' <= MaxSlot
  /\ blocks' \in Seq(Block) /\ Entered(blocks, blocks', n)
  /\ IF n = 0 THEN blocks'[1] = "launch" ELSE blocks[n] # "launch"
  /\ stack' = [stack EXCEPT ![n + 1] = h] /\ ehdr' = h
  /\ parent' = [parent EXCEPT ![h] = ehdr] /\ at' = [at EXCEPT ![h] = n + 1]
  /\ UNCHANGED loose

LEMMA EnteredKeeps ==
  ASSUME NEW b \in Seq(Block), NEW c \in Seq(Block), NEW n \in Nat, Entered(b, c, n),
         NEW s, NEW z, SameUpTo(s, z, n), NEW L \in SUBSET (1..n)
  PROVE  \A i \in 1..(n + 1) : /\ Openers(c, i) = Openers(b, i)
                               /\ OuterOf(c, z, i) = OuterOf(b, s, i)
                               /\ Clean(c, L, i) => Clean(b, L, i)
<1>1. PICK m \in Nat : m = Len(c)
  OBVIOUS
<1>2. m \in (n + 1)..(n + 2) /\ \A i \in 1..n : c[i] = b[i]
  BY <1>1 DEF Entered
<1>3. Rewound(c, b, n)
  BY <1>1, <1>2 DEF Rewound, Entered
<1>4. \A i \in 1..(n + 1) : Openers(b, i) = Openers(c, i)
  BY <1>3, OpenersKept
<1>5. \A i \in 1..(n + 1) : OuterOf(b, s, i) = OuterOf(c, z, i)
  <2>1. SameUpTo(z, s, n)
    BY DEF SameUpTo
  <2> QED
    BY <1>3, <2>1, OuterKept
<1>6. \A i \in 1..(n + 1) : Clean(c, L, i) => Clean(b, L, i)
  <2> SUFFICES ASSUME NEW i \in 1..(n + 1), Clean(c, L, i), NEW l \in L, l < i
               PROVE  \E k \in (l + 1)..(i - 1) : b[k] = "launch"
    BY DEF Clean
  <2>1. PICK k \in (l + 1)..(i - 1) : c[k] = "launch"
    BY DEF Clean
  <2> QED
    BY <1>2, <2>1
<1> QED
  BY <1>4, <1>5, <1>6

LEMMA EnteredOuter ==
  ASSUME NEW b \in Seq(Block), NEW c \in Seq(Block), NEW n \in Nat, Entered(b, c, n), NEW z
  PROVE  /\ Openers(c, Len(c) + 1) = Openers(b, n + 1) \cup {n + 1}
         /\ OuterOf(c, z, Len(c) + 1) = z[n + 1]
<1>1. PICK m \in Nat : m = Len(c)
  OBVIOUS
<1>2. m \in (n + 1)..(n + 2) /\ \A i \in 1..n : c[i] = b[i]
  BY <1>1 DEF Entered
<1>3. Openers(c, m + 1) = Openers(b, n + 1) \cup {n + 1}
  BY <1>1, <1>2 DEF Openers, Opener, Entered
<1>4. OuterOf(c, z, m + 1) = z[n + 1]
  <2>1. Openers(c, m + 1) # {} /\ m + 1 \in Nat
    <3>1. n + 1 \in Openers(c, m + 1)
      BY <1>3
    <3> QED
      BY <3>1
  <2>2. PICK o \in Openers(c, m + 1) : /\ OuterOf(c, z, m + 1) = z[o]
                                       /\ \A j \in Openers(c, m + 1) : j <= o
    BY <2>1, OuterIs
  <2>3. n + 1 <= o /\ o \in Openers(b, n + 1) \cup {n + 1}
    BY <1>3, <2>2
  <2>4. o = n + 1
    BY <2>3 DEF Openers
  <2> QED
    BY <2>2, <2>4
<1> QED
  BY <1>1, <1>3, <1>4

LEMMA EntersFormed ==
  ASSUME Formed, NEW n \in Nat, NEW h \in Handlers, Entering(h, n),
         stacklist' \in [Handlers -> Seq(Assurance)], shared' \in BOOLEAN,
         throwing' \in BOOLEAN, UNCHANGED <<checkedIn, status>>
  PROVE  Formed'
<1>1. PICK m \in Nat : m = Len(blocks')
  BY DEF Entering
<1>2. /\ n = Len(blocks) /\ m \in (n + 1)..(n + 2) /\ blocks \in Seq(Block)
      /\ \A i \in 1..n : blocks'[i] = blocks[i]
      /\ n < MaxSlot /\ m <= MaxSlot /\ MaxSlot \in Nat
      /\ TypeOK
  BY <1>1, SizeOfBlocks DEF Entering, Entered, Esp, Formed
<1>3. Shape(blocks')
  <2>1. blocks'[1] = "launch"
    BY <1>2 DEF Formed, Shape, Entering
  <2>2. ASSUME NEW i \in 1..(m - 1), blocks'[i] = "launch"
        PROVE  blocks'[i + 1] = "method"
    <3>1. CASE i < n
      <4>1. blocks[i] = "launch" /\ blocks'[i + 1] = blocks[i + 1] /\ i \in 1..(n - 1)
        BY <1>2, <2>2, <3>1
      <4> QED
        BY <1>2, <4>1 DEF Formed, Shape
    <3>2. CASE i = n
      BY <1>2, <2>2, <3>2 DEF Entering
    <3>3. CASE i > n
      BY <1>1, <1>2, <2>2, <3>3 DEF Entering, Entered
    <3> QED
      BY <1>2, <3>1, <3>2, <3>3
  <2> QED
    BY <1>1, <2>1, <2>2 DEF Shape
<1>4. Holding(blocks', stack')
  <2> SUFFICES ASSUME NEW i \in Openers(blocks', m + 1)
               PROVE  stack'[i] \in Handlers
    BY <1>1 DEF Holding
  <2>1. i \in 1..(n + 1)
    BY <1>1, <1>2 DEF Openers, Opener, Entering, Entered
  <2>2. CASE i = n + 1
    BY <1>2, <2>2, SMTT(30) DEF Entering, TypeOK, Slot
  <2>3. CASE i # n + 1
    <3>1. i \in Openers(blocks, n + 1)
      <4>1. i \in 1..n /\ blocks'[i] \in Opener
        BY <2>1, <2>3 DEF Openers
      <4> QED
        BY <1>2, <4>1 DEF Openers
    <3> QED
      BY <1>2, <2>1, <2>3, <3>1 DEF Formed, Holding, Entering, TypeOK, Slot
  <2> QED
    BY <2>2, <2>3
<1>5. WasSet(ehdr', parent', at')
  BY <1>2 DEF Formed, TypeOK, WasSet, Entering
<1>6. TypeOK'
  <2>1. loose' \subseteq {i \in 1..Esp' : blocks'[i] = "launch"}
    BY <1>1, <1>2 DEF TypeOK, Entering, Esp
  <2>2. /\ stack' \in [Slot -> Handlers \cup Assurance \cup {Null}]
        /\ ehdr' \in Handlers \cup {Null}
        /\ parent' \in [Handlers -> Handlers \cup {Null}]
        /\ at' \in [Handlers -> 0..MaxSlot]
    BY <1>2, SMTT(30) DEF TypeOK, Entering, Slot
  <2>3. blocks' \in Seq(Code \cup {"launch"}) /\ Esp' <= MaxSlot
    BY DEF Entering, Block
  <2> QED
    BY <1>2, <2>1, <2>2, <2>3 DEF TypeOK, Handlers
<1> QED
  BY <1>3, <1>4, <1>5, <1>6 DEF Formed

LEMMA EntersNested ==
  ASSUME Formed, Nested, NEW n \in Nat, NEW h \in Handlers, Entering(h, n),
         OpenAt(h) = {}
  PROVE  Nested'
<1>1. PICK m \in Nat : m = Len(blocks')
  BY DEF Entering
<1>2. /\ n = Len(blocks) /\ m \in (n + 1)..(n + 2)
      /\ blocks \in Seq(Block) /\ blocks' \in Seq(Block) /\ Entered(blocks, blocks', n)
      /\ n + 1 \in Slot /\ MaxSlot \in Nat /\ loose \in SUBSET (1..n)
      /\ stack \in [Slot -> Handlers \cup Assurance \cup {Null}]
      /\ parent \in [Handlers -> Handlers \cup {Null}]
      /\ at \in [Handlers -> 0..MaxSlot] /\ ehdr \in Handlers \cup {Null}
  BY <1>1, SizeOfBlocks, SMTT(30) DEF Entering, Entered, Esp, Formed, TypeOK, Slot
<1>3. SameUpTo(stack, stack', n) /\ stack'[n + 1] = h
  BY <1>2 DEF SameUpTo, Entering, Slot
<1>4. /\ \A i \in 1..(n + 1) :
           /\ Openers(blocks', i) = Openers(blocks, i)
           /\ OuterOf(blocks', stack', i) = OuterOf(blocks, stack, i)
           /\ Clean(blocks', loose, i) => Clean(blocks, loose, i)
      /\ Openers(blocks', Len(blocks') + 1) = Openers(blocks, n + 1) \cup {n + 1}
      /\ OuterOf(blocks', stack', Len(blocks') + 1) = h
  <2>1. PICK z : z = stack'
    OBVIOUS
  <2>2. SameUpTo(stack, z, n) /\ z[n + 1] = h
    BY <1>3, <2>1
  <2>3. /\ blocks \in Seq(Block) /\ blocks' \in Seq(Block)
        /\ Entered(blocks, blocks', n) /\ loose \in SUBSET (1..n)
    BY <1>2
  <2>4. \A i \in 1..(n + 1) :
          /\ Openers(blocks', i) = Openers(blocks, i)
          /\ OuterOf(blocks', z, i) = OuterOf(blocks, stack, i)
          /\ Clean(blocks', loose, i) => Clean(blocks, loose, i)
    BY <2>2, <2>3, EnteredKeeps
  <2>5. /\ Openers(blocks', Len(blocks') + 1) = Openers(blocks, n + 1) \cup {n + 1}
        /\ OuterOf(blocks', z, Len(blocks') + 1) = z[n + 1]
    BY <2>3, EnteredOuter
  <2> QED
    BY <2>1, <2>2, <2>4, <2>5
<1>5. ASSUME NEW i \in Openers(blocks, n + 1)
      PROVE  /\ i \in 1..n /\ stack[i] # h /\ stack[i] \in Handlers
             /\ at[stack[i]] = i /\ stack'[i] = stack[i]
             /\ Clean(blocks, loose, i) => parent[stack[i]] = OuterOf(blocks, stack, i)
  <2>1. i \in 1..n /\ blocks[i] \in Opener
    BY DEF Openers
  <2>2. i \in Openers(blocks, Len(blocks) + 1)
    BY <1>2
  <2>3. stack[i] # h
    BY <1>2, <2>1 DEF OpenAt, Esp, Opener
  <2> QED
    BY <1>3, <2>1, <2>2, <2>3 DEF Formed, Holding, Nested, Chained, SameUpTo
<1>6. Chained(blocks', stack', parent', at', loose')
  <2> SUFFICES ASSUME NEW i \in Openers(blocks', m + 1)
               PROVE  /\ at'[stack'[i]] = i
                      /\ Clean(blocks', loose, i) =>
                           parent'[stack'[i]] = OuterOf(blocks', stack', i)
    BY <1>1 DEF Chained, Entering
  <2>1. CASE i = n + 1
    <3>1. at'[h] = n + 1 /\ parent'[h] = ehdr
      BY <1>2 DEF Entering
    <3>2. Clean(blocks', loose, n + 1) => ehdr = OuterOf(blocks', stack', n + 1)
      BY <1>2, <1>4 DEF Nested, Innermost
    <3> QED
      BY <1>3, <2>1, <3>1, <3>2
  <2>2. CASE i \in Openers(blocks, n + 1)
    <3>1. at'[stack[i]] = at[stack[i]] /\ parent'[stack[i]] = parent[stack[i]]
      BY <1>2, <1>5, <2>2 DEF Entering
    <3> QED
      BY <1>4, <1>5, <2>2, <3>1
  <2> QED
    BY <1>1, <1>4, <2>1, <2>2
<1>7. Innermost(blocks', stack', ehdr', loose')
  BY <1>3, <1>4 DEF Innermost, Entering
<1>8. Confined(blocks', stack', ehdr', parent', at')
  <2> SUFFICES ASSUME NEW l \in 1..m, blocks'[l] = "launch"
               PROVE  \E C \in SUBSET Handlers :
                        Reach(blocks', stack', ehdr', parent', at', l, C)
    BY <1>1 DEF Confined
  <2>1. CASE l = n + 1
    <3>1. \A i \in Openers(blocks', m + 1) : ~(i > l)
      BY <1>1, <1>4, <1>5, <2>1
    <3>2. Reach(blocks', stack', ehdr', parent', at', l, {h})
      BY <1>1, <1>3, <2>1, <3>1 DEF Reach, Entering
    <3>3. {h} \in SUBSET Handlers
      OBVIOUS
    <3> QED
      BY <3>2, <3>3
  <2>2. CASE l \in 1..n
    <3>1. blocks[l] = "launch" /\ stack'[l] = stack[l]
      BY <1>2, <1>3, <2>2 DEF Entered, SameUpTo
    <3>2. PICK C \in SUBSET Handlers : Reach(blocks, stack, ehdr, parent, at, l, C)
      BY <1>2, <2>2, <3>1 DEF Nested, Confined
    <3>3. \A i \in Openers(blocks', m + 1) : i > l => stack'[i] \in C \cup {h}
      BY <1>1, <1>2, <1>3, <1>4, <1>5, <3>2 DEF Reach
    <3>4. \A g \in (C \cup {h}) \ {stack[l]} : parent'[g] \in C \cup {h} /\ at'[g] > l
      <4> SUFFICES ASSUME NEW g \in (C \cup {h}) \ {stack[l]}
                   PROVE  parent'[g] \in C \cup {h} /\ at'[g] > l
        OBVIOUS
      <4>1. CASE g = h
        BY <1>2, <2>2, <3>2, <4>1 DEF Reach, Entering
      <4>2. CASE g # h
        BY <1>2, <3>2, <4>2 DEF Reach, Entering
      <4> QED
        BY <4>1, <4>2
    <3>5. Reach(blocks', stack', ehdr', parent', at', l, C \cup {h})
      BY <1>1, <3>1, <3>2, <3>3, <3>4 DEF Reach, Entering
    <3>6. C \cup {h} \in SUBSET Handlers
      OBVIOUS
    <3> QED
      BY <3>5, <3>6
  <2>3. l # n + 2
    BY <1>1, <1>2 DEF Entered
  <2>4. l = n + 1 \/ l \in 1..n
    <3>1. m = n + 1 \/ m = n + 2
      BY <1>2
    <3> QED
      BY <2>3, <3>1
  <2> QED
    BY <2>1, <2>2, <2>4
<1> QED
  BY <1>6, <1>7, <1>8 DEF Nested

LEMMA EntersListed ==
  ASSUME Formed, Nested, NEW n \in Nat, NEW h \in Handlers, Entering(h, n),
         OpenAt(h) = {}, Listed(blocks, stack, loose, stacklist),
         \/ UNCHANGED stacklist
         \/ stacklist' = [stacklist EXCEPT ![h] = <<>>]
  PROVE  Listed(blocks', stack', loose', stacklist')
<1>1. PICK m \in Nat : m = Len(blocks')
  BY DEF Entering
<1>2. /\ n = Len(blocks) /\ m \in (n + 1)..(n + 2)
      /\ blocks \in Seq(Block) /\ blocks' \in Seq(Block) /\ Entered(blocks, blocks', n)
      /\ n + 1 \in Slot /\ MaxSlot \in Nat /\ loose \in SUBSET (1..n)
      /\ stack \in [Slot -> Handlers \cup Assurance \cup {Null}]
      /\ stacklist \in [Handlers -> Seq(Assurance)]
  <2>1. TypeOK /\ blocks \in Seq(Block) /\ MaxSlot \in Nat
    BY SizeOfBlocks DEF Formed
  <2>2. /\ n = Len(blocks) /\ m \in (n + 1)..(n + 2) /\ n < MaxSlot
        /\ blocks' \in Seq(Block) /\ Entered(blocks, blocks', n)
    BY <1>1, <2>1 DEF Entering, Entered
  <2>3. n + 1 \in Slot /\ loose \in SUBSET (1..n)
    BY <2>1, <2>2 DEF TypeOK, Esp, Slot
  <2> QED
    BY <2>1, <2>2, <2>3 DEF TypeOK
<1>3. SameUpTo(stack, stack', n)
  BY <1>2 DEF SameUpTo, Entering, Slot
<1>4. \A i \in 1..(n + 1) :
        /\ Openers(blocks', i) = Openers(blocks, i)
        /\ OuterOf(blocks', stack', i) = OuterOf(blocks, stack, i)
        /\ Clean(blocks', loose, i) => Clean(blocks, loose, i)
  BY <1>2, <1>3, EnteredKeeps
<1>5. \A k \in AssuresOf(blocks') : k \in 1..n
  BY <1>1, <1>2 DEF AssuresOf, Entered
<1>6. AssuresOf(blocks') = AssuresOf(blocks)
  BY <1>1, <1>2, <1>5 DEF AssuresOf, Entered
<1> SUFFICES ASSUME NEW k \in AssuresOf(blocks), Clean(blocks', loose, k)
             PROVE  IsListed(stacklist'[OuterOf(blocks', stack', k)],
                             AboveOf(blocks', k), stack'[k])
  BY <1>6 DEF Listed, Entering
<1>7. k \in 1..n /\ stack'[k] = stack[k]
  BY <1>3, <1>5, <1>6 DEF SameUpTo
<1>8. OuterOf(blocks', stack', k) = OuterOf(blocks, stack, k) /\ Clean(blocks, loose, k)
  BY <1>4, <1>7
<1>9. AboveOf(blocks', k) = AboveOf(blocks, k)
  <2>1. Openers(blocks', k) = Openers(blocks, k)
    BY <1>4, <1>7
  <2>2. \A j \in AssuresOf(blocks) : Openers(blocks', j) = Openers(blocks, j)
    BY <1>4, <1>5, <1>6
  <2> QED
    BY <1>6, <2>1, <2>2 DEF AboveOf
<1>10. stacklist'[OuterOf(blocks, stack, k)] = stacklist[OuterOf(blocks, stack, k)]
  <2>1. PICK o \in Openers(blocks, k) :
          OuterOf(blocks, stack, k) = stack[o] /\ stack[o] \in Handlers
    BY OuterOfAssure
  <2>2. stack[o] # h
    <3>1. o \in 1..n /\ blocks[o] \in Opener
      BY <1>7, <2>1 DEF Openers
    <3> QED
      BY <1>2, <3>1 DEF OpenAt, Esp, Opener
  <2> QED
    BY <1>2, <2>1, <2>2
<1> QED
  BY <1>7, <1>8, <1>9, <1>10 DEF Listed

-----------------------------------------------------------------------------
(***************************************************************************)
(* The steps that leave blocks and throw nothing.                          *)
(***************************************************************************)
Leaving(n) ==
  /\ blocks' \in Seq(Block) /\ Esp' <= MaxSlot /\ Rewound(blocks, blocks', n)
  /\ n = 0 => Esp' = 0
  /\ Esp' = n + 1 => /\ blocks'[n + 1] # "assure"
                     /\ blocks[n] # "launch" \/ blocks'[n + 1] = "method"
  /\ stack' \in [Slot -> Handlers \cup Assurance \cup {Null}]
  /\ SameUpTo(stack, stack', n)
  /\ loose' \subseteq {i \in 1..n : blocks[i] = "launch"}
  /\ loose \cap (1..n) \subseteq loose'
  /\ LeavesNoTry(n) /\ LeavesNoAssure(n)
  /\ UNCHANGED <<ehdr, parent, at, stacklist, throwing, checkedIn, shared, status>>

LEMMA LeavingKeeps ==
  ASSUME ChainInv, Running, NEW n \in Nat, Leaving(n)
  PROVE  ChainInv'
<1>1. Formed
  BY DEF ChainInv
<1>2. Formed'
  <2>1. TypeOK
    BY <1>1 DEF Formed
  <2>2. /\ blocks' \in Seq(Block) /\ Esp' <= MaxSlot /\ Rewound(blocks, blocks', n)
        /\ n = 0 => Esp' = 0
        /\ Esp' = n + 1 => blocks[n] # "launch" \/ blocks'[n + 1] = "method"
        /\ stack' \in [Slot -> Handlers \cup Assurance \cup {Null}]
        /\ SameUpTo(stack, stack', n)
        /\ UNCHANGED <<parent, at>> /\ (ehdr' = ehdr \/ \E h \in Handlers : ehdr' = parent[h])
        /\ UNCHANGED shared
        /\ loose' \subseteq {i \in 1..n : blocks[i] = "launch"}
    BY DEF Leaving
  <2>3. /\ stacklist' \in [Handlers -> Seq(Assurance)] /\ checkedIn' \in [Assurance -> Int]
        /\ throwing' \in BOOLEAN
        /\ status' \in {"running", "assertion", "exit", "lost"}
    BY <2>1 DEF Leaving, TypeOK
  <2> QED
    BY <1>1, <2>2, <2>3, LeavesFormed
<1>3. UnwindsInside'
  BY DEF Leaving, Running, UnwindsInside
<1>4. ASSUME ~shared, Nested, Kept
      PROVE  Nested' /\ Kept'
  <2>1. /\ blocks' \in Seq(Block) /\ Rewound(blocks, blocks', n)
        /\ SameUpTo(stack, stack', n) /\ UNCHANGED <<ehdr, parent, at>>
        /\ loose \cap (1..n) \subseteq loose' /\ LeavesNoTry(n)
    BY DEF Leaving
  <2>2. Nested'
    BY <1>1, <1>4, <2>1, LeavesNested
  <2>3. /\ Esp' = n + 1 => blocks'[n + 1] # "assure"
        /\ LeavesNoAssure(n)
    BY DEF Leaving
  <2>4. Listed(blocks', stack', loose', stacklist)
    BY <1>1, <1>4, <2>1, <2>3, LeavesListed DEF Kept
  <2>5. UNCHANGED <<stacklist, checkedIn>>
    BY DEF Leaving
  <2> QED
    BY <1>4, <2>2, <2>4, <2>5 DEF Kept
<1> QED
  BY <1>2, <1>3, <1>4 DEF ChainInv, Leaving

LEMMA LoosenIs ==
  ASSUME NEW S
  PROVE  /\ loose \subseteq Loosen(S) /\ Loosen(S) \subseteq loose \cup {CurrentLaunch}
         /\ S \cap {"try", "assure"} # {} => CurrentLaunch \in Loosen(S)
BY DEF Loosen

(* Where a program is that runs its own code. *)
CodeAt(n) ==
  /\ n >= 1 /\ Esp = n + 1 /\ Len(blocks) = n + 1 /\ n < MaxSlot
  /\ MaxSlot \in Nat /\ blocks \in Seq(Block) /\ blocks[n + 1] = Top
  /\ CurrentLaunch \in 1..n /\ blocks[CurrentLaunch] = "launch"
  /\ blocks[n] = "launch" => Top = "method"
  /\ loose \subseteq {i \in 1..n : blocks[i] = "launch"}

LEMMA InCode ==
  ASSUME ChainInv, Top \in Code
  PROVE  \E n \in Nat : CodeAt(n)
<1>1. PICK q \in Nat : q = Esp
  BY SizeOfBlocks DEF ChainInv, Formed
<1>2. /\ TypeOK /\ Shape(blocks) /\ blocks \in Seq(Block) /\ q <= MaxSlot /\ MaxSlot \in Nat
  BY <1>1, SizeOfBlocks DEF ChainInv, Formed
<1>3. /\ q > 1 /\ blocks[q] = Top /\ Top # "launch"
      /\ CurrentLaunch \in 1..(q - 1) /\ blocks[CurrentLaunch] = "launch"
      /\ q = Len(blocks)
  BY <1>1, <1>2, InFrame, InLaunch DEF Esp, Code
<1>4. PICK n \in Nat : n + 1 = q
  <2>1. q - 1 \in Nat /\ (q - 1) + 1 = q
    BY <1>3
  <2> QED
    BY <2>1
<1>5. blocks[n] = "launch" => Top = "method"
  BY <1>2, <1>3, <1>4 DEF Shape
<1>6. loose \subseteq {i \in 1..n : blocks[i] = "launch"}
  BY <1>1, <1>2, <1>3, <1>4 DEF TypeOK
<1> QED
  BY <1>1, <1>2, <1>3, <1>4, <1>5, <1>6 DEF CodeAt

LEMMA TryEndsKeeps ==
  ASSUME ChainInv, TryEnds
  PROVE  ChainInv'
<1>1. Top = "try" /\ Top \in Code /\ TypeOK
  BY DEF TryEnds, Code, ChainInv, Formed
<1>2. PICK n \in Nat : CodeAt(n)
  BY <1>1, InCode
<1>3. /\ n >= 1 /\ Esp = n + 1 /\ Len(blocks) = n + 1 /\ n < MaxSlot /\ MaxSlot \in Nat
      /\ blocks \in Seq(Block) /\ blocks[n + 1] = Top
  BY <1>2 DEF CodeAt
<1>4. /\ blocks' \in Seq(Block) /\ Len(blocks') = n + 1
      /\ blocks'[n + 1] = "finally" /\ Rewound(blocks, blocks', n)
  <2>1. "finally" \in Block \ Opener
    BY DEF Block, Code, Opener
  <2>2. blocks' = [blocks EXCEPT ![n + 1] = "finally"]
    BY <1>3 DEF TryEnds
  <2> QED
    BY <1>3, <2>1, <2>2, Replaced
<1>5. /\ loose \subseteq loose' /\ loose' \subseteq loose \cup {CurrentLaunch}
      /\ CurrentLaunch \in loose'
  BY LoosenIs DEF TryEnds
<1>6. loose' \subseteq {i \in 1..n : blocks[i] = "launch"} /\ CurrentLaunch <= n
  BY <1>2, <1>5 DEF CodeAt
<1>7. LeavesNoTry(n) /\ LeavesNoAssure(n)
  BY <1>5, <1>6 DEF LeavesNoTry, LeavesNoAssure
<1>8. blocks[n] # "launch"
  BY <1>1, <1>2 DEF CodeAt
<1>9. Leaving(n)
  BY <1>1, <1>3, <1>4, <1>5, <1>6, <1>7, <1>8
  DEF Leaving, TryEnds, SameUpTo, TypeOK, Esp
<1> QED
  BY <1>9, LeavingKeeps DEF TryEnds

LEMMA CatchEndsKeeps ==
  ASSUME ChainInv, CatchEnds
  PROVE  ChainInv'
<1>1. Top = "catch" /\ Top \in Code /\ TypeOK
  BY DEF CatchEnds, Code, ChainInv, Formed
<1>2. PICK n \in Nat : CodeAt(n)
  BY <1>1, InCode
<1>3. /\ n >= 1 /\ Esp = n + 1 /\ Len(blocks) = n + 1 /\ n < MaxSlot /\ MaxSlot \in Nat
      /\ blocks \in Seq(Block) /\ blocks[n + 1] = Top
  BY <1>2 DEF CodeAt
<1>4. /\ blocks' \in Seq(Block) /\ Len(blocks') = n + 1
      /\ blocks'[n + 1] = "finally" /\ Rewound(blocks, blocks', n)
  <2>1. "finally" \in Block \ Opener
    BY DEF Block, Code, Opener
  <2>2. blocks' = [blocks EXCEPT ![n + 1] = "finally"]
    BY <1>3 DEF CatchEnds
  <2> QED
    BY <1>3, <2>1, <2>2, Replaced
<1>5. LeavesNoTry(n) /\ LeavesNoAssure(n)
  BY <1>1, <1>3 DEF LeavesNoTry, LeavesNoAssure, Opener
<1>6. loose \subseteq {i \in 1..n : blocks[i] = "launch"} /\ blocks[n] # "launch"
  BY <1>1, <1>2 DEF CodeAt
<1>7. Leaving(n)
  BY <1>1, <1>3, <1>4, <1>5, <1>6 DEF Leaving, CatchEnds, SameUpTo, TypeOK, Esp
<1> QED
  BY <1>7, LeavingKeeps DEF CatchEnds

(* A finally block that throws nothing ends. *)
LEMMA FinallyPassed ==
  ASSUME ChainInv, Running, Top = "finally", blocks' = PopTo(Esp - 1),
         UNCHANGED <<stack, ehdr, parent, at, stacklist, throwing, checkedIn, loose,
                     shared, status>>
  PROVE  ChainInv'
<1>1. Top \in Code /\ TypeOK
  BY DEF Code, ChainInv, Formed
<1>2. PICK n \in Nat : CodeAt(n)
  BY <1>1, InCode
<1>3. /\ n >= 1 /\ Esp = n + 1 /\ Len(blocks) = n + 1 /\ n < MaxSlot /\ MaxSlot \in Nat
      /\ blocks \in Seq(Block) /\ blocks[n + 1] = Top
  BY <1>2 DEF CodeAt
<1>4. blocks' \in Seq(Block) /\ Len(blocks') = n /\ Rewound(blocks, blocks', n)
  <2>1. blocks' = SubSeq(blocks, 1, n) /\ n \in 0..Len(blocks)
    BY <1>3 DEF PopTo
  <2> QED
    BY <1>3, <2>1, Popped
<1>5. LeavesNoTry(n) /\ LeavesNoAssure(n)
  BY <1>3 DEF LeavesNoTry, LeavesNoAssure, Opener
<1>6. loose \subseteq {i \in 1..n : blocks[i] = "launch"}
  BY <1>2 DEF CodeAt
<1>7. Leaving(n)
  BY <1>1, <1>3, <1>4, <1>5, <1>6 DEF Leaving, SameUpTo, TypeOK, Esp
<1> QED
  BY <1>7, LeavingKeeps

LEMMA CallKeeps ==
  ASSUME ChainInv, Call
  PROVE  ChainInv'
<1>1. Top \in Code /\ TypeOK
  BY DEF Call, ChainInv, Formed
<1>2. PICK n \in Nat : CodeAt(n)
  BY <1>1, InCode
<1>3. /\ n >= 1 /\ Esp = n + 1 /\ Len(blocks) = n + 1 /\ n < MaxSlot /\ MaxSlot \in Nat
      /\ blocks \in Seq(Block) /\ blocks[n + 1] = Top
  BY <1>2 DEF CodeAt
<1>4. PICK m \in Nat : m = n + 1
  OBVIOUS
<1>5. /\ blocks' \in Seq(Block) /\ Len(blocks') = m + 1
      /\ blocks'[m + 1] = "method" /\ Rewound(blocks, blocks', m)
  <2>1. "method" \in Block \ Opener
    BY DEF Block, Code, Opener
  <2>2. blocks' = Append(blocks, "method") /\ m = Len(blocks)
    BY <1>3, <1>4 DEF Call, Push
  <2> QED
    BY <1>3, <2>1, <2>2, Pushed
<1>6. SameUpTo(stack, stack', m) /\ stack' \in [Slot -> Handlers \cup Assurance \cup {Null}]
  <2>1. m + 1 \in Slot /\ m < MaxSlot
    BY <1>3, <1>4 DEF Call, Slot
  <2>2. CASE stack' = [stack EXCEPT ![m + 1] = Null]
    BY <1>1, <1>3, <2>1, <2>2 DEF TypeOK, SameUpTo, Slot
  <2>3. CASE stack' = stack
    BY <1>1, <2>3 DEF TypeOK, SameUpTo
  <2> QED
    BY <1>3, <1>4, <2>2, <2>3 DEF Call
<1>7. LeavesNoTry(m) /\ LeavesNoAssure(m)
  BY <1>3, <1>4 DEF LeavesNoTry, LeavesNoAssure
<1>8. loose \subseteq {i \in 1..m : blocks[i] = "launch"}
  BY <1>2, <1>4 DEF CodeAt
<1>9. Leaving(m)
  BY <1>3, <1>4, <1>5, <1>6, <1>7, <1>8 DEF Leaving, Call, Esp
<1> QED
  BY <1>9, LeavingKeeps DEF Call

LEMMA ReturnKeeps ==
  ASSUME ChainInv, Return
  PROVE  ChainInv'
<1>1. Top \in Code /\ TypeOK /\ Shape(blocks)
  BY DEF Return, ChainInv, Formed
<1>2. PICK n \in Nat : CodeAt(n)
  BY <1>1, InCode
<1>3. /\ n >= 1 /\ Esp = n + 1 /\ Len(blocks) = n + 1 /\ n < MaxSlot /\ MaxSlot \in Nat
      /\ blocks \in Seq(Block) /\ blocks[n + 1] = Top
  BY <1>2 DEF CodeAt
<1>4. PICK f \in 2..(n + 1) : /\ f = Frame /\ CurrentLaunch < f
                              /\ \A i \in f..(n + 1) : blocks[i] # "launch"
  BY <1>1, <1>3, InFrame
<1>5. PICK m \in Nat : m + 1 = f
  <2>1. f - 1 \in Nat /\ (f - 1) + 1 = f
    OBVIOUS
  <2> QED
    BY <2>1
<1>6. blocks' \in Seq(Block) /\ Len(blocks') = m /\ Rewound(blocks, blocks', m)
  <2>1. blocks' = SubSeq(blocks, 1, m) /\ m \in 0..Len(blocks)
    BY <1>3, <1>4, <1>5 DEF Return, PopTo
  <2> QED
    BY <1>3, <2>1, Popped
<1>7. PICK S : S = {blocks[i] : i \in Frame..Esp}
  OBVIOUS
<1>8. /\ loose \subseteq loose' /\ loose' \subseteq loose \cup {CurrentLaunch}
      /\ S \cap {"try", "assure"} # {} => CurrentLaunch \in loose'
  BY <1>7, LoosenIs DEF Return
<1>9. CurrentLaunch <= m
  BY <1>2, <1>4, <1>5 DEF CodeAt
<1>10. loose' \subseteq {i \in 1..m : blocks[i] = "launch"}
  <2>1. \A i \in loose \cup {CurrentLaunch} : i \in 1..n /\ blocks[i] = "launch"
    BY <1>2 DEF CodeAt
  <2>2. \A i \in loose \cup {CurrentLaunch} : i \in 1..m
    BY <1>4, <1>5, <2>1
  <2> QED
    BY <1>8, <2>1, <2>2
<1>11. LeavesNoTry(m) /\ LeavesNoAssure(m)
  <2>1. CASE S \cap {"try", "assure"} # {}
    BY <1>8, <1>9, <2>1 DEF LeavesNoTry, LeavesNoAssure
  <2>2. CASE S \cap {"try", "assure"} = {}
    <3>1. \A i \in f..(n + 1) : blocks[i] \in S
      BY <1>3, <1>4, <1>7
    <3>2. \A i \in f..(n + 1) : blocks[i] # "try" /\ blocks[i] # "assure"
      BY <2>2, <3>1
    <3>3. \A i \in (m + 1)..Esp : blocks[i] # "assure" /\ blocks[i] \notin Opener
      BY <1>3, <1>4, <1>5, <3>2 DEF Opener
    <3> QED
      BY <3>3 DEF LeavesNoTry, LeavesNoAssure
  <2> QED
    BY <2>1, <2>2
<1>12. m <= MaxSlot
  BY <1>3, <1>4, <1>5
<1>13. Leaving(m)
  <2>1. Esp' = m /\ m <= MaxSlot /\ ~(Esp' = m + 1)
    BY <1>6, <1>12 DEF Esp
  <2>2. stack' \in [Slot -> Handlers \cup Assurance \cup {Null}] /\ SameUpTo(stack, stack', m)
    BY <1>1 DEF Return, TypeOK, SameUpTo
  <2>3. loose \cap (1..m) \subseteq loose'
    BY <1>8
  <2>4. UNCHANGED <<ehdr, parent, at, stacklist, throwing, checkedIn, shared, status>>
    BY DEF Return
  <2> QED
    BY <1>6, <1>10, <1>11, <2>1, <2>2, <2>3, <2>4 DEF Leaving
<1> QED
  BY <1>13, LeavingKeeps DEF Return

LEMMA BreakKeeps ==
  ASSUME ChainInv, Break
  PROVE  ChainInv'
<1>1. Top \in Code /\ Top # "launch" /\ TypeOK
  BY DEF Break, ChainInv, Formed, Code
<1>2. PICK n \in Nat : CodeAt(n)
  BY <1>1, InCode
<1>3. /\ n >= 1 /\ Esp = n + 1 /\ Len(blocks) = n + 1 /\ n < MaxSlot /\ MaxSlot \in Nat
      /\ blocks \in Seq(Block) /\ blocks[n + 1] = Top
  BY <1>2 DEF CodeAt
<1>4. blocks' \in Seq(Block) /\ Len(blocks') = n /\ Rewound(blocks, blocks', n)
  <2>1. blocks' = SubSeq(blocks, 1, n) /\ n \in 0..Len(blocks)
    BY <1>3 DEF Break, PopTo
  <2> QED
    BY <1>3, <2>1, Popped
<1>5. /\ loose \subseteq loose' /\ loose' \subseteq loose \cup {CurrentLaunch}
      /\ Top \in {"try", "assure"} => CurrentLaunch \in loose'
  <2>1. PICK S : S = {Top}
    OBVIOUS
  <2>2. Top \in {"try", "assure"} => S \cap {"try", "assure"} # {}
    BY <2>1
  <2> QED
    BY <2>1, <2>2, LoosenIs DEF Break
<1>6. CurrentLaunch <= n /\ loose' \subseteq {i \in 1..n : blocks[i] = "launch"}
  BY <1>2, <1>5 DEF CodeAt
<1>7. LeavesNoTry(n) /\ LeavesNoAssure(n)
  BY <1>1, <1>3, <1>5, <1>6 DEF LeavesNoTry, LeavesNoAssure, Opener
<1>8. Leaving(n)
  <2>1. Esp' = n /\ n <= MaxSlot /\ ~(Esp' = n + 1)
    BY <1>3, <1>4 DEF Esp
  <2>2. stack' \in [Slot -> Handlers \cup Assurance \cup {Null}] /\ SameUpTo(stack, stack', n)
    BY <1>1 DEF Break, TypeOK, SameUpTo
  <2>3. loose \cap (1..n) \subseteq loose'
    BY <1>5
  <2>4. UNCHANGED <<ehdr, parent, at, stacklist, throwing, checkedIn, shared, status>>
    BY DEF Break
  <2> QED
    BY <1>3, <1>4, <1>6, <1>7, <2>1, <2>2, <2>3, <2>4 DEF Leaving
<1> QED
  BY <1>8, LeavingKeeps DEF Break

LEMMA ClearStackKeeps ==
  ASSUME ChainInv, ClearStack
  PROVE  ChainInv'
<1>1. /\ TypeOK /\ blocks = <<>> /\ blocks' = blocks /\ blocks \in Seq(Block)
      /\ MaxSlot \in Nat
  BY SizeOfBlocks DEF ClearStack, ChainInv, Formed
<1>2. Len(blocks) = 0 /\ loose = {}
  BY <1>1 DEF TypeOK, Esp
<1>3. Rewound(blocks, blocks', 0)
  BY <1>1, <1>2 DEF Rewound
<1>4. LeavesNoTry(0) /\ LeavesNoAssure(0)
  BY <1>2 DEF LeavesNoTry, LeavesNoAssure, Esp
<1>5. stack' \in [Slot -> Handlers \cup Assurance \cup {Null}] /\ SameUpTo(stack, stack', 0)
  BY DEF ClearStack, SameUpTo
<1>6. Leaving(0)
  BY <1>1, <1>2, <1>3, <1>4, <1>5 DEF Leaving, ClearStack, Esp
<1> QED
  BY <1>6, LeavingKeeps DEF ClearStack

-----------------------------------------------------------------------------
(***************************************************************************)
(* assure.                                                                 *)
(***************************************************************************)
(* An open assure is in the list of the innermost handler when no try      *)
(* begins above it, and only then.                                         *)
LEMMA InThisList ==
  ASSUME Formed, Nested, NEW k \in AssuresOf(blocks), Clean(blocks, loose, k)
  PROVE  OuterOf(blocks, stack, k) = ehdr <=> Openers(blocks, k) = Openers(blocks, Esp + 1)
<1>1. PICK q \in Nat : q = Esp
  BY SizeOfBlocks DEF Formed
<1>2. k \in 1..q /\ q > 0
  BY <1>1 DEF AssuresOf, Esp
<1>3. PICK l \in 1..q : /\ l = CurrentLaunch /\ blocks[l] = "launch"
                        /\ \A i \in (l + 1)..q : blocks[i] # "launch"
  BY <1>1, <1>2, InLaunch DEF Formed
<1>4. l < k => l \notin loose
  <2> SUFFICES ASSUME l < k, l \in loose
               PROVE  FALSE
    OBVIOUS
  <2>1. \A i \in (l + 1)..(k - 1) : i \in (l + 1)..q
    BY <1>2
  <2>2. \A i \in (l + 1)..(k - 1) : blocks[i] # "launch"
    BY <1>3, <2>1
  <2>3. k \in Nat
    BY <1>2
  <2> QED
    BY <2>2, <2>3, NotClean
<1>5. PICK o \in Openers(blocks, k) : /\ OuterOf(blocks, stack, k) = stack[o]
                                      /\ at[stack[o]] = o
                                      /\ o \in 1..(k - 1)
  BY OuterOfAssure
<1>6. ehdr \in Handlers /\ at[ehdr] >= l
  BY <1>1, <1>2, <1>3, WhereItIs
<1>7. l \notin loose =>
        \E d \in Openers(blocks, Esp + 1) :
          /\ at[ehdr] = d /\ ehdr = OuterOf(blocks, stack, Esp + 1)
          /\ \A j \in Openers(blocks, Esp + 1) : j <= d
  BY <1>1, <1>2, <1>3, WhereItIs
<1>8. ASSUME Openers(blocks, k) = Openers(blocks, Esp + 1)
      PROVE  OuterOf(blocks, stack, k) = ehdr
  <2>1. l \in Openers(blocks, Esp + 1)
    BY <1>1, <1>3 DEF Openers, Opener
  <2>2. l < k
    BY <1>2, <1>8, <2>1 DEF Openers
  <2>3. OuterOf(blocks, stack, k) = OuterOf(blocks, stack, Esp + 1)
    BY <1>8 DEF OuterOf
  <2> QED
    BY <1>4, <1>7, <2>2, <2>3
<1>9. ASSUME OuterOf(blocks, stack, k) = ehdr
      PROVE  Openers(blocks, k) = Openers(blocks, Esp + 1)
  <2>1. at[ehdr] = o
    BY <1>5, <1>9
  <2>2. l < k
    BY <1>2, <1>3, <1>5, <1>6, <2>1
  <2>3. \A j \in Openers(blocks, Esp + 1) : j <= o
    BY <1>4, <1>7, <2>1, <2>2
  <2>4. k \in Nat /\ q + 1 \in Nat /\ k < q + 1 /\ k >= 1
    BY <1>2
  <2>5. Openers(blocks, k) = Openers(blocks, q + 1)
    BY <1>1, <2>3, <2>4, SameInnermost
  <2> QED
    BY <1>1, <2>5
<1> QED
  BY <1>8, <1>9

LEMMA ListsTyped ==
  ASSUME NEW y \in [Handlers -> Seq(Assurance)], NEW e
  PROVE  /\ \A a \in Assurance : [y EXCEPT ![e] = Append(@, a)] \in [Handlers -> Seq(Assurance)]
         /\ y[e] # <<>> => [y EXCEPT ![e] = Front(@)] \in [Handlers -> Seq(Assurance)]
         /\ [y EXCEPT ![e] = <<>>] \in [Handlers -> Seq(Assurance)]
<1>1. CASE e \in Handlers
  <2>1. y[e] \in Seq(Assurance)
    BY <1>1
  <2>2. y[e] # <<>> => Front(y[e]) \in Seq(Assurance)
    BY <2>1 DEF Front
  <2> QED
    BY <1>1, <2>1, <2>2
<1>2. CASE e \notin Handlers
  BY <1>2
<1> QED
  BY <1>1, <1>2

LEMMA CountTyped ==
  ASSUME NEW c \in [Assurance -> Int], NEW a
  PROVE  [c EXCEPT ![a] = @ - 1] \in [Assurance -> Int]
<1>1. CASE a \in Assurance
  BY <1>1
<1>2. CASE a \notin Assurance
  BY <1>2
<1> QED
  BY <1>1, <1>2

LEMMA ListedAppended ==
  ASSUME NEW list \in Seq(Assurance), NEW a \in Assurance
  PROVE  /\ IsListed(Append(list, a), {}, a)
         /\ \A A, x, o :
              IsFiniteSet(A) /\ x \notin A /\ IsListed(list, A, o) =>
                IsListed(Append(list, a), A \cup {x}, o)
<1>1. PICK n \in Nat : n = Len(list)
  OBVIOUS
<1>2. PICK y : y = Append(list, a)
  OBVIOUS
<1>3. /\ Len(y) = n + 1 /\ DOMAIN y = 1..(n + 1) /\ DOMAIN list = 1..n
      /\ y[n + 1] = a /\ \A i \in 1..n : y[i] = list[i]
  BY <1>1, <1>2
<1>4. IsListed(y, {}, a)
  <2>1. Cardinality({}) = 0
    BY FS_EmptySet
  <2> QED
    BY <1>3, <2>1 DEF IsListed
<1>5. ASSUME NEW A, NEW x, NEW o, IsFiniteSet(A), x \notin A, IsListed(list, A, o)
      PROVE  IsListed(y, A \cup {x}, o)
  <2>1. PICK c \in Nat : c = Cardinality(A)
    BY <1>5, FS_CardinalityType
  <2>2. Cardinality(A \cup {x}) = c + 1
    BY <1>5, <2>1, FS_AddElement
  <2>3. n - c \in 1..n /\ list[n - c] = o
    BY <1>1, <1>3, <1>5, <2>1 DEF IsListed
  <2>4. n + 1 - (c + 1) = n - c
    BY <2>1
  <2> QED
    BY <1>3, <2>2, <2>3, <2>4 DEF IsListed
<1> QED
  BY <1>2, <1>4, <1>5

LEMMA ListedFronted ==
  ASSUME NEW list \in Seq(Assurance), list # <<>>,
         NEW A, NEW x \in A, NEW o, IsFiniteSet(A), IsListed(list, A, o)
  PROVE  IsListed(Front(list), A \ {x}, o)
<1>1. PICK m \in Nat : m = Len(list)
  OBVIOUS
<1>2. m > 0
  BY <1>1
<1>3. PICK y : y = Front(list)
  OBVIOUS
<1>4. /\ Len(y) = m - 1 /\ DOMAIN y = 1..(m - 1) /\ DOMAIN list = 1..m
      /\ \A i \in 1..(m - 1) : y[i] = list[i]
  BY <1>1, <1>2, <1>3 DEF Front
<1>5. PICK c \in Nat : c = Cardinality(A)
  BY FS_CardinalityType
<1>6. Cardinality(A \ {x}) = c - 1 /\ c - 1 \in Nat
  <2>1. IsFiniteSet(A \ {x}) /\ Cardinality(A \ {x}) = c - 1
    BY <1>5, FS_RemoveElement
  <2> QED
    BY <2>1, FS_CardinalityType
<1>7. m - c \in 1..m /\ list[m - c] = o
  BY <1>1, <1>4, <1>5 DEF IsListed
<1>8. m - c \in 1..(m - 1) /\ (m - 1) - (c - 1) = m - c
  BY <1>5, <1>6, <1>7
<1>9. IsListed(y, A \ {x}, o)
  BY <1>4, <1>6, <1>7, <1>8 DEF IsListed
<1> QED
  BY <1>3, <1>9

LEMMA CheckInKeeps ==
  ASSUME ChainInv, NEW a \in Assurance, CheckIn(a)
  PROVE  ChainInv'
<1>1. Top \in Code /\ TypeOK /\ Formed
  BY DEF CheckIn, ChainInv, Formed
<1>2. PICK n \in Nat : CodeAt(n)
  BY <1>1, InCode
<1>3. PICK m \in Nat : m = n + 1
  OBVIOUS
<1>4. /\ m > 1 /\ Esp = m /\ Len(blocks) = m /\ m <= MaxSlot /\ MaxSlot \in Nat
      /\ blocks \in Seq(Block) /\ blocks[m] = Top /\ blocks[m] # "launch"
      /\ loose \subseteq {i \in 1..m : blocks[i] = "launch"}
  BY <1>1, <1>2, <1>3 DEF CodeAt, Code
<1>5. m + 1 \in Slot /\ m < MaxSlot
  BY <1>4 DEF CheckIn, Slot
<1>6. /\ blocks' \in Seq(Block) /\ Len(blocks') = m + 1
      /\ blocks'[m + 1] = "assure" /\ Rewound(blocks, blocks', m)
  <2>1. "assure" \in Block \ Opener
    BY DEF Block, Code, Opener
  <2>2. blocks' = Append(blocks, "assure") /\ m = Len(blocks)
    BY <1>4 DEF CheckIn, Push
  <2> QED
    BY <1>4, <2>1, <2>2, Pushed
<1>7. stack' = [stack EXCEPT ![m + 1] = a]
  BY <1>4 DEF CheckIn
<1>8. /\ SameUpTo(stack, stack', m) /\ stack'[m + 1] = a
      /\ stack' \in [Slot -> Handlers \cup Assurance \cup {Null}]
  BY <1>1, <1>4, <1>5, <1>7 DEF TypeOK, SameUpTo, Slot
<1>9. Formed'
  <2>1. /\ Esp' <= MaxSlot
        /\ m = 0 => Esp' = 0
        /\ Esp' = m + 1 => blocks[m] # "launch" \/ blocks'[m + 1] = "method"
    BY <1>4, <1>5, <1>6 DEF Esp
  <2>2. /\ UNCHANGED <<parent, at>> /\ (ehdr' = ehdr \/ \E h \in Handlers : ehdr' = parent[h])
        /\ throwing' \in BOOLEAN /\ UNCHANGED shared
        /\ loose' \subseteq {i \in 1..m : blocks[i] = "launch"}
        /\ status' \in {"running", "assertion", "exit", "lost"}
    BY <1>1, <1>4 DEF CheckIn, TypeOK
  <2>3. stacklist' \in [Handlers -> Seq(Assurance)]
    BY <1>1, ListsTyped DEF CheckIn, TypeOK
  <2>4. checkedIn' \in [Assurance -> Int]
    BY <1>1 DEF CheckIn, TypeOK
  <2> QED
    BY <1>1, <1>6, <1>8, <2>1, <2>2, <2>3, <2>4, LeavesFormed
<1>10. UnwindsInside'
  BY DEF CheckIn, Running, UnwindsInside
<1>11. ASSUME ~shared, Nested, Kept
       PROVE  Nested' /\ Kept'
  <2>1. Nested'
    <3>1. UNCHANGED <<ehdr, parent, at>> /\ loose \cap (1..m) \subseteq loose'
      BY DEF CheckIn
    <3>2. LeavesNoTry(m)
      BY <1>4 DEF LeavesNoTry
    <3> QED
      BY <1>1, <1>6, <1>8, <1>11, <3>1, <3>2, LeavesNested
  <2>2. ehdr \in Handlers
    BY <1>1, <1>4, <1>11, WhereItIs
  <2>3. Counted(stacklist', checkedIn')
    BY <1>1, <1>11, <2>2, CountAppended DEF CheckIn, Kept, TypeOK
  <2>4. Listed(blocks', stack', loose', stacklist')
    <3>1. PICK h \in Handlers : h = ehdr
      BY <2>2
    <3>2. stacklist' = [stacklist EXCEPT ![h] = Append(@, a)]
      BY <3>1 DEF CheckIn
    <3>3. /\ \A i \in 1..(m + 1) : Openers(blocks', i) = Openers(blocks, i)
          /\ \A i \in 1..(m + 1) : OuterOf(blocks', stack', i) = OuterOf(blocks, stack, i)
      BY <1>4, <1>6, <1>8, OpenersKept, OuterKept
    <3>4. \A i \in 1..(m + 1) : Clean(blocks', loose', i) => Clean(blocks, loose, i)
      <4>1. loose \in SUBSET (1..Len(blocks)) /\ loose \cap (1..m) \subseteq loose'
        BY <1>4 DEF CheckIn
      <4> QED
        BY <1>4, <1>6, <4>1, CleanKept
    <3>5. AssuresOf(blocks') = AssuresOf(blocks) \cup {m + 1} /\ AssuresOf(blocks) \subseteq 1..m
      BY <1>4, <1>6 DEF AssuresOf, Rewound
    <3>6. stacklist \in [Handlers -> Seq(Assurance)] /\ stacklist[h] \in Seq(Assurance)
      BY <1>1 DEF TypeOK
    <3> SUFFICES ASSUME NEW k \in AssuresOf(blocks'), Clean(blocks', loose', k)
                 PROVE  IsListed(stacklist'[OuterOf(blocks', stack', k)],
                                 AboveOf(blocks', k), stack'[k])
      BY DEF Listed
    <3>7. OuterOf(blocks', stack', k) = OuterOf(blocks, stack, k) /\ Clean(blocks, loose, k)
      BY <3>3, <3>4, <3>5
    <3>8. CASE k = m + 1
      <4>1. OuterOf(blocks, stack, k) = h
        BY <1>4, <1>11, <3>1, <3>7, <3>8 DEF Nested, Innermost
      <4>2. AboveOf(blocks', k) = {}
        BY <3>5, <3>8 DEF AboveOf
      <4>3. stacklist'[h] = Append(stacklist[h], a)
        BY <3>2, <3>6
      <4> QED
        BY <1>8, <3>6, <3>7, <3>8, <4>1, <4>2, <4>3, ListedAppended
    <3>9. CASE k \in AssuresOf(blocks)
      <4>1. /\ IsListed(stacklist[OuterOf(blocks, stack, k)], AboveOf(blocks, k), stack[k])
            /\ stack'[k] = stack[k] /\ k \in 1..m
        BY <1>8, <1>11, <3>5, <3>7, <3>9 DEF Kept, Listed, SameUpTo
      <4>2. PICK g \in Handlers : g = OuterOf(blocks, stack, k)
        BY <1>1, <1>11, <3>9, OuterOfAssure
      <4>3. g = h <=> Openers(blocks, k) = Openers(blocks, m + 1)
        BY <1>1, <1>4, <1>11, <3>1, <3>7, <3>9, <4>2, InThisList
      <4>4. \A j \in AssuresOf(blocks) \cup {m + 1} : Openers(blocks', j) = Openers(blocks, j)
        BY <3>3, <3>5
      <4>5. CASE g = h
        <5>1. AboveOf(blocks', k) = AboveOf(blocks, k) \cup {m + 1}
          BY <3>5, <3>9, <4>1, <4>3, <4>4, <4>5 DEF AboveOf
        <5>2. m + 1 \notin AboveOf(blocks, k)
          BY <3>5 DEF AboveOf
        <5>3. stacklist'[h] = Append(stacklist[h], a)
          BY <3>2, <3>6
        <5>4. IsFiniteSet(AboveOf(blocks, k))
          BY <1>4, AboveCount
        <5>5. IsListed(Append(stacklist[h], a), AboveOf(blocks, k) \cup {m + 1}, stack[k])
          BY <3>6, <4>1, <4>2, <4>5, <5>2, <5>4, ListedAppended
        <5> QED
          BY <3>7, <4>1, <4>2, <4>5, <5>1, <5>3, <5>5
      <4>6. CASE g # h
        <5>1. AboveOf(blocks', k) = AboveOf(blocks, k)
          BY <3>5, <3>9, <4>1, <4>3, <4>4, <4>6 DEF AboveOf
        <5>2. stacklist'[g] = stacklist[g]
          BY <3>2, <3>6, <4>6
        <5> QED
          BY <3>7, <4>1, <4>2, <5>1, <5>2
      <4> QED
        BY <4>5, <4>6
    <3> QED
      BY <3>5, <3>8, <3>9
  <2> QED
    BY <2>1, <2>3, <2>4 DEF Kept
<1> QED
  BY <1>9, <1>10, <1>11 DEF ChainInv, CheckIn

(* The process stops, with a list trimmed perhaps. *)
LEMMA StopKeeps ==
  ASSUME ChainInv, NEW how \in {"assertion", "exit", "lost"}, Stop(how),
         UNCHANGED throwing,
         stacklist' \in [Handlers -> Seq(Assurance)], checkedIn' \in [Assurance -> Int],
         ~shared /\ Nested /\ Kept =>
           /\ CurrentLaunch \in loose
           /\ Listed(blocks, stack, loose, stacklist') /\ Counted(stacklist', checkedIn')
  PROVE  ChainInv'
<1>1. /\ UNCHANGED <<blocks, stack, ehdr, parent, at, loose, shared, throwing>>
      /\ status' \in {"assertion", "exit", "lost"}
  BY DEF Stop
<1>2. Formed'
  BY <1>1 DEF ChainInv, Formed, TypeOK, Shape, Holding, WasSet, Esp
<1>3. Nested => Nested'
  BY <1>1 DEF Nested
<1>4. ~shared /\ Nested /\ Kept => Kept'
  BY <1>1 DEF Kept
<1>5. UnwindsInside'
  <2>1. CurrentLaunch' = CurrentLaunch
    BY <1>1 DEF CurrentLaunch, Esp
  <2> QED
    BY <1>1, <2>1 DEF UnwindsInside, ChainInv
<1> QED
  BY <1>1, <1>2, <1>3, <1>4, <1>5 DEF ChainInv

LEMMA CheckOutKeeps ==
  ASSUME ChainInv, CheckOut
  PROVE  ChainInv'
<1>1. Top = "assure" /\ Top \in Code /\ TypeOK /\ Formed
  BY DEF CheckOut, ChainInv, Formed, Code
<1>2. PICK n \in Nat : CodeAt(n)
  BY <1>1, InCode
<1>3. /\ n >= 1 /\ Esp = n + 1 /\ Len(blocks) = n + 1 /\ n < MaxSlot /\ MaxSlot \in Nat
      /\ blocks \in Seq(Block) /\ blocks[n + 1] = "assure"
      /\ loose \subseteq {i \in 1..n : blocks[i] = "launch"}
  BY <1>1, <1>2 DEF CodeAt
<1>4. n + 1 \in AssuresOf(blocks)
  BY <1>3 DEF AssuresOf
<1>5. Openers(blocks, n + 1) = Openers(blocks, Esp + 1)
  BY <1>3 DEF Openers, Opener
<1>6. PICK list : list = stacklist[ehdr]
  OBVIOUS
<1>7. ASSUME ~shared, Nested, Kept
      PROVE  /\ ehdr \in Handlers
             /\ CurrentLaunch \notin loose => list # <<>> /\ Last(list) = stack[Esp]
  <2>1. ehdr \in Handlers
    BY <1>1, <1>3, <1>7, WhereItIs
  <2>2. list \in Seq(Assurance)
    BY <1>1, <1>6, <2>1 DEF TypeOK
  <2>3. ASSUME CurrentLaunch \notin loose
        PROVE  list # <<>> /\ Last(list) = stack[Esp]
    <3>1. ehdr = OuterOf(blocks, stack, Esp + 1)
      BY <1>1, <1>3, <1>7, <2>3, WhereItIs
    <3>2. OuterOf(blocks, stack, n + 1) = ehdr
      BY <1>5, <3>1 DEF OuterOf
    <3>3. Clean(blocks, loose, n + 1)
      <4> SUFFICES ASSUME NEW l \in loose
                   PROVE  \E i \in (l + 1)..n : blocks[i] = "launch"
        BY DEF Clean
      <4>1. l \in 1..n /\ blocks[l] = "launch"
        BY <1>3
      <4>2. /\ CurrentLaunch \in 1..n /\ blocks[CurrentLaunch] = "launch"
            /\ \A i \in (CurrentLaunch + 1)..Esp : blocks[i] # "launch"
        BY <1>1, <1>2, <1>3, InLaunch DEF CodeAt, Formed
      <4>3. l < CurrentLaunch
        BY <1>3, <2>3, <4>1, <4>2
      <4> QED
        BY <4>1, <4>2, <4>3
    <3>4. AboveOf(blocks, n + 1) = {}
      BY <1>3 DEF AboveOf, AssuresOf
    <3>5. IsListed(list, {}, stack[n + 1])
      BY <1>4, <1>6, <1>7, <3>2, <3>3, <3>4 DEF Kept, Listed
    <3>6. Cardinality({}) = 0
      BY FS_EmptySet
    <3>7. Len(list) \in DOMAIN list /\ list[Len(list)] = stack[n + 1]
      BY <2>2, <3>5, <3>6 DEF IsListed
    <3> QED
      BY <1>3, <2>2, <3>7 DEF Last
  <2> QED
    BY <2>1, <2>3
<1>8. CASE list = <<>> \/ Last(list) # stack[Esp]
  <2>1. Stop("assertion") /\ UNCHANGED <<throwing, stacklist, checkedIn>>
    BY <1>6, <1>8 DEF CheckOut
  <2>2. ~shared /\ Nested /\ Kept =>
          /\ CurrentLaunch \in loose
          /\ Listed(blocks, stack, loose, stacklist') /\ Counted(stacklist', checkedIn')
    BY <1>7, <1>8, <2>1 DEF Kept
  <2>3. stacklist' \in [Handlers -> Seq(Assurance)] /\ checkedIn' \in [Assurance -> Int]
    BY <1>1, <2>1 DEF TypeOK
  <2> QED
    BY <2>1, <2>2, <2>3, StopKeeps
<1>9. CASE ~(list = <<>> \/ Last(list) # stack[Esp])
  <2>1. /\ stacklist' = [stacklist EXCEPT ![ehdr] = Front(@)]
        /\ checkedIn' = [checkedIn EXCEPT ![Last(list)] = @ - 1]
        /\ blocks' = SubSeq(blocks, 1, n)
        /\ UNCHANGED <<stack, ehdr, parent, at, throwing, loose, shared, status>>
    BY <1>3, <1>6, <1>9 DEF CheckOut, PopTo
  <2>2. blocks' \in Seq(Block) /\ Len(blocks') = n /\ Rewound(blocks, blocks', n)
    <3>1. n \in 0..Len(blocks)
      BY <1>3
    <3> QED
      BY <1>3, <2>1, <3>1, Popped
  <2>3. SameUpTo(stack, stack', n)
    BY <2>1 DEF SameUpTo
  <2>4. Formed'
    <3>1. /\ Esp' <= MaxSlot
          /\ n = 0 => Esp' = 0
          /\ Esp' = n + 1 => blocks[n] # "launch" \/ blocks'[n + 1] = "method"
      BY <1>3, <2>2 DEF Esp
    <3>2. /\ UNCHANGED <<parent, at>> /\ (ehdr' = ehdr \/ \E h \in Handlers : ehdr' = parent[h])
          /\ throwing' \in BOOLEAN /\ UNCHANGED shared
          /\ loose' \subseteq {i \in 1..n : blocks[i] = "launch"}
          /\ status' \in {"running", "assertion", "exit", "lost"}
          /\ stack' \in [Slot -> Handlers \cup Assurance \cup {Null}]
      BY <1>1, <1>3, <2>1 DEF TypeOK
    <3>3. stacklist' \in [Handlers -> Seq(Assurance)]
      BY <1>1, <1>6, <1>9, <2>1, ListsTyped DEF TypeOK
    <3>4. checkedIn' \in [Assurance -> Int]
      BY <1>1, <2>1, CountTyped DEF TypeOK
    <3> QED
      BY <1>1, <2>2, <2>3, <3>1, <3>2, <3>3, <3>4, LeavesFormed
  <2>5. UnwindsInside'
    BY <2>1 DEF CheckOut, Running, UnwindsInside
  <2>6. ASSUME ~shared, Nested, Kept
        PROVE  Nested' /\ Kept'
    <3>1. Nested'
      <4>1. UNCHANGED <<ehdr, parent, at>> /\ loose \cap (1..n) \subseteq loose'
        BY <2>1
      <4>2. LeavesNoTry(n)
        BY <1>3 DEF LeavesNoTry, Opener
      <4> QED
        BY <1>1, <2>2, <2>3, <2>6, <4>1, <4>2, LeavesNested
    <3>2. PICK h \in Handlers : h = ehdr
      BY <1>7, <2>6
    <3>3. /\ stacklist \in [Handlers -> Seq(Assurance)] /\ stacklist[h] \in Seq(Assurance)
          /\ checkedIn \in [Assurance -> Int]
      BY <1>1 DEF TypeOK
    <3>4. /\ stacklist' = [stacklist EXCEPT ![h] = Front(@)] /\ stacklist[h] # <<>>
          /\ checkedIn' = [checkedIn EXCEPT ![Last(stacklist[h])] = @ - 1]
      BY <1>6, <1>9, <2>1, <3>2
    <3>5. Counted(stacklist', checkedIn')
      <4>1. Counted(stacklist, checkedIn)
        BY <2>6 DEF Kept
      <4> QED
        BY <3>3, <3>4, <4>1, CountFronted
    <3>6. Listed(blocks', stack', loose', stacklist')
      <4>1. /\ \A i \in 1..(n + 1) : Openers(blocks', i) = Openers(blocks, i)
            /\ \A i \in 1..(n + 1) : OuterOf(blocks', stack', i) = OuterOf(blocks, stack, i)
        BY <1>3, <2>2, <2>3, OpenersKept, OuterKept
      <4>2. \A i \in 1..(n + 1) : Clean(blocks', loose', i) => Clean(blocks, loose, i)
        <5>1. loose \in SUBSET (1..Len(blocks)) /\ loose \cap (1..n) \subseteq loose'
          BY <1>3, <2>1
        <5> QED
          BY <1>3, <2>2, <5>1, CleanKept
      <4>3. /\ AssuresOf(blocks') = AssuresOf(blocks) \ {n + 1}
            /\ AssuresOf(blocks) \subseteq 1..(n + 1)
        BY <1>3, <2>2 DEF AssuresOf, Rewound
      <4> SUFFICES ASSUME NEW k \in AssuresOf(blocks'), Clean(blocks', loose', k)
                   PROVE  IsListed(stacklist'[OuterOf(blocks', stack', k)],
                                   AboveOf(blocks', k), stack'[k])
        BY DEF Listed
      <4>4. /\ OuterOf(blocks', stack', k) = OuterOf(blocks, stack, k)
            /\ Clean(blocks, loose, k) /\ k \in AssuresOf(blocks) /\ k \in 1..n
        BY <4>1, <4>2, <4>3
      <4>5. /\ IsListed(stacklist[OuterOf(blocks, stack, k)], AboveOf(blocks, k), stack[k])
            /\ stack'[k] = stack[k]
        BY <2>1, <2>6, <4>4 DEF Kept, Listed
      <4>6. PICK g \in Handlers : g = OuterOf(blocks, stack, k)
        BY <1>1, <2>6, <4>4, OuterOfAssure
      <4>7. g = h <=> Openers(blocks, k) = Openers(blocks, n + 1)
        BY <1>1, <1>5, <2>6, <3>2, <4>4, <4>6, InThisList
      <4>8. \A j \in AssuresOf(blocks) : Openers(blocks', j) = Openers(blocks, j)
        BY <4>1, <4>3
      <4>9. CASE g = h
        <5>1. /\ AboveOf(blocks', k) = AboveOf(blocks, k) \ {n + 1}
              /\ n + 1 \in AboveOf(blocks, k)
          BY <1>4, <4>3, <4>4, <4>7, <4>8, <4>9 DEF AboveOf
        <5>2. stacklist'[h] = Front(stacklist[h])
          BY <3>3, <3>4
        <5>3. IsFiniteSet(AboveOf(blocks, k))
          BY <1>3, AboveCount
        <5>4. IsListed(Front(stacklist[h]), AboveOf(blocks, k) \ {n + 1}, stack[k])
          BY <3>3, <3>4, <4>5, <4>6, <4>9, <5>1, <5>3, ListedFronted
        <5> QED
          BY <4>4, <4>5, <4>6, <4>9, <5>1, <5>2, <5>4
      <4>10. CASE g # h
        <5>1. AboveOf(blocks', k) = AboveOf(blocks, k)
          BY <4>3, <4>4, <4>7, <4>8, <4>10 DEF AboveOf
        <5>2. stacklist'[g] = stacklist[g]
          BY <3>3, <3>4, <4>10
        <5> QED
          BY <4>4, <4>5, <4>6, <5>1, <5>2
      <4> QED
        BY <4>9, <4>10
    <3> QED
      BY <3>1, <3>5, <3>6 DEF Kept
  <2> QED
    BY <2>1, <2>4, <2>5, <2>6 DEF ChainInv
<1> QED
  BY <1>8, <1>9

-----------------------------------------------------------------------------
(***************************************************************************)
(* throw.                                                                  *)
(***************************************************************************)
(* The walk begins no lower than the innermost try that is open. *)
Covers(sp) ==
  \E o \in Openers(blocks, Esp + 1) :
    o \in 1..sp /\ \A j \in Openers(blocks, Esp + 1) : j <= o

(* Where the innermost handler is found, inside a launch that is not loose. *)
LEMMA HandlerFound ==
  ASSUME Formed, Nested, Esp > 0, CurrentLaunch \notin loose
  PROVE  /\ ehdr # Null
         /\ at[ehdr] <= Esp /\ stack[at[ehdr]] = ehdr /\ blocks[at[ehdr]] \in Opener
         /\ \A sp : Covers(sp) => HandlerSlots(sp) # {}
<1>1. PICK q \in Nat : q = Esp
  BY SizeOfBlocks DEF Formed
<1>2. PICK o \in Openers(blocks, Esp + 1) : /\ ehdr = stack[o] /\ at[ehdr] = o
                                            /\ \A j \in Openers(blocks, Esp + 1) : j <= o
  BY WhereItIs
<1>3. o \in 1..q /\ blocks[o] \in Opener
  BY <1>1, <1>2 DEF Openers
<1>4. ehdr # Null
  BY WhereItIs, ObjectsAssumption DEF Handlers
<1>5. ASSUME NEW sp, Covers(sp)
      PROVE  HandlerSlots(sp) # {}
  <2>1. PICK d \in Openers(blocks, Esp + 1) :
          d \in 1..sp /\ \A j \in Openers(blocks, Esp + 1) : j <= d
    BY <1>5 DEF Covers
  <2>2. d = o
    <3>1. d \in Int /\ d <= o /\ o <= d
      BY <1>1, <1>2, <2>1 DEF Openers
    <3> QED
      BY <1>3, <3>1
  <2> QED
    BY <1>2, <2>1, <2>2 DEF HandlerSlots
<1> QED
  BY <1>1, <1>2, <1>3, <1>4, <1>5

(* A jump that is lost has emptied no list that matters. *)
LEMMA LostListed ==
  ASSUME Formed, Nested, Esp > 0, CurrentLaunch \in loose,
         Listed(blocks, stack, loose, stacklist),
         stacklist' = [stacklist EXCEPT ![ehdr] = <<>>]
  PROVE  Listed(blocks, stack, loose, stacklist')
<1>1. PICK q \in Nat : q = Esp
  BY SizeOfBlocks DEF Formed
<1>2. PICK l \in 1..q : /\ l = CurrentLaunch /\ blocks[l] = "launch"
                        /\ \A i \in (l + 1)..q : blocks[i] # "launch"
  BY <1>1, InLaunch DEF Formed
<1>3. at[ehdr] >= l
  BY <1>2, WhereItIs
<1> SUFFICES ASSUME NEW k \in AssuresOf(blocks), Clean(blocks, loose, k)
             PROVE  IsListed(stacklist'[OuterOf(blocks, stack, k)],
                             AboveOf(blocks, k), stack[k])
  BY DEF Listed
<1>4. k \in 1..q /\ blocks[k] = "assure"
  BY <1>1 DEF AssuresOf, Esp
<1>5. k < l
  <2>1. ~(l < k)
    <3>1. \A i \in (l + 1)..(k - 1) : i \in (l + 1)..q
      BY <1>4
    <3>2. \A i \in (l + 1)..(k - 1) : blocks[i] # "launch"
      BY <1>2, <3>1
    <3>3. k \in Nat /\ l \in loose
      BY <1>2, <1>4
    <3> QED
      BY <3>2, <3>3, NotClean
  <2> QED
    BY <1>2, <1>4, <2>1
<1>6. PICK h \in Handlers : h = OuterOf(blocks, stack, k) /\ at[h] \in 1..(k - 1)
  BY OuterOfAssure
<1>7. h # ehdr
  BY <1>3, <1>4, <1>5, <1>6
<1>8. stacklist'[h] = stacklist[h]
  BY <1>6, <1>7 DEF Formed, TypeOK
<1> QED
  BY <1>6, <1>8 DEF Listed


(* What the jump does to the program, when it is not lost. *)
LEMMA LandsAt ==
  ASSUME ChainInv, Running, ehdr \in Handlers, Land(ehdr), status' = status,
         ~(at[ehdr] > Esp \/ stack[at[ehdr]] # ehdr \/ blocks[at[ehdr]] \in {"method", "assure"})
  PROVE  \E n \in Nat :
           /\ Landing(n) /\ n + 1 <= Esp /\ Esp' <= MaxSlot
           /\ n = 0 => Esp' = 0
           /\ Esp' = n + 1 => blocks[n] # "launch"
           /\ loose' \subseteq {i \in 1..n : blocks[i] = "launch"}
           /\ throwing' \in BOOLEAN /\ UNCHANGED shared
<1>1. /\ TypeOK /\ Formed /\ Shape(blocks) /\ blocks \in Seq(Block) /\ MaxSlot \in Nat
      /\ at[ehdr] \in 0..MaxSlot /\ at[ehdr] # 0
  BY SizeOfBlocks DEF ChainInv, Formed, TypeOK, WasSet
<1>2. PICK n \in Nat : n + 1 = at[ehdr]
  <2>1. at[ehdr] - 1 \in Nat /\ (at[ehdr] - 1) + 1 = at[ehdr]
    BY <1>1
  <2> QED
    BY <2>1
<1>3. PICK q \in Nat : q = Len(blocks) /\ q = Esp /\ n + 1 <= q /\ q <= MaxSlot
  BY <1>1, <1>2, SizeOfBlocks DEF Esp
<1>4. /\ stack[n + 1] = ehdr /\ blocks[n + 1] \notin {"method", "assure"}
      /\ n \in 0..Len(blocks)
  BY <1>2, <1>3
<1>5. /\ \/ blocks' = SubSeq(blocks, 1, n) /\ throwing' = TRUE
         \/ /\ blocks[n + 1] # "launch"
            /\ \/ blocks' = Append(SubSeq(blocks, 1, n), "catch") /\ throwing' = FALSE
               \/ blocks' = Append(SubSeq(blocks, 1, n), "finally") /\ throwing' = TRUE
      /\ loose' = loose \cap 1..Len(blocks') /\ ehdr' = parent[ehdr]
      /\ UNCHANGED <<stack, parent, at, shared>>
  <2>1. at[ehdr] - 1 = n
    BY <1>2
  <2> QED
    BY <1>2, <2>1 DEF Land, PopTo, OuterHandler
<1>6. /\ blocks' \in Seq(Block) /\ Rewound(blocks, blocks', n)
      /\ \/ Len(blocks') = n
         \/ /\ blocks[n + 1] # "launch" /\ Len(blocks') = n + 1
            /\ blocks'[n + 1] \in {"catch", "finally"}
  <2>1. "catch" \in Block \ Opener /\ "finally" \in Block \ Opener
    BY DEF Block, Code, Opener
  <2>2. CASE blocks' = SubSeq(blocks, 1, n)
    BY <1>1, <1>4, <2>2, Popped
  <2>3. CASE blocks[n + 1] # "launch" /\ blocks' = Append(SubSeq(blocks, 1, n), "catch")
    BY <1>1, <1>4, <2>1, <2>3, PoppedAndPushed
  <2>4. CASE blocks[n + 1] # "launch" /\ blocks' = Append(SubSeq(blocks, 1, n), "finally")
    BY <1>1, <1>4, <2>1, <2>4, PoppedAndPushed
  <2> QED
    BY <1>5, <2>2, <2>3, <2>4
<1>7. PICK m \in Nat : m = Len(blocks') /\ m = Esp' /\ m \in n..(n + 1)
  BY <1>6 DEF Esp
<1>8. Landing(n)
  BY <1>2, <1>3, <1>4, <1>5, <1>6, <1>7 DEF Landing, Esp
<1>9. n = 0 => m = 0
  <2>1. n = 0 => blocks[n + 1] = "launch"
    BY <1>1, <1>3 DEF Shape
  <2> QED
    BY <1>6, <1>7, <2>1
<1>10. m = n + 1 => blocks[n] # "launch"
  <2>1. n > 0 => (blocks[n] = "launch" => blocks[n + 1] = "method")
    BY <1>1, <1>3 DEF Shape
  <2> QED
    BY <1>4, <1>7, <1>9, <2>1
<1>11. loose' \subseteq {i \in 1..n : blocks[i] = "launch"}
  <2>1. \A i \in loose : i \in 1..q /\ blocks[i] = "launch"
    BY <1>1, <1>3 DEF TypeOK
  <2>2. ASSUME NEW i \in loose'
        PROVE  i \in 1..n /\ blocks[i] = "launch"
    <3>1. i \in loose /\ i \in 1..m
      BY <1>5, <1>7
    <3>2. m = n + 1 => blocks[n + 1] # "launch"
      BY <1>6, <1>7
    <3> QED
      BY <1>7, <2>1, <3>1, <3>2
  <2> QED
    BY <2>2
<1>12. n + 1 <= Esp /\ Esp' <= MaxSlot
  BY <1>1, <1>3, <1>7
<1> QED
  BY <1>5, <1>7, <1>8, <1>9, <1>10, <1>11, <1>12

LEMMA UnwindKeeps ==
  ASSUME ChainInv, Running, Top \in Code, NEW sp, Unwind(sp), Nested => Covers(sp)
  PROVE  ChainInv'
<1>1. /\ TypeOK /\ Formed /\ stacklist \in [Handlers -> Seq(Assurance)]
      /\ checkedIn \in [Assurance -> Int] /\ ehdr \in Handlers \cup {Null}
  BY DEF ChainInv, Formed, TypeOK
<1>2. Esp > 0
  <2>1. PICK n \in Nat : CodeAt(n)
    BY InCode
  <2> QED
    BY <2>1 DEF CodeAt
<1>3. CASE ehdr = Null \/ HandlerSlots(sp) = {}
  <2>1. Stop("exit") /\ UNCHANGED <<throwing, stacklist, checkedIn>>
    BY <1>3 DEF Unwind
  <2>2. Nested => CurrentLaunch \in loose
    BY <1>1, <1>2, <1>3, HandlerFound
  <2>3. ~shared /\ Nested /\ Kept =>
          /\ CurrentLaunch \in loose
          /\ Listed(blocks, stack, loose, stacklist') /\ Counted(stacklist', checkedIn')
    BY <2>1, <2>2 DEF Kept
  <2> QED
    BY <1>1, <2>1, <2>3, StopKeeps
<1>4. CASE ~(ehdr = Null \/ HandlerSlots(sp) = {})
  <2>1. /\ ehdr \in Handlers /\ Land(ehdr)
        /\ checkedIn' = [a \in Assurance |-> checkedIn[a] - Occurrences(a, stacklist[ehdr])]
        /\ stacklist' = [stacklist EXCEPT ![ehdr] = <<>>]
    BY <1>1, <1>4 DEF Unwind, TrimList
  <2>2. stacklist' \in [Handlers -> Seq(Assurance)]
    BY <1>1, <2>1, ListsTyped
  <2>3. checkedIn' \in [Assurance -> Int]
    <3>1. ASSUME NEW a \in Assurance
          PROVE  checkedIn[a] - Occurrences(a, stacklist[ehdr]) \in Int
      <4>1. stacklist[ehdr] \in Seq(Assurance) /\ checkedIn[a] \in Int
        BY <1>1, <2>1
      <4>2. Occurrences(a, stacklist[ehdr]) \in Nat
        BY <4>1, OccurrencesCount
      <4> QED
        BY <4>1, <4>2
    <3> QED
      BY <2>1, <3>1
  <2>4. Counted(stacklist, checkedIn) => Counted(stacklist', checkedIn')
    BY <1>1, <2>1, CountTrimmed
  <2>5. CASE at[ehdr] > Esp \/ stack[at[ehdr]] # ehdr \/ blocks[at[ehdr]] \in {"method", "assure"}
    <3>1. Stop("lost") /\ UNCHANGED throwing
      BY <2>1, <2>5 DEF Land
    <3>2. Nested => CurrentLaunch \in loose
      <4> SUFFICES ASSUME Nested, CurrentLaunch \notin loose
                   PROVE  FALSE
        OBVIOUS
      <4>1. at[ehdr] <= Esp /\ stack[at[ehdr]] = ehdr /\ blocks[at[ehdr]] \in Opener
        BY <1>1, <1>2, HandlerFound
      <4>2. ~(at[ehdr] > Esp)
        BY <1>1, <2>1, <4>1, SizeOfBlocks DEF TypeOK
      <4> QED
        BY <2>5, <4>1, <4>2 DEF Opener
    <3>3. ~shared /\ Nested /\ Kept =>
            /\ CurrentLaunch \in loose
            /\ Listed(blocks, stack, loose, stacklist') /\ Counted(stacklist', checkedIn')
      BY <1>1, <1>2, <2>1, <2>4, <3>2, LostListed DEF Kept
    <3> QED
      BY <2>2, <2>3, <3>1, <3>3, StopKeeps
  <2>6. CASE ~(at[ehdr] > Esp \/ stack[at[ehdr]] # ehdr \/ blocks[at[ehdr]] \in {"method", "assure"})
    <3>1. status' = status
      BY <2>1, <2>6 DEF Land
    <3>2. PICK n \in Nat :
            /\ Landing(n) /\ n + 1 <= Esp /\ Esp' <= MaxSlot
            /\ n = 0 => Esp' = 0
            /\ Esp' = n + 1 => blocks[n] # "launch"
            /\ loose' \subseteq {i \in 1..n : blocks[i] = "launch"}
            /\ throwing' \in BOOLEAN /\ UNCHANGED shared
      BY <2>1, <2>6, <3>1, LandsAt
    <3>3. Formed'
      <4>1. /\ blocks' \in Seq(Block) /\ Rewound(blocks, blocks', n)
            /\ UNCHANGED <<stack, parent, at>> /\ ehdr' = parent[ehdr]
        BY <3>2 DEF Landing
      <4>2. /\ stack' \in [Slot -> Handlers \cup Assurance \cup {Null}]
            /\ SameUpTo(stack, stack', n)
            /\ status' \in {"running", "assertion", "exit", "lost"}
        BY <1>1, <3>1, <4>1 DEF TypeOK, SameUpTo
      <4>3. ehdr' = ehdr \/ \E h \in Handlers : ehdr' = parent[h]
        BY <2>1, <4>1
      <4>4. Esp' = n + 1 => blocks[n] # "launch" \/ blocks'[n + 1] = "method"
        BY <3>2
      <4> QED
        BY <1>1, <2>2, <2>3, <3>2, <4>1, <4>2, <4>3, <4>4, LeavesFormed
    <3>4. UnwindsInside'
      BY <3>1 DEF Running, UnwindsInside
    <3>5. ASSUME ~shared, Nested, Kept
          PROVE  Nested' /\ Kept'
      <4>1. Nested'
        BY <1>1, <3>2, <3>5, LandsNested
      <4>2. Listed(blocks', stack', loose', stacklist')
        BY <1>1, <2>1, <3>2, <3>5, LandsListed DEF Kept
      <4> QED
        BY <2>4, <3>5, <4>1, <4>2 DEF Kept
    <3> QED
      BY <3>2, <3>3, <3>4, <3>5 DEF ChainInv
  <2> QED
    BY <2>5, <2>6
<1> QED
  BY <1>3, <1>4


LEMMA ItCovers ==
  ASSUME Formed, Esp > 0, NEW sp \in Int, Openers(blocks, Esp + 1) \subseteq 1..sp
  PROVE  Covers(sp)
<1>1. PICK q \in Nat : q = Esp
  BY SizeOfBlocks DEF Formed
<1>2. 1 \in Openers(blocks, q + 1)
  BY <1>1 DEF Formed, Shape, Openers, Opener, Esp
<1>3. PICK o \in Openers(blocks, q + 1) : /\ OuterOf(blocks, stack, q + 1) = stack[o]
                                          /\ \A j \in Openers(blocks, q + 1) : j <= o
  BY <1>2, OuterIs
<1> QED
  BY <1>1, <1>3 DEF Covers

LEMMA ThrowKeeps ==
  ASSUME ChainInv, Throw
  PROVE  ChainInv'
<1>1. Top \in Code /\ TypeOK /\ Shape(blocks) /\ Formed /\ Running
  BY DEF Throw, ChainInv, Formed
<1>2. PICK q \in Nat : q = Esp
  BY <1>1, SizeOfBlocks
<1>3. /\ q > 1 /\ Frame \in 2..q /\ \A i \in Frame..q : blocks[i] # "launch"
  BY <1>1, <1>2, InFrame
<1>4. PICK sp : sp = ThrowStart
  OBVIOUS
<1>5. Covers(sp)
  <2>1. CASE InTry
    <3>1. sp = q
      BY <1>2, <1>4, <2>1 DEF ThrowStart
    <3>2. Openers(blocks, Esp + 1) \subseteq 1..sp
      BY <1>2, <3>1 DEF Openers
    <3> QED
      BY <1>1, <1>2, <1>3, <3>1, <3>2, ItCovers
  <2>2. CASE ~InTry
    <3>1. sp = Frame /\ sp \in 2..q
      BY <1>3, <1>4, <2>2 DEF ThrowStart
    <3>2. \A i \in sp..q : blocks[i] \notin Opener
      BY <1>2, <1>3, <2>2, <3>1 DEF InTry, Opener
    <3>3. Openers(blocks, Esp + 1) \subseteq 1..sp
      BY <1>2, <3>1, <3>2 DEF Openers
    <3> QED
      BY <1>1, <1>2, <1>3, <3>1, <3>3, ItCovers
  <2> QED
    BY <2>1, <2>2
<1>6. Unwind(sp)
  BY <1>4 DEF Throw
<1> QED
  BY <1>1, <1>5, <1>6, UnwindKeeps

LEMMA AssertFailsKeeps ==
  ASSUME ChainInv, AssertFails
  PROVE  ChainInv'
<1>1. Top \in Code /\ TypeOK /\ Shape(blocks) /\ Formed /\ Running
  BY DEF AssertFails, ChainInv, Formed
<1>2. PICK q \in Nat : q = Esp
  BY <1>1, SizeOfBlocks
<1>3. q > 1
  BY <1>1, <1>2, InFrame
<1>4. PICK sp \in Int : sp = q + 1
  OBVIOUS
<1>5. Openers(blocks, Esp + 1) \subseteq 1..sp
  BY <1>2, <1>4 DEF Openers
<1>6. Covers(sp)
  BY <1>1, <1>2, <1>3, <1>5, ItCovers
<1>7. Unwind(sp)
  BY <1>2, <1>4 DEF AssertFails
<1> QED
  BY <1>1, <1>6, <1>7, UnwindKeeps

LEMMA FinallyEndsKeeps ==
  ASSUME ChainInv, FinallyEnds
  PROVE  ChainInv'
<1>1. /\ Top = "finally" /\ Top \in Code /\ TypeOK /\ Shape(blocks) /\ Formed /\ Running
  BY DEF FinallyEnds, ChainInv, Formed, Code
<1>2. PICK q \in Nat : q = Esp
  BY <1>1, SizeOfBlocks
<1>3. q > 1 /\ blocks[q] = "finally"
  BY <1>1, <1>2, InFrame
<1>4. CASE Unwind(Esp - 1)
  <2>1. PICK sp \in Int : sp = q - 1
    OBVIOUS
  <2>2. Openers(blocks, Esp + 1) \subseteq 1..sp
    BY <1>2, <1>3, <2>1 DEF Openers, Opener
  <2>3. Covers(sp)
    BY <1>1, <1>2, <1>3, <2>2, ItCovers
  <2>4. Unwind(sp)
    BY <1>2, <1>4, <2>1
  <2> QED
    BY <1>1, <2>3, <2>4, UnwindKeeps
<1>5. CASE ~Unwind(Esp - 1)
  <2>1. /\ blocks' = PopTo(Esp - 1)
        /\ UNCHANGED <<stack, ehdr, parent, at, stacklist, throwing, checkedIn, loose,
                       shared, status>>
    BY <1>5 DEF FinallyEnds
  <2> QED
    BY <1>1, <2>1, FinallyPassed
<1> QED
  BY <1>4, <1>5


-----------------------------------------------------------------------------
(***************************************************************************)
(* Launches and tries.                                                     *)
(***************************************************************************)
(* A launch that ends makes the handler outside of it the innermost one.   *)
LEMMA LaunchEndsNested ==
  ASSUME Formed, Nested, NEW n \in Nat, n + 1 = Esp, blocks[n + 1] = "launch",
         blocks' \in Seq(Block), Len(blocks') = n, Rewound(blocks, blocks', n),
         SameUpTo(stack, stack', n), UNCHANGED <<parent, at>>,
         ehdr' = parent[stack[n + 1]], loose' = loose \ {n + 1}
  PROVE  Nested'
<1>1. blocks \in Seq(Block) /\ loose \subseteq 1..Len(blocks) /\ Len(blocks) = n + 1
  BY SizeOfBlocks DEF Formed, TypeOK, Esp
<1>2. PICK p, t, e, f : p = parent /\ t = at /\ e = ehdr /\ f = ehdr'
  OBVIOUS
<1>3. loose \cap (1..n) \subseteq loose'
  BY <1>1
<1>4. n + 1 \in Openers(blocks, Len(blocks) + 1)
  BY <1>1 DEF Openers, Opener
<1>5. stack[n + 1] \in Handlers /\ t[stack[n + 1]] = n + 1
  BY <1>2, <1>4 DEF Formed, Holding, Nested, Chained
<1>6. Chained(blocks', stack', p, t, loose')
  <2>1. Chained(blocks, stack, p, t, loose)
    BY <1>2 DEF Nested
  <2> QED
    BY <1>1, <1>3, <2>1, RewindChained
<1>7. Confined(blocks', stack', f, p, t)
  <2>1. Confined(blocks, stack, e, p, t)
    BY <1>2 DEF Nested
  <2>2. ASSUME NEW l \in 1..n, NEW C \in SUBSET Handlers, blocks[l] = "launch",
               Reach(blocks, stack, e, p, t, l, C)
        PROVE  f \in C
    <3>1. l \in Openers(blocks, Len(blocks) + 1)
      BY <1>1, <2>2 DEF Openers, Opener
    <3>2. t[stack[l]] = l
      BY <1>2, <3>1 DEF Nested, Chained
    <3>3. stack[n + 1] \in C /\ n + 1 > l
      BY <1>4, <2>2 DEF Reach
    <3>4. stack[n + 1] # stack[l]
      BY <1>5, <3>2, <3>3
    <3> QED
      BY <1>2, <2>2, <3>3, <3>4 DEF Reach
  <2>3. \A l \in 1..n : \A C \in SUBSET Handlers :
          blocks[l] = "launch" /\ Reach(blocks, stack, e, p, t, l, C) => f \in C
    BY <2>2
  <2> QED
    BY <1>1, <2>1, <2>3, RewindConfined
<1>8. Innermost(blocks', stack', f, loose')
  <2>1. OuterOf(blocks', stack', Len(blocks') + 1) = OuterOf(blocks, stack, n + 1)
    BY <1>1, OuterKept
  <2>2. ASSUME Clean(blocks', loose', Len(blocks') + 1)
        PROVE  p[stack[n + 1]] = OuterOf(blocks, stack, n + 1)
    <3>1. Clean(blocks, loose, n + 1)
      BY <1>1, <1>3, <2>2, CleanKept
    <3> QED
      BY <1>2, <1>4, <3>1 DEF Nested, Chained
  <2> QED
    BY <1>2, <2>1, <2>2 DEF Innermost
<1> QED
  BY <1>2, <1>6, <1>7, <1>8 DEF Nested

LEMMA LaunchEndsKeeps ==
  ASSUME ChainInv, LaunchEnds
  PROVE  ChainInv'
<1>1. Top = "launch" /\ TypeOK /\ Formed
  BY DEF LaunchEnds, ChainInv, Formed
<1>2. Esp > 0 /\ blocks[Esp] = "launch"
  BY <1>1, TopIs
<1>3. PICK n \in Nat : n + 1 = Esp
  <2>1. Esp - 1 \in Nat /\ (Esp - 1) + 1 = Esp
    BY <1>1, <1>2, SizeOfBlocks
  <2> QED
    BY <2>1
<1>4. /\ Len(blocks) = n + 1 /\ blocks \in Seq(Block) /\ blocks[n + 1] = "launch"
      /\ n + 1 \in Slot /\ MaxSlot \in Nat /\ n <= MaxSlot
  BY <1>1, <1>2, <1>3, SizeOfBlocks DEF Esp, Slot
<1>5. /\ blocks' = SubSeq(blocks, 1, n) /\ ehdr' = parent[stack[n + 1]]
      /\ stack' = [stack EXCEPT ![n + 1] = NullHandler] /\ loose' = loose \ {n + 1}
      /\ UNCHANGED <<parent, at, stacklist, throwing, checkedIn, shared, status>>
  <2>1. Esp - 1 = n
    BY <1>3
  <2> QED
    BY <1>3, <2>1 DEF LaunchEnds, PopTo
<1>6. blocks' \in Seq(Block) /\ Len(blocks') = n /\ Rewound(blocks, blocks', n)
  <2>1. n \in 0..Len(blocks)
    BY <1>4
  <2> QED
    BY <1>4, <1>5, <2>1, Popped
<1>7. /\ SameUpTo(stack, stack', n)
      /\ stack' \in [Slot -> Handlers \cup Assurance \cup {Null}]
  BY <1>1, <1>4, <1>5 DEF TypeOK, SameUpTo, Slot, Handlers
<1>8. Formed'
  <2>1. Esp' = n /\ Esp' <= MaxSlot /\ ~(Esp' = n + 1)
    BY <1>4, <1>6 DEF Esp
  <2>2. stack[n + 1] \in Handlers
    <3>1. n + 1 \in Openers(blocks, Len(blocks) + 1)
      BY <1>4 DEF Openers, Opener
    <3> QED
      BY <1>1, <3>1 DEF Formed, Holding
  <2>3. loose' \subseteq {i \in 1..n : blocks[i] = "launch"}
    BY <1>1, <1>3, <1>5 DEF TypeOK
  <2>4. /\ UNCHANGED <<parent, at, shared>> /\ (ehdr' = ehdr \/ \E h \in Handlers : ehdr' = parent[h])
        /\ stacklist' \in [Handlers -> Seq(Assurance)] /\ checkedIn' \in [Assurance -> Int]
        /\ throwing' \in BOOLEAN /\ status' \in {"running", "assertion", "exit", "lost"}
    BY <1>1, <1>5, <2>2 DEF TypeOK
  <2> QED
    BY <1>1, <1>6, <1>7, <2>1, <2>3, <2>4, LeavesFormed
<1>9. UnwindsInside'
  BY <1>5 DEF LaunchEnds, Running, UnwindsInside
<1>10. ASSUME ~shared, Nested, Kept
       PROVE  Nested' /\ Kept'
  <2>1. Nested'
    BY <1>1, <1>3, <1>4, <1>5, <1>6, <1>7, <1>10, LaunchEndsNested
  <2>2. LeavesNoAssure(n) /\ ~(Esp' = n + 1) /\ loose \cap (1..n) \subseteq loose'
    BY <1>3, <1>4, <1>5, <1>6 DEF LeavesNoAssure, Esp
  <2>3. Listed(blocks', stack', loose', stacklist)
    BY <1>1, <1>6, <1>7, <1>10, <2>2, LeavesListed DEF Kept
  <2> QED
    BY <1>5, <1>10, <2>1, <2>3 DEF Kept
<1> QED
  BY <1>5, <1>8, <1>9, <1>10 DEF ChainInv


LEMMA SettingKeeps ==
  ASSUME ChainInv, Running, NEW n \in Nat, NEW h \in Handlers,
         SetHandler(h, n + 1), Entering(h, n),
         throwing' \in BOOLEAN, UNCHANGED <<checkedIn, status>>
  PROVE  ChainInv'
<1>1. Formed /\ TypeOK
  BY DEF ChainInv, Formed
<1>2. /\ UNCHANGED stacklist \/ stacklist' = [stacklist EXCEPT ![h] = <<>>]
      /\ shared' = (shared \/ OpenAt(h) # {})
  BY DEF SetHandler
<1>3. Formed'
  <2>1. stacklist' \in [Handlers -> Seq(Assurance)]
    <3>1. CASE stacklist' = stacklist
      BY <1>1, <3>1 DEF TypeOK
    <3>2. CASE stacklist' = [stacklist EXCEPT ![h] = <<>>]
      BY <1>1, <3>2, ListsTyped DEF TypeOK
    <3> QED
      BY <1>2, <3>1, <3>2
  <2>2. shared' \in BOOLEAN
    BY <1>2
  <2> QED
    BY <1>1, <2>1, <2>2, EntersFormed
<1>4. UnwindsInside'
  BY DEF Running, UnwindsInside
<1>5. ASSUME ~shared'
      PROVE  Nested' /\ Kept'
  <2>1. ~shared /\ OpenAt(h) = {} /\ Nested /\ Kept
    BY <1>2, <1>5 DEF ChainInv
  <2>2. Nested'
    BY <1>1, <2>1, EntersNested
  <2>3. Listed(blocks', stack', loose', stacklist')
    BY <1>1, <1>2, <2>1, EntersListed DEF Kept
  <2>4. Counted(stacklist', checkedIn)
    <3>1. CASE stacklist' = stacklist
      BY <2>1, <3>1 DEF Kept
    <3>2. CASE stacklist' = [stacklist EXCEPT ![h] = <<>>]
      BY <1>1, <2>1, <3>2, CountEmptied DEF Kept, TypeOK
    <3> QED
      BY <1>2, <3>1, <3>2
  <2> QED
    BY <2>2, <2>3, <2>4 DEF Kept
<1> QED
  BY <1>3, <1>4, <1>5 DEF ChainInv

LEMMA TryKeeps ==
  ASSUME ChainInv, Try
  PROVE  ChainInv'
<1>1. Top \in Code /\ TypeOK /\ Formed /\ Running
  BY DEF Try, ChainInv, Formed
<1>2. PICK m \in Nat : CodeAt(m)
  BY <1>1, InCode
<1>3. PICK n \in Nat : n = m + 1
  OBVIOUS
<1>4. /\ n > 1 /\ Esp = n /\ Len(blocks) = n /\ blocks \in Seq(Block) /\ MaxSlot \in Nat
      /\ blocks[n] # "launch" /\ n < MaxSlot
  BY <1>2, <1>3 DEF CodeAt, Code, Try
<1>5. blocks' \in Seq(Block) /\ Entered(blocks, blocks', n) /\ Esp' = n + 1
  <2>1. "try" \in Block
    BY DEF Block, Code
  <2>2. blocks' = Append(blocks, "try")
    BY DEF Try, Push
  <2>3. /\ blocks' \in Seq(Block) /\ Len(blocks') = n + 1 /\ blocks'[n + 1] = "try"
        /\ \A i \in 1..n : blocks'[i] = blocks[i]
    BY <1>4, <2>1, <2>2
  <2> QED
    BY <1>4, <2>3 DEF Entered, Esp
<1>6. PICK h \in Handlers : SetHandler(h, n + 1)
  BY <1>4 DEF Try
<1>7. Entering(h, n)
  <2>1. Esp' <= MaxSlot
    BY <1>4, <1>5
  <2> QED
    BY <1>4, <1>5, <1>6, <2>1 DEF Entering, SetHandler, Try
<1> QED
  BY <1>1, <1>6, <1>7, SettingKeeps DEF Try, TypeOK

LEMMA LaunchKeeps ==
  ASSUME ChainInv, Launch
  PROVE  ChainInv'
<1>1. Top # "launch" /\ TypeOK /\ Formed /\ Running
  BY DEF Launch, ChainInv, Formed
<1>2. PICK n \in Nat : n = Esp
  BY <1>1, SizeOfBlocks
<1>3. /\ Len(blocks) = n /\ blocks \in Seq(Block) /\ MaxSlot \in Nat
      /\ n + 2 <= MaxSlot
  BY <1>1, <1>2, SizeOfBlocks DEF Esp, Launch
<1>4. n > 0 => blocks[n] # "launch"
  BY <1>1, <1>3 DEF Top, Last
<1>5. /\ blocks' \in Seq(Block) /\ Len(blocks') = n + 2
      /\ blocks'[n + 1] = "launch" /\ blocks'[n + 2] = "method"
      /\ \A i \in 1..n : blocks'[i] = blocks[i]
  <2>1. "launch" \in Block /\ "method" \in Block
    BY DEF Block, Code
  <2>2. blocks' = blocks \o <<"launch", "method">> /\ <<"launch", "method">> \in Seq(Block)
    BY <2>1 DEF Launch
  <2> QED
    BY <1>3, <2>2
<1>6. Entered(blocks, blocks', n) /\ Esp' = n + 2
  BY <1>3, <1>5 DEF Entered, Esp
<1>7. PICK h \in Handlers : SetHandler(h, n + 1)
  BY <1>2 DEF Launch
<1>8. Entering(h, n)
  <2>1. Esp' <= MaxSlot /\ n < MaxSlot
    BY <1>3, <1>6
  <2>2. IF n = 0 THEN blocks'[1] = "launch" ELSE blocks[n] # "launch"
    BY <1>4, <1>5
  <2> QED
    BY <1>5, <1>6, <1>7, <2>1, <2>2 DEF Entering, SetHandler, Launch
<1> QED
  BY <1>1, <1>7, <1>8, SettingKeeps DEF Launch, TypeOK


-----------------------------------------------------------------------------
(***************************************************************************)
(* The invariant, and the properties that follow from it.                  *)
(***************************************************************************)
LEMMA InitHolds == Init => ChainInv
<1> SUFFICES ASSUME Init
             PROVE  ChainInv
  OBVIOUS
<1>1. Len(blocks) = 0 /\ blocks \in Seq(Block) /\ MaxSlot \in Nat
  BY BoundsAssumption DEF Init
<1>2. TypeOK
  <2>1. /\ blocks \in Seq(Code \cup {"launch"}) /\ Esp <= MaxSlot
        /\ loose \subseteq {i \in 1..Esp : blocks[i] = "launch"}
    BY <1>1 DEF Init, Block, Esp
  <2>2. /\ stack \in [Slot -> Handlers \cup Assurance \cup {Null}]
        /\ parent \in [Handlers -> Handlers \cup {Null}]
        /\ stacklist \in [Handlers -> Seq(Assurance)]
    BY DEF Init
  <2>3. at \in [Handlers -> 0..MaxSlot] /\ checkedIn \in [Assurance -> Int]
    BY <1>1 DEF Init
  <2>4. throwing \in BOOLEAN /\ shared \in BOOLEAN
    BY DEF Init
  <2> QED
    BY <2>1, <2>2, <2>3, <2>4 DEF Init, TypeOK
<1>3. Shape(blocks) /\ Holding(blocks, stack)
  BY <1>1 DEF Shape, Holding, Openers
<1>4. WasSet(ehdr, parent, at)
  BY ObjectsAssumption DEF Init, WasSet, Handlers
<1>5. UnwindsInside
  BY DEF Init, UnwindsInside
<1>6. Nested
  <2>1. Openers(blocks, Len(blocks) + 1) = {}
    BY <1>1 DEF Openers
  <2>2. Chained(blocks, stack, parent, at, loose)
    BY <2>1 DEF Chained
  <2>3. Innermost(blocks, stack, ehdr, loose)
    BY <2>1 DEF Init, Innermost, OuterOf
  <2>4. Confined(blocks, stack, ehdr, parent, at)
    BY <1>1 DEF Confined
  <2> QED
    BY <2>2, <2>3, <2>4 DEF Nested
<1>7. Listed(blocks, stack, loose, stacklist)
  BY <1>1 DEF Listed, AssuresOf
<1>8. Counted(stacklist, checkedIn)
  <2> SUFFICES ASSUME NEW a \in Assurance
               PROVE  /\ IsFiniteSet(Places(stacklist, a))
                      /\ checkedIn[a] >= Cardinality(Places(stacklist, a))
    BY DEF Counted
  <2>1. Places(stacklist, a) = {}
    BY DEF Init, Places
  <2>2. checkedIn[a] = 0
    BY DEF Init
  <2> QED
    BY <2>1, <2>2, FS_EmptySet
<1> QED
  BY <1>2, <1>3, <1>4, <1>5, <1>6, <1>7, <1>8 DEF ChainInv, Formed, Kept

LEMMA StepHolds == ChainInv /\ [Next]_vars => ChainInv'
<1> SUFFICES ASSUME ChainInv, [Next]_vars
             PROVE  ChainInv'
  OBVIOUS
<1>1. CASE Try
  BY <1>1, TryKeeps
<1>2. CASE TryEnds
  BY <1>2, TryEndsKeeps
<1>3. CASE CatchEnds
  BY <1>3, CatchEndsKeeps
<1>4. CASE FinallyEnds
  BY <1>4, FinallyEndsKeeps
<1>5. CASE Throw
  BY <1>5, ThrowKeeps
<1>6. CASE AssertFails
  BY <1>6, AssertFailsKeeps
<1>7. CASE Call
  BY <1>7, CallKeeps
<1>8. CASE Return
  BY <1>8, ReturnKeeps
<1>9. CASE Break
  BY <1>9, BreakKeeps
<1>10. ASSUME NEW a \in Assurance, CheckIn(a)
       PROVE  ChainInv'
  BY <1>10, CheckInKeeps
<1>11. CASE CheckOut
  BY <1>11, CheckOutKeeps
<1>12. CASE Launch
  BY <1>12, LaunchKeeps
<1>13. CASE LaunchEnds
  BY <1>13, LaunchEndsKeeps
<1>14. CASE ClearStack
  BY <1>14, ClearStackKeeps
<1>15. CASE UNCHANGED vars
  <2>1. UNCHANGED <<blocks, stack, ehdr, parent, at, stacklist, throwing, checkedIn,
                    loose, shared, status>>
    BY <1>15 DEF vars
  <2>2. Formed' = Formed
    BY <2>1 DEF Formed, TypeOK, Esp, Shape, Holding, WasSet
  <2>3. UnwindsInside' = UnwindsInside
    BY <2>1 DEF UnwindsInside, CurrentLaunch, Esp
  <2>4. Nested' = Nested
    BY <2>1 DEF Nested
  <2>5. Kept' = Kept
    BY <2>1 DEF Kept
  <2> QED
    BY <2>1, <2>2, <2>3, <2>4, <2>5 DEF ChainInv
<1> QED
  BY <1>1, <1>2, <1>3, <1>4, <1>5, <1>6, <1>7, <1>8, <1>9, <1>10, <1>11, <1>12, <1>13,
     <1>14, <1>15
  DEF Next

(* ChainInv holds as long as the virtual machine runs, for stacks of any   *)
(* size, any handlers and any objects that are assured.                    *)
THEOREM ChainHolds == Spec => []ChainInv
<1>1. Init => ChainInv
  BY InitHolds
<1>2. ChainInv /\ [Next]_vars => ChainInv'
  BY StepHolds
<1> QED
  BY <1>1, <1>2, PTL DEF Spec

(* The stack, its handlers and their lists are always well formed: there   *)
(* are no more blocks than slots, and loose names launches that are open.  *)
THEOREM StackTyped == Spec => []TypeOK
<1>1. ChainInv => TypeOK
  BY DEF ChainInv, Formed
<1> QED
  BY <1>1, ChainHolds, PTL

(* The parents of the handlers, from the innermost one on, are those of    *)
(* the tries around it, for tries of any depth (TRY, THROW and TRYEND of   *)
(* konoha_vm.h, around knh_throw).                                         *)
THEOREM HandlersNest == Spec => []ChainIsNesting
<1>1. ChainInv => ChainIsNesting
  <2> SUFFICES ASSUME ChainInv, ~shared
               PROVE  /\ \A i \in OpenBelow(Cut + 1) : /\ stack[i] \in Handlers
                                                       /\ parent[stack[i]] = Outer(i)
                                                       /\ at[stack[i]] = i
                      /\ loose = {} => ehdr = Outer(Esp + 1)
    BY DEF ChainIsNesting
  <2>1. /\ Holding(blocks, stack) /\ TypeOK /\ Esp \in Nat /\ Esp = Len(blocks)
        /\ Chained(blocks, stack, parent, at, loose) /\ Innermost(blocks, stack, ehdr, loose)
    BY SizeOfBlocks DEF ChainInv, Formed, Nested, Esp
  <2>2. \A i : OpenBelow(i) = Openers(blocks, i) /\ Outer(i) = OuterOf(blocks, stack, i)
    BY DEF OpenBelow, Openers, Opener, Outer, OuterOf
  <2>3. Cut \in 0..Esp /\ \A l \in loose : Cut <= l
    <3>1. loose \subseteq 1..Esp
      BY <2>1 DEF TypeOK
    <3>2. CASE loose = {}
      BY <2>1, <3>2 DEF Cut
    <3>3. CASE loose # {}
      <4>1. loose \subseteq Nat
        BY <2>1, <3>1
      <4>2. PICK c \in loose : \A l \in loose : ~(<<l, c>> \in OpToRel(<, Nat))
        BY <3>3, <4>1, NatLessThanWellFounded, WFMin
      <4>3. \A l \in loose : c <= l
        <5>1. \A l \in loose : ~(l < c)
          BY <4>1, <4>2 DEF OpToRel
        <5> QED
          BY <4>1, <5>1
      <4>4. Cut \in loose /\ \A l \in loose : Cut <= l
        BY <3>3, <4>3 DEF Cut
      <4> QED
        BY <2>1, <3>1, <4>4
    <3> QED
      BY <3>2, <3>3
  <2>4. ASSUME NEW i \in OpenBelow(Cut + 1)
        PROVE  /\ stack[i] \in Handlers
               /\ parent[stack[i]] = Outer(i)
               /\ at[stack[i]] = i
    <3>1. i \in 1..Cut /\ blocks[i] \in Opener
      BY <2>3 DEF OpenBelow, Opener
    <3>2. i \in Openers(blocks, Len(blocks) + 1)
      BY <2>1, <2>3, <3>1 DEF Openers
    <3>3. Clean(blocks, loose, i)
      <4>1. \A l \in loose : ~(l < i)
        BY <2>1, <2>3, <3>1 DEF TypeOK
      <4> QED
        BY <4>1 DEF Clean
    <3> QED
      BY <2>1, <2>2, <3>2, <3>3 DEF Holding, Chained
  <2>5. ASSUME loose = {}
        PROVE  ehdr = Outer(Esp + 1)
    BY <2>1, <2>2, <2>5 DEF Innermost, Clean
  <2> QED
    BY <2>4, <2>5
<1> QED
  BY <1>1, ChainHolds, PTL

(* What open assures have checked in is where a throw will look for it,    *)
(* and is checked in as often as it is assured (CHKIN, CHKOUT, knh_throw). *)
THEOREM AssuresListed == Spec => []AssuredAreListed
<1>1. ChainInv => AssuredAreListed
  <2> SUFFICES ASSUME ChainInv, ~shared, loose = {}
               PROVE  AssuredAreListed
    BY DEF AssuredAreListed
  <2>1. Formed /\ Nested /\ Kept /\ \A k : Clean(blocks, loose, k)
    BY DEF ChainInv, Clean
  <2>2. /\ Assures = AssuresOf(blocks)
        /\ \A k : Outer(k) = OuterOf(blocks, stack, k) /\ Above(k) = AboveOf(blocks, k)
    BY DEF Assures, AssuresOf, OpenBelow, Openers, Opener, Outer, OuterOf, Above, AboveOf, Esp
  <2>3. ASSUME NEW k \in Assures
        PROVE  IsListed(stacklist[Outer(k)], Above(k), stack[k])
    BY <2>1, <2>2 DEF Kept, Listed
  <2>4. ASSUME NEW a \in Assurance
        PROVE  checkedIn[a] >= Cardinality({k \in Assures : stack[k] = a})
    <3>1. Cardinality({k \in AssuresOf(blocks) : stack[k] = a}) <= checkedIn[a]
      BY <2>1, EachHasItsPlace
    <3> QED
      BY <2>2, <3>1
  <2> QED
    BY <2>3, <2>4 DEF AssuredAreListed, IsListed
<1> QED
  BY <1>1, ChainHolds, PTL

(* An exception is caught inside the launch it was thrown in, unless that  *)
(* launch left a try or an assure by the way: the scripts around it cannot *)
(* make it end the process or resume a dead frame.                         *)
THEOREM ExceptionsStayInside == Spec => []UnwindsInside
<1>1. ChainInv => UnwindsInside
  BY DEF ChainInv
<1> QED
  BY <1>1, ChainHolds, PTL

=============================================================================
