------------------------- MODULE BasicBlocks_proofs -------------------------
(* Proofs about the passes over the basic blocks, for every graph that the     *)
(* generator can hand over.                                                    *)
EXTENDS BasicBlocks, FiniteSetTheorems, WellFoundedInduction, TLAPS

-------------------------------------------------------------------------------
(* Sequences.                                                                  *)

LEMMA SeqIs ==
  ASSUME NEW s, IsSeq(s)
  PROVE  Len(s) \in Nat /\ DOMAIN s = 1..Len(s)
BY DEF IsSeq

LEMMA SeqOver ==
  ASSUME NEW s, NEW S, s \in Seq(S)
  PROVE  IsSeq(s)
<1> DEFINE R == {s[i] : i \in DOMAIN s}
<1>1. s \in [1..Len(s) -> S] /\ Len(s) \in Nat /\ DOMAIN s = 1..Len(s)
  OBVIOUS
<1>2. s \in [1..Len(s) -> R]
  BY <1>1
<1> HIDE DEF R
<1>3. s \in Seq(R)
  BY <1>1, <1>2
<1> QED
  BY <1>3 DEF IsSeq, R

LEMMA SeqFunction ==
  ASSUME NEW n \in Nat, NEW S, NEW s, s \in [1..n -> S]
  PROVE  IsSeq(s) /\ Len(s) = n /\ DOMAIN s = 1..n
<1>1. s \in Seq(S)
  OBVIOUS
<1> QED
  BY <1>1, SeqOver

\* In two sequences there are elements of one set.
LEMMA SeqBoth ==
  ASSUME NEW s, NEW t, IsSeq(s), IsSeq(t)
  PROVE  \E S : s \in Seq(S) /\ t \in Seq(S)
<1> DEFINE S == {s[i] : i \in DOMAIN s}
           T == {t[i] : i \in DOMAIN t}
<1>1. s \in Seq(S) /\ t \in Seq(T)
  BY DEF IsSeq
<1> HIDE DEF S, T
<1>2. s \in Seq(S \cup T)
  BY <1>1
<1>3. t \in Seq(S \cup T)
  BY <1>1
<1> QED
  BY <1>2, <1>3

LEMMA SeqConcat ==
  ASSUME NEW s, NEW t, IsSeq(s), IsSeq(t)
  PROVE  /\ IsSeq(s \o t) /\ Len(s \o t) = Len(s) + Len(t)
         /\ \A i \in 1..Len(s) : (s \o t)[i] = s[i]
         /\ \A i \in 1..Len(t) : (s \o t)[Len(s) + i] = t[i]
<1>1. PICK S : s \in Seq(S) /\ t \in Seq(S)
  BY SeqBoth
<1>2. s \o t \in Seq(S)
  BY <1>1
<1>3. IsSeq(s \o t)
  BY <1>2, SeqOver
<1>4. Len(s \o t) = Len(s) + Len(t)
  BY <1>1
<1>5. Len(s) \in Nat /\ Len(t) \in Nat
  BY <1>1
<1>6. \A i \in 1..Len(s) : (s \o t)[i] = s[i]
  BY <1>1, <1>5
<1>7. \A i \in 1..Len(t) : (s \o t)[Len(s) + i] = t[i]
  BY <1>1, <1>5
<1> QED
  BY <1>3, <1>4, <1>6, <1>7

LEMMA SeqOne ==
  ASSUME NEW x
  PROVE  IsSeq(<<x>>) /\ Len(<<x>>) = 1 /\ <<x>>[1] = x
<1>1. <<x>> \in Seq({x})
  OBVIOUS
<1> QED
  BY <1>1, SeqOver

LEMMA SeqAppend ==
  ASSUME NEW s, NEW x, IsSeq(s)
  PROVE  /\ IsSeq(Append(s, x)) /\ Len(Append(s, x)) = Len(s) + 1
         /\ \A i \in 1..Len(s) : Append(s, x)[i] = s[i]
         /\ Append(s, x)[Len(s) + 1] = x
<1>1. PICK S : s \in Seq(S) /\ <<x>> \in Seq(S)
  BY SeqBoth, SeqOne
<1>2. x \in S
  BY <1>1
<1>3. Append(s, x) \in Seq(S)
  BY <1>1, <1>2
<1>4. IsSeq(Append(s, x))
  BY <1>3, SeqOver
<1>5. /\ Len(Append(s, x)) = Len(s) + 1
      /\ \A i \in 1..Len(s) : Append(s, x)[i] = s[i]
      /\ Append(s, x)[Len(s) + 1] = x
  BY <1>1, <1>2
<1> QED
  BY <1>4, <1>5

LEMMA SeqUpdate ==
  ASSUME NEW s, NEW k \in DOMAIN s, NEW x, IsSeq(s)
  PROVE  /\ IsSeq([s EXCEPT ![k] = x]) /\ Len([s EXCEPT ![k] = x]) = Len(s)
         /\ DOMAIN [s EXCEPT ![k] = x] = DOMAIN s
<1> DEFINE S == {s[i] : i \in DOMAIN s} \cup {x}
           e == [s EXCEPT ![k] = x]
<1>1. Len(s) \in Nat /\ DOMAIN s = 1..Len(s)
  BY SeqIs
<1>2. e \in [1..Len(s) -> S]
  <2>1. s \in [1..Len(s) -> {s[i] : i \in DOMAIN s}]
    BY <1>1 DEF IsSeq
  <2>2. \A i \in 1..Len(s) : e[i] \in S
    BY <1>1
  <2>3. e = [i \in 1..Len(s) |-> e[i]]
    BY <1>1
  <2> HIDE DEF S, e
  <2> QED
    BY <2>2, <2>3
<1> HIDE DEF S, e
<1>3. IsSeq(e) /\ Len(e) = Len(s) /\ DOMAIN e = 1..Len(s)
  BY <1>1, <1>2, SeqFunction
<1> QED
  BY <1>1, <1>3 DEF e

LEMMA SeqFront ==
  ASSUME NEW s, IsSeq(s), s # <<>>
  PROVE  /\ IsSeq(Front(s)) /\ Len(Front(s)) = Len(s) - 1
         /\ \A i \in 1..(Len(s) - 1) : Front(s)[i] = s[i]
         /\ Len(s) \in Nat \ {0}
<1>1. PICK S : s \in Seq(S)
  BY DEF IsSeq
<1>2. Len(s) \in Nat \ {0}
  BY <1>1
<1> DEFINE m == Len(s) - 1
<1>5. m \in 0..Len(s) /\ m \in Nat
  BY <1>2
<1> HIDE DEF m
<1>3. SubSeq(s, 1, m) \in Seq(S)
  BY <1>1, <1>2, <1>5
<1>4. Len(SubSeq(s, 1, m)) = m
  BY <1>1, <1>2, <1>5
<1>6. \A i \in 1..m : SubSeq(s, 1, m)[i] = s[i]
  BY <1>1, <1>2, <1>5
<1> QED
  BY <1>2, <1>3, <1>4, <1>6, SeqOver DEF Front, m

\* Also of an empty one.
LEMMA SeqFrontLen ==
  ASSUME NEW s, IsSeq(s)
  PROVE  IsSeq(Front(s)) /\ Len(Front(s)) <= Len(s)
<1>1. CASE s # <<>>
  BY <1>1, SeqFront
<1>2. CASE s = <<>>
  <2>1. PICK S : s \in Seq(S)
    BY DEF IsSeq
  <2>2. Len(s) = 0
    BY <1>2
  <2>3. SubSeq(s, 1, Len(s) - 1) \in Seq(S)
    BY <2>1, <2>2
  <2>4. Len(SubSeq(s, 1, Len(s) - 1)) = 0
    BY <2>1, <2>2
  <2>5. IsSeq(SubSeq(s, 1, Len(s) - 1))
    BY <2>3, SeqOver
  <2> QED
    BY <2>2, <2>4, <2>5 DEF Front
<1> QED
  BY <1>1, <1>2

-------------------------------------------------------------------------------
(* The fields of the blocks.                                                   *)

\* A sequence of blocks.
Blocks(g) == IsSeq(g) /\ \A x \in DOMAIN g : DOMAIN g[x] = DOMAIN LABEL

\* h is g with v in field f of block b.
Put(g, h, b, f, v) ==
  /\ Len(h) = Len(g) /\ DOMAIN h = DOMAIN g
  /\ \A x \in DOMAIN g, k \in DOMAIN LABEL : h[x][k] = IF x = b /\ k = f THEN v ELSE g[x][k]

LEMMA LabelFields ==
  DOMAIN LABEL = {"ops", "next", "jump", "incoming", "visited", "checked", "code", "opjmp"}
BY DEF LABEL

LEMMA PutField ==
  ASSUME NEW g, NEW b \in DOMAIN g, NEW f \in DOMAIN LABEL, NEW v, Blocks(g)
  PROVE  Put(g, [g EXCEPT ![b][f] = v], b, f, v) /\ Blocks([g EXCEPT ![b][f] = v])
<1> DEFINE h == [g EXCEPT ![b][f] = v]
<1>1. DOMAIN h = DOMAIN g
  OBVIOUS
<1>2. \A x \in DOMAIN g : DOMAIN h[x] = DOMAIN g[x]
  OBVIOUS
<1>3. \A x \in DOMAIN g, k \in DOMAIN LABEL : h[x][k] = IF x = b /\ k = f THEN v ELSE g[x][k]
  BY DEF Blocks
<1>4. IsSeq(h) /\ Len(h) = Len(g)
  <2>1. h = [g EXCEPT ![b] = h[b]]
    OBVIOUS
  <2>2. PICK q : q = h[b]
    OBVIOUS
  <2>3. IsSeq([g EXCEPT ![b] = q]) /\ Len([g EXCEPT ![b] = q]) = Len(g)
    BY SeqUpdate DEF Blocks
  <2> HIDE DEF h
  <2> QED
    BY <2>1, <2>2, <2>3
<1> HIDE DEF h
<1>5. Put(g, h, b, f, v)
  BY <1>1, <1>3, <1>4 DEF Put
<1>6. Blocks(h)
  BY <1>1, <1>2, <1>4 DEF Blocks
<1> QED
  BY <1>5, <1>6 DEF h

\* In terms of the fields that the passes look at.
LEMMA PutIs ==
  ASSUME NEW g, NEW h, NEW b, NEW f, NEW v, Put(g, h, b, f, v)
  PROVE  \A x \in DOMAIN g :
         /\ h[x].next = IF x = b /\ f = "next" THEN v ELSE g[x].next
         /\ h[x].jump = IF x = b /\ f = "jump" THEN v ELSE g[x].jump
         /\ h[x].incoming = IF x = b /\ f = "incoming" THEN v ELSE g[x].incoming
         /\ h[x].visited = IF x = b /\ f = "visited" THEN v ELSE g[x].visited
         /\ h[x].code = IF x = b /\ f = "code" THEN v ELSE g[x].code
         /\ h[x].ops = IF x = b /\ f = "ops" THEN v ELSE g[x].ops
BY LabelFields DEF Put

-------------------------------------------------------------------------------
(* What the steps do to the graph.                                             *)

\* What all passes but the last keep of the graph.
Graph ==
  /\ Blocks(blk)
  /\ {entry, ret} \subseteq Block /\ entry # ret
  /\ \A b \in Block :
       /\ IsSeq(blk[b].ops)
       /\ Succ(b) \subseteq Block \ {entry}
       /\ Succ(b) = {} <=> b = ret
       /\ blk[b].incoming \in Int /\ blk[b].visited \in BOOLEAN /\ blk[b].code \in Nat

\* h is the graph with other ...
Size(h) == Blocks(h) /\ Len(h) = Len(blk) /\ DOMAIN h = Block
SameLinks(h) == \A x \in Block : h[x].next = blk[x].next /\ h[x].jump = blk[x].jump
Links(h, b, n, j) ==
  \A x \in Block : /\ h[x].next = IF x = b THEN n ELSE blk[x].next
                   /\ h[x].jump = IF x = b THEN j ELSE blk[x].jump
SameFlags(h) == \A x \in Block : h[x].visited = blk[x].visited
Flag(h, b, v) == \A x \in Block : h[x].visited = IF x = b THEN v ELSE blk[x].visited
SameCounts(h) == \A x \in Block : h[x].incoming = blk[x].incoming
SameOps(h) == \A x \in Block : h[x].ops = blk[x].ops
SamePlaces(h) == \A x \in Block : h[x].code = blk[x].code
CodeAt(h, b, v) == \A x \in Block : h[x].code = IF x = b THEN v ELSE blk[x].code

LEMMA SuccIs ==
  ASSUME Graph, NEW b \in Block
  PROVE  /\ blk[b].next \in Block \cup {0} /\ blk[b].jump \in Block \cup {0}
         /\ blk[b].next # entry /\ blk[b].jump # entry
         /\ b # ret => blk[b].next # 0 \/ blk[b].jump # 0
         /\ b = ret => blk[b].next = 0 /\ blk[b].jump = 0
         /\ Block = 1..Len(blk) /\ Len(blk) \in Nat /\ 0 \notin Block
<1>1. Block = 1..Len(blk) /\ Len(blk) \in Nat /\ 0 \notin Block
  BY SeqIs DEF Graph, Blocks, Block
<1>2. entry \in Block
  BY DEF Graph
<1> QED
  BY <1>1, <1>2 DEF Graph, Succ

LEMMA MarkEffect ==
  ASSUME Graph, NEW b \in Block, NEW v, NEW h, h = [blk EXCEPT ![b].visited = v]
  PROVE  Size(h) /\ SameLinks(h) /\ SameCounts(h) /\ SameOps(h) /\ SamePlaces(h) /\ Flag(h, b, v)
<1>1. Blocks(blk)
  BY DEF Graph
<1>2. Put(blk, h, b, "visited", v) /\ Blocks(h)
  BY <1>1, LabelFields, PutField DEF Block
<1>3. Size(h)
  BY <1>2 DEF Put, Size, Block
<1> QED
  BY <1>2, <1>3, PutIs DEF SameLinks, SameCounts, SameOps, SamePlaces, Flag, Block

LEMMA PlaceEffect ==
  ASSUME Graph, NEW b \in Block, NEW v, NEW h, h = [blk EXCEPT ![b].code = v]
  PROVE  Size(h) /\ SameLinks(h) /\ SameCounts(h) /\ SameOps(h) /\ SameFlags(h) /\ CodeAt(h, b, v)
<1>1. Blocks(blk)
  BY DEF Graph
<1>2. Put(blk, h, b, "code", v) /\ Blocks(h)
  BY <1>1, LabelFields, PutField DEF Block
<1>3. Size(h)
  BY <1>2 DEF Put, Size, Block
<1> QED
  BY <1>2, <1>3, PutIs DEF SameLinks, SameCounts, SameOps, SameFlags, CodeAt, Block

LEMMA CheckEffect ==
  ASSUME Graph, NEW b \in Block, NEW v, NEW h, h = [blk EXCEPT ![b].checked = v]
  PROVE  Size(h) /\ SameLinks(h) /\ SameCounts(h) /\ SameOps(h) /\ SamePlaces(h) /\ SameFlags(h)
<1>1. Blocks(blk)
  BY DEF Graph
<1>2. Put(blk, h, b, "checked", v) /\ Blocks(h)
  BY <1>1, LabelFields, PutField DEF Block
<1>3. Size(h)
  BY <1>2 DEF Put, Size, Block
<1> QED
  BY <1>2, <1>3, PutIs DEF SameLinks, SameCounts, SameOps, SamePlaces, SameFlags, Block

\* An edge of b that entered c enters t.
Recount(h, c, t) ==
  \A x \in Block : h[x].incoming =
    blk[x].incoming - (IF x = c THEN 1 ELSE 0) + (IF x = t THEN 1 ELSE 0)

LEMMA RedirectIs ==
  ASSUME Graph, NEW c, NEW t, NEW h, h = Redirect(c, t)
  PROVE  /\ Size(h) /\ SameLinks(h) /\ SameOps(h) /\ SamePlaces(h) /\ SameFlags(h)
         /\ Recount(h, c, t)
<1>1. Blocks(blk) /\ Block = 1..Len(blk) /\ Len(blk) \in Nat
  BY SeqIs DEF Graph, Blocks, Block
<1>2. DOMAIN h = Block
  BY DEF Redirect
<1>3. IsSeq(h) /\ Len(h) = Len(blk)
  <2> DEFINE R == {h[x] : x \in Block}
  <2>1. h \in [Block -> R]
    BY DEF Redirect
  <2> HIDE DEF R
  <2> QED
    BY <1>1, <2>1, SeqFunction
<1>4. \A x \in Block : DOMAIN h[x] = DOMAIN LABEL
  <2> TAKE x \in Block
  <2>1. h[x] = [blk[x] EXCEPT !.incoming = @ - (IF x = c THEN 1 ELSE 0) + (IF x = t THEN 1 ELSE 0)]
    BY DEF Redirect
  <2>2. DOMAIN blk[x] = DOMAIN LABEL
    BY <1>1 DEF Blocks, Block
  <2> QED
    BY <2>1, <2>2, Zenon
<1>5. ASSUME NEW x \in Block
      PROVE  /\ h[x].next = blk[x].next /\ h[x].jump = blk[x].jump /\ h[x].visited = blk[x].visited
             /\ h[x].ops = blk[x].ops /\ h[x].code = blk[x].code
             /\ h[x].incoming = blk[x].incoming - (IF x = c THEN 1 ELSE 0) + (IF x = t THEN 1 ELSE 0)
  <2>1. h[x] = [blk[x] EXCEPT !.incoming = blk[x].incoming - (IF x = c THEN 1 ELSE 0) + (IF x = t THEN 1 ELSE 0)]
    BY DEF Redirect
  <2>2. PICK v : v = blk[x].incoming - (IF x = c THEN 1 ELSE 0) + (IF x = t THEN 1 ELSE 0)
    OBVIOUS
  <2>3. h[x] = [blk[x] EXCEPT !.incoming = v]
    BY <2>1, <2>2, Zenon
  <2>4. DOMAIN blk[x] = {"ops", "next", "jump", "incoming", "visited", "checked", "code", "opjmp"}
    BY <1>1, LabelFields DEF Blocks, Block
  <2>5. h[x].incoming = v
    BY <2>3, <2>4, Zenon
  <2>6. h[x].next = blk[x].next /\ h[x].jump = blk[x].jump
    BY <2>3, <2>4, Zenon
  <2>7. h[x].visited = blk[x].visited /\ h[x].ops = blk[x].ops /\ h[x].code = blk[x].code
    BY <2>3, <2>4, Zenon
  <2> QED
    BY <2>2, <2>5, <2>6, <2>7
<1>6. Size(h)
  BY <1>2, <1>3, <1>4 DEF Size, Blocks
<1> QED
  BY <1>5, <1>6 DEF SameLinks, SameOps, SamePlaces, SameFlags, Recount

\* BasicBlock_strip0, L_JUMP: the jump of b goes on to t.
JumpOn(b, c, t) == [Redirect(c, t) EXCEPT ![b].jump = t]

LEMMA JumpOnEffect ==
  ASSUME Graph, NEW b \in Block, NEW c, NEW t, NEW h, h = JumpOn(b, c, t)
  PROVE  /\ Size(h) /\ SameOps(h) /\ SamePlaces(h) /\ SameFlags(h) /\ Recount(h, c, t)
         /\ Links(h, b, blk[b].next, t)
<1>1. PICK g : g = Redirect(c, t)
  OBVIOUS
<1>2. Size(g) /\ SameLinks(g) /\ SameOps(g) /\ SamePlaces(g) /\ SameFlags(g) /\ Recount(g, c, t)
  BY <1>1, RedirectIs
<1>3. Blocks(g) /\ b \in DOMAIN g /\ Len(g) = Len(blk) /\ DOMAIN g = Block
  BY <1>2 DEF Size
<1>4. Put(g, h, b, "jump", t) /\ Blocks(h)
  BY <1>1, <1>3, LabelFields, PutField DEF JumpOn
<1>5. Size(h)
  BY <1>3, <1>4 DEF Put, Size
<1>6. \A x \in DOMAIN g : /\ h[x].next = g[x].next /\ h[x].jump = IF x = b THEN t ELSE g[x].jump
                          /\ h[x].ops = g[x].ops /\ h[x].code = g[x].code
                          /\ h[x].visited = g[x].visited /\ h[x].incoming = g[x].incoming
  BY <1>4, PutIs
<1> QED
  BY <1>2, <1>3, <1>5, <1>6 DEF SameLinks, SameOps, SamePlaces, SameFlags, Recount, Links

\* L_NEXT: b falls on to t.
NextOn(b, c, t) == [Redirect(c, t) EXCEPT ![b].next = t]

LEMMA NextOnEffect ==
  ASSUME Graph, NEW b \in Block, NEW c, NEW t, NEW h, h = NextOn(b, c, t)
  PROVE  /\ Size(h) /\ SameOps(h) /\ SamePlaces(h) /\ SameFlags(h) /\ Recount(h, c, t)
         /\ Links(h, b, t, blk[b].jump)
<1>1. PICK g : g = Redirect(c, t)
  OBVIOUS
<1>2. Size(g) /\ SameLinks(g) /\ SameOps(g) /\ SamePlaces(g) /\ SameFlags(g) /\ Recount(g, c, t)
  BY <1>1, RedirectIs
<1>3. Blocks(g) /\ b \in DOMAIN g /\ Len(g) = Len(blk) /\ DOMAIN g = Block
  BY <1>2 DEF Size
<1>4. Put(g, h, b, "next", t) /\ Blocks(h)
  BY <1>1, <1>3, LabelFields, PutField DEF NextOn
<1>5. Size(h)
  BY <1>3, <1>4 DEF Put, Size
<1>6. \A x \in DOMAIN g : /\ h[x].jump = g[x].jump /\ h[x].next = IF x = b THEN t ELSE g[x].next
                          /\ h[x].ops = g[x].ops /\ h[x].code = g[x].code
                          /\ h[x].visited = g[x].visited /\ h[x].incoming = g[x].incoming
  BY <1>4, PutIs
<1> QED
  BY <1>2, <1>3, <1>5, <1>6 DEF SameLinks, SameOps, SamePlaces, SameFlags, Recount, Links

\* L_NEXT: the fall of b becomes a jump to t.
NextTurns(b, c, t) == [Redirect(c, t) EXCEPT ![b].next = 0, ![b].jump = t]

LEMMA NextTurnsEffect ==
  ASSUME Graph, NEW b \in Block, NEW c, NEW t, NEW h, h = NextTurns(b, c, t)
  PROVE  /\ Size(h) /\ SameOps(h) /\ SamePlaces(h) /\ SameFlags(h) /\ Recount(h, c, t)
         /\ Links(h, b, 0, t)
<1>1. PICK f : f = Redirect(c, t)
  OBVIOUS
<1>2. Size(f) /\ SameLinks(f) /\ SameOps(f) /\ SamePlaces(f) /\ SameFlags(f) /\ Recount(f, c, t)
  BY <1>1, RedirectIs
<1>3. Blocks(f) /\ b \in DOMAIN f /\ Len(f) = Len(blk) /\ DOMAIN f = Block
  BY <1>2 DEF Size
<1>4. PICK g : g = [f EXCEPT ![b].next = 0]
  OBVIOUS
<1>5. Put(f, g, b, "next", 0) /\ Blocks(g)
  BY <1>3, <1>4, LabelFields, PutField
<1>6. Len(g) = Len(blk) /\ DOMAIN g = Block /\ b \in DOMAIN g
  BY <1>3, <1>5 DEF Put
<1>7. h = [g EXCEPT ![b].jump = t]
  BY <1>1, <1>4, Zenon DEF NextTurns
<1>12. Blocks(g) /\ b \in DOMAIN g /\ "jump" \in DOMAIN LABEL
  BY <1>5, <1>6, LabelFields
<1>13. Put(g, [g EXCEPT ![b].jump = t], b, "jump", t) /\ Blocks([g EXCEPT ![b].jump = t])
  BY <1>12, PutField
<1>8. Put(g, h, b, "jump", t) /\ Blocks(h)
  BY <1>7, <1>13, Zenon
<1>9. Size(h)
  BY <1>6, <1>8 DEF Put, Size
<1>10. \A x \in DOMAIN f : /\ g[x].jump = f[x].jump /\ g[x].next = IF x = b THEN 0 ELSE f[x].next
                           /\ g[x].ops = f[x].ops /\ g[x].code = f[x].code
                           /\ g[x].visited = f[x].visited /\ g[x].incoming = f[x].incoming
  BY <1>5, PutIs
<1>11. \A x \in DOMAIN g : /\ h[x].next = g[x].next /\ h[x].jump = IF x = b THEN t ELSE g[x].jump
                           /\ h[x].ops = g[x].ops /\ h[x].code = g[x].code
                           /\ h[x].visited = g[x].visited /\ h[x].incoming = g[x].incoming
  BY <1>8, PutIs
<1> QED
  BY <1>2, <1>3, <1>6, <1>9, <1>10, <1>11 DEF SameLinks, SameOps, SamePlaces, SameFlags, Recount, Links

\* Both links of b at once.
Linked(b, n, j) == [blk EXCEPT ![b].next = n, ![b].jump = j]

LEMMA LinksEffect ==
  ASSUME Graph, NEW b \in Block, NEW n, NEW j, NEW h, h = Linked(b, n, j)
  PROVE  /\ Size(h) /\ SameOps(h) /\ SamePlaces(h) /\ SameFlags(h) /\ SameCounts(h)
         /\ Links(h, b, n, j)
<1>1. PICK g : g = [blk EXCEPT ![b].next = n]
  OBVIOUS
<1>2. h = [g EXCEPT ![b].jump = j]
  BY <1>1, Zenon DEF Linked
<1>3. Blocks(blk) /\ b \in DOMAIN blk /\ Block = DOMAIN blk
  BY DEF Graph, Block
<1>4. Put(blk, g, b, "next", n) /\ Blocks(g)
  BY <1>1, <1>3, LabelFields, PutField
<1>5. Len(g) = Len(blk) /\ DOMAIN g = Block /\ b \in DOMAIN g
  BY <1>3, <1>4 DEF Put
<1>10. Blocks(g) /\ b \in DOMAIN g /\ "jump" \in DOMAIN LABEL
  BY <1>4, <1>5, LabelFields
<1>11. Put(g, [g EXCEPT ![b].jump = j], b, "jump", j) /\ Blocks([g EXCEPT ![b].jump = j])
  BY <1>10, PutField
<1>6. Put(g, h, b, "jump", j) /\ Blocks(h)
  BY <1>2, <1>11, Zenon
<1>7. Size(h)
  BY <1>5, <1>6 DEF Put, Size
<1>8. \A x \in DOMAIN blk : /\ g[x].jump = blk[x].jump /\ g[x].next = IF x = b THEN n ELSE blk[x].next
                            /\ g[x].ops = blk[x].ops /\ g[x].code = blk[x].code
                            /\ g[x].visited = blk[x].visited /\ g[x].incoming = blk[x].incoming
  BY <1>4, PutIs
<1>9. \A x \in DOMAIN g : /\ h[x].next = g[x].next /\ h[x].jump = IF x = b THEN j ELSE g[x].jump
                          /\ h[x].ops = g[x].ops /\ h[x].code = g[x].code
                          /\ h[x].visited = g[x].visited /\ h[x].incoming = g[x].incoming
  BY <1>6, PutIs
<1> QED
  BY <1>3, <1>5, <1>7, <1>8, <1>9 DEF SameOps, SamePlaces, SameFlags, SameCounts, Links

\* BasicBlock_join.
Joined(b, n) == [blk EXCEPT ![b].next = blk[n].next, ![b].jump = blk[n].jump,
                            ![b].ops = @ \o blk[n].ops, ![n].ops = <<>>]

LEMMA JoinEffect ==
  ASSUME Graph, NEW b \in Block, NEW n \in Block, NEW h, h = Joined(b, n)
  PROVE  /\ Size(h) /\ SamePlaces(h) /\ SameFlags(h) /\ SameCounts(h)
         /\ Links(h, b, blk[n].next, blk[n].jump)
         /\ \A x \in Block : h[x].ops = IF x = n THEN <<>> ELSE
                                        IF x = b THEN blk[b].ops \o blk[n].ops ELSE blk[x].ops
<1>1. PICK g : g = Linked(b, blk[n].next, blk[n].jump)
  OBVIOUS
<1>2. /\ Size(g) /\ SameOps(g) /\ SamePlaces(g) /\ SameFlags(g) /\ SameCounts(g)
      /\ Links(g, b, blk[n].next, blk[n].jump)
  BY <1>1, LinksEffect
<1>3. PICK o : o = g[b].ops \o blk[n].ops
  OBVIOUS
<1>4. PICK f : f = [g EXCEPT ![b].ops = o]
  OBVIOUS
<1>5. h = [f EXCEPT ![n].ops = <<>>]
  <2>1. h = [[g EXCEPT ![b].ops = @ \o blk[n].ops] EXCEPT ![n].ops = <<>>]
    BY <1>1, Zenon DEF Joined, Linked
  <2>2. [g EXCEPT ![b].ops = @ \o blk[n].ops] = f
    BY <1>3, <1>4, Zenon
  <2> QED
    BY <2>1, <2>2, Zenon
<1>6. Blocks(g) /\ b \in DOMAIN g /\ Len(g) = Len(blk) /\ DOMAIN g = Block
  BY <1>2 DEF Size
<1>7. Put(g, f, b, "ops", o) /\ Blocks(f)
  BY <1>4, <1>6, LabelFields, PutField
<1>8. Len(f) = Len(blk) /\ DOMAIN f = Block /\ n \in DOMAIN f
  BY <1>6, <1>7 DEF Put
<1>17. Blocks(f) /\ n \in DOMAIN f /\ "ops" \in DOMAIN LABEL
  BY <1>7, <1>8, LabelFields
<1>18. Put(f, [f EXCEPT ![n].ops = <<>>], n, "ops", <<>>) /\ Blocks([f EXCEPT ![n].ops = <<>>])
  BY <1>17, PutField
<1>9. Put(f, h, n, "ops", <<>>) /\ Blocks(h)
  BY <1>5, <1>18, Zenon
<1>10. Size(h)
  BY <1>8, <1>9 DEF Put, Size
<1>11. \A x \in DOMAIN g : /\ f[x].next = g[x].next /\ f[x].jump = g[x].jump
                           /\ f[x].ops = IF x = b THEN o ELSE g[x].ops
                           /\ f[x].code = g[x].code
                           /\ f[x].visited = g[x].visited /\ f[x].incoming = g[x].incoming
  BY <1>7, PutIs
<1>12. \A x \in DOMAIN f : /\ h[x].next = f[x].next /\ h[x].jump = f[x].jump
                           /\ h[x].ops = IF x = n THEN <<>> ELSE f[x].ops
                           /\ h[x].code = f[x].code
                           /\ h[x].visited = f[x].visited /\ h[x].incoming = f[x].incoming
  BY <1>9, PutIs
<1>13. Links(h, b, blk[n].next, blk[n].jump)
  BY <1>2, <1>6, <1>8, <1>11, <1>12 DEF Links
<1>14. SamePlaces(h) /\ SameFlags(h) /\ SameCounts(h)
  BY <1>2, <1>6, <1>8, <1>11, <1>12 DEF SamePlaces, SameFlags, SameCounts
<1>15. o = blk[b].ops \o blk[n].ops
  BY <1>2, <1>3 DEF SameOps
<1>16. \A x \in Block : h[x].ops = IF x = n THEN <<>> ELSE IF x = b THEN o ELSE blk[x].ops
  BY <1>2, <1>6, <1>8, <1>11, <1>12 DEF SameOps
<1> QED
  BY <1>10, <1>13, <1>14, <1>15, <1>16

-------------------------------------------------------------------------------
(* The stack of activations.                                                   *)

\* The activations that wait for the one on top, and all of them.
Below == {stack[i] : i \in 1..(Len(stack) - 1)}
OnStack == {stack[i] : i \in DOMAIN stack}

LEMMA StackIs ==
  ASSUME IsSeq(stack), stack # <<>>
  PROVE  OnStack = Below \cup {Top} /\ Len(stack) \in Nat \ {0}
<1>1. Len(stack) \in Nat \ {0} /\ DOMAIN stack = 1..Len(stack)
  BY SeqIs, SeqFront
<1> QED
  BY <1>1 DEF OnStack, Below, Top

LEMMA GotoIs ==
  ASSUME IsSeq(stack), stack # <<>>, NEW b, NEW l, Goto(b, l)
  PROVE  /\ IsSeq(stack') /\ stack' # <<>> /\ Below' = Below /\ Top' = Frame(b, l)
         /\ OnStack' = Below \cup {Frame(b, l)}
<1>1. PICK f : f = Front(stack)
  OBVIOUS
<1>2. /\ IsSeq(f) /\ Len(f) = Len(stack) - 1 /\ Len(stack) \in Nat \ {0}
      /\ \A i \in 1..(Len(stack) - 1) : f[i] = stack[i]
  BY <1>1, SeqFront
<1>3. PICK s : s = stack'
  OBVIOUS
<1>4. PICK x : x = Frame(b, l)
  OBVIOUS
<1>5. s = Append(f, x)
  BY <1>1, <1>3, <1>4 DEF Goto
<1>6. IsSeq(s) /\ Len(s) = Len(stack) /\ s[Len(stack)] = x /\ \A i \in 1..(Len(stack) - 1) : s[i] = stack[i]
  BY <1>2, <1>5, SeqAppend
<1>7. s # <<>>
  BY <1>2, <1>6
<1>8. Below' = Below
  BY <1>3, <1>6 DEF Below
<1>9. Top' = Frame(b, l)
  BY <1>3, <1>4, <1>6 DEF Top
<1>10. OnStack' = Below' \cup {Top'}
  <2>1. DOMAIN s = 1..Len(s) /\ Len(s) \in Nat \ {0}
    BY <1>2, <1>6, SeqIs
  <2> QED
    BY <1>3, <2>1 DEF OnStack, Below, Top
<1> QED
  BY <1>3, <1>6, <1>7, <1>8, <1>9, <1>10

LEMMA CallIs ==
  ASSUME IsSeq(stack), stack # <<>>, NEW b, NEW l, NEW c, NEW m, Call(b, l, c, m)
  PROVE  /\ IsSeq(stack') /\ stack' # <<>> /\ Below' = Below \cup {Frame(b, l)} /\ Top' = Frame(c, m)
         /\ OnStack' = Below \cup {Frame(b, l), Frame(c, m)}
<1>1. PICK f : f = Front(stack)
  OBVIOUS
<1>2. /\ IsSeq(f) /\ Len(f) = Len(stack) - 1 /\ Len(stack) \in Nat \ {0}
      /\ \A i \in 1..(Len(stack) - 1) : f[i] = stack[i]
  BY <1>1, SeqFront
<1>3. PICK s : s = stack'
  OBVIOUS
<1>4. PICK t : t = <<Frame(b, l), Frame(c, m)>>
  OBVIOUS
<1>5. IsSeq(t) /\ Len(t) = 2 /\ t[1] = Frame(b, l) /\ t[2] = Frame(c, m)
  <2>1. t \in Seq({Frame(b, l), Frame(c, m)})
    BY <1>4
  <2> QED
    BY <1>4, <2>1, SeqOver
<1>6. s = f \o t
  BY <1>1, <1>3, <1>4 DEF Call
<1>7. /\ IsSeq(s) /\ Len(s) = Len(f) + Len(t)
      /\ \A i \in 1..Len(f) : s[i] = f[i]
      /\ \A i \in 1..Len(t) : s[Len(f) + i] = t[i]
  <2>1. /\ IsSeq(f \o t) /\ Len(f \o t) = Len(f) + Len(t)
        /\ \A i \in 1..Len(f) : (f \o t)[i] = f[i]
        /\ \A i \in 1..Len(t) : (f \o t)[Len(f) + i] = t[i]
    <3>1. IsSeq(f) /\ IsSeq(t)
      BY <1>2, <1>5
    <3> QED
      BY <3>1, SeqConcat
  <2> QED
    BY <1>6, <2>1
<1>8. Len(s) = Len(stack) + 1 /\ \A i \in 1..(Len(stack) - 1) : s[i] = stack[i]
  BY <1>2, <1>5, <1>7
<1>9. s[Len(stack)] = Frame(b, l) /\ s[Len(stack) + 1] = Frame(c, m)
  <2>1. 1 \in 1..Len(t) /\ 2 \in 1..Len(t) /\ Len(f) + 1 = Len(stack) /\ Len(f) + 2 = Len(stack) + 1
    BY <1>2, <1>5
  <2> QED
    BY <1>5, <1>7, <2>1
<1>10. s # <<>>
  BY <1>2, <1>8
<1>11. Below' = Below \cup {Frame(b, l)}
  <2>1. Below' = {s[i] : i \in 1..Len(stack)}
    BY <1>2, <1>3, <1>8 DEF Below
  <2>2. \A i \in 1..Len(stack) : i \in 1..(Len(stack) - 1) \/ i = Len(stack)
    BY <1>2
  <2>3. Len(stack) \in 1..Len(stack) /\ \A i \in 1..(Len(stack) - 1) : i \in 1..Len(stack)
    BY <1>2
  <2>4. \A i \in 1..Len(stack) : s[i] \in Below \cup {Frame(b, l)}
    BY <1>8, <1>9, <2>2 DEF Below
  <2>5. Frame(b, l) \in {s[i] : i \in 1..Len(stack)}
    BY <1>9, <2>3
  <2>6. \A i \in 1..(Len(stack) - 1) : stack[i] \in {s[i2] : i2 \in 1..Len(stack)}
    BY <1>8, <2>3
  <2>7. Below \subseteq {s[i] : i \in 1..Len(stack)}
    BY <2>6 DEF Below
  <2> QED
    BY <2>1, <2>4, <2>5, <2>7
<1>12. Top' = Frame(c, m)
  BY <1>3, <1>8, <1>9 DEF Top
<1>13. OnStack' = Below' \cup {Top'}
  <2>1. DOMAIN s = 1..Len(s) /\ Len(s) \in Nat \ {0}
    BY <1>2, <1>7, <1>8, SeqIs
  <2> QED
    BY <1>3, <2>1 DEF OnStack, Below, Top
<1>14. OnStack' = Below \cup {Frame(b, l), Frame(c, m)}
  BY <1>11, <1>12, <1>13
<1> QED
  BY <1>3, <1>7, <1>10, <1>11, <1>12, <1>14

LEMMA ReturnIs ==
  ASSUME IsSeq(stack), stack # <<>>, Return
  PROVE  /\ IsSeq(stack') /\ OnStack' = Below
         /\ stack' # <<>> => Top' \in Below
         /\ Below' \subseteq Below
<1>1. PICK s : s = stack'
  OBVIOUS
<1>2. /\ IsSeq(s) /\ Len(s) = Len(stack) - 1 /\ Len(stack) \in Nat \ {0}
      /\ \A i \in 1..(Len(stack) - 1) : s[i] = stack[i]
  <2>1. s = Front(stack)
    BY <1>1 DEF Return
  <2>2. /\ IsSeq(Front(stack)) /\ Len(Front(stack)) = Len(stack) - 1 /\ Len(stack) \in Nat \ {0}
        /\ \A i \in 1..(Len(stack) - 1) : Front(stack)[i] = stack[i]
    BY SeqFront
  <2> QED
    BY <2>1, <2>2
<1>3. DOMAIN s = 1..(Len(stack) - 1)
  BY <1>2, SeqIs
<1>4. OnStack' = Below
  BY <1>1, <1>2, <1>3 DEF OnStack, Below
<1>5. Below' \subseteq Below
  <2>1. \A i \in 1..(Len(s) - 1) : s[i] \in Below
    BY <1>2 DEF Below
  <2>2. Below' = {s[i] : i \in 1..(Len(s) - 1)}
    BY <1>1 DEF Below
  <2> QED
    BY <2>1, <2>2
<1>6. ASSUME s # <<>>
      PROVE  Top' \in Below
  <2>1. Len(s) \in Nat \ {0}
    BY <1>2, <1>6, SeqFront
  <2>2. s[Len(s)] \in Below
    BY <1>2, <2>1 DEF Below
  <2>3. Top' = s[Len(s)]
    BY <1>1 DEF Top
  <2> QED
    BY <2>2, <2>3
<1> QED
  BY <1>1, <1>2, <1>4, <1>5, <1>6

LEMMA StartIs ==
  ASSUME NEW b, NEW l, stack' = <<Frame(b, l)>>
  PROVE  /\ IsSeq(stack') /\ stack' # <<>> /\ Below' = {} /\ Top' = Frame(b, l)
         /\ OnStack' = {Frame(b, l)}
<1>1. PICK x : x = Frame(b, l)
  OBVIOUS
<1>2. IsSeq(<<x>>) /\ Len(<<x>>) = 1 /\ <<x>>[1] = x
  BY SeqOne
<1>3. Below' = {} /\ Top' = x
  BY <1>1, <1>2 DEF Below, Top
<1>4. OnStack' = {x}
  BY <1>1, <1>2 DEF OnStack
<1> QED
  BY <1>1, <1>2, <1>3, <1>4

LEMMA EmptyStack ==
  stack = <<>> => OnStack = {} /\ Below = {}
<1> SUFFICES ASSUME stack = <<>> PROVE OnStack = {} /\ Below = {}
  OBVIOUS
<1>1. Len(stack) = 0 /\ DOMAIN stack = {}
  OBVIOUS
<1> QED
  BY <1>1 DEF OnStack, Below

-------------------------------------------------------------------------------
(* How many edges enter a block.                                               *)

\* Sets that differ in b at most.
LEMMA SetSwap ==
  ASSUME NEW A, NEW B, NEW b, IsFiniteSet(A), \A x : x # b => (x \in A <=> x \in B)
  PROVE  /\ IsFiniteSet(B) /\ Cardinality(A) \in Nat /\ Cardinality(B) \in Nat
         /\ Cardinality(B) = Cardinality(A) - (IF b \in A THEN 1 ELSE 0) + (IF b \in B THEN 1 ELSE 0)
<1>1. A \ {b} = B \ {b}
  OBVIOUS
<1>2. IsFiniteSet(A \ {b}) /\ Cardinality(A) \in Nat
  BY FS_RemoveElement, FS_CardinalityType
<1>3. Cardinality(A \ {b}) = Cardinality(A) - (IF b \in A THEN 1 ELSE 0)
  BY <1>2, FS_RemoveElement
<1>4. CASE b \in B
  <2>1. B = (A \ {b}) \cup {b}
    BY <1>1, <1>4
  <2>2. IsFiniteSet(B) /\ Cardinality(B) = Cardinality(A \ {b}) + 1
    BY <1>2, <2>1, FS_AddElement
  <2>3. Cardinality(B) \in Nat
    BY <2>2, FS_CardinalityType
  <2> QED
    BY <1>2, <1>3, <1>4, <2>2, <2>3
<1>5. CASE b \notin B
  <2>1. B = A \ {b}
    BY <1>1, <1>5
  <2>2. IsFiniteSet(B) /\ Cardinality(B) \in Nat
    BY <1>2, <2>1, FS_CardinalityType
  <2> QED
    BY <1>2, <1>3, <1>5, <2>1, <2>2
<1> QED
  BY <1>4, <1>5

\* Entering, in a graph h.
NextIn(h, t, L) == {c \in L : h[c].next = t}
JumpIn(h, t, L) == {c \in L : h[c].jump = t}
Enter(h, t, L) == Cardinality(NextIn(h, t, L)) + Cardinality(JumpIn(h, t, L))

LEMMA EnterIsNat ==
  ASSUME NEW L, IsFiniteSet(L), NEW h, NEW t
  PROVE  /\ Enter(h, t, L) \in Nat
         /\ IsFiniteSet(NextIn(h, t, L)) /\ IsFiniteSet(JumpIn(h, t, L))
         /\ Cardinality(NextIn(h, t, L)) \in Nat
         /\ Cardinality(JumpIn(h, t, L)) \in Nat
<1>1. NextIn(h, t, L) \subseteq L /\ JumpIn(h, t, L) \subseteq L
  BY DEF NextIn, JumpIn
<1>2. IsFiniteSet(NextIn(h, t, L)) /\ IsFiniteSet(JumpIn(h, t, L))
  BY <1>1, FS_Subset
<1> QED
  BY <1>2, FS_CardinalityType DEF Enter

\* Of the blocks of L only b has other links in h than in g.
LEMMA EnterSwap ==
  ASSUME NEW L, IsFiniteSet(L), NEW g, NEW h, NEW b \in L, NEW t,
         \A x \in L : x # b => h[x].next = g[x].next /\ h[x].jump = g[x].jump
  PROVE  Enter(h, t, L) = Enter(g, t, L)
             - (IF g[b].next = t THEN 1 ELSE 0) - (IF g[b].jump = t THEN 1 ELSE 0)
             + (IF h[b].next = t THEN 1 ELSE 0) + (IF h[b].jump = t THEN 1 ELSE 0)
<1> DEFINE A == NextIn(g, t, L)
           B == NextIn(h, t, L)
           C == JumpIn(g, t, L)
           D == JumpIn(h, t, L)
<1>1. IsFiniteSet(A) /\ IsFiniteSet(C)
  BY EnterIsNat
<1>2. \A x : x # b => (x \in A <=> x \in B)
  BY DEF NextIn
<1>3. \A x : x # b => (x \in C <=> x \in D)
  BY DEF JumpIn
<1>4. /\ b \in A <=> g[b].next = t
      /\ b \in B <=> h[b].next = t
      /\ b \in C <=> g[b].jump = t
      /\ b \in D <=> h[b].jump = t
  BY DEF NextIn, JumpIn
<1>5. Enter(g, t, L) = Cardinality(A) + Cardinality(C) /\ Enter(h, t, L) = Cardinality(B) + Cardinality(D)
  BY DEF Enter
<1> HIDE DEF A, B, C, D
<1>6. /\ Cardinality(A) \in Nat /\ Cardinality(B) \in Nat
      /\ Cardinality(B) = Cardinality(A) - (IF b \in A THEN 1 ELSE 0) + (IF b \in B THEN 1 ELSE 0)
  BY <1>1, <1>2, SetSwap
<1>7. /\ Cardinality(C) \in Nat /\ Cardinality(D) \in Nat
      /\ Cardinality(D) = Cardinality(C) - (IF b \in C THEN 1 ELSE 0) + (IF b \in D THEN 1 ELSE 0)
  BY <1>1, <1>3, SetSwap
<1>8. (b \in A <=> g[b].next = t) /\ (b \in B <=> h[b].next = t)
  BY <1>4
<1>9. (b \in C <=> g[b].jump = t) /\ (b \in D <=> h[b].jump = t)
  BY <1>4
<1>10. Cardinality(B) = Cardinality(A) - (IF g[b].next = t THEN 1 ELSE 0) + (IF h[b].next = t THEN 1 ELSE 0)
  BY <1>6, <1>8
<1>11. Cardinality(D) = Cardinality(C) - (IF g[b].jump = t THEN 1 ELSE 0) + (IF h[b].jump = t THEN 1 ELSE 0)
  BY <1>7, <1>9
<1> QED
  BY <1>5, <1>6, <1>7, <1>10, <1>11

LEMMA EnterSame ==
  ASSUME NEW L, NEW g, NEW h, NEW t,
         \A x \in L : h[x].next = g[x].next /\ h[x].jump = g[x].jump
  PROVE  Enter(h, t, L) = Enter(g, t, L)
<1>1. NextIn(h, t, L) = NextIn(g, t, L)
  BY DEF NextIn
<1>2. JumpIn(h, t, L) = JumpIn(g, t, L)
  BY DEF JumpIn
<1> QED
  BY <1>1, <1>2 DEF Enter

\* Without n.
LEMMA EnterDrop ==
  ASSUME NEW L, IsFiniteSet(L), NEW h, NEW n \in L, NEW t
  PROVE  Enter(h, t, L \ {n}) = Enter(h, t, L)
             - (IF h[n].next = t THEN 1 ELSE 0) - (IF h[n].jump = t THEN 1 ELSE 0)
<1> DEFINE A == NextIn(h, t, L)
           B == NextIn(h, t, L \ {n})
           C == JumpIn(h, t, L)
           D == JumpIn(h, t, L \ {n})
<1>1. IsFiniteSet(A) /\ IsFiniteSet(C)
  BY EnterIsNat
<1>2. \A x : x # n => (x \in A <=> x \in B)
  BY DEF NextIn
<1>3. \A x : x # n => (x \in C <=> x \in D)
  BY DEF JumpIn
<1>4. /\ n \in A <=> h[n].next = t
      /\ n \notin B
      /\ n \in C <=> h[n].jump = t
      /\ n \notin D
  BY DEF NextIn, JumpIn
<1>5. Enter(h, t, L) = Cardinality(A) + Cardinality(C) /\ Enter(h, t, L \ {n}) = Cardinality(B) + Cardinality(D)
  BY DEF Enter
<1> HIDE DEF A, B, C, D
<1>6. /\ Cardinality(A) \in Nat /\ Cardinality(B) \in Nat
      /\ Cardinality(B) = Cardinality(A) - (IF n \in A THEN 1 ELSE 0) + (IF n \in B THEN 1 ELSE 0)
  BY <1>1, <1>2, SetSwap
<1>7. /\ Cardinality(C) \in Nat /\ Cardinality(D) \in Nat
      /\ Cardinality(D) = Cardinality(C) - (IF n \in C THEN 1 ELSE 0) + (IF n \in D THEN 1 ELSE 0)
  BY <1>1, <1>3, SetSwap
<1>8. (n \in A <=> h[n].next = t) /\ n \notin B
  BY <1>4
<1>9. (n \in C <=> h[n].jump = t) /\ n \notin D
  BY <1>4
<1>10. Cardinality(B) = Cardinality(A) - (IF h[n].next = t THEN 1 ELSE 0)
  BY <1>6, <1>8
<1>11. Cardinality(D) = Cardinality(C) - (IF h[n].jump = t THEN 1 ELSE 0)
  BY <1>7, <1>9
<1> QED
  BY <1>5, <1>6, <1>7, <1>10, <1>11

LEMMA EnterMonotone ==
  ASSUME NEW L, IsFiniteSet(L), NEW K, K \subseteq L, NEW h, NEW t
  PROVE  Enter(h, t, K) \in Nat /\ Enter(h, t, L) \in Nat /\ Enter(h, t, K) <= Enter(h, t, L)
<1>1. IsFiniteSet(K)
  BY FS_Subset
<1> DEFINE A == NextIn(h, t, K)
           B == NextIn(h, t, L)
           C == JumpIn(h, t, K)
           D == JumpIn(h, t, L)
<1>2. IsFiniteSet(B) /\ IsFiniteSet(D) /\ Cardinality(B) \in Nat /\ Cardinality(D) \in Nat
  BY EnterIsNat
<1>3. A \subseteq B /\ C \subseteq D
  BY DEF NextIn, JumpIn
<1>4. Cardinality(A) \in Nat /\ Cardinality(C) \in Nat
  BY <1>1, EnterIsNat
<1>5. Enter(h, t, K) = Cardinality(A) + Cardinality(C) /\ Enter(h, t, L) = Cardinality(B) + Cardinality(D)
  BY DEF Enter
<1> HIDE DEF A, B, C, D
<1>6. Cardinality(A) <= Cardinality(B) /\ Cardinality(C) <= Cardinality(D)
  BY <1>2, <1>3, FS_Subset
<1> QED
  BY <1>2, <1>4, <1>5, <1>6

\* A block that two blocks enter.
LEMMA EnterTwo ==
  ASSUME NEW L, IsFiniteSet(L), NEW h, NEW t, NEW c \in L, NEW d \in L, c # d,
         h[c].next = t \/ h[c].jump = t, h[d].next = t \/ h[d].jump = t
  PROVE  Enter(h, t, L) >= 2
<1>1. Enter(h, t, L \ {c}) = Enter(h, t, L)
             - (IF h[c].next = t THEN 1 ELSE 0) - (IF h[c].jump = t THEN 1 ELSE 0)
  BY EnterDrop
<1>2. IsFiniteSet(L \ {c}) /\ d \in L \ {c}
  BY FS_RemoveElement
<1>3. Enter(h, t, (L \ {c}) \ {d}) = Enter(h, t, L \ {c})
             - (IF h[d].next = t THEN 1 ELSE 0) - (IF h[d].jump = t THEN 1 ELSE 0)
  BY <1>2, EnterDrop
<1>4. IsFiniteSet((L \ {c}) \ {d})
  BY <1>2, FS_RemoveElement
<1>5. Enter(h, t, (L \ {c}) \ {d}) \in Nat /\ Enter(h, t, L) \in Nat /\ Enter(h, t, L \ {c}) \in Nat
  BY <1>2, <1>4, EnterIsNat
<1> QED
  BY <1>1, <1>3, <1>5

-------------------------------------------------------------------------------
(* The blocks reached from the entry.                                          *)

\* A set of numbers that begins with 0 and goes on has them all.
LEMMA AllNumbers ==
  ASSUME NEW T \in SUBSET Nat, 0 \in T, \A n \in T : n + 1 \in T
  PROVE  T = Nat
<1> SUFFICES ASSUME Nat \ T # {}
             PROVE  FALSE
  OBVIOUS
<1>1. PICK d \in Nat \ T : \A c \in Nat \ T : ~(<<c, d>> \in OpToRel(<, Nat))
  BY NatLessThanWellFounded, WFMin
<1>2. d - 1 \in Nat /\ d - 1 < d /\ (d - 1) + 1 = d
  <2>1. d \in Nat /\ d # 0
    BY <1>1
  <2> QED
    BY <2>1
<1>3. d - 1 \notin Nat \ T
  BY <1>1, <1>2 DEF OpToRel
<1> QED
  BY <1>1, <1>2, <1>3

\* The n-th round of Reached, after the rounds of f.
Round(f, n) ==
  IF n = 0 THEN {entry} ELSE LET r == f[n-1] IN r \cup UNION {Succ(b) : b \in r}

\* The rounds up to the n-th.
Rounds(f, n) == DOMAIN f = 0..n /\ \A m \in 0..n : f[m] = Round(f, m)

LEMMA RoundsExist ==
  ASSUME NEW n \in Nat
  PROVE  \E f : Rounds(f, n)
<1> DEFINE T == {m \in Nat : \E f : Rounds(f, m)}
<1>1. 0 \in T
  <2> DEFINE f == [m \in 0..0 |-> {entry}]
  <2>1. Rounds(f, 0)
    BY DEF Rounds, Round
  <2> QED
    BY <2>1
<1>2. ASSUME NEW m \in T
      PROVE  m + 1 \in T
  <2>1. PICK f : Rounds(f, m)
    OBVIOUS
  <2>2. m \in Nat
    OBVIOUS
  <2> DEFINE g == [k \in 0..(m + 1) |-> Round(f, k)]
  <2>3. ASSUME NEW k \in 0..(m + 1)
        PROVE  g[k] = Round(g, k)
    <3>1. CASE k = 0
      BY <3>1 DEF Round
    <3>2. CASE k # 0
      <4>1. k - 1 \in 0..m /\ k - 1 \in 0..(m + 1)
        BY <2>2, <3>2
      <4>2. g[k - 1] = f[k - 1]
        BY <2>1, <4>1 DEF Rounds
      <4>3. g[k] = Round(f, k)
        OBVIOUS
      <4> HIDE DEF g
      <4> QED
        BY <3>2, <4>2, <4>3 DEF Round
    <3> QED
      BY <3>1, <3>2
  <2>4. DOMAIN g = 0..(m + 1)
    OBVIOUS
  <2> HIDE DEF g
  <2>5. Rounds(g, m + 1)
    BY <2>3, <2>4 DEF Rounds
  <2> QED
    BY <2>2, <2>5
<1>3. T \in SUBSET Nat
  OBVIOUS
<1> HIDE DEF T
<1>4. T = Nat
  BY <1>1, <1>2, <1>3, AllNumbers
<1> QED
  BY <1>4 DEF T

LEMMA ReachedIs ==
  ASSUME Len(blk) \in Nat
  PROVE  \E f : Rounds(f, Len(blk)) /\ Reached = f[Len(blk)]
<1> DEFINE Eq(h) == h = [n \in 0..Len(blk) |-> Round(h, n)]
<1>1. PICK f : Rounds(f, Len(blk))
  BY RoundsExist
<1> DEFINE g == [n \in 0..Len(blk) |-> f[n]]
<1>2. ASSUME NEW n \in 0..Len(blk)
      PROVE  g[n] = Round(g, n)
  <2>1. g[n] = Round(f, n)
    BY <1>1 DEF Rounds
  <2>2. n # 0 => n - 1 \in 0..Len(blk)
    OBVIOUS
  <2>3. n # 0 => g[n - 1] = f[n - 1]
    BY <2>2
  <2> HIDE DEF g
  <2> QED
    BY <2>1, <2>3 DEF Round
<1>3. g = [n \in 0..Len(blk) |-> Round(g, n)]
  BY <1>2
<1>4. Eq(g)
  BY <1>3
<1> DEFINE R == CHOOSE h : Eq(h)
<1>5. Eq(R)
  <2> HIDE DEF Eq, g
  <2> QED
    BY <1>4
<1>6. Reached = R[Len(blk)]
  BY DEF Reached, Round
<1>7. R = [n \in 0..Len(blk) |-> Round(R, n)]
  <2> HIDE DEF R
  <2> QED
    BY <1>5
<1> HIDE DEF R
<1>8. Rounds(R, Len(blk))
  <2>1. DOMAIN R = 0..Len(blk)
    BY <1>7
  <2>2. \A n \in 0..Len(blk) : R[n] = Round(R, n)
    BY <1>7
  <2> QED
    BY <2>1, <2>2 DEF Rounds
<1> QED
  BY <1>6, <1>8

\* A set that holds the entry and the successors of its members.
LEMMA ReachedIn ==
  ASSUME Len(blk) \in Nat, NEW L, entry \in L, \A b \in L : Succ(b) \subseteq L
  PROVE  Reached \subseteq L
<1>1. PICK f : Rounds(f, Len(blk)) /\ Reached = f[Len(blk)]
  BY ReachedIs
<1> DEFINE T == {n \in Nat : n <= Len(blk) => f[n] \subseteq L}
<1>2. 0 \in T
  <2>1. f[0] = {entry}
    BY <1>1 DEF Rounds, Round
  <2> QED
    BY <2>1
<1>3. ASSUME NEW n \in T
      PROVE  n + 1 \in T
  <2>1. n \in Nat /\ n + 1 \in Nat
    OBVIOUS
  <2>2. ASSUME n + 1 <= Len(blk)
        PROVE  f[n + 1] \subseteq L
    <3>1. n + 1 \in 0..Len(blk) /\ n + 1 # 0 /\ (n + 1) - 1 = n /\ n <= Len(blk)
      BY <2>1, <2>2
    <3>2. f[n] \subseteq L
      BY <3>1
    <3>3. f[n + 1] = Round(f, n + 1)
      BY <1>1, <3>1 DEF Rounds
    <3>4. Round(f, n + 1) = f[n] \cup UNION {Succ(b) : b \in f[n]}
      BY <3>1 DEF Round
    <3>5. UNION {Succ(b) : b \in f[n]} \subseteq L
      BY <3>2
    <3> QED
      BY <3>2, <3>3, <3>4, <3>5
  <2> QED
    BY <2>1, <2>2
<1>4. T \in SUBSET Nat
  OBVIOUS
<1> HIDE DEF T
<1>5. T = Nat
  BY <1>2, <1>3, <1>4, AllNumbers
<1> QED
  BY <1>1, <1>5 DEF T

-------------------------------------------------------------------------------
(* The invariants of the passes.  L is the set of the blocks that are still    *)
(* part of the method: the entry is one of them, and their successors are.     *)

Closed(L) == L \subseteq Block /\ entry \in L /\ \A b \in L : Succ(b) \subseteq L

\* No block of the method is entered from there more often than it was told; a
\* block that was made for a jump is not told at all.
Counted(L) == \A t \in Block : blk[t].incoming = 0 \/ blk[t].incoming >= Entering(t, L)

RET == <<<<"RET">>>>

\* What is on the stack.
Frames == \A f \in OnStack : f = Frame(f.b, f.at)

\* An activation of the pass has b before it.
Pends(b) == \E f \in OnStack : f.b = b

\* The activation on top is about to begin with b.
Begins(b) == stack # <<>> /\ Top.at = "TAIL" /\ Top.b = b

\* Every block was told of all edges that enter it.
AllTold == \A t \in Block : blk[t].incoming >= Entering(t, Block)

\* The activations of BasicBlock_strip0: all but the one on top stripped a jump.
Strip0Frames ==
  /\ \A f \in Below : f.at = "BOTH"
  /\ \A f \in OnStack : f.b \in Block /\ (f.at # "TAIL" => blk[f.b].visited)
  /\ stack # <<>> /\ Top.at = "JUMP" => blk[Top.b].jump # 0
  /\ stack # <<>> /\ Top.at = "NEXT" => \/ blk[Top.b].jump = 0
                                        \/ blk[Top.b].next = 0 /\ blk[blk[Top.b].jump].visited

\* The links of x are being stripped.
Stripping(x) == stack # <<>> /\ Top.b = x /\ Top.at \in {"JUMP", "NEXT"}

\* Once a block is marked its successors are marked, or the walk gets there.
Strip0Marks ==
  /\ blk[entry].visited \/ Begins(entry)
  /\ \A x \in Block : blk[x].visited => \A s \in Succ(x) :
       \/ blk[s].visited \/ Begins(s) \/ Stripping(x)
       \/ s = blk[x].next /\ Frame(x, "BOTH") \in OnStack

Strip0Inv == AllTold /\ Strip0Frames /\ Strip0Marks

\* A block the walk came to, from the entry or from a block it is done with.
Led(x, L) == x = entry \/ \E c \in L : ~blk[c].visited /\ x \in Succ(c)

Strip1Inv(L) ==
  /\ Closed(L) /\ Counted(L)
  /\ \A f \in OnStack : f.at = "TAIL" /\ f.b \in L /\ Led(f.b, L)
  /\ \A x \in L : ~blk[x].visited =>
       Led(x, L) /\ \A s \in Succ(x) : ~blk[s].visited \/ Pends(s)
  /\ ~blk[entry].visited \/ Pends(entry)

\* The instructions of these blocks, by block and place.
Own(g, b) == {<<b, i>> : i \in DOMAIN g[b].ops}
Pieces(g, M) == UNION {Own(g, b) : b \in M}

\* Marked are the blocks whose instructions are counted.
Marked(L) == {x \in L : blk[x].visited}

\* A block with jump only, behind b or b itself, has an instruction for it.
Laid(b) ==
  IF blk[b].next = 0 THEN blk[b].jump # 0 => blk[b].ops # <<>>
  ELSE blk[blk[b].next].next = 0 /\ blk[blk[b].next].jump \notin {0, blk[b].next}

SizeInv(L) ==
  /\ Closed(L) /\ Counted(L)
  /\ \A f \in OnStack : f.at = "TAIL" /\ f.b \in L \cup {0}
  /\ \A x \in Marked(L) : Laid(x) /\ \A s \in Succ(x) : blk[s].visited \/ Pends(s)
  /\ blk[entry].visited \/ Pends(entry)
  /\ Cardinality(Pieces(blk, Marked(L))) <= codesize

\* The walk has a way to b before it: it comes to the block, or it comes back to
\* one before it.
Awaits(x, s) ==
  \/ Frame(s, "COPY") \in OnStack
  \/ Frame(x, "NEXT") \in OnStack
  \/ Frame(x, "JUMP") \in OnStack /\ s = blk[x].jump

\* The states before the first jump is taken away, of a method without an end.
Early(L) ==
  /\ stack # <<>>
  /\ \/ /\ Top = Frame(entry, "COPY") /\ prev = 0
        /\ \A x \in L : blk[x].code = 0
        /\ Laid(entry)
        /\ blk[entry].next # 0 => blk[blk[entry].next].ops # <<>>
     \/ /\ Top = Frame(entry, "NEXT") \/ Top = Frame(blk[entry].next, "COPY")
        /\ prev \in {0, entry}
        /\ \A x \in L : x # entry => blk[x].code = 0
        /\ blk[entry].next # 0 /\ Laid(entry)
        /\ blk[blk[entry].next].ops # <<>>
     \/ /\ Top = Frame(prev, "NEXT") \/ Top = Frame(prev, "JUMP") \/ Top = Frame(blk[prev].jump, "COPY")
        /\ prev # 0 /\ blk[prev].next = 0 /\ blk[prev].jump # 0
        /\ blk[blk[prev].jump].code = 0 /\ text # <<>>

\* What is laid out and what is still to be, with the RET.
Volume(L) == Len(text) + Cardinality(Pieces(blk, L \cup {ret}))

CopyInv(L) ==
  /\ Closed(L) /\ Counted(L)
  /\ prev \in Block \cup {0}
  /\ blk[ret].ops = RET /\ blk[ret].code # 0
  /\ \A f \in OnStack : f.b \in L
  /\ \A x \in Block \ {ret} : blk[x].code # 0 => ~blk[x].visited
  /\ \A x \in L : ~blk[x].visited => \A s \in Succ(x) : ~blk[s].visited \/ Awaits(x, s)
  /\ ~blk[entry].visited \/ Frame(entry, "COPY") \in OnStack
  /\ Volume(L) <= codesize \/ (ret \notin L /\ Early(L) /\ Volume(L) <= codesize + 1)

CopyRetInv(L) ==
  /\ Closed(L) 
  /\ prev \in Block \cup {0}
  /\ \A f \in OnStack : f.b = ret
  /\ \A x \in L : ~blk[x].visited
  /\ Volume(L) <= codesize

\* Nothing is laid out before BasicBlock_copy.
Fresh == prev = 0 /\ text = <<>>
Unplaced == \A x \in Block : blk[x].code = 0

BlocksInv ==
  /\ IsSeq(stack) /\ Frames /\ IsSeq(text) /\ codesize \in Nat
  /\ pass \in {"asm", "strip0", "strip1", "size", "copy", "copyret", "setjump", "done"}
  /\ pass = "asm" => stack = <<>> /\ Built /\ Fresh
  /\ pass \in {"strip0", "strip1", "size"} => Fresh /\ Unplaced /\ blk[ret].ops = RET
  /\ pass \in {"strip0", "strip1", "size", "copy", "copyret"} => Graph
  /\ pass = "strip0" => Strip0Inv
  /\ pass = "strip1" => \E L \in SUBSET Block : Strip1Inv(L)
  /\ pass = "size" => \E L \in SUBSET Block : SizeInv(L)
  /\ pass = "copy" => \E L \in SUBSET Block : CopyInv(L)
  /\ pass = "copyret" => \E L \in SUBSET Block : CopyRetInv(L)
  /\ pass \in {"setjump", "done"} => CodeFits

\* The links are those of a graph with other ones for b.
LEMMA Relinked ==
  ASSUME Graph, entry' = entry, ret' = ret, NEW b \in Block, NEW n, NEW j,
         Size(blk'), Links(blk', b, n, j), SamePlaces(blk'), SameFlags(blk'),
         \A x \in Block : IsSeq(blk'[x].ops) /\ blk'[x].incoming \in Int,
         {n, j} \ {0} \subseteq Block \ {entry}, {n, j} \ {0} = {} <=> b = ret
  PROVE  Graph' /\ Block' = Block /\ \A x \in Block : Succ(x)' = IF x = b THEN {n, j} \ {0} ELSE Succ(x)
<1>1. Block' = Block
  BY DEF Size, Block
<1>2. \A x \in Block : Succ(x)' = IF x = b THEN {n, j} \ {0} ELSE Succ(x)
  BY DEF Links, Succ
<1>3. Blocks(blk')
  BY DEF Size
<1>4. \A x \in Block : blk'[x].visited \in BOOLEAN
  BY DEF SameFlags, Graph
<1>5. \A x \in Block : blk'[x].code \in Nat
  BY DEF SamePlaces, Graph
<1>6. ASSUME NEW x \in Block
      PROVE  Succ(x)' \subseteq Block \ {entry} /\ (Succ(x)' = {} <=> x = ret)
  BY <1>2 DEF Graph
<1> HIDE DEF Succ
<1>7. {entry, ret} \subseteq Block /\ entry # ret
  BY DEF Graph
<1> QED
  BY <1>1, <1>2, <1>3, <1>4, <1>5, <1>6, <1>7 DEF Graph

LEMMA Unlinked ==
  ASSUME Graph, entry' = entry, ret' = ret, Size(blk'), SameLinks(blk'),
         \A x \in Block : /\ IsSeq(blk'[x].ops) /\ blk'[x].incoming \in Int
                          /\ blk'[x].visited \in BOOLEAN /\ blk'[x].code \in Nat
  PROVE  Graph' /\ Block' = Block /\ \A x \in Block : Succ(x)' = Succ(x)
<1>1. Block' = Block
  BY DEF Size, Block
<1>2. \A x \in Block : Succ(x)' = Succ(x)
  BY DEF SameLinks, Succ
<1>3. Blocks(blk')
  BY DEF Size
<1>6. ASSUME NEW x \in Block
      PROVE  Succ(x)' \subseteq Block \ {entry} /\ (Succ(x)' = {} <=> x = ret)
  BY <1>2 DEF Graph
<1>7. {entry, ret} \subseteq Block /\ entry # ret
  BY DEF Graph
<1> QED
  BY <1>1, <1>2, <1>3, <1>6, <1>7 DEF Graph

\* The graph stays as it is.
LEMMA Untouched ==
  ASSUME blk' = blk, entry' = entry, ret' = ret
  PROVE  /\ Block' = Block /\ Graph' = Graph /\ \A x : Succ(x)' = Succ(x)
         /\ \A t, L : Entering(t, L)' = Entering(t, L)
<1>1. Block' = Block
  BY DEF Block
<1>2. \A x : Succ(x)' = Succ(x)
  BY DEF Succ
<1>3. Graph' = Graph
  BY <1>1 DEF Graph, Succ
<1>4. \A t, L : Entering(t, L)' = Entering(t, L)
  BY DEF Entering
<1> QED
  BY <1>1, <1>2, <1>3, <1>4

\* The blocks have no place yet.
LEMMA UnplacedKept ==
  ASSUME blk' = blk \/ (Size(blk') /\ SamePlaces(blk'))
  PROVE  Unplaced => Unplaced'
BY DEF Unplaced, Size, SamePlaces, Block

LEMMA BlockFinite ==
  ASSUME Graph
  PROVE  IsFiniteSet(Block)
<1>1. Block = 1..Len(blk) /\ Len(blk) \in Nat
  BY SeqIs DEF Graph, Blocks, Block
<1> QED
  BY <1>1, FS_Interval

-------------------------------------------------------------------------------
(* BasicBlock_strip0.                                                          *)

\* What a redirected edge does to the counts.
LEMMA CountsKept ==
  ASSUME Graph, \A t \in Block : blk[t].incoming >= Entering(t, Block),
         NEW h, Size(h), NEW b \in Block, NEW c, NEW d, NEW n, NEW j,
         Recount(h, c, d), Links(h, b, n, j),
         \A u \in Block : (IF n = u THEN 1 ELSE 0) + (IF j = u THEN 1 ELSE 0)
             = (IF blk[b].next = u THEN 1 ELSE 0) + (IF blk[b].jump = u THEN 1 ELSE 0)
               - (IF u = c THEN 1 ELSE 0) + (IF u = d THEN 1 ELSE 0)
  PROVE  \A t \in Block : h[t].incoming \in Int /\ h[t].incoming >= Enter(h, t, Block)
<1> TAKE t \in Block
<1>1. IsFiniteSet(Block)
  BY BlockFinite
<1>2. Enter(h, t, Block) = Enter(blk, t, Block)
             - (IF blk[b].next = t THEN 1 ELSE 0) - (IF blk[b].jump = t THEN 1 ELSE 0)
             + (IF h[b].next = t THEN 1 ELSE 0) + (IF h[b].jump = t THEN 1 ELSE 0)
  <2>1. \A x \in Block : x # b => h[x].next = blk[x].next /\ h[x].jump = blk[x].jump
    BY DEF Links
  <2> QED
    BY <1>1, <2>1, EnterSwap
<1>3. h[b].next = n /\ h[b].jump = j
  BY DEF Links
<1>4. h[t].incoming = blk[t].incoming - (IF t = c THEN 1 ELSE 0) + (IF t = d THEN 1 ELSE 0)
  BY DEF Recount
<1>5. Enter(blk, t, Block) \in Nat
  BY <1>1, EnterIsNat
<1>6. blk[t].incoming \in Int /\ blk[t].incoming >= Enter(blk, t, Block)
  <2>1. Entering(t, Block) = Enter(blk, t, Block)
    BY DEF Entering, Enter, NextIn, JumpIn
  <2> QED
    BY <2>1 DEF Graph
<1>7. (IF n = t THEN 1 ELSE 0) + (IF j = t THEN 1 ELSE 0)
             = (IF blk[b].next = t THEN 1 ELSE 0) + (IF blk[b].jump = t THEN 1 ELSE 0)
               - (IF t = c THEN 1 ELSE 0) + (IF t = d THEN 1 ELSE 0)
  OBVIOUS
<1>8. PICK an \in 0..1 : an = IF n = t THEN 1 ELSE 0
  OBVIOUS
<1>9. PICK aj \in 0..1 : aj = IF j = t THEN 1 ELSE 0
  OBVIOUS
<1>10. PICK bn \in 0..1 : bn = IF blk[b].next = t THEN 1 ELSE 0
  OBVIOUS
<1>11. PICK bj \in 0..1 : bj = IF blk[b].jump = t THEN 1 ELSE 0
  OBVIOUS
<1>12. PICK ac \in 0..1 : ac = IF t = c THEN 1 ELSE 0
  OBVIOUS
<1>13. PICK ad \in 0..1 : ad = IF t = d THEN 1 ELSE 0
  OBVIOUS
<1>14. an + aj = bn + bj - ac + ad
  BY <1>7, <1>8, <1>9, <1>10, <1>11, <1>12, <1>13, Zenon
<1>15. Enter(h, t, Block) = Enter(blk, t, Block) - bn - bj + an + aj
  BY <1>2, <1>3, <1>8, <1>9, <1>10, <1>11, Zenon
<1>16. h[t].incoming = blk[t].incoming - ac + ad
  BY <1>4, <1>12, <1>13, Zenon
<1> QED
  BY <1>5, <1>6, <1>14, <1>15, <1>16

\* Where an empty block leads.
LEMMA ThroughIs ==
  ASSUME Graph, NEW c \in Block, Through(c) # 0
  PROVE  Through(c) \in Block \ {entry}
<1>1. Through(c) \in Succ(c)
  BY DEF Through, Succ
<1> QED
  BY <1>1 DEF Graph

LEMMA FrameIs ==
  ASSUME NEW b, NEW l
  PROVE  Frame(b, l).b = b /\ Frame(b, l).at = l
BY DEF Frame

LEMMA FramesKept ==
  ASSUME IsSeq(stack), stack # <<>>, Frames,
         \/ Return \/ (\E b, l : Goto(b, l)) \/ (\E b, l, c, m : Call(b, l, c, m))
  PROVE  Frames'
<1>1. OnStack = Below \cup {Top}
  BY StackIs
<1>2. CASE Return
  <2>1. OnStack' = Below
    BY <1>2, ReturnIs
  <2> QED
    BY <1>1, <2>1 DEF Frames, Frame
<1>3. ASSUME NEW b, NEW l, Goto(b, l)
      PROVE  Frames'
  <2>1. OnStack' = Below \cup {Frame(b, l)}
    BY <1>3, GotoIs
  <2>2. \A f \in Below : f = Frame(f.b, f.at)
    BY <1>1 DEF Frames
  <2>3. \A f \in OnStack' : f = Frame(f.b, f.at)
    BY <2>1, <2>2, FrameIs
  <2> QED
    BY <2>3 DEF Frames, Frame
<1>4. ASSUME NEW b, NEW l, NEW c, NEW m, Call(b, l, c, m)
      PROVE  Frames'
  <2>1. OnStack' = Below \cup {Frame(b, l), Frame(c, m)}
    BY <1>4, CallIs
  <2>2. \A f \in Below : f = Frame(f.b, f.at)
    BY <1>1 DEF Frames
  <2>3. \A f \in OnStack' : f = Frame(f.b, f.at)
    BY <2>1, <2>2, FrameIs
  <2> QED
    BY <2>3 DEF Frames, Frame
<1> QED
  BY <1>2, <1>3, <1>4

\* The pass at its label: an activation of a block on top.
LEMMA Strip0Top ==
  ASSUME IsSeq(stack), stack # <<>>, Graph, Strip0Frames
  PROVE  /\ OnStack = Below \cup {Top} /\ Top.b \in Block
         /\ Top.at # "TAIL" => blk[Top.b].visited
         /\ blk[Top.b].next \in Block \cup {0} /\ blk[Top.b].jump \in Block \cup {0}
         /\ Block = 1..Len(blk) /\ Len(blk) \in Nat
<1>1. OnStack = Below \cup {Top}
  BY StackIs
<1>2. Top.b \in Block /\ (Top.at # "TAIL" => blk[Top.b].visited)
  BY <1>1 DEF Strip0Frames
<1> QED
  BY <1>1, <1>2, SuccIs

LEMMA Strip0TailKeeps ==
  ASSUME IsSeq(stack), Frames, Graph, Strip0Inv, Strip0Tail
  PROVE  IsSeq(stack') /\ Frames' /\ Graph' /\ Strip0Inv' /\ blk'[ret].ops = blk[ret].ops
         /\ (Unplaced => Unplaced')
<1>1. stack # <<>> /\ Top.at = "TAIL" /\ entry' = entry /\ ret' = ret
  BY DEF Strip0Tail, At
<1>2. PICK b : b = Top.b
  OBVIOUS
<1>3. /\ OnStack = Below \cup {Top} /\ b \in Block
      /\ blk[b].next \in Block \cup {0} /\ blk[b].jump \in Block \cup {0}
  BY <1>1, <1>2, Strip0Top DEF Strip0Inv
<1>4. CASE blk[b].visited
  <2>1. Return /\ blk' = blk
    BY <1>2, <1>4 DEF Strip0Tail
  <2>2. /\ IsSeq(stack') /\ OnStack' = Below
        /\ stack' # <<>> => Top' \in Below
        /\ Below' \subseteq Below
    BY <1>1, <2>1, ReturnIs
  <2>3. Frames'
    BY <1>1, <2>1, FramesKept
  <2>4. /\ Block' = Block /\ Graph' /\ \A x : Succ(x)' = Succ(x)
        /\ \A t, L : Entering(t, L)' = Entering(t, L)
    BY <1>1, <2>1, Untouched
  <2>5. AllTold'
    BY <2>1, <2>4 DEF Strip0Inv, AllTold
  <2>6. Strip0Frames'
    <3>1. \A f \in Below : f.at = "BOTH" /\ f.b \in Block /\ blk[f.b].visited
      BY <1>3 DEF Strip0Inv, Strip0Frames
    <3> QED
      BY <2>1, <2>2, <2>4, <3>1 DEF Strip0Frames
  <2>7. Strip0Marks'
    <3>1. blk'[entry'].visited
      BY <1>1, <1>2, <1>4, <2>1 DEF Strip0Inv, Strip0Marks, Begins
    <3>2. ASSUME NEW x \in Block, blk[x].visited, NEW s \in Succ(x)
          PROVE  blk[s].visited \/ (s = blk[x].next /\ Frame(x, "BOTH") \in Below)
      <4>1. ~Stripping(x)
        BY <1>1 DEF Stripping
      <4>2. Begins(s) => blk[s].visited
        BY <1>2, <1>4 DEF Begins
      <4>3. Frame(x, "BOTH") \in OnStack => Frame(x, "BOTH") \in Below
        BY <1>1, <1>3, FrameIs
      <4> QED
        BY <3>2, <4>1, <4>2, <4>3 DEF Strip0Inv, Strip0Marks
    <3> QED
      BY <2>1, <2>2, <2>4, <3>1, <3>2 DEF Strip0Marks, Frame
  <2> QED
    BY <2>1, <2>2, <2>3, <2>4, <2>5, <2>6, <2>7, UnplacedKept DEF Strip0Inv
<1>5. CASE ~blk[b].visited
  <2>1. PICK l \in {"JUMP", "NEXT"} : l = IF blk[b].jump # 0 THEN "JUMP" ELSE "NEXT"
    OBVIOUS
  <2>2. Goto(b, l) /\ blk' = [blk EXCEPT ![b].visited = TRUE]
    BY <1>2, <1>5, <2>1 DEF Strip0Tail
  <2>3. IsSeq(stack') /\ stack' # <<>> /\ Below' = Below /\ Top' = Frame(b, l) /\ OnStack' = Below \cup {Frame(b, l)}
    BY <1>1, <2>2, GotoIs
  <2>4. Frames'
    BY <1>1, <2>2, FramesKept
  <2>5. PICK h : h = blk'
    OBVIOUS
  <2>6. Size(h) /\ SameLinks(h) /\ SameCounts(h) /\ SameOps(h) /\ SamePlaces(h) /\ Flag(h, b, TRUE)
    BY <1>3, <2>2, <2>5, MarkEffect
  <2>7. Graph' /\ Block' = Block /\ \A x \in Block : Succ(x)' = Succ(x)
    <3>1. \A x \in Block : /\ IsSeq(h[x].ops) /\ h[x].incoming \in Int
                           /\ h[x].visited \in BOOLEAN /\ h[x].code \in Nat
      BY <2>6 DEF SameCounts, SameOps, SamePlaces, Flag, Graph
    <3> QED
      BY <1>1, <2>5, <2>6, <3>1, Unlinked
  <2>8. AllTold'
    <3>1. \A t : Enter(h, t, Block) = Enter(blk, t, Block)
      BY <2>6, EnterSame DEF SameLinks
    <3>2. \A t \in Block : h[t].incoming >= Enter(h, t, Block)
      BY <2>6, <3>1 DEF Strip0Inv, AllTold, SameCounts, Entering, Enter, NextIn, JumpIn
    <3> QED
      BY <2>5, <2>7, <3>2 DEF AllTold, Entering, Enter, NextIn, JumpIn
  <2>9. Strip0Frames'
    <3>1. \A f \in Below : f.at = "BOTH" /\ f.b \in Block /\ h[f.b].visited
      BY <1>3, <2>6 DEF Strip0Inv, Strip0Frames, Flag
    <3>2. Frame(b, l).b = b /\ Frame(b, l).at = l /\ h[b].visited /\ h[b].jump = blk[b].jump
      BY <1>3, <2>6, FrameIs DEF Flag, SameLinks
    <3> QED
      BY <1>3, <2>1, <2>3, <2>5, <2>7, <3>1, <3>2 DEF Strip0Frames
  <2>10. Strip0Marks'
    <3>1. h[entry].visited
      BY <1>2, <1>3, <2>6 DEF Flag, Strip0Inv, Strip0Marks, Begins, Graph
    <3>2. ASSUME NEW x \in Block, h[x].visited, NEW s \in Succ(x)
          PROVE  \/ h[s].visited \/ (Top'.b = x /\ Top'.at \in {"JUMP", "NEXT"})
                 \/ s = h[x].next /\ Frame(x, "BOTH") \in OnStack'
      <4>1. CASE x = b
        BY <2>1, <2>3, <4>1, FrameIs
      <4>2. CASE x # b
        <5>1. blk[x].visited /\ s \in Block
          BY <2>6, <3>2, <4>2 DEF Flag, Graph
        <5>2. ~Stripping(x)
          BY <1>1 DEF Stripping
        <5>3. Begins(s) => h[s].visited
          BY <1>2, <2>6, <5>1 DEF Begins, Flag
        <5>4. Frame(x, "BOTH") \in OnStack => Frame(x, "BOTH") \in OnStack'
          BY <1>1, <1>3, <2>3, FrameIs
        <5>5. blk[s].visited => h[s].visited
          BY <2>6, <5>1 DEF Flag
        <5>6. h[x].next = blk[x].next
          BY <2>6 DEF SameLinks
        <5> QED
          BY <5>1, <5>2, <5>3, <5>4, <5>5, <5>6 DEF Strip0Inv, Strip0Marks
      <4> QED
        BY <4>1, <4>2
    <3> HIDE DEF Succ
    <3> QED
      BY <1>1, <2>3, <2>5, <2>7, <3>1, <3>2 DEF Strip0Marks, Stripping, Frame
  <2>11. blk'[ret].ops = blk[ret].ops
    BY <2>5, <2>6 DEF SameOps, Graph
  <2>12. Unplaced => Unplaced'
    BY <2>5, <2>6, UnplacedKept
  <2> QED
    BY <2>3, <2>4, <2>7, <2>8, <2>9, <2>10, <2>11, <2>12 DEF Strip0Inv
<1> QED
  BY <1>4, <1>5

LEMMA SameStack ==
  ASSUME stack' = stack
  PROVE  OnStack' = OnStack /\ Below' = Below /\ Top' = Top /\ Frames' = Frames
BY DEF OnStack, Below, Top, Frames, Frame

\* Graph h has other links for b, which is being stripped; the walk goes on at l.
LEMMA StripKeeps ==
  ASSUME IsSeq(stack), stack # <<>>, Frames, Graph, Strip0Inv, entry' = entry, ret' = ret,
         NEW b, b = Top.b, Top.at \in {"JUMP", "NEXT"},
         NEW l \in {"JUMP", "NEXT"}, Goto(b, l) \/ (stack' = stack /\ l = Top.at),
         NEW n, NEW j, NEW h, h = blk', Size(h), Links(h, b, n, j), SameOps(h), SamePlaces(h), SameFlags(h),
         \A t \in Block : h[t].incoming \in Int /\ h[t].incoming >= Enter(h, t, Block),
         {n, j} \ {0} \subseteq Block \ {entry}, n # 0 \/ j # 0,
         l = "JUMP" => j # 0, l = "NEXT" => j = 0, b # ret
  PROVE  IsSeq(stack') /\ Frames' /\ Graph' /\ Strip0Inv' /\ blk'[ret].ops = blk[ret].ops
         /\ (Unplaced => Unplaced')
<1>1. /\ OnStack = Below \cup {Top} /\ b \in Block /\ blk[b].visited
      /\ blk[b].next \in Block \cup {0} /\ blk[b].jump \in Block \cup {0}
      /\ Top = Frame(b, Top.at)
  BY Strip0Top DEF Strip0Inv, Frames
<1>2. /\ IsSeq(stack') /\ stack' # <<>> /\ Below' = Below /\ Top' = Frame(b, l)
      /\ OnStack' = Below \cup {Frame(b, l)}
  BY <1>1, GotoIs, SameStack
<1>3. Frames'
  BY FramesKept, SameStack
<1>4. /\ Graph' /\ Block' = Block
      /\ \A x \in Block : Succ(x)' = IF x = b THEN {n, j} \ {0} ELSE Succ(x)
  <2>1. \A x \in Block : IsSeq(h[x].ops) /\ h[x].incoming \in Int
    BY DEF SameOps, Graph
  <2>2. {n, j} \ {0} # {}
    OBVIOUS
  <2> QED
    BY <1>1, <2>1, <2>2, Relinked
<1>5. AllTold'
  BY <1>4 DEF AllTold, Entering, Enter, NextIn, JumpIn
<1>6. Strip0Frames'
  <2>1. \A f \in Below : f.at = "BOTH" /\ f.b \in Block /\ h[f.b].visited
    BY <1>1 DEF Strip0Inv, Strip0Frames, SameFlags
  <2>2. Frame(b, l).b = b /\ Frame(b, l).at = l /\ h[b].visited /\ h[b].jump = j /\ h[b].next = n
    BY <1>1, FrameIs DEF SameFlags, Links
  <2> QED
    BY <1>1, <1>2, <1>4, <2>1, <2>2 DEF Strip0Frames
<1>7. Strip0Marks'
  <2>1. h[entry].visited
    BY DEF SameFlags, Strip0Inv, Strip0Marks, Begins, Graph
  <2>2. Top'.b = b /\ Top'.at \in {"JUMP", "NEXT"}
    BY <1>2, FrameIs
  <2>3. ASSUME NEW x \in Block, x # b, blk[x].visited, NEW s \in Succ(x)
        PROVE  h[s].visited \/ (s = h[x].next /\ Frame(x, "BOTH") \in OnStack')
    <3>1. s \in Block /\ ~Stripping(x) /\ ~Begins(s)
      BY <2>3 DEF Graph, Stripping, Begins
    <3>2. Frame(x, "BOTH") \in OnStack => Frame(x, "BOTH") \in OnStack'
      BY <1>1, <1>2, <2>3, FrameIs
    <3>3. h[x].next = blk[x].next /\ h[s].visited = blk[s].visited
      BY <2>3, <3>1 DEF Links, SameFlags
    <3> QED
      BY <2>3, <3>1, <3>2, <3>3 DEF Strip0Inv, Strip0Marks
  <2>4. \A x \in Block : h[x].visited = blk[x].visited
    BY DEF SameFlags
  <2> HIDE DEF Succ
  <2> QED
    BY <1>2, <1>4, <2>1, <2>2, <2>3, <2>4 DEF Strip0Marks, Stripping, Frame
<1>8. blk'[ret].ops = blk[ret].ops
  BY DEF SameOps, Graph
<1>9. Unplaced => Unplaced'
  BY UnplacedKept
<1> QED
  BY <1>2, <1>3, <1>4, <1>5, <1>6, <1>7, <1>8, <1>9 DEF Strip0Inv

LEMMA Strip0JumpKeeps ==
  ASSUME IsSeq(stack), Frames, Graph, Strip0Inv, Strip0Jump
  PROVE  IsSeq(stack') /\ Frames' /\ Graph' /\ Strip0Inv' /\ blk'[ret].ops = blk[ret].ops
         /\ (Unplaced => Unplaced')
<1>1. stack # <<>> /\ Top.at = "JUMP" /\ entry' = entry /\ ret' = ret
  BY DEF Strip0Jump, At
<1>2. PICK b : b = Top.b
  OBVIOUS
<1>3. /\ OnStack = Below \cup {Top} /\ b \in Block /\ blk[b].visited
      /\ blk[b].next \in Block \cup {0} /\ blk[b].jump \in Block \cup {0}
      /\ blk[b].next # entry /\ blk[b].jump # entry /\ 0 \notin Block
      /\ Block = 1..Len(blk) /\ Len(blk) \in Nat
  BY <1>1, <1>2, Strip0Top, SuccIs DEF Strip0Inv
<1>4. PICK c : c = blk[b].jump
  OBVIOUS
<1>5. c \in Block /\ c # 0 /\ b # ret
  BY <1>1, <1>2, <1>3, <1>4, SuccIs DEF Strip0Inv, Strip0Frames
<1>6. PICK t : t = Through(c)
  OBVIOUS
<1>7. PICK h : h = blk'
  OBVIOUS
<1>8. CASE /\ t # 0
           /\ blk' = JumpOn(b, c, t)
           /\ stack' = stack
  <2>1. t \in Block \ {entry}
    BY <1>5, <1>6, <1>8, ThroughIs
  <2>2. /\ Size(h) /\ SameOps(h) /\ SamePlaces(h) /\ SameFlags(h) /\ Recount(h, c, t)
        /\ Links(h, b, blk[b].next, t)
    BY <1>3, <1>7, <1>8, JumpOnEffect
  <2>3. \A u \in Block : h[u].incoming \in Int /\ h[u].incoming >= Enter(h, u, Block)
    <3>1. \A u \in Block : (IF blk[b].next = u THEN 1 ELSE 0) + (IF t = u THEN 1 ELSE 0)
             = (IF blk[b].next = u THEN 1 ELSE 0) + (IF blk[b].jump = u THEN 1 ELSE 0)
               - (IF u = c THEN 1 ELSE 0) + (IF u = t THEN 1 ELSE 0)
      BY <1>4
    <3> QED
      BY <1>3, <2>2, <3>1, CountsKept DEF Strip0Inv, AllTold
  <2>4. {blk[b].next, t} \ {0} \subseteq Block \ {entry} /\ (blk[b].next # 0 \/ t # 0)
    BY <1>3, <1>8, <2>1
  <2>5. /\ Top.at \in {"JUMP", "NEXT"} /\ "JUMP" \in {"JUMP", "NEXT"}
        /\ stack' = stack /\ "JUMP" = Top.at /\ t # 0
    BY <1>1, <1>8
  <2> QED
    BY <1>1, <1>2, <1>5, <1>7, <2>2, <2>3, <2>4, <2>5, StripKeeps
<1>9. CASE /\ blk[b].next = 0
           /\ blk' = Linked(b, c, 0)
           /\ Goto(b, "NEXT")
  <2>1. /\ Size(h) /\ SameOps(h) /\ SamePlaces(h) /\ SameFlags(h) /\ SameCounts(h)
        /\ Links(h, b, c, 0)
    BY <1>3, <1>7, <1>9, LinksEffect
  <2>2. Recount(h, 0, 0)
    BY <1>3, <2>1 DEF Recount, SameCounts, Graph
  <2>3. \A u \in Block : h[u].incoming \in Int /\ h[u].incoming >= Enter(h, u, Block)
    <3>1. \A u \in Block : (IF c = u THEN 1 ELSE 0) + (IF 0 = u THEN 1 ELSE 0)
             = (IF blk[b].next = u THEN 1 ELSE 0) + (IF blk[b].jump = u THEN 1 ELSE 0)
               - (IF u = 0 THEN 1 ELSE 0) + (IF u = 0 THEN 1 ELSE 0)
      BY <1>3, <1>4, <1>9
    <3> QED
      BY <1>3, <2>1, <2>2, <3>1, CountsKept DEF Strip0Inv, AllTold
  <2>4. {c, 0} \ {0} \subseteq Block \ {entry} /\ c # 0
    BY <1>3, <1>4, <1>5
  <2> QED
    BY <1>1, <1>2, <1>5, <1>7, <1>9, <2>1, <2>3, <2>4, StripKeeps
<1>10. CASE Call(b, "BOTH", c, "TAIL") /\ blk' = blk
  <2>1. /\ IsSeq(stack') /\ stack' # <<>> /\ Below' = Below \cup {Frame(b, "BOTH")} /\ Top' = Frame(c, "TAIL")
        /\ OnStack' = Below \cup {Frame(b, "BOTH"), Frame(c, "TAIL")}
    BY <1>1, <1>10, CallIs
  <2>2. Frames'
    BY <1>1, <1>10, FramesKept
  <2>3. /\ Block' = Block /\ Graph' /\ \A x : Succ(x)' = Succ(x)
        /\ \A u, L : Entering(u, L)' = Entering(u, L)
    BY <1>1, <1>10, Untouched
  <2>4. AllTold'
    BY <1>10, <2>3 DEF Strip0Inv, AllTold
  <2>5. Strip0Frames'
    <3>1. \A f \in Below : f.at = "BOTH" /\ f.b \in Block /\ blk[f.b].visited
      BY <1>3 DEF Strip0Inv, Strip0Frames
    <3> QED
      BY <1>3, <1>5, <1>10, <2>1, <2>3, <3>1, FrameIs DEF Strip0Frames
  <2>6. Strip0Marks'
    <3>1. blk[entry].visited
      BY <1>1, <1>3 DEF Strip0Inv, Strip0Marks, Begins
    <3>2. ASSUME NEW x \in Block, blk[x].visited, NEW s \in Succ(x)
          PROVE  blk[s].visited \/ s = c \/ (s = blk[x].next /\ Frame(x, "BOTH") \in OnStack')
      <4>1. CASE x = b
        BY <1>4, <2>1, <3>2, <4>1 DEF Succ
      <4>2. CASE x # b
        <5>1. ~Stripping(x) /\ ~Begins(s)
          BY <1>1, <1>2, <4>2 DEF Stripping, Begins
        <5>2. Frame(x, "BOTH") \in OnStack => Frame(x, "BOTH") \in OnStack'
          BY <1>1, <1>3, <2>1, FrameIs
        <5> QED
          BY <3>2, <5>1, <5>2 DEF Strip0Inv, Strip0Marks
      <4> QED
        BY <4>1, <4>2
    <3>3. Top'.b = c /\ Top'.at = "TAIL"
      BY <2>1, FrameIs
    <3> QED
      BY <1>1, <1>10, <2>1, <2>3, <3>1, <3>2, <3>3 DEF Strip0Marks, Begins, Frame
  <2> QED
    BY <1>10, <2>1, <2>2, <2>3, <2>4, <2>5, <2>6, UnplacedKept DEF Strip0Inv
<1> QED
  BY <1>2, <1>4, <1>6, <1>8, <1>9, <1>10 DEF Strip0Jump, JumpOn, Linked

LEMMA Strip0BothKeeps ==
  ASSUME IsSeq(stack), Frames, Graph, Strip0Inv, Strip0Both
  PROVE  IsSeq(stack') /\ Frames' /\ Graph' /\ Strip0Inv' /\ blk'[ret].ops = blk[ret].ops
         /\ (Unplaced => Unplaced')
<1>1. stack # <<>> /\ Top.at = "BOTH" /\ entry' = entry /\ ret' = ret /\ blk' = blk
  BY DEF Strip0Both, At
<1>2. PICK b : b = Top.b
  OBVIOUS
<1>3. /\ OnStack = Below \cup {Top} /\ b \in Block /\ blk[b].visited
      /\ blk[b].next \in Block \cup {0} /\ blk[b].jump \in Block \cup {0}
      /\ Block = 1..Len(blk) /\ Len(blk) \in Nat
  BY <1>1, <1>2, Strip0Top DEF Strip0Inv
<1>4. /\ Block' = Block /\ Graph' /\ \A x : Succ(x)' = Succ(x)
      /\ \A u, L : Entering(u, L)' = Entering(u, L)
  BY <1>1, Untouched
<1>5. AllTold' /\ blk'[ret].ops = blk[ret].ops
  BY <1>1, <1>4 DEF Strip0Inv, AllTold
<1>6. \A f \in Below : f.at = "BOTH" /\ f.b \in Block /\ blk[f.b].visited
  BY <1>3 DEF Strip0Inv, Strip0Frames
<1>7. blk[entry].visited
  BY <1>1, <1>3 DEF Strip0Inv, Strip0Marks, Begins
<1>8. PICK n : n = blk[b].next
  OBVIOUS
<1>9. ASSUME NEW x \in Block, blk[x].visited, NEW s \in Succ(x)
      PROVE  blk[s].visited \/ (s = blk[x].next /\ (x = b \/ Frame(x, "BOTH") \in Below))
  <2>1. ~Stripping(x) /\ ~Begins(s)
    BY <1>1 DEF Stripping, Begins
  <2>2. Frame(x, "BOTH") \in OnStack => x = b \/ Frame(x, "BOTH") \in Below
    BY <1>2, <1>3, FrameIs
  <2> QED
    BY <1>9, <2>1, <2>2 DEF Strip0Inv, Strip0Marks
<1>10. CASE n # 0 /\ Goto(n, "TAIL")
  <2>1. /\ IsSeq(stack') /\ stack' # <<>> /\ Below' = Below /\ Top' = Frame(n, "TAIL")
        /\ OnStack' = Below \cup {Frame(n, "TAIL")}
    BY <1>1, <1>10, GotoIs
  <2>2. Frames'
    BY <1>1, <1>10, FramesKept
  <2>3. Strip0Frames'
    BY <1>1, <1>3, <1>4, <1>6, <1>8, <1>10, <2>1, FrameIs DEF Strip0Frames
  <2>4. Strip0Marks'
    <3>1. Top'.b = n /\ Top'.at = "TAIL"
      BY <2>1, FrameIs
    <3> QED
      BY <1>1, <1>4, <1>7, <1>8, <1>9, <2>1, <3>1 DEF Strip0Marks, Begins, Frame
  <2> QED
    BY <1>1, <1>4, <1>5, <2>1, <2>2, <2>3, <2>4, UnplacedKept DEF Strip0Inv
<1>11. CASE (blk[b].jump = 0 \/ n = 0) /\ Goto(b, "NEXT")
  <2>1. /\ IsSeq(stack') /\ stack' # <<>> /\ Below' = Below /\ Top' = Frame(b, "NEXT")
        /\ OnStack' = Below \cup {Frame(b, "NEXT")}
    BY <1>1, <1>11, GotoIs
  <2>2. Frames'
    BY <1>1, <1>11, FramesKept
  <2>3. Strip0Frames'
    <3>1. blk[b].jump = 0 \/ (blk[b].next = 0 /\ blk[blk[b].jump].visited)
      <4>1. CASE blk[b].jump # 0
        <5>1. blk[b].jump \in Succ(b) /\ blk[b].next = 0
          BY <1>8, <1>11, <4>1 DEF Succ
        <5> QED
          BY <1>3, <1>9, <4>1, <5>1
      <4> QED
        BY <4>1
    <3> QED
      BY <1>1, <1>3, <1>4, <1>6, <2>1, <3>1, FrameIs DEF Strip0Frames
  <2>4. Strip0Marks'
    <3>1. Top'.b = b /\ Top'.at = "NEXT"
      BY <2>1, FrameIs
    <3> QED
      BY <1>1, <1>4, <1>7, <1>9, <2>1, <3>1 DEF Strip0Marks, Stripping, Frame
  <2> QED
    BY <1>1, <1>4, <1>5, <2>1, <2>2, <2>3, <2>4, UnplacedKept DEF Strip0Inv
<1> QED
  BY <1>2, <1>8, <1>10, <1>11 DEF Strip0Both

LEMMA Strip0NextKeeps ==
  ASSUME IsSeq(stack), Frames, Graph, Strip0Inv, Strip0Next
  PROVE  IsSeq(stack') /\ Frames' /\ Graph' /\ Strip0Inv' /\ blk'[ret].ops = blk[ret].ops
         /\ (Unplaced => Unplaced')
<1>1. stack # <<>> /\ Top.at = "NEXT" /\ entry' = entry /\ ret' = ret
  BY DEF Strip0Next, At
<1>2. PICK b : b = Top.b
  OBVIOUS
<1>3. /\ OnStack = Below \cup {Top} /\ b \in Block /\ blk[b].visited
      /\ blk[b].next \in Block \cup {0} /\ blk[b].jump \in Block \cup {0}
      /\ blk[b].next # entry /\ blk[b].jump # entry /\ 0 \notin Block
      /\ Block = 1..Len(blk) /\ Len(blk) \in Nat
  BY <1>1, <1>2, Strip0Top, SuccIs DEF Strip0Inv
<1>4. PICK c : c = blk[b].next
  OBVIOUS
<1>5. blk[b].jump = 0 \/ (c = 0 /\ blk[blk[b].jump].visited)
  BY <1>1, <1>2, <1>4 DEF Strip0Inv, Strip0Frames
<1>6. PICK t : t = Through(c)
  OBVIOUS
<1>7. PICK h : h = blk'
  OBVIOUS
<1>8. c # 0 => c \in Block /\ b # ret /\ blk[b].jump = 0
  BY <1>3, <1>4, <1>5, SuccIs
<1>9. ASSUME NEW x \in Block, x # b, blk[x].visited, NEW s \in Succ(x)
      PROVE  blk[s].visited \/ (s = blk[x].next /\ Frame(x, "BOTH") \in Below)
  <2>1. ~Stripping(x) /\ ~Begins(s)
    BY <1>1, <1>2, <1>9 DEF Stripping, Begins
  <2>2. Frame(x, "BOTH") \in OnStack => Frame(x, "BOTH") \in Below
    BY <1>1, <1>3, FrameIs
  <2> QED
    BY <1>9, <2>1, <2>2 DEF Strip0Inv, Strip0Marks
<1>10. /\ \A f \in Below : f.at = "BOTH" /\ f.b \in Block /\ blk[f.b].visited
       /\ blk[entry].visited
  BY <1>1, <1>3 DEF Strip0Inv, Strip0Frames, Strip0Marks, Begins
<1>11. CASE c = 0 /\ Return /\ blk' = blk
  <2>1. /\ IsSeq(stack') /\ OnStack' = Below
        /\ stack' # <<>> => Top' \in Below
        /\ Below' \subseteq Below
    BY <1>1, <1>11, ReturnIs
  <2>2. Frames'
    BY <1>1, <1>11, FramesKept
  <2>3. /\ Block' = Block /\ Graph' /\ \A x : Succ(x)' = Succ(x)
        /\ \A u, L : Entering(u, L)' = Entering(u, L)
    BY <1>1, <1>11, Untouched
  <2>4. AllTold' /\ blk'[ret].ops = blk[ret].ops
    BY <1>11, <2>3 DEF Strip0Inv, AllTold
  <2>5. Strip0Frames'
    BY <1>10, <1>11, <2>1, <2>3 DEF Strip0Frames
  <2>6. Strip0Marks'
    <3>1. \A s \in Succ(b) : blk[s].visited
      BY <1>4, <1>5, <1>11 DEF Succ
    <3>2. ASSUME NEW x \in Block, blk[x].visited, NEW s \in Succ(x)
          PROVE  blk[s].visited \/ (s = blk[x].next /\ Frame(x, "BOTH") \in OnStack')
      BY <1>9, <2>1, <3>1, <3>2
    <3> QED
      BY <1>1, <1>10, <1>11, <2>1, <2>3, <3>2 DEF Strip0Marks, Frame
  <2> QED
    BY <1>11, <2>1, <2>2, <2>3, <2>4, <2>5, <2>6, UnplacedKept DEF Strip0Inv
<1>12. CASE c # 0 /\ t # 0 /\ blk' = NextOn(b, c, t) /\ stack' = stack
  <2>1. t \in Block \ {entry}
    BY <1>6, <1>8, <1>12, ThroughIs
  <2>2. /\ Size(h) /\ SameOps(h) /\ SamePlaces(h) /\ SameFlags(h) /\ Recount(h, c, t)
        /\ Links(h, b, t, blk[b].jump)
    BY <1>3, <1>7, <1>12, NextOnEffect
  <2>3. \A u \in Block : h[u].incoming \in Int /\ h[u].incoming >= Enter(h, u, Block)
    <3>1. \A u \in Block : (IF t = u THEN 1 ELSE 0) + (IF blk[b].jump = u THEN 1 ELSE 0)
             = (IF blk[b].next = u THEN 1 ELSE 0) + (IF blk[b].jump = u THEN 1 ELSE 0)
               - (IF u = c THEN 1 ELSE 0) + (IF u = t THEN 1 ELSE 0)
      BY <1>4
    <3> QED
      BY <1>3, <2>2, <3>1, CountsKept DEF Strip0Inv, AllTold
  <2>4. {t, blk[b].jump} \ {0} \subseteq Block \ {entry}
    BY <1>3, <2>1
  <2>5. blk[b].jump = 0 /\ b # ret
    BY <1>8, <1>12
  <2> QED
    BY <1>1, <1>2, <1>7, <1>12, <2>2, <2>3, <2>4, <2>5, StripKeeps
<1>13. CASE c # 0 /\ t # 0 /\ blk' = NextTurns(b, c, t) /\ Goto(b, "JUMP")
  <2>1. t \in Block \ {entry}
    BY <1>6, <1>8, <1>13, ThroughIs
  <2>2. /\ Size(h) /\ SameOps(h) /\ SamePlaces(h) /\ SameFlags(h) /\ Recount(h, c, t)
        /\ Links(h, b, 0, t)
    BY <1>3, <1>7, <1>13, NextTurnsEffect
  <2>3. \A u \in Block : h[u].incoming \in Int /\ h[u].incoming >= Enter(h, u, Block)
    <3>1. \A u \in Block : (IF 0 = u THEN 1 ELSE 0) + (IF t = u THEN 1 ELSE 0)
             = (IF blk[b].next = u THEN 1 ELSE 0) + (IF blk[b].jump = u THEN 1 ELSE 0)
               - (IF u = c THEN 1 ELSE 0) + (IF u = t THEN 1 ELSE 0)
      BY <1>3, <1>4, <1>8, <1>13
    <3> QED
      BY <1>3, <2>2, <3>1, CountsKept DEF Strip0Inv, AllTold
  <2>4. {0, t} \ {0} \subseteq Block \ {entry} /\ t # 0
    BY <1>3, <2>1
  <2>5. b # ret
    BY <1>8, <1>13
  <2> QED
    BY <1>1, <1>2, <1>7, <1>13, <2>2, <2>3, <2>4, <2>5, StripKeeps
<1>14. CASE c # 0 /\ Goto(c, "TAIL") /\ blk' = blk
  <2>1. /\ IsSeq(stack') /\ stack' # <<>> /\ Below' = Below /\ Top' = Frame(c, "TAIL")
        /\ OnStack' = Below \cup {Frame(c, "TAIL")}
    BY <1>1, <1>14, GotoIs
  <2>2. Frames'
    BY <1>1, <1>14, FramesKept
  <2>3. /\ Block' = Block /\ Graph' /\ \A x : Succ(x)' = Succ(x)
        /\ \A u, L : Entering(u, L)' = Entering(u, L)
    BY <1>1, <1>14, Untouched
  <2>4. AllTold' /\ blk'[ret].ops = blk[ret].ops
    BY <1>14, <2>3 DEF Strip0Inv, AllTold
  <2>5. Strip0Frames'
    BY <1>3, <1>8, <1>10, <1>14, <2>1, <2>3, FrameIs DEF Strip0Frames
  <2>6. Strip0Marks'
    <3>1. Top'.b = c /\ Top'.at = "TAIL"
      BY <2>1, FrameIs
    <3>2. \A s \in Succ(b) : s = c
      BY <1>4, <1>8, <1>14 DEF Succ
    <3>3. ASSUME NEW x \in Block, blk[x].visited, NEW s \in Succ(x)
          PROVE  blk[s].visited \/ s = c \/ (s = blk[x].next /\ Frame(x, "BOTH") \in OnStack')
      BY <1>9, <2>1, <3>2, <3>3
    <3> QED
      BY <1>1, <1>10, <1>14, <2>1, <2>3, <3>1, <3>3 DEF Strip0Marks, Begins, Frame
  <2> QED
    BY <1>14, <2>1, <2>2, <2>3, <2>4, <2>5, <2>6, UnplacedKept DEF Strip0Inv
<1> QED
  BY <1>2, <1>4, <1>6, <1>11, <1>12, <1>13, <1>14 DEF Strip0Next, NextOn, NextTurns

-------------------------------------------------------------------------------
(* BasicBlock_strip1.                                                          *)

LEMMA EnteringIs ==
  ASSUME NEW t, NEW L
  PROVE  Entering(t, L) = Enter(blk, t, L)
BY DEF Entering, Enter, NextIn, JumpIn

\* A block that is told of one edge only is entered from b only.
LEMMA OnlyOne ==
  ASSUME Graph, NEW L \in SUBSET Block, Counted(L), NEW b \in L, NEW n \in Block,
         blk[n].incoming = 1, n \in Succ(b)
  PROVE  \A c \in L : n \in Succ(c) => c = b
<1> SUFFICES ASSUME NEW c \in L, n \in Succ(c), c # b
             PROVE  FALSE
  OBVIOUS
<1>1. IsFiniteSet(L)
  BY BlockFinite, FS_Subset
<1>2. (blk[c].next = n \/ blk[c].jump = n) /\ (blk[b].next = n \/ blk[b].jump = n)
  BY DEF Succ
<1>3. Enter(blk, n, L) >= 2
  BY <1>1, <1>2, EnterTwo
<1>4. Enter(blk, n, L) \in Nat
  BY <1>1, EnterIsNat
<1>5. blk[n].incoming >= Enter(blk, n, L)
  BY EnteringIs DEF Counted
<1> QED
  BY <1>3, <1>4, <1>5

LEMMA Strip1JoinKeeps ==
  ASSUME IsSeq(stack), stack # <<>>, Graph, blk[ret].ops = RET, NEW L \in SUBSET Block, Strip1Inv(L),
         NEW b, b = Top.b, blk[b].visited, blk[b].jump = 0,
         NEW n, n = blk[b].next, n # 0, blk[n].incoming = 1, BasicBlock_opcode(n) # "RET",
         blk' = Joined(b, n), stack' = stack, entry' = entry, ret' = ret
  PROVE  /\ Graph' /\ blk'[ret].ops = RET /\ (Unplaced => Unplaced')
         /\ \E K \in SUBSET Block' : Strip1Inv(K)'
<1>1. OnStack = Below \cup {Top}
  BY StackIs
<1>2. b \in L /\ b \in Block /\ Led(b, L)
  BY <1>1 DEF Strip1Inv
<1>3. /\ n \in L /\ n \in Block /\ n # entry /\ n \in Succ(b) /\ b # ret
  <2>1. n \in Succ(b)
    BY DEF Succ
  <2> QED
    BY <1>2, <2>1 DEF Strip1Inv, Closed, Graph
<1>4. n # ret
  BY DEF BasicBlock_opcode, RET, Opcode
<1>5. \A c \in L : n \in Succ(c) => c = b
  BY <1>2, <1>3, OnlyOne DEF Strip1Inv
<1>6. ~Led(n, L)
  BY <1>2, <1>3, <1>5 DEF Led
<1>7. n # b /\ n \notin Succ(n)
  BY <1>2, <1>3, <1>5, <1>6
<1>8. PICK h : h = blk'
  OBVIOUS
<1>9. /\ Size(h) /\ SamePlaces(h) /\ SameFlags(h) /\ SameCounts(h)
      /\ Links(h, b, blk[n].next, blk[n].jump)
      /\ \A x \in Block : h[x].ops = IF x = n THEN <<>> ELSE
                                     IF x = b THEN blk[b].ops \o blk[n].ops ELSE blk[x].ops
  BY <1>2, <1>3, <1>8, JoinEffect
<1>10. {blk[n].next, blk[n].jump} \ {0} = Succ(n)
  BY DEF Succ
<1>11. /\ Graph' /\ Block' = Block
       /\ \A x \in Block : Succ(x)' = IF x = b THEN Succ(n) ELSE Succ(x)
  <2>1. \A x \in Block : IsSeq(h[x].ops) /\ h[x].incoming \in Int
    <3>1. IsSeq(<<>>)
      <4>1. <<>> \in Seq({})
        OBVIOUS
      <4> QED
        BY <4>1, SeqOver
    <3>2. IsSeq(blk[b].ops \o blk[n].ops)
      <4>1. IsSeq(blk[b].ops) /\ IsSeq(blk[n].ops)
        BY <1>2, <1>3 DEF Graph
      <4> QED
        BY <4>1, SeqConcat
    <3> QED
      BY <1>9, <3>1, <3>2 DEF SameCounts, Graph
  <2>2. Succ(n) \subseteq Block \ {entry} /\ Succ(n) # {}
    BY <1>3, <1>4 DEF Graph
  <2>3. PICK p, q : p = blk[n].next /\ q = blk[n].jump
    OBVIOUS
  <2>4. {p, q} \ {0} \subseteq Block \ {entry} /\ ({p, q} \ {0} = {} <=> b = ret)
    BY <1>3, <1>10, <2>2, <2>3
  <2>5. Links(blk', b, p, q) /\ Size(blk') /\ SamePlaces(blk') /\ SameFlags(blk')
    BY <1>8, <1>9, <2>3
  <2>6. Graph' /\ Block' = Block /\ \A x \in Block : Succ(x)' = IF x = b THEN {p, q} \ {0} ELSE Succ(x)
    BY <1>2, <1>8, <2>1, <2>4, <2>5, Relinked
  <2> QED
    BY <1>10, <2>3, <2>6
<1>12. blk'[ret].ops = RET
  BY <1>3, <1>4, <1>8, <1>9 DEF Graph
<1> DEFINE K == L \ {n}
<1>13. K \in SUBSET Block' /\ b \in K
  BY <1>2, <1>7, <1>11
<1>14. Closed(K)'
  <2>1. \A x \in K : x \in Block /\ (x # b => n \notin Succ(x)) /\ Succ(x) \subseteq L
    BY <1>5 DEF Strip1Inv, Closed
  <2>2. Succ(n) \subseteq K
    BY <1>3, <1>7 DEF Strip1Inv, Closed
  <2>3. entry \in K
    BY <1>3 DEF Strip1Inv, Closed
  <2>4. \A x \in K : Succ(x)' \subseteq K
    BY <1>11, <2>1, <2>2
  <2> HIDE DEF K
  <2> QED
    BY <1>13, <2>3, <2>4 DEF Closed
<1>15. Counted(K)'
  <2>1. ASSUME NEW t \in Block
        PROVE  Enter(h, t, K) <= Enter(blk, t, L) /\ Enter(h, t, K) \in Nat /\ Enter(blk, t, L) \in Nat
    <3>1. IsFiniteSet(L) /\ IsFiniteSet(K)
      BY BlockFinite, FS_Subset
    <3>2. Enter(h, t, K) = Enter(h, t, L) - (IF h[n].next = t THEN 1 ELSE 0) - (IF h[n].jump = t THEN 1 ELSE 0)
      BY ONLY <1>3, <3>1, EnterDrop
    <3>3. Enter(h, t, L) = Enter(blk, t, L)
             - (IF blk[b].next = t THEN 1 ELSE 0) - (IF blk[b].jump = t THEN 1 ELSE 0)
             + (IF h[b].next = t THEN 1 ELSE 0) + (IF h[b].jump = t THEN 1 ELSE 0)
      <4>1. \A x \in L : x # b => h[x].next = blk[x].next /\ h[x].jump = blk[x].jump
        BY <1>9 DEF Links
      <4> QED
        BY ONLY <1>2, <3>1, <4>1, EnterSwap
    <3>4. /\ h[n].next = blk[n].next /\ h[n].jump = blk[n].jump
          /\ h[b].next = blk[n].next /\ h[b].jump = blk[n].jump
      BY <1>2, <1>3, <1>7, <1>9 DEF Links
    <3>5. Enter(h, t, K) \in Nat /\ Enter(blk, t, L) \in Nat /\ Enter(h, t, L) \in Nat
      BY <3>1, EnterIsNat
    <3> HIDE DEF K
    <3>6. PICK u \in 0..1 : u = IF blk[n].next = t THEN 1 ELSE 0
      OBVIOUS
    <3>7. PICK v \in 0..1 : v = IF blk[n].jump = t THEN 1 ELSE 0
      OBVIOUS
    <3>8. PICK w \in 0..1 : w = IF blk[b].next = t THEN 1 ELSE 0
      OBVIOUS
    <3>9. PICK z \in 0..1 : z = IF blk[b].jump = t THEN 1 ELSE 0
      OBVIOUS
    <3>10. Enter(h, t, K) = Enter(h, t, L) - u - v
      BY <3>2, <3>4, <3>6, <3>7, Zenon
    <3>11. Enter(h, t, L) = Enter(blk, t, L) - w - z + u + v
      BY <3>3, <3>4, <3>6, <3>7, <3>8, <3>9, Zenon
    <3> QED
      BY <3>5, <3>10, <3>11
  <2>2. \A t \in Block : blk[t].incoming = 0 \/ blk[t].incoming >= Enter(blk, t, L)
    BY EnteringIs DEF Strip1Inv, Counted
  <2>3. \A t \in Block : h[t].incoming = blk[t].incoming /\ blk[t].incoming \in Int
    BY <1>9 DEF SameCounts, Graph
  <2> HIDE DEF K
  <2>4. \A t \in Block : h[t].incoming = 0 \/ h[t].incoming >= Enter(h, t, K)
    BY <2>1, <2>2, <2>3
  <2> QED
    BY <1>8, <1>11, <2>4 DEF Counted, Entering, Enter, NextIn, JumpIn
<1>16. OnStack' = OnStack
  BY SameStack
<1>17. ASSUME NEW x, Led(x, L)
       PROVE  Led(x, K)'
  <2>1. CASE x = entry
    BY <2>1 DEF Led
  <2>2. ASSUME NEW c \in L, ~blk[c].visited, x \in Succ(c)
        PROVE  Led(x, K)'
    <3>1. c # b /\ c # n /\ c \in Block
      BY <1>6, <2>2 DEF Strip1Inv
    <3>2. ~h[c].visited /\ Succ(c)' = Succ(c)
      BY <1>9, <1>11, <2>2, <3>1 DEF SameFlags
    <3>3. c \in K
      BY <3>1
    <3> HIDE DEF K
    <3> QED
      BY <1>8, <2>2, <3>2, <3>3 DEF Led
  <2> QED
    BY <1>17, <2>1, <2>2 DEF Led
<1>18. \A f \in OnStack' : f.at = "TAIL" /\ f.b \in K /\ Led(f.b, K)'
  <2>1. \A f \in OnStack : f.at = "TAIL" /\ f.b \in L /\ Led(f.b, L)
    BY DEF Strip1Inv
  <2> QED
    BY <1>6, <1>16, <1>17, <2>1
<1>19. ASSUME NEW x \in K, ~blk'[x].visited
       PROVE  Led(x, K)' /\ \A s \in Succ(x)' : ~blk'[s].visited \/ Pends(s)'
  <2>1. x \in L /\ x \in Block /\ ~blk[x].visited /\ x # b
    BY <1>8, <1>9, <1>19 DEF SameFlags
  <2>2. Led(x, L) /\ \A s \in Succ(x) : ~blk[s].visited \/ Pends(s)
    BY <2>1 DEF Strip1Inv
  <2>3. Succ(x)' = Succ(x) /\ Succ(x) \subseteq Block
    BY <1>11, <2>1 DEF Graph
  <2>4. \A s \in Block : blk'[s].visited = blk[s].visited /\ (Pends(s) <=> Pends(s)')
    BY <1>8, <1>9, <1>16 DEF SameFlags, Pends
  <2> QED
    BY <1>17, <2>2, <2>3, <2>4
<1>20. (~blk[entry].visited \/ Pends(entry))'
  BY <1>8, <1>9, <1>16 DEF SameFlags, Pends, Strip1Inv, Graph
<1> HIDE DEF K
<1>21. Strip1Inv(K)'
  BY <1>14, <1>15, <1>18, <1>19, <1>20 DEF Strip1Inv
<1>22. Unplaced => Unplaced'
  BY <1>8, <1>9, UnplacedKept
<1> QED
  BY <1>11, <1>12, <1>13, <1>21, <1>22

\* What a block that is unmarked leaves on the stack.
Pushes(b) ==
  /\ IsSeq(stack') /\ Frames'
  /\ Below \subseteq OnStack'
  /\ OnStack' \subseteq Below \cup {Frame(s, "TAIL") : s \in Succ(b)}
  /\ \A s \in Succ(b) : Frame(s, "TAIL") \in OnStack'

LEMMA Strip1Pushes ==
  ASSUME IsSeq(stack), stack # <<>>, Frames, NEW b, NEW n, NEW j, n = blk[b].next, j = blk[b].jump,
         \/ j # 0 /\ n # 0 /\ Call(n, "TAIL", j, "TAIL")
         \/ j # 0 /\ n = 0 /\ Goto(j, "TAIL")
         \/ j = 0 /\ n # 0 /\ Goto(n, "TAIL")
         \/ j = 0 /\ n = 0 /\ Return
  PROVE  Pushes(b)
<1>1. Frames'
  BY FramesKept
<1>2. CASE j # 0 /\ n # 0 /\ Call(n, "TAIL", j, "TAIL")
  <2>1. IsSeq(stack') /\ OnStack' = Below \cup {Frame(n, "TAIL"), Frame(j, "TAIL")}
    BY <1>2, CallIs
  <2>2. Succ(b) = {n, j}
    BY <1>2 DEF Succ
  <2> QED
    BY <1>1, <2>1, <2>2 DEF Pushes
<1>3. CASE j # 0 /\ n = 0 /\ Goto(j, "TAIL")
  <2>1. IsSeq(stack') /\ OnStack' = Below \cup {Frame(j, "TAIL")}
    BY <1>3, GotoIs
  <2>2. Succ(b) = {j}
    BY <1>3 DEF Succ
  <2> QED
    BY <1>1, <2>1, <2>2 DEF Pushes
<1>4. CASE j = 0 /\ n # 0 /\ Goto(n, "TAIL")
  <2>1. IsSeq(stack') /\ OnStack' = Below \cup {Frame(n, "TAIL")}
    BY <1>4, GotoIs
  <2>2. Succ(b) = {n}
    BY <1>4 DEF Succ
  <2> QED
    BY <1>1, <2>1, <2>2 DEF Pushes
<1>5. CASE j = 0 /\ n = 0 /\ Return
  <2>1. IsSeq(stack') /\ OnStack' = Below
    BY <1>5, ReturnIs
  <2>2. Succ(b) = {}
    BY <1>5 DEF Succ
  <2> QED
    BY <1>1, <2>1, <2>2 DEF Pushes
<1> QED
  BY <1>2, <1>3, <1>4, <1>5

LEMMA Strip1UnmarkKeeps ==
  ASSUME IsSeq(stack), stack # <<>>, Graph, NEW L \in SUBSET Block, Strip1Inv(L),
         NEW b, b = Top.b, blk[b].visited, Pushes(b),
         blk' = [blk EXCEPT ![b].visited = FALSE], entry' = entry, ret' = ret
  PROVE  Graph' /\ blk'[ret].ops = blk[ret].ops /\ L \in SUBSET Block' /\ Strip1Inv(L)'
         /\ (Unplaced => Unplaced')
<1>1. OnStack = Below \cup {Top}
  BY StackIs
<1>2. b \in L /\ b \in Block /\ Led(b, L)
  BY <1>1 DEF Strip1Inv
<1>3. PICK h : h = blk'
  OBVIOUS
<1>4. Size(h) /\ SameLinks(h) /\ SameCounts(h) /\ SameOps(h) /\ SamePlaces(h) /\ Flag(h, b, FALSE)
  BY <1>2, <1>3, MarkEffect
<1>5. Graph' /\ Block' = Block /\ \A x \in Block : Succ(x)' = Succ(x)
  <2>1. \A x \in Block : /\ IsSeq(h[x].ops) /\ h[x].incoming \in Int
                         /\ h[x].visited \in BOOLEAN /\ h[x].code \in Nat
    BY <1>4 DEF SameCounts, SameOps, SamePlaces, Flag, Graph
  <2> QED
    BY <1>3, <1>4, <2>1, Unlinked
<1>6. Closed(L)'
  <2>1. \A x \in L : Succ(x)' \subseteq L
    BY <1>5 DEF Strip1Inv, Closed
  <2> QED
    BY <1>5, <2>1 DEF Strip1Inv, Closed
<1>7. Counted(L)'
  <2>1. \A t : Enter(h, t, L) = Enter(blk, t, L)
    BY <1>4, EnterSame DEF SameLinks
  <2>2. \A t \in Block : h[t].incoming = 0 \/ h[t].incoming >= Enter(h, t, L)
    BY <1>4, <2>1, EnteringIs DEF Strip1Inv, Counted, SameCounts
  <2> QED
    BY <1>3, <1>5, <2>2 DEF Counted, Entering, Enter, NextIn, JumpIn
<1>8. \A x \in Block : x # b => h[x].visited = blk[x].visited
  BY <1>4 DEF Flag
<1>9. ~h[b].visited
  BY <1>2, <1>4 DEF Flag
<1>10. ASSUME NEW x, Led(x, L)
       PROVE  Led(x, L)'
  <2>1. CASE x = entry
    BY <2>1 DEF Led
  <2>2. ASSUME NEW c \in L, ~blk[c].visited, x \in Succ(c)
        PROVE  Led(x, L)'
    <3>1. c \in Block /\ ~h[c].visited /\ Succ(c)' = Succ(c)
      BY <1>5, <1>8, <1>9, <2>2
    <3> QED
      BY <1>3, <2>2, <3>1 DEF Led
  <2> QED
    BY <1>10, <2>1, <2>2 DEF Led
<1>11. \A s \in Succ(b) : s \in L /\ Led(s, L)' /\ Pends(s)'
  <2>1. \A s \in Succ(b) : s \in L
    BY <1>2 DEF Strip1Inv, Closed
  <2>2. \A s \in Succ(b) : Led(s, L)'
    BY <1>2, <1>3, <1>5, <1>9 DEF Led
  <2>3. \A s \in Succ(b) : Pends(s)'
    BY FrameIs DEF Pushes, Pends
  <2> QED
    BY <2>1, <2>2, <2>3
<1>12. \A f \in OnStack' : f.at = "TAIL" /\ f.b \in L /\ Led(f.b, L)'
  <2>1. ASSUME NEW f \in Below
        PROVE  f.at = "TAIL" /\ f.b \in L /\ Led(f.b, L)'
    BY <1>1, <1>10 DEF Strip1Inv
  <2>2. ASSUME NEW s \in Succ(b)
        PROVE  Frame(s, "TAIL").at = "TAIL" /\ Frame(s, "TAIL").b = s
    BY FrameIs
  <2> QED
    BY <1>11, <2>1, <2>2 DEF Pushes
<1>13. ASSUME NEW s \in Block, ~blk[s].visited \/ Pends(s)
       PROVE  ~blk'[s].visited \/ Pends(s)'
  <2>1. CASE s = b
    BY <1>3, <1>9, <2>1
  <2>2. CASE s # b
    BY <1>1, <1>3, <1>8, <1>13, <2>2 DEF Pends, Pushes
  <2> QED
    BY <2>1, <2>2
<1>14. ASSUME NEW x \in L, ~blk'[x].visited
       PROVE  Led(x, L)' /\ \A s \in Succ(x)' : ~blk'[s].visited \/ Pends(s)'
  <2>1. x \in Block /\ Succ(x)' = Succ(x) /\ Succ(x) \subseteq Block
    BY <1>5 DEF Graph
  <2>2. CASE x = b
    BY <1>2, <1>10, <1>11, <2>1, <2>2
  <2>3. CASE x # b
    <3>1. Led(x, L) /\ \A s \in Succ(x) : ~blk[s].visited \/ Pends(s)
      BY <1>3, <1>8, <1>14, <2>1, <2>3 DEF Strip1Inv
    <3> QED
      BY <1>10, <1>13, <2>1, <3>1
  <2> QED
    BY <2>2, <2>3
<1>15. (~blk[entry].visited \/ Pends(entry))'
  <2>1. entry \in Block
    BY DEF Graph
  <2> QED
    BY <1>13, <2>1 DEF Strip1Inv, Pends
<1>16. blk'[ret].ops = blk[ret].ops
  BY <1>3, <1>4 DEF SameOps, Graph
<1>17. Strip1Inv(L)'
  BY <1>6, <1>7, <1>12, <1>14, <1>15 DEF Strip1Inv
<1>18. Unplaced => Unplaced'
  BY <1>3, <1>4, UnplacedKept
<1> QED
  BY <1>5, <1>16, <1>17, <1>18

LEMMA Strip1TailKeeps ==
  ASSUME IsSeq(stack), Frames, Graph, blk[ret].ops = RET, NEW L \in SUBSET Block, Strip1Inv(L), Strip1Tail
  PROVE  /\ IsSeq(stack') /\ Frames' /\ Graph' /\ blk'[ret].ops = RET /\ (Unplaced => Unplaced')
         /\ \E K \in SUBSET Block' : Strip1Inv(K)'
<1>1. stack # <<>> /\ Top.at = "TAIL" /\ entry' = entry /\ ret' = ret
  BY DEF Strip1Tail, At
<1>2. PICK b : b = Top.b
  OBVIOUS
<1>3. PICK n, j : n = blk[b].next /\ j = blk[b].jump
  OBVIOUS
<1>4. PICK joins \in BOOLEAN : joins <=> j = 0 /\ n # 0 /\ blk[n].incoming = 1 /\ BasicBlock_opcode(n) # "RET"
  OBVIOUS
<1>5. CASE ~blk[b].visited
  <2>1. Return /\ blk' = blk
    BY <1>2, <1>5 DEF Strip1Tail
  <2>2. IsSeq(stack') /\ OnStack' = Below
    BY <1>1, <2>1, ReturnIs
  <2>3. Frames'
    BY <1>1, <2>1, FramesKept
  <2>4. /\ Block' = Block /\ Graph' /\ \A x : Succ(x)' = Succ(x)
        /\ \A t, K : Entering(t, K)' = Entering(t, K)
    BY <1>1, <2>1, Untouched
  <2>5. OnStack = Below \cup {Top}
    BY <1>1, StackIs
  <2>6. Closed(L)' /\ Counted(L)'
    BY <1>1, <2>1, <2>4 DEF Strip1Inv, Closed, Counted
  <2>7. \A x : Led(x, L) => Led(x, L)'
    BY <1>1, <2>1, <2>4 DEF Led
  <2>8. \A s : ~blk[s].visited \/ Pends(s) => ~blk'[s].visited \/ Pends(s)'
    BY <1>2, <1>5, <2>1, <2>2, <2>5 DEF Pends
  <2>9. \A f \in OnStack' : f.at = "TAIL" /\ f.b \in L /\ Led(f.b, L)'
    BY <2>2, <2>5, <2>7 DEF Strip1Inv
  <2>10. \A x \in L : ~blk'[x].visited =>
       Led(x, L)' /\ \A s \in Succ(x)' : ~blk'[s].visited \/ Pends(s)'
    BY <2>1, <2>4, <2>7, <2>8 DEF Strip1Inv
  <2>11. (~blk[entry].visited \/ Pends(entry))'
    BY <1>1, <2>8 DEF Strip1Inv, Pends
  <2>12. Strip1Inv(L)'
    BY <2>6, <2>9, <2>10, <2>11 DEF Strip1Inv
  <2> QED
    BY <1>1, <2>1, <2>2, <2>3, <2>4, <2>12, UnplacedKept
<1>6. CASE blk[b].visited /\ joins
  <2>1. blk' = Joined(b, n) /\ stack' = stack
    BY <1>2, <1>3, <1>4, <1>6 DEF Strip1Tail, Joined
  <2>2. IsSeq(stack') /\ Frames'
    BY <2>1, SameStack
  <2>3. Graph' /\ blk'[ret].ops = RET /\ (Unplaced => Unplaced') /\ \E K \in SUBSET Block' : Strip1Inv(K)'
    BY <1>1, <1>2, <1>3, <1>4, <1>6, <2>1, Strip1JoinKeeps
  <2> QED
    BY <2>2, <2>3
<1>7. CASE blk[b].visited /\ ~joins
  <2>1. blk' = [blk EXCEPT ![b].visited = FALSE]
    BY <1>2, <1>3, <1>4, <1>7 DEF Strip1Tail
  <2>2. \/ j # 0 /\ n # 0 /\ Call(n, "TAIL", j, "TAIL")
        \/ j # 0 /\ n = 0 /\ Goto(j, "TAIL")
        \/ j = 0 /\ n # 0 /\ Goto(n, "TAIL")
        \/ j = 0 /\ n = 0 /\ Return
    BY <1>2, <1>3, <1>4, <1>7 DEF Strip1Tail
  <2>3. Pushes(b)
    BY <1>1, <1>3, <2>2, Strip1Pushes
  <2>4. Graph' /\ blk'[ret].ops = blk[ret].ops /\ L \in SUBSET Block' /\ Strip1Inv(L)' /\ (Unplaced => Unplaced')
    BY <1>1, <1>2, <1>7, <2>1, <2>3, Strip1UnmarkKeeps
  <2> QED
    BY <2>3, <2>4 DEF Pushes
<1> QED
  <2>1. blk[b].visited \in BOOLEAN
    <3>1. b \in Block
      BY <1>1, <1>2, StackIs DEF Strip1Inv
    <3> QED
      BY <3>1 DEF Graph
  <2> QED
    BY <1>5, <1>6, <1>7

-------------------------------------------------------------------------------
(* How many instructions the blocks have.                                      *)

LEMMA OwnIs ==
  ASSUME NEW g, NEW b, IsSeq(g[b].ops)
  PROVE  IsFiniteSet(Own(g, b)) /\ Cardinality(Own(g, b)) = Len(g[b].ops)
<1>1. PICK n : n = Len(g[b].ops)
  OBVIOUS
<1>2. n \in Nat /\ DOMAIN g[b].ops = 1..n
  BY <1>1, SeqIs
<1> DEFINE S == {<<b, i>> : i \in 1..n}
           f == [i \in 1..n |-> <<b, i>>]
<1>3. Own(g, b) = S
  BY <1>2 DEF Own
<1>4. f \in Bijection(1..n, S)
  <2>1. f \in Injection(1..n, S)
    <3>1. f \in [1..n -> S]
      OBVIOUS
    <3>2. \A x, y \in 1..n : f[x] = f[y] => x = y
      OBVIOUS
    <3> HIDE DEF f, S
    <3> QED
      BY <3>1, <3>2 DEF Injection, IsInjective
  <2>2. f \in Surjection(1..n, S)
    <3>1. f \in [1..n -> S]
      OBVIOUS
    <3>2. \A t \in S : \E x \in 1..n : f[x] = t
      OBVIOUS
    <3> HIDE DEF f, S
    <3> QED
      BY <3>1, <3>2 DEF Surjection
  <2> HIDE DEF f, S
  <2> QED
    BY <2>1, <2>2 DEF Bijection
<1> HIDE DEF f, S
<1>5. ExistsBijection(1..n, S)
  BY <1>4 DEF ExistsBijection
<1>6. IsFiniteSet(S) /\ Cardinality(S) = n
  BY <1>2, <1>5, FS_NatBijection, FS_CountingElements
<1> QED
  BY <1>1, <1>3, <1>6

LEMMA PiecesFinite ==
  ASSUME NEW g, NEW M, IsFiniteSet(M), \A x \in M : IsSeq(g[x].ops)
  PROVE  IsFiniteSet(Pieces(g, M)) /\ Cardinality(Pieces(g, M)) \in Nat
<1> DEFINE T == {Own(g, b) : b \in M}
           f == [b \in M |-> Own(g, b)]
<1>1. f \in Surjection(M, T)
  <2>1. f \in [M -> T] /\ \A t \in T : \E x \in M : f[x] = t
    OBVIOUS
  <2> HIDE DEF f, T
  <2> QED
    BY <2>1 DEF Surjection
<1>2. \A t \in T : IsFiniteSet(t)
  BY OwnIs
<1>3. Pieces(g, M) = UNION T
  BY DEF Pieces
<1> HIDE DEF f, T
<1>4. IsFiniteSet(T)
  BY <1>1, FS_Surjection
<1>5. IsFiniteSet(UNION T)
  BY <1>2, <1>4, FS_UNION
<1> QED
  BY <1>3, <1>5, FS_CardinalityType

LEMMA PiecesSame ==
  ASSUME NEW g, NEW h, NEW M, \A x \in M : h[x].ops = g[x].ops
  PROVE  Pieces(h, M) = Pieces(g, M)
<1>1. \A x \in M : Own(h, x) = Own(g, x)
  BY DEF Own
<1> QED
  BY <1>1 DEF Pieces

LEMMA PiecesMore ==
  ASSUME NEW g, NEW M, IsFiniteSet(M), NEW b, b \notin M, \A x \in M \cup {b} : IsSeq(g[x].ops)
  PROVE  /\ Cardinality(Pieces(g, M \cup {b})) = Cardinality(Pieces(g, M)) + Len(g[b].ops)
         /\ Cardinality(Pieces(g, M \cup {b})) \in Nat /\ Cardinality(Pieces(g, M)) \in Nat
         /\ Len(g[b].ops) \in Nat
<1>1. IsFiniteSet(Pieces(g, M)) /\ Cardinality(Pieces(g, M)) \in Nat
  BY PiecesFinite
<1>2. IsFiniteSet(Own(g, b)) /\ Cardinality(Own(g, b)) = Len(g[b].ops)
  BY OwnIs
<1>3. Pieces(g, M \cup {b}) = Pieces(g, M) \cup Own(g, b)
  BY DEF Pieces
<1>4. Pieces(g, M) \cap Own(g, b) = {}
  BY DEF Pieces, Own
<1>5. Len(g[b].ops) \in Nat
  BY SeqIs
<1>6. Cardinality({}) = 0
  BY FS_EmptySet
<1>7. Cardinality(Pieces(g, M) \cup Own(g, b)) = Cardinality(Pieces(g, M)) + Cardinality(Own(g, b)) - Cardinality(Pieces(g, M) \cap Own(g, b))
  BY <1>1, <1>2, FS_Union
<1>8. PICK n \in Nat : n = Cardinality(Pieces(g, M))
  BY <1>1
<1>9. PICK k \in Nat : k = Len(g[b].ops)
  BY <1>5
<1>10. Cardinality(Pieces(g, M \cup {b})) = n + k - 0
  BY <1>2, <1>3, <1>4, <1>6, <1>7, <1>8, <1>9, Zenon
<1>11. n + k - 0 = n + k /\ n + k \in Nat
  OBVIOUS
<1> QED
  BY <1>8, <1>9, <1>10, <1>11, Zenon

LEMMA PiecesSubset ==
  ASSUME NEW g, NEW M, IsFiniteSet(M), NEW N, N \subseteq M, \A x \in M : IsSeq(g[x].ops)
  PROVE  Cardinality(Pieces(g, N)) <= Cardinality(Pieces(g, M))
<1>1. IsFiniteSet(Pieces(g, M))
  BY PiecesFinite
<1>2. Pieces(g, N) \subseteq Pieces(g, M)
  BY DEF Pieces
<1> QED
  BY <1>1, <1>2, FS_Subset

-------------------------------------------------------------------------------
(* The peephole.                                                               *)

LEMMA SeqSame ==
  ASSUME NEW s, NEW t, IsSeq(s), IsSeq(t), Len(s) = Len(t), \A i \in 1..Len(s) : s[i] = t[i]
  PROVE  s = t
<1>1. PICK S : s \in Seq(S) /\ t \in Seq(S)
  BY SeqBoth
<1> QED
  BY <1>1

LEMMA SeqEmpty ==
  ASSUME NEW s, IsSeq(s)
  PROVE  IsSeq(<<>>) /\ s \o <<>> = s /\ (s = <<>> <=> Len(s) = 0)
<1>1. <<>> \in Seq({}) /\ Len(<<>>) = 0
  OBVIOUS
<1>2. IsSeq(<<>>)
  BY <1>1, SeqOver
<1>3. Len(s) \in Nat
  BY SeqIs
<1>4. IsSeq(s \o <<>>) /\ Len(s \o <<>>) = Len(s) + Len(<<>>) /\ \A i \in 1..Len(s) : (s \o <<>>)[i] = s[i]
  BY <1>2, SeqConcat
<1>5. s \o <<>> = s
  <2>1. PICK t : t = s \o <<>>
    OBVIOUS
  <2>2. IsSeq(t) /\ Len(t) = Len(s) /\ \A i \in 1..Len(t) : t[i] = s[i]
    BY <1>1, <1>3, <1>4, <2>1
  <2>3. t = s
    BY <2>2, SeqSame
  <2> QED
    BY <2>1, <2>3
<1>6. Len(s) = 0 => s = <<>>
  <2> SUFFICES ASSUME Len(s) = 0 PROVE s = <<>>
    OBVIOUS
  <2>1. Len(s) = Len(<<>>) /\ \A i \in 1..Len(s) : s[i] = <<>>[i]
    BY <1>1
  <2> QED
    BY <1>2, <2>1, SeqSame
<1> QED
  BY <1>1, <1>2, <1>5, <1>6

\* The places of the instructions that stay.
Stays(ops) == {i \in DOMAIN ops : ~(i > 1 /\ Opcode(ops[i]) = "NMOV" /\ ops[i][2] = ops[i][3])}

LEMMA PeepholeIs ==
  ASSUME NEW ops, IsSeq(ops)
  PROVE  /\ IsSeq(Peephole(ops)) /\ Len(Peephole(ops)) = Cardinality(Stays(ops))
         /\ Cardinality(Stays(ops)) \in Nat /\ IsFiniteSet(Stays(ops))
<1>1. Len(ops) \in Nat /\ DOMAIN ops = 1..Len(ops)
  BY SeqIs
<1>2. IsFiniteSet(1..Len(ops)) /\ Stays(ops) \subseteq 1..Len(ops)
  BY <1>1, FS_Interval DEF Stays
<1>3. IsFiniteSet(Stays(ops)) /\ Cardinality(Stays(ops)) \in Nat
  BY <1>2, FS_Subset, FS_CardinalityType
<1>4. PICK s : s = Peephole(ops)
  OBVIOUS
<1>5. PICK n \in Nat : n = Cardinality(Stays(ops))
  BY <1>3
<1> DEFINE e(m) == ops[CHOOSE i \in Stays(ops) : Cardinality({k \in Stays(ops) : k <= i}) = m]
<1>6. s = [m \in 1..n |-> e(m)]
  BY <1>4, <1>5 DEF Peephole, Stays
<1> HIDE DEF e
<1>7. s \in [1..n -> {e(m) : m \in 1..n}]
  BY <1>6
<1>8. IsSeq(s) /\ Len(s) = n
  BY <1>7, SeqFunction
<1> QED
  BY <1>3, <1>4, <1>5, <1>8

\* The jump of a block stays.
LEMMA PeepholeJumps ==
  ASSUME NEW ops, NEW j, IsSeq(ops)
  PROVE  Peephole(ops \o <<JMP(j)>>) # <<>> /\ IsSeq(ops \o <<JMP(j)>>)
<1>1. PICK s : s = ops \o <<JMP(j)>>
  OBVIOUS
<1>2. IsSeq(<<JMP(j)>>) /\ Len(<<JMP(j)>>) = 1 /\ <<JMP(j)>>[1] = JMP(j)
  BY SeqOne
<1>3. IsSeq(s) /\ Len(s) = Len(ops) + 1 /\ s[Len(ops) + 1] = JMP(j)
  <2>1. IsSeq(ops \o <<JMP(j)>>) /\ Len(ops \o <<JMP(j)>>) = Len(ops) + Len(<<JMP(j)>>)
        /\ \A i \in 1..Len(<<JMP(j)>>) : (ops \o <<JMP(j)>>)[Len(ops) + i] = <<JMP(j)>>[i]
    BY <1>2, SeqConcat
  <2> QED
    BY <1>1, <1>2, <2>1
<1>4. Len(ops) + 1 \in DOMAIN s
  BY <1>3, SeqIs
<1>5. Opcode(JMP(j)) # "NMOV"
  BY DEF Opcode, JMP
<1>6. Len(ops) + 1 \in Stays(s)
  BY <1>3, <1>4, <1>5 DEF Stays
<1>7. /\ IsSeq(Peephole(s)) /\ Len(Peephole(s)) = Cardinality(Stays(s))
      /\ Cardinality(Stays(s)) \in Nat /\ IsFiniteSet(Stays(s))
  BY <1>3, PeepholeIs
<1>8. Cardinality(Stays(s)) # 0
  BY <1>6, <1>7, FS_EmptySet
<1>9. Peephole(s) # <<>>
  BY <1>7, <1>8
<1> QED
  BY <1>1, <1>3, <1>9

LEMMA PeepholeRet ==
  Peephole(RET) = RET /\ IsSeq(RET)
<1>1. PICK x : x = <<"RET">>
  OBVIOUS
<1>2. IsSeq(RET) /\ Len(RET) = 1 /\ RET[1] = x
  BY <1>1, SeqOne DEF RET
<1>3. Stays(RET) = {1}
  <2>1. DOMAIN RET = {1}
    BY <1>2, SeqIs
  <2>2. Opcode(x) # "NMOV"
    BY <1>1 DEF Opcode
  <2> QED
    BY <1>2, <2>1, <2>2 DEF Stays
<1>4. Cardinality({1}) = 1
  BY FS_Singleton
<1>5. PICK c : c = CHOOSE i \in Stays(RET) : Cardinality({k \in Stays(RET) : k <= i}) = 1
  OBVIOUS
<1>6. c = 1
  <2>1. \A i \in Stays(RET) : {k \in Stays(RET) : k <= i} = {1}
    BY <1>3
  <2>2. \E i \in Stays(RET) : Cardinality({k \in Stays(RET) : k <= i}) = 1
    BY <1>3, <1>4, <2>1
  <2>3. c \in Stays(RET)
    BY <1>5, <2>2
  <2> QED
    BY <1>3, <2>3
<1>7. Peephole(RET)[1] = RET[c]
  <2> DEFINE S == Stays(RET)
             e == [n \in 1..Cardinality(S) |-> RET[CHOOSE i \in S : Cardinality({k \in S : k <= i}) = n]]
  <2>1. Peephole(RET) = e
    BY DEF Peephole, Stays
  <2>2. 1 \in 1..Cardinality(S)
    BY <1>3, <1>4
  <2>3. e[1] = RET[CHOOSE i \in S : Cardinality({k \in S : k <= i}) = 1]
    BY <2>2, Zenon
  <2> QED
    BY <1>5, <2>1, <2>3, Zenon
<1>8. IsSeq(Peephole(RET)) /\ Len(Peephole(RET)) = 1
  BY <1>2, <1>3, <1>4, PeepholeIs
<1>9. PICK s : s = Peephole(RET)
  OBVIOUS
<1>10. s = RET
  <2>1. Len(s) = 1 /\ s[1] = RET[1]
    BY <1>6, <1>7, <1>8, <1>9, Zenon
  <2>2. \A i \in 1..Len(s) : s[i] = RET[i]
    BY <2>1
  <2> QED
    BY <1>2, <1>8, <1>9, <2>2, SeqSame
<1> QED
  BY <1>2, <1>9, <1>10

-------------------------------------------------------------------------------
(* BasicBlock_size.                                                            *)

\* The new instructions of a block that is counted.
Sized(b, o) == [[blk EXCEPT ![b].visited = TRUE] EXCEPT ![b].ops = o]

\* The block with a block of its own, m, for the jump to d.
Grown(b, m, d, o) ==
  [Append([[blk EXCEPT ![b].visited = TRUE] EXCEPT ![b].next = m], [LABEL EXCEPT !.jump = d]) EXCEPT ![b].ops = o]

Ops(h, b, o) == \A x \in Block : h[x].ops = IF x = b THEN o ELSE blk[x].ops

LEMMA SizedEffect ==
  ASSUME Graph, NEW b \in Block, NEW o, NEW h, h = Sized(b, o)
  PROVE  /\ Size(h) /\ SameLinks(h) /\ SameCounts(h) /\ SamePlaces(h) /\ Flag(h, b, TRUE)
         /\ Ops(h, b, o)
<1>1. PICK g : g = [blk EXCEPT ![b].visited = TRUE]
  OBVIOUS
<1>2. Size(g) /\ SameLinks(g) /\ SameCounts(g) /\ SameOps(g) /\ SamePlaces(g) /\ Flag(g, b, TRUE)
  BY <1>1, MarkEffect
<1>3. Blocks(g) /\ b \in DOMAIN g /\ Len(g) = Len(blk) /\ DOMAIN g = Block
  BY <1>2 DEF Size
<1>4. Put(g, h, b, "ops", o) /\ Blocks(h)
  BY <1>1, <1>3, LabelFields, PutField DEF Sized
<1>5. Size(h)
  BY <1>3, <1>4 DEF Put, Size
<1>6. \A x \in DOMAIN g : /\ h[x].next = g[x].next /\ h[x].jump = g[x].jump
                          /\ h[x].ops = IF x = b THEN o ELSE g[x].ops
                          /\ h[x].code = g[x].code
                          /\ h[x].visited = g[x].visited /\ h[x].incoming = g[x].incoming
  BY <1>4, PutIs
<1>7. SameLinks(h) /\ SameCounts(h) /\ SamePlaces(h)
  BY <1>2, <1>3, <1>6 DEF SameLinks, SameCounts, SamePlaces
<1>8. Flag(h, b, TRUE)
  BY <1>2, <1>3, <1>6 DEF Flag
<1>9. Ops(h, b, o)
  BY <1>2, <1>3, <1>6 DEF SameOps, Ops
<1> QED
  BY <1>5, <1>7, <1>8, <1>9

\* h has one more block, m, that jumps to d; b falls into it.
Grows(h, b, m, d, o) ==
  /\ Blocks(h) /\ DOMAIN h = Block \cup {m} /\ m \notin Block /\ m \in Nat \ {0}
  /\ \A x \in Block : /\ h[x].next = IF x = b THEN m ELSE blk[x].next
                      /\ h[x].jump = blk[x].jump
                      /\ h[x].incoming = blk[x].incoming
                      /\ h[x].code = blk[x].code
                      /\ h[x].visited = IF x = b THEN TRUE ELSE blk[x].visited
                      /\ h[x].ops = IF x = b THEN o ELSE blk[x].ops
  /\ h[m].next = 0 /\ h[m].jump = d /\ h[m].incoming = 0 /\ h[m].code = 0
  /\ h[m].visited = FALSE /\ h[m].ops = <<>>

LEMMA GrownEffect ==
  ASSUME Graph, NEW b \in Block, NEW m, m = Len(blk) + 1, NEW d, NEW o,
         NEW h, h = Grown(b, m, d, o)
  PROVE  Grows(h, b, m, d, o)
<1>1. PICK e : e = [blk EXCEPT ![b].visited = TRUE]
  OBVIOUS
<1>2. Size(e) /\ SameLinks(e) /\ SameCounts(e) /\ SameOps(e) /\ SamePlaces(e) /\ Flag(e, b, TRUE)
  BY <1>1, MarkEffect
<1>3. Blocks(e) /\ b \in DOMAIN e /\ Len(e) = Len(blk) /\ DOMAIN e = Block
  BY <1>2 DEF Size
<1>4. PICK f : f = [e EXCEPT ![b].next = m]
  OBVIOUS
<1>5. Put(e, f, b, "next", m) /\ Blocks(f)
  BY <1>3, <1>4, LabelFields, PutField
<1>6. Len(f) = Len(blk) /\ DOMAIN f = Block /\ b \in DOMAIN f
  BY <1>3, <1>5 DEF Put
<1>7. PICK q : q = [LABEL EXCEPT !.jump = d]
  OBVIOUS
<1>8. PICK g : g = Append(f, q)
  OBVIOUS
<1>9. h = [g EXCEPT ![b].ops = o]
  BY <1>1, <1>4, <1>7, <1>8, Zenon DEF Grown
<1>10. Block = 1..Len(blk) /\ Len(blk) \in Nat
  BY SeqIs DEF Graph, Blocks, Block
<1>11. m \in Nat \ {0} /\ m \notin Block
  BY <1>10
<1>12. /\ IsSeq(g) /\ Len(g) = m /\ \A x \in Block : g[x] = f[x]
       /\ g[m] = q
  <2>1. IsSeq(f) /\ Len(f) = Len(blk)
    BY <1>5, <1>6 DEF Blocks
  <2>2. /\ IsSeq(Append(f, q)) /\ Len(Append(f, q)) = Len(f) + 1
        /\ \A i \in 1..Len(f) : Append(f, q)[i] = f[i]
        /\ Append(f, q)[Len(f) + 1] = q
    BY <2>1, SeqAppend
  <2> QED
    BY <1>8, <1>10, <2>1, <2>2
<1>13. DOMAIN g = Block \cup {m}
  <2>1. DOMAIN g = 1..m
    BY <1>12, SeqIs
  <2> QED
    BY <1>10, <2>1
<1>14. /\ DOMAIN q = DOMAIN LABEL /\ q.next = 0 /\ q.jump = d /\ q.incoming = 0
       /\ q.code = 0 /\ q.visited = FALSE /\ q.ops = <<>>
  BY <1>7 DEF LABEL
<1>15. Blocks(g)
  <2>1. \A x \in Block : DOMAIN g[x] = DOMAIN LABEL
    BY <1>5, <1>6, <1>12 DEF Blocks
  <2> QED
    BY <1>12, <1>13, <1>14, <2>1 DEF Blocks
<1>16. Put(g, h, b, "ops", o) /\ Blocks(h)
  BY <1>9, <1>13, <1>15, LabelFields, PutField
<1>17. \A x \in DOMAIN g : /\ h[x].next = g[x].next /\ h[x].jump = g[x].jump
                           /\ h[x].ops = IF x = b THEN o ELSE g[x].ops
                           /\ h[x].code = g[x].code
                           /\ h[x].visited = g[x].visited /\ h[x].incoming = g[x].incoming
  BY <1>16, PutIs
<1>18. \A x \in DOMAIN e : /\ f[x].jump = e[x].jump /\ f[x].next = IF x = b THEN m ELSE e[x].next
                           /\ f[x].ops = e[x].ops /\ f[x].code = e[x].code
                           /\ f[x].visited = e[x].visited /\ f[x].incoming = e[x].incoming
  BY <1>5, PutIs
<1>19. DOMAIN h = Block \cup {m}
  BY <1>13, <1>16 DEF Put
<1>20. ASSUME NEW x \in Block
       PROVE  /\ h[x].next = IF x = b THEN m ELSE blk[x].next
              /\ h[x].jump = blk[x].jump
              /\ h[x].incoming = blk[x].incoming
              /\ h[x].code = blk[x].code
              /\ h[x].visited = IF x = b THEN TRUE ELSE blk[x].visited
              /\ h[x].ops = IF x = b THEN o ELSE blk[x].ops
  <2>1. /\ e[x].jump = blk[x].jump /\ e[x].next = blk[x].next /\ e[x].ops = blk[x].ops
        /\ e[x].code = blk[x].code /\ e[x].incoming = blk[x].incoming
        /\ e[x].visited = IF x = b THEN TRUE ELSE blk[x].visited
    BY <1>2 DEF SameLinks, SameCounts, SameOps, SamePlaces, Flag
  <2>2. x \in DOMAIN e /\ x \in DOMAIN g /\ g[x] = f[x]
    BY <1>3, <1>12, <1>13
  <2>3. /\ h[x].next = f[x].next /\ h[x].jump = f[x].jump
        /\ h[x].ops = IF x = b THEN o ELSE f[x].ops
        /\ h[x].code = f[x].code
        /\ h[x].visited = f[x].visited /\ h[x].incoming = f[x].incoming
    BY <1>17, <2>2
  <2>4. /\ f[x].jump = e[x].jump /\ f[x].next = IF x = b THEN m ELSE e[x].next
        /\ f[x].ops = e[x].ops /\ f[x].code = e[x].code
        /\ f[x].visited = e[x].visited /\ f[x].incoming = e[x].incoming
    BY <1>18, <2>2
  <2> QED
    BY <2>1, <2>3, <2>4
<1>21. /\ h[m].next = 0 /\ h[m].jump = d /\ h[m].incoming = 0 /\ h[m].code = 0
       /\ h[m].visited = FALSE /\ h[m].ops = <<>>
  <2>1. m # b /\ m \in DOMAIN g
    BY <1>11, <1>13
  <2> QED
    BY <1>12, <1>14, <1>17, <2>1
<1> QED
  BY <1>11, <1>16, <1>19, <1>20, <1>21 DEF Grows

\* What a block that is counted leaves on the stack, of links n and j.
Puts(n, j) ==
  /\ IsSeq(stack') /\ Frames'
  /\ Below \subseteq OnStack'
  /\ OnStack' \subseteq Below \cup {Frame(n, "TAIL"), Frame(j, "TAIL"), Frame(0, "TAIL")}
  /\ \A s \in {n, j} \ {0} : Frame(s, "TAIL") \in OnStack'

LEMMA SizePuts ==
  ASSUME IsSeq(stack), stack # <<>>, Frames, NEW n, NEW j,
         IF j # 0 /\ n # 0 THEN Call(j, "TAIL", n, "TAIL")
                  ELSE Goto(IF j # 0 THEN j ELSE n, "TAIL")
  PROVE  Puts(n, j)
<1>1. Frames'
  BY FramesKept
<1>2. CASE j # 0 /\ n # 0
  <2>1. Call(j, "TAIL", n, "TAIL")
    BY <1>2
  <2>2. IsSeq(stack') /\ OnStack' = Below \cup {Frame(j, "TAIL"), Frame(n, "TAIL")}
    BY <2>1, CallIs
  <2> QED
    BY <1>1, <2>2 DEF Puts
<1>3. CASE j # 0 /\ n = 0
  <2>1. Goto(j, "TAIL")
    BY <1>3
  <2>2. IsSeq(stack') /\ OnStack' = Below \cup {Frame(j, "TAIL")}
    BY <2>1, GotoIs
  <2> QED
    BY <1>1, <1>3, <2>2 DEF Puts
<1>4. CASE j = 0
  <2>1. Goto(n, "TAIL")
    BY <1>4
  <2>2. IsSeq(stack') /\ OnStack' = Below \cup {Frame(n, "TAIL")}
    BY <2>1, GotoIs
  <2> QED
    BY <1>1, <1>4, <2>2 DEF Puts
<1> QED
  BY <1>2, <1>3, <1>4

GrownSplit(b, m, d) ==
  Append([[blk EXCEPT ![b].visited = TRUE] EXCEPT ![b].next = m], [LABEL EXCEPT !.jump = d])

LEMMA SplitGrows ==
  ASSUME Graph, NEW b \in Block, blk[b].next # 0, NEW m, m = Len(blk) + 1, NEW d, d = blk[b].next
  PROVE  /\ Split(b) = GrownSplit(b, m, d)
         /\ Split(b)[b].next = m /\ Split(b)[b].jump = blk[b].jump /\ Split(b)[b].ops = blk[b].ops
<1>1. PICK e : e = [blk EXCEPT ![b].visited = TRUE]
  OBVIOUS
<1>2. Size(e) /\ SameLinks(e) /\ SameCounts(e) /\ SameOps(e) /\ SamePlaces(e) /\ Flag(e, b, TRUE)
  BY <1>1, MarkEffect
<1>3. Blocks(e) /\ b \in DOMAIN e /\ Len(e) = Len(blk) /\ DOMAIN e = Block
  BY <1>2 DEF Size
<1>4. PICK f : f = [e EXCEPT ![b].next = m]
  OBVIOUS
<1>5. Put(e, f, b, "next", m) /\ Blocks(f)
  BY <1>3, <1>4, LabelFields, PutField
<1>6. Len(f) = Len(blk) /\ DOMAIN f = Block
  BY <1>3, <1>5 DEF Put
<1>7. PICK q : q = [LABEL EXCEPT !.jump = d]
  OBVIOUS
<1>8. e[b].visited
  BY <1>2 DEF Flag
<1>9. needsJump(e, b)
  BY <1>8 DEF needsJump
<1>10. Split(b) = Append(f, q)
  BY <1>1, <1>4, <1>7, <1>9, Zenon DEF Split
<1>11. Append(f, q)[b] = f[b]
  <2>1. IsSeq(f) /\ b \in 1..Len(f)
    BY <1>5, <1>6, SeqIs DEF Blocks
  <2>2. \A i \in 1..Len(f) : Append(f, q)[i] = f[i]
    BY <2>1, SeqAppend
  <2> QED
    BY <2>1, <2>2
<1>12. f[b].next = m /\ f[b].jump = blk[b].jump /\ f[b].ops = blk[b].ops
  <2>1. f[b].next = m /\ f[b].jump = e[b].jump /\ f[b].ops = e[b].ops
    BY <1>3, <1>5, PutIs
  <2> QED
    BY <1>2, <2>1 DEF SameLinks, SameOps
<1>13. Split(b)[b].next = m /\ Split(b)[b].jump = blk[b].jump /\ Split(b)[b].ops = blk[b].ops
  BY <1>10, <1>11, <1>12
<1> QED
  BY <1>1, <1>4, <1>7, <1>10, <1>13, Zenon DEF GrownSplit

LEMMA SplitStays ==
  ASSUME Graph, NEW b \in Block, blk[b].next = 0
  PROVE  /\ Split(b) = [blk EXCEPT ![b].visited = TRUE]
         /\ Split(b)[b].next = 0 /\ Split(b)[b].jump = blk[b].jump /\ Split(b)[b].ops = blk[b].ops
<1>1. Split(b) = [blk EXCEPT ![b].visited = TRUE]
  BY DEF Split
<1>2. PICK e : e = [blk EXCEPT ![b].visited = TRUE]
  OBVIOUS
<1>3. SameLinks(e) /\ SameOps(e)
  BY <1>2, MarkEffect
<1>4. e[b].next = 0 /\ e[b].jump = blk[b].jump /\ e[b].ops = blk[b].ops
  BY <1>3 DEF SameLinks, SameOps
<1> QED
  BY <1>1, <1>2, <1>4

\* What SizeInv says of the activations and of the marks, of the graph h and its
\* method K, when b has been counted and its successors have been pushed.
TailsIn(F, K) == \A f \in F : f.at = "TAIL" /\ f.b \in K \cup {0}
FlagsIn(h, b, L) == \A s \in L : h[s].visited <=> s = b \/ blk[s].visited
StillIn(h, L) == \A s \in L : blk[s].visited \/ Pends(s) => h[s].visited \/ Pends(s)'
AllPend(n, j) == \A s \in {n, j} \ {0} : Pends(s)

LEMMA SizeMarks ==
  ASSUME NEW L, NEW K, L \subseteq K, NEW b \in L, NEW n, NEW j, Puts(n, j), {n, j} \ {0} \subseteq K,
         OnStack = Below \cup {Top}, b = Top.b,
         TailsIn(OnStack, L), NEW h, FlagsIn(h, b, L)
  PROVE  TailsIn(OnStack, K)' /\ StillIn(h, L) /\ AllPend(n, j)'
<1>1. \A f \in OnStack' : f.at = "TAIL" /\ f.b \in K \cup {0}
  <2>1. \A s \in {n, j, 0} : Frame(s, "TAIL").at = "TAIL" /\ Frame(s, "TAIL").b \in K \cup {0}
    BY FrameIs
  <2>2. \A f \in Below : f.at = "TAIL" /\ f.b \in K \cup {0}
    BY DEF TailsIn
  <2> QED
    BY <2>1, <2>2 DEF Puts
<1>2. \A s \in {n, j} \ {0} : Pends(s)'
  <2> TAKE s \in {n, j} \ {0}
  <2>1. Frame(s, "TAIL") \in OnStack' /\ Frame(s, "TAIL").b = s
    BY FrameIs DEF Puts
  <2> QED
    BY <2>1 DEF Pends
<1>3. ASSUME NEW s \in L, blk[s].visited \/ Pends(s)
      PROVE  h[s].visited \/ Pends(s)'
  <2>1. CASE s = b \/ blk[s].visited
    BY <2>1 DEF FlagsIn
  <2>2. CASE s # b /\ Pends(s)
    BY <2>2 DEF Pends, Puts
  <2> QED
    BY <1>3, <2>1, <2>2
<1> QED
  BY <1>1, <1>2, <1>3 DEF TailsIn, StillIn, AllPend

\* ... and of the instructions counted.
LEMMA SizeCount ==
  ASSUME Graph, NEW L \in SUBSET Block, NEW b \in L, ~blk[b].visited,
         Cardinality(Pieces(blk, Marked(L))) <= codesize, codesize \in Nat,
         NEW h, NEW o, IsSeq(o), Ops(h, b, o),
         codesize' = codesize + Len(o)
  PROVE  codesize' \in Nat /\ Cardinality(Pieces(h, Marked(L) \cup {b})) <= codesize'
<1>1. PICK M : M = Marked(L)
  OBVIOUS
<1>2. M \subseteq Block /\ b \notin M /\ IsFiniteSet(M)
  <2>1. M \subseteq Block /\ b \notin M
    BY <1>1 DEF Marked
  <2> QED
    BY <2>1, BlockFinite, FS_Subset
<1>3. Pieces(h, M) = Pieces(blk, M)
  <2>1. \A x \in M : h[x].ops = blk[x].ops
    BY <1>2 DEF Ops
  <2> QED
    BY <2>1, PiecesSame
<1>4. /\ Cardinality(Pieces(h, M \cup {b})) = Cardinality(Pieces(h, M)) + Len(h[b].ops)
      /\ Cardinality(Pieces(h, M)) \in Nat
      /\ Len(h[b].ops) \in Nat
  <2>1. \A x \in M \cup {b} : IsSeq(h[x].ops)
    BY <1>2 DEF Graph, Ops
  <2> QED
    BY <1>2, <2>1, PiecesMore
<1>5. h[b].ops = o
  BY DEF Ops
<1>6. PICK c : c = Cardinality(Pieces(h, M))
  OBVIOUS
<1>7. PICK k : k = Len(o)
  OBVIOUS
<1>8. c \in Nat /\ k \in Nat /\ c <= codesize /\ Cardinality(Pieces(h, M \cup {b})) = c + k
  BY <1>1, <1>3, <1>4, <1>5, <1>6, <1>7, Zenon
<1>9. codesize' = codesize + k
  BY <1>7
<1>10. c + k <= codesize' /\ codesize' \in Nat
  BY <1>8, <1>9
<1> QED
  BY <1>1, <1>8, <1>10

LEMMA SizeStaysKeeps ==
  ASSUME IsSeq(stack), stack # <<>>, Graph, blk[ret].ops = RET, codesize \in Nat,
         NEW L \in SUBSET Block, SizeInv(L),
         NEW b, b = Top.b, b # 0, ~blk[b].visited, blk[b].next = 0,
         NEW j, j = blk[b].jump, Puts(0, j),
         NEW o, IsSeq(o), j # 0 => o # <<>>, b = ret => o = RET,
         blk' = Sized(b, o), codesize' = codesize + Len(o), entry' = entry, ret' = ret
  PROVE  /\ Graph' /\ blk'[ret].ops = RET /\ codesize' \in Nat /\ (Unplaced => Unplaced')
         /\ \E K \in SUBSET Block' : SizeInv(K)'
<1>1. OnStack = Below \cup {Top}
  BY StackIs
<1>2. b \in L /\ b \in Block
  BY <1>1 DEF SizeInv
<1>3. PICK h : h = blk'
  OBVIOUS
<1>4. /\ Size(h) /\ SameLinks(h) /\ SameCounts(h) /\ SamePlaces(h) /\ Flag(h, b, TRUE)
      /\ Ops(h, b, o)
  BY <1>2, <1>3, SizedEffect
<1>5. Graph' /\ Block' = Block /\ \A x \in Block : Succ(x)' = Succ(x)
  <2>1. \A x \in Block : /\ IsSeq(h[x].ops) /\ h[x].incoming \in Int
                         /\ h[x].visited \in BOOLEAN /\ h[x].code \in Nat
    BY <1>4 DEF SameCounts, SamePlaces, Flag, Ops, Graph
  <2> QED
    BY <1>3, <1>4, <2>1, Unlinked
<1>6. Closed(L)'
  <2>1. \A x \in L : Succ(x)' \subseteq L
    BY <1>5 DEF SizeInv, Closed
  <2> QED
    BY <1>5, <2>1 DEF SizeInv, Closed
<1>7. Counted(L)'
  <2>1. \A t : Enter(h, t, L) = Enter(blk, t, L)
    BY <1>4, EnterSame DEF SameLinks
  <2>2. \A t \in Block : h[t].incoming = 0 \/ h[t].incoming >= Enter(h, t, L)
    BY <1>4, <2>1, EnteringIs DEF SizeInv, Counted, SameCounts
  <2> QED
    BY <1>3, <1>5, <2>2 DEF Counted, Entering, Enter, NextIn, JumpIn
<1>8. FlagsIn(h, b, L)
  BY <1>4 DEF Flag, FlagsIn
<1>9. Succ(b) = {0, j} \ {0}
  BY DEF Succ
<1>10. TailsIn(OnStack, L)' /\ StillIn(h, L) /\ AllPend(0, j)'
  <2>1. {0, j} \ {0} \subseteq L
    BY <1>2, <1>9 DEF SizeInv, Closed
  <2>2. TailsIn(OnStack, L)
    BY DEF SizeInv, TailsIn
  <2> QED
    BY <1>1, <1>2, <1>8, <2>1, <2>2, SizeMarks
<1>11. Marked(L)' = Marked(L) \cup {b}
  BY <1>2, <1>3, <1>8 DEF Marked, FlagsIn
<1>12. ASSUME NEW x \in Marked(L)'
       PROVE  Laid(x)' /\ \A s \in Succ(x)' : blk'[s].visited \/ Pends(s)'
  <2>1. x \in L /\ x \in Block /\ Succ(x)' = Succ(x) /\ Succ(x) \subseteq L
    BY <1>2, <1>5, <1>11 DEF Marked, SizeInv, Closed
  <2>2. CASE x = b
    <3>1. Laid(b)'
      BY <1>2, <1>3, <1>4 DEF Laid, SameLinks, Ops
    <3> QED
      BY <1>9, <1>10, <2>1, <2>2, <3>1 DEF AllPend
  <2>3. CASE x # b
    <3>1. x \in Marked(L)
      BY <1>11, <2>3
    <3>2. Laid(x) /\ \A s \in Succ(x) : blk[s].visited \/ Pends(s)
      BY <3>1 DEF SizeInv
    <3>3. Laid(x)'
      <4>1. blk[x].next \in Block \cup {0}
        BY <2>1, SuccIs
      <4>2. h[x].next = blk[x].next /\ h[x].jump = blk[x].jump /\ h[x].ops = blk[x].ops
        BY <1>4, <2>1, <2>3 DEF SameLinks, Ops
      <4>3. blk[x].next # 0 => /\ h[blk[x].next].next = blk[blk[x].next].next
                               /\ h[blk[x].next].jump = blk[blk[x].next].jump
        BY <1>4, <4>1 DEF SameLinks
      <4>4. Laid(x) <=> IF h[x].next = 0 THEN h[x].jump # 0 => h[x].ops # <<>>
                        ELSE h[h[x].next].next = 0 /\ h[h[x].next].jump \notin {0, h[x].next}
        BY <4>2, <4>3 DEF Laid
      <4> QED
        BY <1>3, <3>2, <4>4 DEF Laid
    <3> QED
      BY <1>3, <1>10, <2>1, <3>2, <3>3 DEF StillIn
  <2> QED
    BY <2>2, <2>3
<1>13. (blk[entry].visited \/ Pends(entry))'
  BY <1>3, <1>10 DEF SizeInv, Closed, Pends, StillIn
<1>14. codesize' \in Nat /\ Cardinality(Pieces(h, Marked(L) \cup {b})) <= codesize'
  BY <1>2, <1>4, SizeCount DEF SizeInv
<1>15. (Cardinality(Pieces(blk, Marked(L))) <= codesize)'
  BY <1>3, <1>11, <1>14
<1>16. SizeInv(L)'
  BY <1>6, <1>7, <1>10, <1>12, <1>13, <1>15 DEF SizeInv, TailsIn
<1>17. blk'[ret].ops = RET
  BY <1>3, <1>4 DEF Graph, Ops
<1>18. Unplaced => Unplaced'
  BY <1>3, <1>4, UnplacedKept
<1> QED
  BY <1>5, <1>14, <1>16, <1>17, <1>18

LEMMA SizeGrowsKeeps ==
  ASSUME IsSeq(stack), stack # <<>>, Graph, blk[ret].ops = RET, codesize \in Nat,
         NEW L \in SUBSET Block, SizeInv(L),
         NEW b, b = Top.b, b # 0, ~blk[b].visited, NEW d, d = blk[b].next, d # 0,
         NEW j, j = blk[b].jump, NEW m, m = Len(blk) + 1, Puts(m, j),
         NEW o, IsSeq(o),
         blk' = Grown(b, m, d, o), codesize' = codesize + Len(o), entry' = entry, ret' = ret
  PROVE  /\ Graph' /\ blk'[ret].ops = RET /\ codesize' \in Nat /\ (Unplaced => Unplaced')
         /\ \E K \in SUBSET Block' : SizeInv(K)'
<1>1. OnStack = Below \cup {Top}
  BY StackIs
<1>2. b \in L /\ b \in Block /\ b # ret
  <2>1. b \in L /\ b \in Block
    BY <1>1 DEF SizeInv
  <2> QED
    BY <2>1, SuccIs
<1>3. PICK h : h = blk'
  OBVIOUS
<1>4. Grows(h, b, m, d, o)
  BY <1>2, <1>3, GrownEffect
<1>5. /\ Block' = Block \cup {m} /\ m \notin Block /\ m # 0 /\ 0 \notin Block
      /\ \A x \in Block : Succ(x)' = IF x = b THEN {m, j} \ {0} ELSE Succ(x)
      /\ Succ(m)' = {d}
  <2>1. DOMAIN h = Block \cup {m} /\ m \notin Block /\ m # 0
    BY <1>4 DEF Grows
  <2>2. Block' = DOMAIN h
    BY <1>3 DEF Block
  <2>3. Succ(m)' = {d}
    <3>1. h[m].next = 0 /\ h[m].jump = d
      BY <1>4 DEF Grows
    <3> QED
      BY <1>3, <3>1 DEF Succ
  <2>4. ASSUME NEW x \in Block
        PROVE  Succ(x)' = IF x = b THEN {m, j} \ {0} ELSE Succ(x)
    <3>1. h[x].next = (IF x = b THEN m ELSE blk[x].next) /\ h[x].jump = blk[x].jump
      BY <1>4 DEF Grows
    <3> QED
      BY <1>3, <3>1 DEF Succ
  <2>5. 0 \notin Block
    BY <1>2, SuccIs
  <2> QED
    BY <2>1, <2>2, <2>3, <2>4, <2>5
<1>6. d \in L /\ d \in Block \ {entry} /\ {j} \ {0} \subseteq L /\ {j} \ {0} \subseteq Block \ {entry}
  <2>1. Succ(b) = {d, j} \ {0}
    BY DEF Succ
  <2> QED
    BY <1>2, <2>1 DEF SizeInv, Closed, Graph
<1>7. Graph'
  <2>1. Blocks(h)
    BY <1>4 DEF Grows
  <2>2. entry \in Block /\ ret \in Block /\ entry # ret
    BY DEF Graph
  <2>3. ASSUME NEW x \in Block
        PROVE  /\ IsSeq(h[x].ops) /\ h[x].incoming \in Int /\ h[x].visited \in BOOLEAN /\ h[x].code \in Nat
               /\ Succ(x)' \subseteq Block' \ {entry}
               /\ Succ(x)' = {} <=> x = ret
    <3>1. /\ h[x].ops = (IF x = b THEN o ELSE blk[x].ops) /\ h[x].incoming = blk[x].incoming
          /\ h[x].visited = (IF x = b THEN TRUE ELSE blk[x].visited) /\ h[x].code = blk[x].code
      BY <1>4 DEF Grows
    <3>2. /\ IsSeq(blk[x].ops) /\ blk[x].incoming \in Int /\ blk[x].visited \in BOOLEAN /\ blk[x].code \in Nat
          /\ Succ(x) \subseteq Block \ {entry}
          /\ Succ(x) = {} <=> x = ret
      BY DEF Graph
    <3>3. IsSeq(h[x].ops) /\ h[x].incoming \in Int /\ h[x].code \in Nat
      BY <3>1, <3>2
    <3>4. h[x].visited \in BOOLEAN
      BY <3>1, <3>2
    <3>5. Succ(x)' \subseteq Block' \ {entry} /\ (Succ(x)' = {} <=> x = ret)
      <4>1. CASE x = b
        <5>1. Succ(x)' = {m, j} \ {0}
          BY <1>5, <4>1
        <5> QED
          BY <1>2, <1>5, <1>6, <2>2, <4>1, <5>1
      <4>2. CASE x # b
        BY <1>5, <3>2, <4>2
      <4> QED
        BY <4>1, <4>2
    <3> QED
      BY <3>3, <3>4, <3>5
  <2>4. /\ IsSeq(h[m].ops) /\ h[m].incoming \in Int /\ h[m].code \in Nat
        /\ Succ(m)' \subseteq Block' \ {entry} /\ Succ(m)' # {} /\ m # ret
    <3>1. h[m].ops = <<>> /\ h[m].incoming = 0 /\ h[m].code = 0
      BY <1>4 DEF Grows
    <3>2. IsSeq(<<>>)
      BY SeqEmpty DEF Graph
    <3>3. IsSeq(h[m].ops)
      BY <3>1, <3>2, Zenon
    <3>4. h[m].incoming \in Int /\ h[m].code \in Nat
      BY <3>1
    <3>5. Succ(m)' \subseteq Block' \ {entry} /\ Succ(m)' # {} /\ m # ret
      BY <1>5, <1>6, <2>2
    <3> QED
      BY <3>3, <3>4, <3>5
  <2>5. h[m].visited \in BOOLEAN
    BY <1>4 DEF Grows
  <2> QED
    BY <1>3, <1>5, <2>1, <2>2, <2>3, <2>4, <2>5 DEF Graph
<1> DEFINE K == L \cup {m}
<1>8. K \in SUBSET Block'
  BY <1>5
<1>9. Closed(K)'
  <2>1. ASSUME NEW x \in K
        PROVE  Succ(x)' \subseteq K
    <3>1. CASE x = m
      BY <1>5, <1>6, <3>1
    <3>2. CASE x = b
      BY <1>2, <1>5, <1>6, <3>2
    <3>3. CASE x # m /\ x # b
      <4>1. Succ(x) \subseteq L /\ x \in Block
        BY <3>3 DEF SizeInv, Closed
      <4> QED
        BY <1>5, <3>3, <4>1
    <3> QED
      BY <3>1, <3>2, <3>3
  <2>2. entry \in K
    BY DEF SizeInv, Closed
  <2> HIDE DEF K
  <2> QED
    BY <1>8, <2>1, <2>2 DEF Closed
<1>10. Counted(K)'
  <2>1. IsFiniteSet(L) /\ IsFiniteSet(K) /\ m \in K /\ K \ {m} = L
    <3>1. IsFiniteSet(L)
      BY BlockFinite, FS_Subset
    <3> QED
      BY <1>5, <3>1, FS_AddElement
  <2> HIDE DEF K
  <2>2. ASSUME NEW t \in Block
        PROVE  Enter(h, t, K) = Enter(blk, t, L)
    <3>1. Enter(h, t, K \ {m}) = Enter(h, t, K) - (IF h[m].next = t THEN 1 ELSE 0) - (IF h[m].jump = t THEN 1 ELSE 0)
      BY ONLY <2>1, EnterDrop
    <3>2. \A x \in L : x # b => h[x].next = blk[x].next /\ h[x].jump = blk[x].jump
      BY <1>4 DEF Grows
    <3>3. Enter(h, t, L) = Enter(blk, t, L)
             - (IF blk[b].next = t THEN 1 ELSE 0) - (IF blk[b].jump = t THEN 1 ELSE 0)
             + (IF h[b].next = t THEN 1 ELSE 0) + (IF h[b].jump = t THEN 1 ELSE 0)
      BY ONLY <1>2, <2>1, <3>2, EnterSwap
    <3>4. h[m].next = 0 /\ h[m].jump = d /\ h[b].next = m /\ h[b].jump = j
      BY <1>2, <1>4 DEF Grows
    <3>5. Enter(h, t, K) \in Nat /\ Enter(h, t, L) \in Nat /\ Enter(blk, t, L) \in Nat
      BY <2>1, EnterIsNat
    <3>6. PICK u \in 0..1 : u = IF d = t THEN 1 ELSE 0
      OBVIOUS
    <3>7. PICK v \in 0..1 : v = IF j = t THEN 1 ELSE 0
      OBVIOUS
    <3>8. ~(0 = t) /\ ~(m = t)
      BY <1>5
    <3>9. Enter(h, t, L) = Enter(h, t, K) - 0 - u
      BY <2>1, <3>1, <3>4, <3>6, <3>8, Zenon
    <3>10. Enter(h, t, L) = Enter(blk, t, L) - u - v + 0 + v
      BY <3>3, <3>4, <3>6, <3>7, <3>8, Zenon
    <3> QED
      BY <3>5, <3>9, <3>10
  <2>3. \A t \in Block : h[t].incoming = 0 \/ h[t].incoming >= Enter(h, t, K)
    <3>1. \A t \in Block : h[t].incoming = blk[t].incoming
      BY <1>4 DEF Grows
    <3> QED
      BY <2>2, <3>1, EnteringIs DEF SizeInv, Counted
  <2>4. h[m].incoming = 0
    BY <1>4 DEF Grows
  <2> QED
    BY <1>3, <1>5, <2>3, <2>4 DEF Counted, Entering, Enter, NextIn, JumpIn
<1>11. FlagsIn(h, b, L)
  BY <1>4 DEF Grows, FlagsIn
<1>12. TailsIn(OnStack, K)' /\ StillIn(h, L) /\ AllPend(m, j)'
  <2>1. {m, j} \ {0} \subseteq K /\ L \subseteq K
    BY <1>6
  <2>2. TailsIn(OnStack, L)
    BY DEF SizeInv, TailsIn
  <2> HIDE DEF K
  <2> QED
    BY <1>1, <1>2, <1>11, <2>1, <2>2, SizeMarks
<1>13. Marked(K)' = Marked(L) \cup {b}
  <2>1. ~h[m].visited
    BY <1>4 DEF Grows
  <2> QED
    BY <1>2, <1>3, <1>11, <2>1 DEF Marked, FlagsIn
<1>14. ASSUME NEW x \in Marked(K)'
       PROVE  Laid(x)' /\ \A s \in Succ(x)' : blk'[s].visited \/ Pends(s)'
  <2>1. x \in L /\ x \in Block
    BY <1>2, <1>13 DEF Marked
  <2>2. CASE x = b
    <3>1. Laid(b)'
      <4>1. h[b].next = m /\ h[m].next = 0 /\ h[m].jump = d /\ d \notin {0, m} /\ m # 0
        BY <1>2, <1>4, <1>5, <1>6 DEF Grows
      <4> QED
        BY <1>3, <4>1 DEF Laid
    <3> QED
      BY <1>5, <1>12, <2>1, <2>2, <3>1 DEF AllPend
  <2>3. CASE x # b
    <3>1. x \in Marked(L)
      BY <1>13, <2>3
    <3>2. Laid(x) /\ (\A s \in Succ(x) : blk[s].visited \/ Pends(s)) /\ Succ(x) \subseteq L
      BY <2>1, <3>1 DEF SizeInv, Closed
    <3>3. Laid(x)'
      <4>1. PICK y : y = blk[x].next
        OBVIOUS
      <4>2. y \in Block \cup {0}
        BY <2>1, <4>1, SuccIs
      <4>3. h[x].next = y /\ h[x].jump = blk[x].jump /\ h[x].ops = blk[x].ops
        BY <1>4, <2>1, <2>3, <4>1 DEF Grows
      <4>4. CASE y = 0
        BY <1>3, <3>2, <4>1, <4>3, <4>4 DEF Laid
      <4>5. CASE y # 0
        <5>1. blk[y].next = 0 /\ blk[y].jump \notin {0, y}
          BY <3>2, <4>1, <4>5 DEF Laid
        <5>2. h[y].next = 0 /\ h[y].jump = blk[y].jump
          BY <1>4, <4>2, <4>5, <5>1 DEF Grows
        <5> QED
          BY <1>3, <4>3, <4>5, <5>1, <5>2 DEF Laid
      <4> QED
        BY <4>4, <4>5
    <3>4. Succ(x)' = Succ(x)
      BY <1>5, <2>1, <2>3
    <3> QED
      BY <1>3, <1>12, <3>2, <3>3, <3>4 DEF StillIn
  <2> QED
    BY <2>2, <2>3
<1>15. (blk[entry].visited \/ Pends(entry))'
  BY <1>3, <1>12 DEF SizeInv, Closed, Pends, StillIn
<1>16. codesize' \in Nat /\ Cardinality(Pieces(h, Marked(L) \cup {b})) <= codesize'
  <2>1. Ops(h, b, o)
    BY <1>4 DEF Grows, Ops
  <2> QED
    BY <1>2, <2>1, SizeCount DEF SizeInv
<1>17. (Cardinality(Pieces(blk, Marked(K))) <= codesize)'
  <2> HIDE DEF K
  <2> QED
    BY <1>3, <1>13, <1>16
<1>18. SizeInv(K)'
  <2> HIDE DEF K
  <2> QED
    BY <1>9, <1>10, <1>12, <1>14, <1>15, <1>17 DEF SizeInv, TailsIn
<1>19. blk'[ret].ops = RET
  BY <1>2, <1>3, <1>4 DEF Graph, Grows
<1>20. Unplaced => Unplaced'
  <2>1. (\A x \in Block : h[x].code = blk[x].code) /\ h[m].code = 0
    BY <1>4 DEF Grows
  <2> QED
    BY <1>3, <1>5, <2>1 DEF Unplaced
<1> HIDE DEF K
<1> QED
  BY <1>7, <1>8, <1>16, <1>18, <1>19, <1>20

LEMMA SizeTailKeeps ==
  ASSUME IsSeq(stack), Frames, Graph, blk[ret].ops = RET, codesize \in Nat,
         NEW L \in SUBSET Block, SizeInv(L), SizeTail
  PROVE  /\ IsSeq(stack') /\ Frames' /\ Graph' /\ blk'[ret].ops = RET /\ codesize' \in Nat
         /\ (Unplaced => Unplaced') /\ \E K \in SUBSET Block' : SizeInv(K)'
<1>1. stack # <<>> /\ Top.at = "TAIL" /\ entry' = entry /\ ret' = ret
  BY DEF SizeTail, At
<1>2. PICK b : b = Top.b
  OBVIOUS
<1>3. OnStack = Below \cup {Top} /\ b \in L \cup {0}
  <2>1. OnStack = Below \cup {Top}
    BY <1>1, StackIs
  <2> QED
    BY <1>2, <2>1 DEF SizeInv
<1>4. CASE b = 0 \/ (b # 0 /\ blk[b].visited)
  <2>1. Return /\ blk' = blk /\ codesize' = codesize
    BY <1>2, <1>4 DEF SizeTail
  <2>2. IsSeq(stack') /\ OnStack' = Below
    BY <1>1, <2>1, ReturnIs
  <2>3. Frames'
    BY <1>1, <2>1, FramesKept
  <2>4. /\ Block' = Block /\ Graph' /\ \A x : Succ(x)' = Succ(x)
        /\ \A t, K : Entering(t, K)' = Entering(t, K)
    BY <1>1, <2>1, Untouched
  <2>5. Closed(L)' /\ Counted(L)'
    BY <1>1, <2>1, <2>4 DEF SizeInv, Closed, Counted
  <2>6. \A s \in Block : blk[s].visited \/ Pends(s) => blk'[s].visited \/ Pends(s)'
    <3>1. 0 \notin Block
      BY SeqIs DEF Graph, Blocks, Block
    <3> QED
      BY <1>2, <1>3, <1>4, <2>1, <2>2, <3>1 DEF Pends
  <2>7. \A f \in OnStack' : f.at = "TAIL" /\ f.b \in L \cup {0}
    BY <1>3, <2>2 DEF SizeInv
  <2>8. Marked(L)' = Marked(L) /\ \A x : Laid(x)' = Laid(x)
    BY <2>1 DEF Marked, Laid
  <2>9. \A x \in Marked(L)' : Laid(x)' /\ \A s \in Succ(x)' : blk'[s].visited \/ Pends(s)'
    <3>1. \A x \in Marked(L) : x \in L /\ Succ(x) \subseteq Block
      BY DEF Marked, SizeInv, Closed
    <3> QED
      BY <2>4, <2>6, <2>8, <3>1 DEF SizeInv
  <2>10. (blk[entry].visited \/ Pends(entry))'
    <3>1. entry \in Block
      BY DEF Graph
    <3> QED
      BY <1>1, <2>6, <3>1 DEF SizeInv, Pends
  <2>11. (Cardinality(Pieces(blk, Marked(L))) <= codesize)'
    BY <2>1, <2>8 DEF SizeInv
  <2>12. SizeInv(L)'
    BY <2>5, <2>7, <2>9, <2>10, <2>11 DEF SizeInv
  <2> QED
    BY <2>1, <2>2, <2>3, <2>4, <2>12, UnplacedKept
<1>5. CASE b # 0 /\ ~blk[b].visited
  <2>1. b \in Block /\ IsSeq(blk[b].ops)
    BY <1>3, <1>5 DEF Graph
  <2>2. PICK split : split = Split(b)
    OBVIOUS
  <2>3. PICK n, j : n = split[b].next /\ j = split[b].jump
    OBVIOUS
  <2>4. PICK o : o = Peephole(split[b].ops \o (IF j # 0 /\ n = 0 THEN <<JMP(j)>> ELSE <<>>))
    OBVIOUS
  <2>5. blk' = [split EXCEPT ![b].ops = o] /\ codesize' = codesize + Len(o)
    BY <1>2, <1>5, <2>2, <2>3, <2>4 DEF SizeTail
  <2>6. IF j # 0 /\ n # 0 THEN Call(j, "TAIL", n, "TAIL") ELSE Goto(IF j # 0 THEN j ELSE n, "TAIL")
    BY <1>2, <1>5, <2>2, <2>3, <2>4 DEF SizeTail
  <2>7. Puts(n, j)
    BY <1>1, <2>6, SizePuts
  <2>8. CASE blk[b].next # 0
    <3>1. PICK m, d : m = Len(blk) + 1 /\ d = blk[b].next
      OBVIOUS
    <3>2. /\ Split(b) = GrownSplit(b, m, d)
          /\ Split(b)[b].next = m /\ Split(b)[b].jump = blk[b].jump /\ Split(b)[b].ops = blk[b].ops
      BY <2>1, <2>8, <3>1, SplitGrows
    <3>3. n = m /\ j = blk[b].jump /\ n # 0
      <4>1. Len(blk) \in Nat
        BY SeqIs DEF Graph, Blocks
      <4> QED
        BY <2>2, <2>3, <3>1, <3>2, <4>1
    <3>4. o = Peephole(blk[b].ops)
      BY <2>1, <2>2, <2>4, <3>2, <3>3, SeqEmpty
    <3>5. IsSeq(o)
      BY <2>1, <3>4, PeepholeIs
    <3>6. blk' = Grown(b, m, d, o)
      BY <2>2, <2>5, <3>2, Zenon DEF Grown, GrownSplit
    <3>7. Graph' /\ blk'[ret].ops = RET /\ codesize' \in Nat /\ (Unplaced => Unplaced') /\ \E K \in SUBSET Block' : SizeInv(K)'
      BY <1>1, <1>2, <1>5, <2>5, <2>7, <2>8, <3>1, <3>3, <3>5, <3>6, SizeGrowsKeeps
    <3> QED
      BY <2>7, <3>7 DEF Puts
  <2>9. CASE blk[b].next = 0
    <3>1. /\ Split(b) = [blk EXCEPT ![b].visited = TRUE]
          /\ Split(b)[b].next = 0 /\ Split(b)[b].jump = blk[b].jump /\ Split(b)[b].ops = blk[b].ops
      BY <2>1, <2>9, SplitStays
    <3>2. n = 0 /\ j = blk[b].jump
      BY <2>2, <2>3, <3>1
    <3>3. o = Peephole(blk[b].ops \o (IF j # 0 THEN <<JMP(j)>> ELSE <<>>))
      BY <2>2, <2>4, <3>1, <3>2
    <3>4. IsSeq(o) /\ (j # 0 => o # <<>>) /\ (b = ret => o = RET)
      <4>1. CASE j # 0
        <5>1. o = Peephole(blk[b].ops \o <<JMP(j)>>) /\ b # ret
          BY <2>1, <3>2, <3>3, <4>1, SuccIs
        <5>2. o # <<>> /\ IsSeq(o)
          BY <2>1, <5>1, PeepholeJumps, PeepholeIs
        <5> QED
          BY <5>1, <5>2
      <4>2. CASE j = 0
        <5>1. o = Peephole(blk[b].ops)
          BY <2>1, <3>3, <4>2, SeqEmpty
        <5> QED
          BY <2>1, <4>2, <5>1, PeepholeIs, PeepholeRet
      <4> QED
        BY <4>1, <4>2
    <3>5. blk' = Sized(b, o)
      BY <2>2, <2>5, <3>1, Zenon DEF Sized
    <3>6. Graph' /\ blk'[ret].ops = RET /\ codesize' \in Nat /\ (Unplaced => Unplaced') /\ \E K \in SUBSET Block' : SizeInv(K)'
      BY <1>1, <1>2, <1>5, <2>5, <2>7, <2>9, <3>2, <3>4, <3>5, SizeStaysKeeps
    <3> QED
      BY <2>7, <3>6 DEF Puts
  <2> QED
    BY <2>8, <2>9
<1> QED
  <2>1. b # 0 => blk[b].visited \in BOOLEAN
    BY <1>3 DEF Graph
  <2> QED
    BY <1>4, <1>5

-------------------------------------------------------------------------------
(* BasicBlock_copy.                                                            *)

\* The block that has been laid out at c.
Copied(g, b, v, c, o, k) ==
  [g EXCEPT ![b].visited = v, ![b].code = c, ![b].opjmp = o, ![b].checked = k, ![b].ops = <<>>]

CopyOf(g, h, b, v, c) ==
  /\ Blocks(h) /\ Len(h) = Len(g) /\ DOMAIN h = DOMAIN g
  /\ \A x \in DOMAIN g :
       /\ h[x].next = g[x].next /\ h[x].jump = g[x].jump /\ h[x].incoming = g[x].incoming
       /\ h[x].visited = IF x = b THEN v ELSE g[x].visited
       /\ h[x].code = IF x = b THEN c ELSE g[x].code
       /\ h[x].ops = IF x = b THEN <<>> ELSE g[x].ops

LEMMA CopiedIs ==
  ASSUME NEW g, Blocks(g), NEW b \in DOMAIN g, NEW v, NEW c, NEW o, NEW k,
         NEW h, h = Copied(g, b, v, c, o, k)
  PROVE  CopyOf(g, h, b, v, c)
<1>1. PICK g1 : g1 = [g EXCEPT ![b].visited = v]
  OBVIOUS
<1>2. PICK g2 : g2 = [g1 EXCEPT ![b].code = c]
  OBVIOUS
<1>3. PICK g3 : g3 = [g2 EXCEPT ![b].opjmp = o]
  OBVIOUS
<1>4. PICK g4 : g4 = [g3 EXCEPT ![b].checked = k]
  OBVIOUS
<1>5. PICK g5 : g5 = [g4 EXCEPT ![b].ops = <<>>]
  OBVIOUS
<1>6. h = g5
  BY <1>1, <1>2, <1>3, <1>4, <1>5, Zenon DEF Copied
<1>7. Put(g, g1, b, "visited", v) /\ Blocks(g1)
  BY <1>1, LabelFields, PutField
<1>8. DOMAIN g1 = DOMAIN g /\ Len(g1) = Len(g)
  BY <1>7 DEF Put
<1>9. Put(g1, g2, b, "code", c) /\ Blocks(g2)
  BY <1>2, <1>7, <1>8, LabelFields, PutField
<1>10. DOMAIN g2 = DOMAIN g /\ Len(g2) = Len(g)
  BY <1>8, <1>9 DEF Put
<1>11. Put(g2, g3, b, "opjmp", o) /\ Blocks(g3)
  BY <1>3, <1>9, <1>10, LabelFields, PutField
<1>12. DOMAIN g3 = DOMAIN g /\ Len(g3) = Len(g)
  BY <1>10, <1>11 DEF Put
<1>13. Put(g3, g4, b, "checked", k) /\ Blocks(g4)
  BY <1>4, <1>11, <1>12, LabelFields, PutField
<1>14. DOMAIN g4 = DOMAIN g /\ Len(g4) = Len(g)
  BY <1>12, <1>13 DEF Put
<1>15. Put(g4, g5, b, "ops", <<>>) /\ Blocks(g5)
  BY <1>5, <1>13, <1>14, LabelFields, PutField
<1>16. DOMAIN g5 = DOMAIN g /\ Len(g5) = Len(g)
  BY <1>14, <1>15 DEF Put
<1>17. ASSUME NEW x \in DOMAIN g
       PROVE  /\ h[x].next = g[x].next /\ h[x].jump = g[x].jump /\ h[x].incoming = g[x].incoming
              /\ h[x].visited = IF x = b THEN v ELSE g[x].visited
              /\ h[x].code = IF x = b THEN c ELSE g[x].code
              /\ h[x].ops = IF x = b THEN <<>> ELSE g[x].ops
  <2>1. /\ g1[x].next = g[x].next /\ g1[x].jump = g[x].jump /\ g1[x].incoming = g[x].incoming
        /\ g1[x].visited = (IF x = b THEN v ELSE g[x].visited)
        /\ g1[x].code = g[x].code /\ g1[x].ops = g[x].ops
    BY <1>7, PutIs
  <2>2. /\ g2[x].next = g1[x].next /\ g2[x].jump = g1[x].jump /\ g2[x].incoming = g1[x].incoming
        /\ g2[x].visited = g1[x].visited
        /\ g2[x].code = (IF x = b THEN c ELSE g1[x].code) /\ g2[x].ops = g1[x].ops
    BY <1>8, <1>9, PutIs
  <2>3. /\ g3[x].next = g2[x].next /\ g3[x].jump = g2[x].jump /\ g3[x].incoming = g2[x].incoming
        /\ g3[x].visited = g2[x].visited /\ g3[x].code = g2[x].code /\ g3[x].ops = g2[x].ops
    BY <1>10, <1>11, PutIs
  <2>4. /\ g4[x].next = g3[x].next /\ g4[x].jump = g3[x].jump /\ g4[x].incoming = g3[x].incoming
        /\ g4[x].visited = g3[x].visited /\ g4[x].code = g3[x].code /\ g4[x].ops = g3[x].ops
    BY <1>12, <1>13, PutIs
  <2>5. /\ g5[x].next = g4[x].next /\ g5[x].jump = g4[x].jump /\ g5[x].incoming = g4[x].incoming
        /\ g5[x].visited = g4[x].visited /\ g5[x].code = g4[x].code
        /\ g5[x].ops = (IF x = b THEN <<>> ELSE g4[x].ops)
    BY <1>14, <1>15, PutIs
  <2>6. h[x].next = g[x].next /\ h[x].jump = g[x].jump /\ h[x].incoming = g[x].incoming
    BY <1>6, <2>1, <2>2, <2>3, <2>4, <2>5
  <2>7. h[x].visited = IF x = b THEN v ELSE g[x].visited
    BY <1>6, <2>1, <2>2, <2>3, <2>4, <2>5
  <2>8. h[x].code = IF x = b THEN c ELSE g[x].code
    BY <1>6, <2>1, <2>2, <2>3, <2>4, <2>5
  <2>9. h[x].ops = IF x = b THEN <<>> ELSE g[x].ops
    BY <1>6, <2>1, <2>2, <2>3, <2>4, <2>5
  <2> QED
    BY <2>6, <2>7, <2>8, <2>9
<1> QED
  BY <1>6, <1>15, <1>16, <1>17 DEF CopyOf

\* What becomes of a block that is laid out.
Placed(g, b, c, o, k) == Copied(g, b, FALSE, c, o, k)
LinksOf(h, g) == \A x \in Block : h[x].next = g[x].next /\ h[x].jump = g[x].jump

\* The graph when b has been laid out at c.
Lays(h, b, c) ==
  /\ Size(h) /\ SameCounts(h) /\ Flag(h, b, FALSE) /\ Ops(h, b, <<>>)
  /\ \A x \in Block : h[x].code = IF x = b THEN c ELSE blk[x].code

LEMMA LaysIs ==
  ASSUME Graph, NEW b \in Block, NEW g, Size(g), SameOps(g), SamePlaces(g), SameFlags(g), SameCounts(g),
         NEW c, NEW o, NEW k, NEW h, h = Placed(g, b, c, o, k)
  PROVE  Lays(h, b, c) /\ LinksOf(h, g)
<1>1. Blocks(g) /\ DOMAIN g = Block /\ b \in DOMAIN g /\ Len(g) = Len(blk)
  BY DEF Size
<1>2. CopyOf(g, h, b, FALSE, c)
  <2>1. PICK v : v = FALSE
    OBVIOUS
  <2>2. h = Copied(g, b, v, c, o, k)
    BY <2>1 DEF Placed
  <2>3. CopyOf(g, h, b, v, c)
    BY ONLY <1>1, <2>2, CopiedIs
  <2> QED
    BY <2>1, <2>3
<1>3. Size(h)
  BY <1>1, <1>2 DEF Size, CopyOf
<1>4. SameCounts(h)
  BY <1>1, <1>2 DEF SameCounts, CopyOf
<1>5. Flag(h, b, FALSE)
  BY <1>1, <1>2 DEF SameFlags, Flag, CopyOf
<1>6. Ops(h, b, <<>>)
  BY <1>1, <1>2 DEF SameOps, Ops, CopyOf
<1>7. \A x \in Block : h[x].code = IF x = b THEN c ELSE blk[x].code
  BY <1>1, <1>2 DEF SamePlaces, CopyOf
<1>8. LinksOf(h, g)
  BY <1>1, <1>2 DEF CopyOf, LinksOf
<1> QED
  BY <1>3, <1>4, <1>5, <1>6, <1>7, <1>8 DEF Lays

\* The step that lays b out behind base.
Base(b) == IF Removes(b) THEN Front(text) ELSE text

LaysOut(b) ==
  /\ IsSeq(text') /\ Len(text') = Len(Base(b)) + Len(blk[b].ops)
  /\ Lays(blk', b, Len(Base(b)) + 1)
  /\ IF Removes(b) THEN Links(blk', prev, b, 0) ELSE SameLinks(blk')
  /\ prev' = IF blk[b].ops # <<>> THEN b ELSE prev
  /\ entry' = entry /\ ret' = ret /\ codesize' = codesize

LEMMA BaseIs ==
  ASSUME IsSeq(text), NEW b
  PROVE  /\ IsSeq(Base(b)) /\ Len(Base(b)) \in Nat /\ Len(text) \in Nat
         /\ Len(Base(b)) <= Len(text)
         /\ Removes(b) /\ text # <<>> => Len(Base(b)) = Len(text) - 1
<1>1. IsSeq(Front(text)) /\ Len(Front(text)) <= Len(text)
  BY SeqFrontLen
<1>2. Len(Front(text)) \in Nat /\ Len(text) \in Nat
  BY <1>1, SeqIs
<1>3. text # <<>> => Len(Front(text)) = Len(text) - 1
  BY SeqFront
<1>4. CASE Removes(b)
  BY <1>1, <1>2, <1>3, <1>4 DEF Base
<1>5. CASE ~Removes(b)
  BY <1>2, <1>5 DEF Base
<1> QED
  BY <1>4, <1>5

LEMMA CopyBlockIs ==
  ASSUME Graph, IsSeq(text), prev \in Block \cup {0}, CopyBlock,
         NEW b \in Block, b = Top.b, blk[b].code = 0
  PROVE  LaysOut(b) /\ Goto(b, "NEXT")
<1>1. PICK ops : ops = blk[b].ops
  OBVIOUS
<1>2. PICK base : base = Base(b)
  OBVIOUS
<1>3. IsSeq(ops) /\ IsSeq(base) /\ Len(ops) \in Nat
  BY <1>1, <1>2, BaseIs, SeqIs DEF Graph
<1>4. PICK add : add = [i \in DOMAIN ops |-> [op |-> Unchecked(ops, blk[b].checked)[i], to |-> 0]]
  OBVIOUS
<1>5. IsSeq(add) /\ Len(add) = Len(ops)
  <2> DEFINE S == {[op |-> Unchecked(ops, blk[b].checked)[i], to |-> 0] : i \in DOMAIN ops}
  <2>1. add \in [1..Len(ops) -> S]
    BY <1>3, <1>4, SeqIs
  <2> HIDE DEF S
  <2> QED
    BY <1>3, <2>1, SeqFunction
<1>6. text' = base \o add /\ Goto(b, "NEXT") /\ prev' = IF ops # <<>> THEN b ELSE prev
  BY <1>1, <1>2, <1>4 DEF CopyBlock, Base
<1>7. IsSeq(text') /\ Len(text') = Len(base) + Len(ops)
  BY <1>3, <1>5, <1>6, SeqConcat
<1>9. PICK linked : linked = IF Removes(b) THEN [blk EXCEPT ![prev].jump = 0, ![prev].next = b] ELSE blk
  OBVIOUS
<1>10. Size(linked) /\ SameOps(linked) /\ SamePlaces(linked) /\ SameFlags(linked) /\ SameCounts(linked)
       /\ IF Removes(b) THEN Links(linked, prev, b, 0) ELSE SameLinks(linked)
  <2>1. CASE Removes(b)
    <3>1. prev \in Block
      BY <2>1 DEF Removes
    <3>2. linked = Linked(prev, b, 0)
      <4>1. linked = [blk EXCEPT ![prev].jump = 0, ![prev].next = b]
        BY <1>9, <2>1, Zenon
      <4>2. PICK q : q = [[blk[prev] EXCEPT !.jump = 0] EXCEPT !.next = b]
        OBVIOUS
      <4>3. q = [[blk[prev] EXCEPT !.next = b] EXCEPT !.jump = 0]
        BY <4>2
      <4>4. linked = [blk EXCEPT ![prev] = q]
        BY <4>1, <4>2
      <4>5. Linked(prev, b, 0) = [blk EXCEPT ![prev] = q]
        BY <4>3 DEF Linked
      <4> QED
        BY <4>4, <4>5, Zenon
    <3> QED
      BY <2>1, <3>1, <3>2, LinksEffect
  <2>2. CASE ~Removes(b)
    <3>1. linked = blk
      BY <1>9, <2>2, Zenon
    <3>2. Blocks(blk)
      BY DEF Graph
    <3> QED
      BY <2>2, <3>1, <3>2 DEF Size, SameOps, SamePlaces, SameFlags, SameCounts, SameLinks, Block
  <2> QED
    BY <2>1, <2>2
<1>11. PICK o, k : blk' = Placed(linked, b, Len(base) + 1, o, k)
  <2>1. ~(blk[Top.b].code # 0) /\ base = (IF Removes(Top.b) THEN Front(text) ELSE text)
        /\ linked = (IF Removes(Top.b) THEN [blk EXCEPT ![prev].jump = 0, ![prev].next = Top.b] ELSE blk)
    BY <1>2, <1>9 DEF Base
  <2> DEFINE f == Len(IF Removes(Top.b) THEN Front(text) ELSE text)
             g == IF Removes(Top.b) THEN [blk EXCEPT ![prev].jump = 0, ![prev].next = Top.b] ELSE blk
             s == blk[Top.b].ops
             o == IF s # <<>> /\ blk[Top.b].jump # 0 THEN f + Len(s) ELSE g[Top.b].opjmp
             k == g[Top.b].checked \/ \E i \in DOMAIN s : Opcode(s[i]) = "VCALL"
  <2>2. blk' = Placed(g, Top.b, f + 1, o, k)
    BY <2>1, Zenon DEF CopyBlock, Placed, Copied
  <2> HIDE DEF o, k
  <2>3. blk' = Placed(linked, b, Len(base) + 1, o, k)
    BY <2>1, <2>2, Zenon
  <2> QED
    BY <2>3, Zenon
<1>13. PICK h : h = blk'
  OBVIOUS
<1>14. Lays(h, b, Len(base) + 1) /\ LinksOf(h, linked)
  <2>1. PICK c : c = Len(base) + 1
    OBVIOUS
  <2>2. h = Placed(linked, b, c, o, k) /\ b \in Block /\ Graph
    BY <1>11, <1>13, <2>1
  <2>3. Size(linked) /\ SameOps(linked) /\ SamePlaces(linked) /\ SameFlags(linked) /\ SameCounts(linked)
    BY <1>10
  <2>4. Lays(h, b, c) /\ LinksOf(h, linked)
    BY ONLY <2>2, <2>3, LaysIs
  <2> QED
    BY <2>1, <2>4
<1>15. IF Removes(b) THEN Links(h, prev, b, 0) ELSE SameLinks(h)
  BY <1>10, <1>14 DEF Links, SameLinks, LinksOf
<1>16. entry' = entry /\ ret' = ret /\ codesize' = codesize
  BY DEF CopyBlock
<1> QED
  BY <1>1, <1>2, <1>6, <1>7, <1>13, <1>14, <1>15, <1>16 DEF LaysOut

\* It changes no edge.
LEMMA LaysOutGraph ==
  ASSUME Graph, IsSeq(text), prev \in Block \cup {0}, NEW b \in Block, LaysOut(b)
  PROVE  /\ Graph' /\ Block' = Block /\ \A x \in Block : Succ(x)' = Succ(x)
         /\ \A x \in Block : (x # prev \/ ~Removes(b)) => blk'[x].next = blk[x].next /\ blk'[x].jump = blk[x].jump
<1>1. PICK h : h = blk'
  OBVIOUS
<1>2. Size(h) /\ SameCounts(h) /\ Flag(h, b, FALSE) /\ Ops(h, b, <<>>)
      /\ \A x \in Block : h[x].code = IF x = b THEN Len(Base(b)) + 1 ELSE blk[x].code
  BY <1>1 DEF LaysOut, Lays
<1>3. IF Removes(b) THEN Links(h, prev, b, 0) ELSE SameLinks(h)
  BY <1>1 DEF LaysOut
<1>4. Block' = Block
  BY <1>1, <1>2 DEF Size, Block
<1>5. 0 \notin Block
  BY SuccIs
<1>6. \A x \in Block : (x # prev \/ ~Removes(b)) => h[x].next = blk[x].next /\ h[x].jump = blk[x].jump
  BY <1>3 DEF Links, SameLinks
<1>7. ASSUME NEW x \in Block
      PROVE  Succ(x)' = Succ(x)
  <2>1. CASE x = prev /\ Removes(b)
    <3>1. h[x].next = b /\ h[x].jump = 0 /\ blk[x].next = 0 /\ blk[x].jump = b
      BY <1>3, <2>1 DEF Links, Removes
    <3> QED
      BY <1>1, <1>5, <3>1 DEF Succ
  <2>2. CASE x # prev \/ ~Removes(b)
    BY <1>1, <1>6, <2>2 DEF Succ
  <2> QED
    BY <2>1, <2>2
<1>8. Graph'
  <2>1. Blocks(h)
    BY <1>2 DEF Size
  <2>2. entry \in Block /\ ret \in Block /\ entry # ret /\ entry' = entry /\ ret' = ret
    BY DEF Graph, LaysOut
  <2>3. ASSUME NEW x \in Block
        PROVE  IsSeq(h[x].ops) /\ h[x].incoming \in Int /\ h[x].code \in Nat
    <3>1. IsSeq(h[x].ops)
      <4>1. IsSeq(<<>>)
        BY SeqEmpty
      <4>2. IsSeq(blk[x].ops)
        BY DEF Graph
      <4>3. h[x].ops = IF x = b THEN <<>> ELSE blk[x].ops
        BY <1>2 DEF Ops
      <4> QED
        BY <4>1, <4>2, <4>3, Zenon
    <3>2. h[x].incoming \in Int
      BY <1>2 DEF SameCounts, Graph
    <3>3. h[x].code \in Nat
      BY <1>2, BaseIs DEF Graph
    <3> QED
      BY <3>1, <3>2, <3>3
  <2>4. \A x \in Block : h[x].visited \in BOOLEAN
    BY <1>2 DEF Flag, Graph
  <2>5. \A x \in Block : Succ(x)' \subseteq Block \ {entry} /\ (Succ(x)' = {} <=> x = ret)
    BY <1>7 DEF Graph
  <2> QED
    BY <1>1, <1>4, <2>1, <2>2, <2>3, <2>4, <2>5 DEF Graph
<1> QED
  BY <1>1, <1>4, <1>6, <1>7, <1>8

LEMMA LaysOutCounts ==
  ASSUME Graph, IsSeq(text), prev \in Block \cup {0}, NEW b \in Block, LaysOut(b),
         NEW L \in SUBSET Block, Counted(L)
  PROVE  Counted(L)'
<1>1. PICK h : h = blk'
  OBVIOUS
<1>2. Block' = Block
      /\ \A x \in Block : (x # prev \/ ~Removes(b)) => h[x].next = blk[x].next /\ h[x].jump = blk[x].jump
  BY <1>1, LaysOutGraph
<1>3. ASSUME NEW t \in Block
      PROVE  Enter(h, t, L) = Enter(blk, t, L)
  <2>1. CASE Removes(b) /\ prev \in L
    <3>1. IsFiniteSet(L)
      BY BlockFinite, FS_Subset
    <3>2. \A x \in L : x # prev => h[x].next = blk[x].next /\ h[x].jump = blk[x].jump
      BY <1>2
    <3>3. PICK p : p = prev
      OBVIOUS
    <3>4. Enter(h, t, L) = Enter(blk, t, L)
             - (IF blk[p].next = t THEN 1 ELSE 0) - (IF blk[p].jump = t THEN 1 ELSE 0)
             + (IF h[p].next = t THEN 1 ELSE 0) + (IF h[p].jump = t THEN 1 ELSE 0)
      <4>1. p \in L /\ \A x \in L : x # p => h[x].next = blk[x].next /\ h[x].jump = blk[x].jump
        BY <2>1, <3>2, <3>3
      <4> QED
        BY ONLY <3>1, <4>1, EnterSwap
    <3>5. Links(h, prev, b, 0) /\ prev \in Block
      BY <1>1, <2>1 DEF LaysOut
    <3>6. h[p].next = b /\ h[p].jump = 0 /\ blk[p].next = 0 /\ blk[p].jump = b /\ t # 0
      BY <2>1, <3>3, <3>5, SuccIs DEF Links, Removes
    <3>7. Enter(blk, t, L) \in Nat
      BY <3>1, EnterIsNat
    <3>8. PICK u \in 0..1 : u = IF b = t THEN 1 ELSE 0
      OBVIOUS
    <3>9. Enter(h, t, L) = Enter(blk, t, L) - 0 - u + u + 0
      BY <3>4, <3>6, <3>8, Zenon
    <3> QED
      BY <3>7, <3>9
  <2>2. CASE ~(Removes(b) /\ prev \in L)
    <3>1. \A x \in L : h[x].next = blk[x].next /\ h[x].jump = blk[x].jump
      BY <1>2, <2>2
    <3> QED
      BY <3>1, EnterSame
  <2> QED
    BY <2>1, <2>2
<1>4. \A t \in Block : h[t].incoming = blk[t].incoming
  BY <1>1 DEF LaysOut, Lays, SameCounts
<1>5. \A t \in Block : h[t].incoming = 0 \/ h[t].incoming >= Enter(h, t, L)
  BY <1>3, <1>4, EnteringIs DEF Counted
<1> QED
  BY <1>1, <1>2, <1>5 DEF Counted, Entering, Enter, NextIn, JumpIn

\* What was to be laid out is; a jump that goes makes room.
LEMMA LaysOutVolume ==
  ASSUME Graph, IsSeq(text), NEW b \in Block, LaysOut(b), NEW L \in SUBSET Block, b \in L \cup {ret}
  PROVE  /\ Volume(L) \in Nat /\ Volume(L)' \in Nat /\ Volume(L)' <= Volume(L)
         /\ Removes(b) /\ text # <<>> => Volume(L)' = Volume(L) - 1
<1>1. PICK h : h = blk'
  OBVIOUS
<1>2. Size(h) /\ Ops(h, b, <<>>) /\ ret' = ret /\ Len(text') = Len(Base(b)) + Len(blk[b].ops)
  BY <1>1 DEF LaysOut, Lays
<1>3. PICK N : N = L \cup {ret}
  OBVIOUS
<1>4. PICK M : M = N \ {b}
  OBVIOUS
<1>5. N \subseteq Block /\ b \in N /\ b \notin M /\ N = M \cup {b} /\ M \subseteq Block
  BY <1>3, <1>4 DEF Graph
<1>6. IsFiniteSet(M)
  BY <1>5, BlockFinite, FS_Subset
<1>7. Pieces(h, M) = Pieces(blk, M)
  <2>1. \A x \in M : h[x].ops = blk[x].ops
    BY <1>2, <1>5 DEF Ops
  <2> QED
    BY <2>1, PiecesSame
<1>8. h[b].ops = <<>> /\ IsSeq(<<>>) /\ Len(<<>>) = 0
  <2>1. h[b].ops = <<>>
    BY <1>2 DEF Ops
  <2>2. IsSeq(blk[b].ops)
    BY DEF Graph
  <2> QED
    BY <2>1, <2>2, SeqEmpty
<1>9. \A x \in M \cup {b} : IsSeq(blk[x].ops)
  BY <1>5 DEF Graph
<1>10. \A x \in M \cup {b} : IsSeq(h[x].ops)
  <2> TAKE x \in M \cup {b}
  <2>1. CASE x = b
    BY <1>8, <2>1, Zenon
  <2>2. CASE x # b
    <3>1. h[x].ops = blk[x].ops
      BY <1>2, <1>5, <2>2 DEF Ops
    <3> QED
      BY <1>9, <3>1
  <2> QED
    BY <2>1, <2>2
<1>11. /\ Cardinality(Pieces(blk, M \cup {b})) = Cardinality(Pieces(blk, M)) + Len(blk[b].ops)
       /\ Cardinality(Pieces(blk, M)) \in Nat /\ Len(blk[b].ops) \in Nat
  BY <1>5, <1>6, <1>9, PiecesMore
<1>12. Cardinality(Pieces(h, M \cup {b})) = Cardinality(Pieces(h, M)) + Len(h[b].ops)
  BY <1>5, <1>6, <1>10, PiecesMore
<1>13. Volume(L) = Len(text) + Cardinality(Pieces(blk, N)) /\ Volume(L)' = Len(text') + Cardinality(Pieces(h, N))
  BY <1>1, <1>2, <1>3 DEF Volume
<1>14. PICK p \in Nat : p = Cardinality(Pieces(blk, M))
  BY <1>11
<1>15. PICK k \in Nat : k = Len(blk[b].ops)
  BY <1>11
<1>16. PICK r \in Nat : r = Len(Base(b))
  BY BaseIs
<1>17. Volume(L) = Len(text) + (p + k)
  BY <1>5, <1>11, <1>13, <1>14, <1>15, Zenon
<1>18. Volume(L)' = (r + k) + (p + 0)
  BY <1>2, <1>5, <1>7, <1>8, <1>12, <1>13, <1>14, <1>15, <1>16, Zenon
<1>19. Len(text) \in Nat /\ r <= Len(text) /\ (Removes(b) /\ text # <<>> => r = Len(text) - 1)
  BY <1>16, BaseIs
<1> HIDE DEF Volume
<1> QED
  BY <1>17, <1>18, <1>19


\* No more than the marks of stack checks change.
Kept(h) == Size(h) /\ SameLinks(h) /\ SameCounts(h) /\ SameOps(h) /\ SamePlaces(h) /\ SameFlags(h)

LEMMA KeptIs ==
  ASSUME Graph, entry' = entry, ret' = ret, Kept(blk')
  PROVE  /\ Graph' /\ Block' = Block /\ \A x \in Block : Succ(x)' = Succ(x)
         /\ \A x \in Block : Laid(x)' = Laid(x)
         /\ \A L \in SUBSET Block : Counted(L)' <=> Counted(L)
<1>1. PICK h : h = blk'
  OBVIOUS
<1>2. Size(h) /\ SameLinks(h) /\ SameCounts(h) /\ SameOps(h) /\ SamePlaces(h) /\ SameFlags(h)
  BY <1>1 DEF Kept
<1>3. Graph' /\ Block' = Block /\ \A x \in Block : Succ(x)' = Succ(x)
  <2>1. \A x \in Block : /\ IsSeq(h[x].ops) /\ h[x].incoming \in Int
                         /\ h[x].visited \in BOOLEAN /\ h[x].code \in Nat
    BY <1>2 DEF SameCounts, SameOps, SamePlaces, SameFlags, Graph
  <2> QED
    BY <1>1, <1>2, <2>1, Unlinked
<1>4. ASSUME NEW x \in Block
      PROVE  Laid(x)' = Laid(x)
  <2>1. blk[x].next \in Block \cup {0}
    BY SuccIs
  <2>2. h[x].next = blk[x].next /\ h[x].jump = blk[x].jump /\ h[x].ops = blk[x].ops
    BY <1>2 DEF SameLinks, SameOps
  <2>3. blk[x].next # 0 => /\ h[blk[x].next].next = blk[blk[x].next].next
                           /\ h[blk[x].next].jump = blk[blk[x].next].jump
    BY <1>2, <2>1 DEF SameLinks
  <2>4. Laid(x) <=> IF h[x].next = 0 THEN h[x].jump # 0 => h[x].ops # <<>>
                    ELSE h[h[x].next].next = 0 /\ h[h[x].next].jump \notin {0, h[x].next}
    BY <2>2, <2>3 DEF Laid
  <2> QED
    BY <1>1, <2>4 DEF Laid
<1>5. ASSUME NEW L \in SUBSET Block
      PROVE  Counted(L)' <=> Counted(L)
  <2>1. \A t : Enter(h, t, L) = Enter(blk, t, L)
    BY <1>2, EnterSame DEF SameLinks
  <2>2. \A t \in Block : h[t].incoming = blk[t].incoming
    BY <1>2 DEF SameCounts
  <2>3. Counted(L) <=> \A t \in Block : blk[t].incoming = 0 \/ blk[t].incoming >= Enter(blk, t, L)
    BY DEF Counted, Entering, Enter, NextIn, JumpIn
  <2>4. Counted(L)' <=> \A t \in Block : h[t].incoming = 0 \/ h[t].incoming >= Enter(h, t, L)
    BY <1>1, <1>3 DEF Counted, Entering, Enter, NextIn, JumpIn
  <2>5. \A t \in Block : h[t].incoming = 0 \/ h[t].incoming >= Enter(h, t, L)
               <=> blk[t].incoming = 0 \/ blk[t].incoming >= Enter(blk, t, L)
    BY <2>1, <2>2
  <2> QED
    BY <2>3, <2>4, <2>5
<1> QED
  BY <1>3, <1>4, <1>5

LEMMA VolumeSame ==
  ASSUME SameOps(blk'), text' = text, ret' = ret, ret \in Block, NEW L \in SUBSET Block
  PROVE  Volume(L)' = Volume(L)
<1>1. PICK h : h = blk'
  OBVIOUS
<1>2. \A x \in L \cup {ret} : h[x].ops = blk[x].ops
  BY <1>1 DEF SameOps
<1>3. Pieces(h, L \cup {ret}) = Pieces(blk, L \cup {ret})
  BY <1>2, PiecesSame
<1> QED
  BY <1>1, <1>3 DEF Volume

\* The activations of a walk that goes on from b at l.
Walks(L) ==
  /\ IsSeq(stack') /\ Frames'
  /\ \A f \in OnStack' : f.b \in L
  /\ \A x \in L : \A s \in Succ(x) : Awaits(x, s) => Awaits(x, s)'
  /\ Frame(entry, "COPY") \in OnStack => Frame(entry, "COPY") \in OnStack'
  /\ Early(L) => Early(L)'

LEMMA CopyWalks ==
  ASSUME Graph, NEW L \in SUBSET Block, CopyInv(L), Kept(blk'), Walks(L),
         entry' = entry, ret' = ret, prev' = prev, codesize' = codesize, text' = text
  PROVE  Graph' /\ L \in SUBSET Block' /\ CopyInv(L)'
<1>1. /\ Graph' /\ Block' = Block /\ \A x \in Block : Succ(x)' = Succ(x)
      /\ Counted(L)' <=> Counted(L)
  BY KeptIs
<1>2. PICK h : h = blk'
  OBVIOUS
<1>3. \A x \in Block : h[x].visited = blk[x].visited /\ h[x].code = blk[x].code /\ h[x].ops = blk[x].ops
  BY <1>2 DEF Kept, SameFlags, SamePlaces, SameOps
<1>4. entry \in Block /\ ret \in Block
  BY DEF Graph
<1>5. Closed(L)'
  <2>1. \A x \in L : Succ(x)' \subseteq L
    BY <1>1 DEF CopyInv, Closed
  <2> QED
    BY <1>1, <2>1 DEF CopyInv, Closed
<1>6. \A x \in L : ~h[x].visited => \A s \in Succ(x)' : ~h[s].visited \/ Awaits(x, s)'
  <2> TAKE x \in L
  <2>1. x \in Block /\ Succ(x)' = Succ(x) /\ Succ(x) \subseteq Block
    BY <1>1 DEF Graph
  <2>2. ~h[x].visited => \A s \in Succ(x) : ~blk[s].visited \/ Awaits(x, s)
    BY <1>3, <2>1 DEF CopyInv
  <2> QED
    BY <1>3, <2>1, <2>2 DEF Walks
<1>7. Volume(L)' = Volume(L)
  BY <1>4, VolumeSame DEF Kept
<1>8. (Volume(L) <= codesize \/ (ret \notin L /\ Early(L) /\ Volume(L) <= codesize + 1))'
  <2> HIDE DEF Volume, Early
  <2> QED
    BY <1>7 DEF CopyInv, Walks
<1>9. (prev \in Block \cup {0} /\ blk[ret].ops = RET /\ blk[ret].code # 0)'
  BY <1>1, <1>2, <1>3, <1>4 DEF CopyInv
<1>10. \A x \in Block \ {ret} : h[x].code # 0 => ~h[x].visited
  BY <1>3 DEF CopyInv
<1>11. (~blk[entry].visited \/ Frame(entry, "COPY") \in OnStack)'
  BY <1>2, <1>3, <1>4 DEF CopyInv, Walks, Frame
<1>12. CopyInv(L)'
  BY <1>1, <1>2, <1>5, <1>6, <1>8, <1>9, <1>10, <1>11 DEF CopyInv, Walks
<1> QED
  BY <1>1, <1>12

LEMMA CopyTop ==
  ASSUME IsSeq(stack), stack # <<>>, Frames, Graph, NEW L \in SUBSET Block, \A f \in OnStack : f.b \in L,
         NEW b, b = Top.b, NEW l, l = Top.at
  PROVE  /\ OnStack = Below \cup {Frame(b, l)} /\ Top = Frame(b, l) /\ b \in L /\ b \in Block
         /\ \A f \in Below : f.b \in L
<1>1. OnStack = Below \cup {Top}
  BY StackIs
<1>2. Top = Frame(b, l) /\ b \in L
  BY <1>1 DEF Frames
<1> QED
  BY <1>1, <1>2


LEMMA CopyNextKeeps ==
  ASSUME IsSeq(stack), Frames, Graph, NEW L \in SUBSET Block, CopyInv(L), CopyNext
  PROVE  IsSeq(stack') /\ Frames' /\ Graph' /\ L \in SUBSET Block' /\ CopyInv(L)' /\ text' = text
<1>1. /\ stack # <<>> /\ Top.at = "NEXT" /\ entry' = entry /\ ret' = ret
      /\ prev' = prev /\ codesize' = codesize /\ text' = text
  BY DEF CopyNext, AtCopy, At
<1>2. PICK b : b = Top.b
  OBVIOUS
<1>3. /\ OnStack = Below \cup {Frame(b, "NEXT")} /\ Top = Frame(b, "NEXT") /\ b \in L /\ b \in Block
      /\ \A f \in Below : f.b \in L
  BY <1>1, <1>2, CopyTop DEF CopyInv
<1>4. PICK n : n = blk[b].next
  OBVIOUS
<1>5. 0 \notin Block /\ n \in Block \cup {0} /\ (n # 0 => n \in L)
  <2>1. 0 \notin Block /\ n \in Block \cup {0}
    BY <1>3, <1>4, SuccIs
  <2>2. n # 0 => n \in Succ(b)
    BY <1>4 DEF Succ
  <2> QED
    BY <1>3, <2>1, <2>2 DEF CopyInv, Closed
<1>6. CASE n # 0
  <2>1. blk' = Inherit(b, n) /\ Call(b, "JUMP", n, "COPY")
    BY <1>2, <1>4, <1>6 DEF CopyNext
  <2>2. Kept(blk')
    <3>1. PICK v : v = (blk[n].checked \/ (blk[b].checked /\ blk[n].incoming = 1))
      OBVIOUS
    <3>2. blk' = [blk EXCEPT ![n].checked = v]
      BY <2>1, <3>1, Zenon DEF Inherit
    <3>3. n \in Block
      BY <1>5, <1>6
    <3> QED
      BY <3>2, <3>3, CheckEffect DEF Kept
  <2>3. /\ IsSeq(stack') /\ stack' # <<>> /\ Top' = Frame(n, "COPY")
        /\ OnStack' = Below \cup {Frame(b, "JUMP"), Frame(n, "COPY")}
    BY <1>1, <2>1, CallIs
  <2>4. Frames'
    BY <1>1, <2>1, FramesKept
  <2>5. \A f \in OnStack' : f.b \in L
    BY <1>3, <1>5, <1>6, <2>3, FrameIs
  <2>6. ASSUME NEW x \in L, NEW s \in Succ(x), Awaits(x, s)
        PROVE  Awaits(x, s)'
    <3>1. blk'[x].jump = blk[x].jump
      BY <2>2 DEF Kept, SameLinks
    <3>2. CASE Frame(s, "COPY") \in OnStack \/ (Frame(x, "JUMP") \in OnStack /\ s = blk[x].jump)
      <4>1. Frame(s, "COPY") # Frame(b, "NEXT") /\ Frame(x, "JUMP") # Frame(b, "NEXT")
        BY FrameIs
      <4> QED
        BY <1>3, <2>3, <3>1, <3>2, <4>1 DEF Awaits, Frame
    <3>3. CASE Frame(x, "NEXT") \in Below
      BY <2>3, <3>3 DEF Awaits, Frame
    <3>4. CASE x = b
      <4>1. s = n \/ s = blk[x].jump
        BY <1>4, <2>6, <3>4 DEF Succ
      <4> QED
        BY <2>3, <3>1, <3>4, <4>1 DEF Awaits, Frame
    <3>5. Frame(x, "NEXT") \in OnStack => x = b \/ Frame(x, "NEXT") \in Below
      BY <1>3, FrameIs
    <3> QED
      BY <2>6, <3>2, <3>3, <3>4, <3>5 DEF Awaits
  <2>7. Frame(entry, "COPY") \in OnStack => Frame(entry, "COPY") \in OnStack'
    BY <1>3, <2>3, FrameIs
  <2>8. Early(L) => Early(L)'
    <3> SUFFICES ASSUME Early(L) PROVE Early(L)'
      OBVIOUS
    <3>1. /\ Top # Frame(entry, "COPY") /\ Top # Frame(blk[entry].next, "COPY") /\ Top # Frame(prev, "JUMP")
          /\ Top # Frame(blk[prev].jump, "COPY")
      BY <1>3, FrameIs
    <3>2. Top = Frame(prev, "NEXT") => blk[prev].next # 0
      BY <1>3, <1>4, <1>6, FrameIs
    <3>3. Top = Frame(entry, "NEXT") => n = blk[entry].next
      BY <1>3, <1>4, FrameIs
    <3>4. /\ Top = Frame(entry, "NEXT") /\ prev \in {0, entry}
          /\ \A x \in L : x # entry => blk[x].code = 0
          /\ blk[entry].next # 0 /\ Laid(entry)
          /\ blk[blk[entry].next].ops # <<>>
      BY <3>1, <3>2 DEF Early
    <3>5. entry \in Block /\ n \in Block
      BY <1>5, <1>6 DEF Graph
    <3>6. PICK h : h = blk'
      OBVIOUS
    <3>7. \A x \in Block : h[x].next = blk[x].next /\ h[x].code = blk[x].code /\ h[x].ops = blk[x].ops
      BY <2>2, <3>6 DEF Kept, SameLinks, SamePlaces, SameOps
    <3>8. h[entry].next = n /\ h[n].ops # <<>> /\ \A x \in L : x # entry => h[x].code = 0
      BY <3>3, <3>4, <3>5, <3>7
    <3>9. Laid(entry)'
      <4>1. Laid(entry)' = Laid(entry)
        <5>1. PICK e : e = entry
          OBVIOUS
        <5>2. Laid(e)' = Laid(e)
          BY <1>1, <2>2, <3>5, <5>1, KeptIs
        <5> QED
          BY <1>1, <5>1, <5>2 DEF Laid
      <4> QED
        BY <3>4, <4>1
    <3> QED
      BY <1>1, <1>6, <2>3, <3>4, <3>6, <3>8, <3>9 DEF Early, Frame
  <2>9. Walks(L)
    BY <2>3, <2>4, <2>5, <2>6, <2>7, <2>8 DEF Walks, Frame
  <2> QED
    BY <1>1, <2>2, <2>3, <2>4, <2>9, CopyWalks
<1>7. CASE n = 0
  <2>1. blk' = blk /\ Goto(b, "JUMP")
    BY <1>2, <1>4, <1>7 DEF CopyNext
  <2>2. Kept(blk')
    <3>1. Blocks(blk)
      BY DEF Graph
    <3> QED
      BY <2>1, <3>1 DEF Kept, Size, SameLinks, SameCounts, SameOps, SamePlaces, SameFlags, Block
  <2>3. /\ IsSeq(stack') /\ stack' # <<>> /\ Top' = Frame(b, "JUMP")
        /\ OnStack' = Below \cup {Frame(b, "JUMP")}
    BY <1>1, <2>1, GotoIs
  <2>4. Frames'
    BY <1>1, <2>1, FramesKept
  <2>5. \A f \in OnStack' : f.b \in L
    BY <1>3, <2>3, FrameIs
  <2>6. ASSUME NEW x \in L, NEW s \in Succ(x), Awaits(x, s)
        PROVE  Awaits(x, s)'
    <3>2. CASE Frame(s, "COPY") \in OnStack \/ (Frame(x, "JUMP") \in OnStack /\ s = blk[x].jump)
      <4>1. Frame(s, "COPY") # Frame(b, "NEXT") /\ Frame(x, "JUMP") # Frame(b, "NEXT")
        BY FrameIs
      <4> QED
        BY <1>3, <2>1, <2>3, <3>2, <4>1 DEF Awaits, Frame
    <3>3. CASE Frame(x, "NEXT") \in Below
      BY <2>3, <3>3 DEF Awaits, Frame
    <3>4. CASE x = b
      <4>1. s = blk[x].jump
        BY <1>4, <1>7, <2>6, <3>4 DEF Succ
      <4> QED
        BY <2>1, <2>3, <3>4, <4>1 DEF Awaits, Frame
    <3>5. Frame(x, "NEXT") \in OnStack => x = b \/ Frame(x, "NEXT") \in Below
      BY <1>3, FrameIs
    <3> QED
      BY <2>6, <3>2, <3>3, <3>4, <3>5 DEF Awaits
  <2>7. Frame(entry, "COPY") \in OnStack => Frame(entry, "COPY") \in OnStack'
    BY <1>3, <2>3, FrameIs
  <2>8. Early(L) => Early(L)'
    <3> SUFFICES ASSUME Early(L) PROVE Early(L)'
      OBVIOUS
    <3>1. /\ Top # Frame(entry, "COPY") /\ Top # Frame(blk[entry].next, "COPY") /\ Top # Frame(prev, "JUMP")
          /\ Top # Frame(blk[prev].jump, "COPY")
      BY <1>3, FrameIs
    <3>2. Top = Frame(entry, "NEXT") => blk[entry].next = 0
      <4>1. Top = Frame(entry, "NEXT") => b = entry
        BY <1>3, FrameIs
      <4> QED
        BY <1>4, <1>7, <4>1
    <3>3. Top = Frame(prev, "NEXT") => b = prev
      BY <1>3, FrameIs
    <3>4. /\ Top = Frame(prev, "NEXT") /\ prev # 0 /\ blk[prev].next = 0 /\ blk[prev].jump # 0
          /\ blk[blk[prev].jump].code = 0 /\ text # <<>>
      BY <3>1, <3>2 DEF Early
    <3> QED
      BY <1>1, <2>1, <2>3, <3>3, <3>4 DEF Early, Frame
  <2>9. Walks(L)
    BY <2>3, <2>4, <2>5, <2>6, <2>7, <2>8 DEF Walks, Frame
  <2> QED
    BY <1>1, <2>2, <2>3, <2>4, <2>9, CopyWalks
<1> QED
  BY <1>6, <1>7

LEMMA CopyJumpKeeps ==
  ASSUME IsSeq(stack), Frames, Graph, NEW L \in SUBSET Block, CopyInv(L), CopyJump
  PROVE  IsSeq(stack') /\ Frames' /\ Graph' /\ L \in SUBSET Block' /\ CopyInv(L)' /\ text' = text
<1>1. /\ stack # <<>> /\ Top.at = "JUMP" /\ entry' = entry /\ ret' = ret
      /\ prev' = prev /\ codesize' = codesize /\ text' = text
  BY DEF CopyJump, AtCopy, At
<1>2. PICK b : b = Top.b
  OBVIOUS
<1>3. /\ OnStack = Below \cup {Frame(b, "JUMP")} /\ Top = Frame(b, "JUMP") /\ b \in L /\ b \in Block
      /\ \A f \in Below : f.b \in L
  BY <1>1, <1>2, CopyTop DEF CopyInv
<1>4. PICK j : j = blk[b].jump
  OBVIOUS
<1>5. 0 \notin Block /\ j \in Block \cup {0} /\ (j # 0 => j \in L)
  <2>1. 0 \notin Block /\ j \in Block \cup {0}
    BY <1>3, <1>4, SuccIs
  <2>2. j # 0 => j \in Succ(b)
    BY <1>4 DEF Succ
  <2> QED
    BY <1>3, <2>1, <2>2 DEF CopyInv, Closed
<1>6. /\ Top # Frame(entry, "COPY") /\ Top # Frame(blk[entry].next, "COPY") /\ Top # Frame(prev, "NEXT")
      /\ Top # Frame(blk[prev].jump, "COPY") /\ Top # Frame(entry, "NEXT")
  BY <1>3, FrameIs
<1>7. Top = Frame(prev, "JUMP") => b = prev
  BY <1>3, FrameIs
<1>8. CASE j # 0
  <2>1. blk' = Inherit(b, j) /\ Goto(j, "COPY")
    BY <1>2, <1>4, <1>8 DEF CopyJump
  <2>2. Kept(blk')
    <3>1. PICK v : v = (blk[j].checked \/ (blk[b].checked /\ blk[j].incoming = 1))
      OBVIOUS
    <3>2. blk' = [blk EXCEPT ![j].checked = v]
      BY <2>1, <3>1, Zenon DEF Inherit
    <3>3. j \in Block
      BY <1>5, <1>8
    <3> QED
      BY <3>2, <3>3, CheckEffect DEF Kept
  <2>3. /\ IsSeq(stack') /\ stack' # <<>> /\ Top' = Frame(j, "COPY")
        /\ OnStack' = Below \cup {Frame(j, "COPY")}
    BY <1>1, <2>1, GotoIs
  <2>4. Frames'
    BY <1>1, <2>1, FramesKept
  <2>5. \A f \in OnStack' : f.b \in L
    BY <1>3, <1>5, <1>8, <2>3, FrameIs
  <2>6. ASSUME NEW x \in L, NEW s \in Succ(x), Awaits(x, s)
        PROVE  Awaits(x, s)'
    <3>1. blk'[x].jump = blk[x].jump
      BY <2>2 DEF Kept, SameLinks
    <3>2. Frame(s, "COPY") # Frame(b, "JUMP") /\ Frame(x, "NEXT") # Frame(b, "JUMP")
      BY FrameIs
    <3>3. Frame(x, "JUMP") = Frame(b, "JUMP") => x = b
      BY FrameIs
    <3>4. x = b /\ s = blk[x].jump => s = j
      BY <1>4
    <3> QED
      BY <1>3, <2>3, <2>6, <3>1, <3>2, <3>3, <3>4 DEF Awaits, Frame
  <2>7. Frame(entry, "COPY") \in OnStack => Frame(entry, "COPY") \in OnStack'
    BY <1>3, <2>3, FrameIs
  <2>8. Early(L) => Early(L)'
    <3> SUFFICES ASSUME Early(L) PROVE Early(L)'
      OBVIOUS
    <3>1. /\ b = prev /\ prev # 0 /\ blk[prev].next = 0 /\ blk[prev].jump # 0
          /\ blk[blk[prev].jump].code = 0 /\ text # <<>>
      BY <1>6, <1>7 DEF Early
    <3>2. PICK h : h = blk'
      OBVIOUS
    <3>3. \A x \in Block : h[x].next = blk[x].next /\ h[x].jump = blk[x].jump /\ h[x].code = blk[x].code
      BY <2>2, <3>2 DEF Kept, SameLinks, SamePlaces
    <3>4. h[prev].next = 0 /\ h[prev].jump = j /\ h[j].code = 0
      BY <1>3, <1>4, <1>5, <1>8, <3>1, <3>3
    <3> QED
      BY <1>1, <1>8, <2>3, <3>1, <3>2, <3>4 DEF Early, Frame
  <2>9. Walks(L)
    BY <2>3, <2>4, <2>5, <2>6, <2>7, <2>8 DEF Walks, Frame
  <2> QED
    BY <1>1, <2>2, <2>3, <2>4, <2>9, CopyWalks
<1>9. CASE j = 0
  <2>1. blk' = blk /\ Return
    BY <1>2, <1>4, <1>9 DEF CopyJump
  <2>2. Kept(blk')
    <3>1. Blocks(blk)
      BY DEF Graph
    <3> QED
      BY <2>1, <3>1 DEF Kept, Size, SameLinks, SameCounts, SameOps, SamePlaces, SameFlags, Block
  <2>3. IsSeq(stack') /\ OnStack' = Below
    BY <1>1, <2>1, ReturnIs
  <2>4. Frames'
    BY <1>1, <2>1, FramesKept
  <2>5. \A f \in OnStack' : f.b \in L
    BY <1>3, <2>3
  <2>6. ASSUME NEW x \in L, NEW s \in Succ(x), Awaits(x, s)
        PROVE  Awaits(x, s)'
    <3>2. Frame(s, "COPY") # Frame(b, "JUMP") /\ Frame(x, "NEXT") # Frame(b, "JUMP")
      BY FrameIs
    <3>3. Frame(x, "JUMP") = Frame(b, "JUMP") => x = b
      BY FrameIs
    <3>4. x = b => s # blk[x].jump
      BY <1>4, <1>9, <2>6 DEF Succ
    <3> QED
      BY <1>3, <2>1, <2>3, <2>6, <3>2, <3>3, <3>4 DEF Awaits, Frame
  <2>7. Frame(entry, "COPY") \in OnStack => Frame(entry, "COPY") \in OnStack'
    BY <1>3, <2>3, FrameIs
  <2>8. ~Early(L)
    BY <1>4, <1>6, <1>7, <1>9 DEF Early
  <2>9. Walks(L)
    BY <2>3, <2>4, <2>5, <2>6, <2>7, <2>8 DEF Walks, Frame
  <2> QED
    BY <1>1, <2>2, <2>3, <2>4, <2>9, CopyWalks
<1> QED
  BY <1>8, <1>9


\* The step that comes to a block a second time.
LEMMA CopyAgainKeeps ==
  ASSUME IsSeq(stack), stack # <<>>, Frames, Graph, NEW L \in SUBSET Block, CopyInv(L),
         Top.at = "COPY", NEW b, b = Top.b, blk[b].code # 0,
         blk' = [blk EXCEPT ![b].visited = FALSE], Return,
         entry' = entry, ret' = ret, prev' = prev, codesize' = codesize, text' = text
  PROVE  IsSeq(stack') /\ Frames' /\ Graph' /\ L \in SUBSET Block' /\ CopyInv(L)'
<1>1. /\ OnStack = Below \cup {Frame(b, "COPY")} /\ Top = Frame(b, "COPY") /\ b \in L /\ b \in Block
      /\ \A f \in Below : f.b \in L
  BY CopyTop DEF CopyInv
<1>2. IsSeq(stack') /\ OnStack' = Below
  BY ReturnIs
<1>3. Frames'
  BY FramesKept
<1>4. PICK h : h = blk'
  OBVIOUS
<1>5. Size(h) /\ SameLinks(h) /\ SameCounts(h) /\ SameOps(h) /\ SamePlaces(h) /\ Flag(h, b, FALSE)
  BY <1>1, <1>4, MarkEffect
<1>6. Graph' /\ Block' = Block /\ \A x \in Block : Succ(x)' = Succ(x)
  <2>1. \A x \in Block : /\ IsSeq(h[x].ops) /\ h[x].incoming \in Int
                         /\ h[x].visited \in BOOLEAN /\ h[x].code \in Nat
    BY <1>5 DEF SameCounts, SameOps, SamePlaces, Flag, Graph
  <2> QED
    BY <1>4, <1>5, <2>1, Unlinked
<1>7. entry \in Block /\ ret \in Block
  BY DEF Graph
<1>8. Closed(L)'
  <2>1. \A x \in L : Succ(x)' \subseteq L
    BY <1>6 DEF CopyInv, Closed
  <2> QED
    BY <1>6, <2>1 DEF CopyInv, Closed
<1>9. Counted(L)'
  <2>1. \A t : Enter(h, t, L) = Enter(blk, t, L)
    BY <1>5, EnterSame DEF SameLinks
  <2>2. \A t \in Block : h[t].incoming = 0 \/ h[t].incoming >= Enter(h, t, L)
    BY <1>5, <2>1, EnteringIs DEF CopyInv, Counted, SameCounts
  <2> QED
    BY <1>4, <1>6, <2>2 DEF Counted, Entering, Enter, NextIn, JumpIn
<1>10. /\ \A x \in Block : x # b => h[x].visited = blk[x].visited
       /\ ~h[b].visited
       /\ \A x \in Block : h[x].code = blk[x].code /\ h[x].ops = blk[x].ops /\ h[x].jump = blk[x].jump
  BY <1>1, <1>5 DEF Flag, SamePlaces, SameOps, SameLinks
<1>11. ASSUME NEW x \in L, ~h[x].visited, NEW s \in Succ(x)
       PROVE  ~h[s].visited \/ Awaits(x, s)'
  <2>1. x \in Block /\ s \in Block /\ x # ret
    BY <1>11 DEF Graph
  <2>2. ~blk[x].visited
    BY <1>10, <1>11, <2>1 DEF CopyInv
  <2>3. ~blk[s].visited \/ Awaits(x, s)
    BY <1>11, <2>2 DEF CopyInv
  <2>4. CASE s = b
    BY <1>10, <2>4
  <2>5. CASE s # b
    <3>1. /\ Frame(s, "COPY") # Frame(b, "COPY") /\ Frame(x, "NEXT") # Frame(b, "COPY")
          /\ Frame(x, "JUMP") # Frame(b, "COPY")
      BY <2>5, FrameIs
    <3>2. h[x].jump = blk[x].jump /\ h[s].visited = blk[s].visited
      BY <1>10, <2>1, <2>5
    <3> QED
      BY <1>1, <1>2, <1>4, <2>3, <3>1, <3>2 DEF Awaits, Frame
  <2> QED
    BY <2>4, <2>5
<1>12. ~Early(L)
  <2> SUFFICES ASSUME Early(L) PROVE FALSE
    OBVIOUS
  <2>1. Top # Frame(entry, "NEXT") /\ Top # Frame(prev, "NEXT") /\ Top # Frame(prev, "JUMP")
    BY <1>1, FrameIs
  <2>2. \A x : Top = Frame(x, "COPY") => x = b
    BY <1>1, FrameIs
  <2>3. \/ b = entry /\ \A x \in L : blk[x].code = 0
        \/ b = blk[entry].next /\ \A x \in L : x # entry => blk[x].code = 0
        \/ b = blk[prev].jump /\ blk[blk[prev].jump].code = 0
    BY <2>1, <2>2 DEF Early
  <2>4. blk[entry].next # entry
    BY <1>7, SuccIs
  <2> QED
    BY <1>1, <2>3, <2>4
<1>13. (Volume(L) <= codesize)'
  <2>1. Volume(L)' = Volume(L)
    BY <1>4, <1>5, <1>7, VolumeSame
  <2> HIDE DEF Volume, Early
  <2> QED
    BY <1>12, <2>1 DEF CopyInv
<1>14. (prev \in Block \cup {0} /\ blk[ret].ops = RET /\ blk[ret].code # 0)'
  BY <1>4, <1>6, <1>7, <1>10 DEF CopyInv
<1>15. \A x \in Block \ {ret} : h[x].code # 0 => ~h[x].visited
  BY <1>10 DEF CopyInv
<1>16. (~blk[entry].visited \/ Frame(entry, "COPY") \in OnStack)'
  <2>1. entry = b \/ Frame(entry, "COPY") # Frame(b, "COPY")
    BY FrameIs
  <2> QED
    BY <1>1, <1>2, <1>4, <1>7, <1>10, <2>1 DEF CopyInv, Frame
<1>17. \A x \in L : ~h[x].visited => \A s \in Succ(x)' : ~h[s].visited \/ Awaits(x, s)'
  <2> TAKE x \in L
  <2>1. Succ(x)' = Succ(x)
    BY <1>6
  <2> QED
    BY <1>11, <2>1
<1>18. CopyInv(L)'
  <2>1. \A f \in OnStack' : f.b \in L
    BY <1>1, <1>2
  <2>2. (Volume(L) <= codesize \/ (ret \notin L /\ Early(L) /\ Volume(L) <= codesize + 1))'
    BY <1>13
  <2>3. \A x \in Block' \ {ret'} : blk'[x].code # 0 => ~blk'[x].visited
    BY <1>4, <1>6, <1>15
  <2> QED
    BY <1>4, <1>8, <1>9, <1>14, <1>16, <1>17, <2>1, <2>2, <2>3 DEF CopyInv
<1> QED
  BY <1>2, <1>3, <1>6, <1>18

\* The volume of a method without an end, when its first blocks are laid out.
LEMMA LaysOutEarly ==
  ASSUME Graph, IsSeq(text), prev \in Block \cup {0}, NEW L \in SUBSET Block, Closed(L), ret \notin L,
         NEW b \in L, LaysOut(b), Top = Frame(b, "COPY"),
         stack' # <<>>, Top' = Frame(b, "NEXT"),
         Early(L)
  PROVE  Early(L)' \/ (Removes(b) /\ text # <<>>)
<1>1. entry \in Block /\ b \in Block /\ 0 \notin Block /\ entry # ret
  BY SuccIs DEF Graph
<1>2. Top # Frame(entry, "NEXT") /\ Top # Frame(prev, "NEXT") /\ Top # Frame(prev, "JUMP")
  BY FrameIs
<1>3. \A x : Top = Frame(x, "COPY") => x = b
  BY FrameIs
<1>4. PICK h : h = blk'
  OBVIOUS
<1>5. /\ \A x \in Block : h[x].code = IF x = b THEN Len(Base(b)) + 1 ELSE blk[x].code
      /\ \A x \in Block : x # b => h[x].ops = blk[x].ops
      /\ ~Removes(b) => \A x \in Block : h[x].next = blk[x].next /\ h[x].jump = blk[x].jump
  BY <1>4 DEF LaysOut, Lays, Ops, SameLinks
<1>6. prev' = (IF blk[b].ops # <<>> THEN b ELSE prev) /\ entry' = entry
  BY DEF LaysOut
<1>7. blk[b].ops # <<>> => text' # <<>>
  <2>1. Len(text') = Len(Base(b)) + Len(blk[b].ops) /\ Len(Base(b)) \in Nat
    BY BaseIs DEF LaysOut
  <2>2. IsSeq(blk[b].ops)
    BY <1>1 DEF Graph
  <2>3. Len(blk[b].ops) \in Nat /\ (blk[b].ops # <<>> => Len(blk[b].ops) # 0)
    BY <2>2, SeqIs, SeqEmpty
  <2>4. Len(<<>>) = 0
    OBVIOUS
  <2> QED
    BY <2>1, <2>3, <2>4
<1>8. \A x \in L : \A s \in Succ(x) : s \in L /\ s \in Block /\ s # entry
  BY DEF Closed, Graph
<1>9. CASE b = entry /\ prev = 0 /\ (\A x \in L : blk[x].code = 0) /\ Laid(entry)
           /\ (blk[entry].next # 0 => blk[blk[entry].next].ops # <<>>)
  <2>1. ~Removes(b)
    BY <1>9 DEF Removes
  <2>2. CASE blk[entry].next = 0
    <3>1. PICK j : j = blk[entry].jump
      OBVIOUS
    <3>2. j # 0 /\ j \in Succ(entry)
      BY <1>1, <2>2, <3>1, SuccIs DEF Succ
    <3>3. blk[b].ops # <<>>
      BY <1>9, <2>2, <3>1, <3>2 DEF Laid
    <3>4. prev' = b /\ text' # <<>> /\ b # 0
      BY <1>1, <1>6, <1>7, <3>3
    <3>5. j \in L /\ j \in Block /\ j # b
      BY <1>8, <1>9, <3>2
    <3>6. h[b].next = 0 /\ h[b].jump = j /\ h[j].code = 0
      BY <1>1, <1>5, <1>9, <2>1, <2>2, <3>1, <3>5
    <3> QED
      BY <1>4, <3>2, <3>4, <3>6 DEF Early, Frame
  <2>3. CASE blk[entry].next # 0
    <3>1. PICK n : n = blk[entry].next
      OBVIOUS
    <3>2. n # 0 /\ n \in Succ(entry) /\ n \in Block /\ n # entry /\ blk[n].ops # <<>>
      BY <1>1, <1>9, <2>3, <3>1, SuccIs DEF Succ
    <3>3. blk[n].next = 0 /\ blk[n].jump \notin {0, n}
      BY <1>9, <2>3, <3>1 DEF Laid
    <3>4. prev' \in {0, entry}
      BY <1>6, <1>9
    <3>5. h[entry].next = n /\ h[n].ops # <<>> /\ h[n].next = 0 /\ h[n].jump \notin {0, n}
      BY <1>1, <1>5, <1>9, <2>1, <3>1, <3>2, <3>3
    <3>6. \A x \in L : x # entry => h[x].code = 0
      BY <1>5, <1>9
    <3>7. Laid(entry)'
      BY <1>4, <1>6, <3>2, <3>5 DEF Laid
    <3> QED
      BY <1>4, <1>6, <1>9, <3>2, <3>4, <3>5, <3>6, <3>7 DEF Early, Frame
  <2> QED
    BY <2>2, <2>3
<1>10. CASE b = blk[entry].next /\ prev \in {0, entry} /\ (\A x \in L : x # entry => blk[x].code = 0)
            /\ b # 0 /\ Laid(entry) /\ blk[b].ops # <<>>
  <2>1. ~Removes(b)
    BY <1>10 DEF Removes
  <2>2. PICK j : j = blk[b].jump
    OBVIOUS
  <2>3. blk[b].next = 0 /\ j \notin {0, b}
    BY <1>10, <2>2 DEF Laid
  <2>4. j \in Succ(b)
    BY <2>2, <2>3 DEF Succ
  <2>5. j \in L /\ j \in Block /\ j # entry
    BY <1>8, <2>4
  <2>6. prev' = b /\ text' # <<>>
    BY <1>6, <1>7, <1>10
  <2>7. h[b].next = 0 /\ h[b].jump = j /\ h[j].code = 0
    BY <1>1, <1>5, <1>10, <2>1, <2>2, <2>3, <2>5
  <2> QED
    BY <1>4, <1>10, <2>3, <2>6, <2>7 DEF Early, Frame
<1>11. CASE b = blk[prev].jump /\ prev # 0 /\ blk[prev].next = 0 /\ text # <<>>
  BY <1>11 DEF Removes
<1> QED
  BY <1>2, <1>3, <1>9, <1>10, <1>11 DEF Early


\* The step that lays out a block.
LEMMA CopyLaysKeeps ==
  ASSUME IsSeq(stack), stack # <<>>, Frames, Graph, IsSeq(text), codesize \in Nat,
         NEW L \in SUBSET Block, CopyInv(L),
         Top.at = "COPY", NEW b, b = Top.b, blk[b].code = 0, LaysOut(b), Goto(b, "NEXT")
  PROVE  IsSeq(stack') /\ Frames' /\ Graph' /\ IsSeq(text') /\ L \in SUBSET Block' /\ CopyInv(L)'
<1>1. /\ OnStack = Below \cup {Frame(b, "COPY")} /\ Top = Frame(b, "COPY") /\ b \in L /\ b \in Block
      /\ \A f \in Below : f.b \in L
  BY CopyTop DEF CopyInv
<1>2. /\ IsSeq(stack') /\ stack' # <<>> /\ Top' = Frame(b, "NEXT")
      /\ OnStack' = Below \cup {Frame(b, "NEXT")}
  BY GotoIs
<1>3. Frames'
  BY FramesKept
<1>4. PICK h : h = blk'
  OBVIOUS
<1>5. prev \in Block \cup {0} /\ b # ret /\ entry \in Block /\ ret \in Block /\ 0 \notin Block
  BY <1>1, SuccIs DEF CopyInv, Graph
<1>6. /\ Graph' /\ Block' = Block /\ \A x \in Block : Succ(x)' = Succ(x)
      /\ \A x \in Block : (x # prev \/ ~Removes(b)) => h[x].next = blk[x].next /\ h[x].jump = blk[x].jump
  BY <1>1, <1>4, <1>5, LaysOutGraph
<1>7. Closed(L)'
  <2>1. \A x \in L : Succ(x)' \subseteq L
    BY <1>6 DEF CopyInv, Closed
  <2>2. entry' = entry
    BY DEF LaysOut
  <2> QED
    BY <1>6, <2>1, <2>2 DEF CopyInv, Closed
<1>8. Counted(L)'
  BY <1>1, <1>5, LaysOutCounts DEF CopyInv
<1>9. /\ \A x \in Block : x # b => h[x].visited = blk[x].visited /\ h[x].code = blk[x].code /\ h[x].ops = blk[x].ops
      /\ ~h[b].visited
      /\ IsSeq(text') /\ entry' = entry /\ ret' = ret /\ codesize' = codesize
      /\ prev' \in Block \cup {0}
  BY <1>1, <1>4, <1>5 DEF LaysOut, Lays, Flag, Ops
<1>10. ASSUME NEW x \in L, ~h[x].visited, NEW s \in Succ(x)
       PROVE  ~h[s].visited \/ Awaits(x, s)'
  <2>1. x \in Block /\ s \in Block
    BY <1>10 DEF Graph
  <2>2. CASE s = b
    BY <1>9, <2>2
  <2>3. CASE x = b
    BY <1>2, <2>3 DEF Awaits, Frame
  <2>4. CASE s # b /\ x # b
    <3>1. ~blk[x].visited /\ h[s].visited = blk[s].visited
      BY <1>9, <1>10, <2>1, <2>4
    <3>2. ~blk[s].visited \/ Awaits(x, s)
      BY <1>10, <3>1 DEF CopyInv
    <3>3. Frame(s, "COPY") \in OnStack => Frame(s, "COPY") \in OnStack'
      BY <1>1, <1>2, <2>4, FrameIs
    <3>4. Frame(x, "NEXT") \in OnStack => Frame(x, "NEXT") \in OnStack'
      BY <1>1, <1>2, FrameIs
    <3>5. Frame(x, "JUMP") \in OnStack => Frame(x, "JUMP") \in OnStack'
      BY <1>1, <1>2, FrameIs
    <3>6. s = blk[x].jump => s = h[x].jump
      <4>1. x = prev /\ Removes(b) => blk[x].jump = b
        BY DEF Removes
      <4> QED
        BY <1>6, <2>1, <2>4, <4>1
    <3> QED
      BY <1>4, <3>1, <3>2, <3>3, <3>4, <3>5, <3>6 DEF Awaits, Frame
  <2> QED
    BY <2>2, <2>3, <2>4
<1>11. \A x \in L : ~h[x].visited => \A s \in Succ(x)' : ~h[s].visited \/ Awaits(x, s)'
  <2> TAKE x \in L
  <2>1. Succ(x)' = Succ(x)
    BY <1>6
  <2> QED
    BY <1>10, <2>1
<1>12. (Volume(L) <= codesize \/ (ret \notin L /\ Early(L) /\ Volume(L) <= codesize + 1))'
  <2>1. PICK v : v = Volume(L)
    OBVIOUS
  <2>2. PICK w : w = Volume(L)'
    OBVIOUS
  <2>3. v \in Nat /\ w \in Nat /\ w <= v /\ (Removes(b) /\ text # <<>> => w = v - 1)
    BY <1>1, <2>1, <2>2, LaysOutVolume
  <2>4. CASE v <= codesize
    <3>1. w <= codesize
      BY <2>3, <2>4
    <3> QED
      BY <1>9, <2>2, <3>1
  <2>5. CASE ret \notin L /\ Early(L) /\ v <= codesize + 1
    <3>1. Early(L)' \/ (Removes(b) /\ text # <<>>)
      BY <1>1, <1>2, <1>5, <2>5, LaysOutEarly DEF CopyInv
    <3>2. CASE Removes(b) /\ text # <<>>
      <4>1. w <= codesize
        BY <2>3, <2>5, <3>2
      <4> QED
        BY <1>9, <2>2, <4>1
    <3>3. CASE Early(L)'
      <4>1. w <= codesize + 1
        BY <2>3, <2>5
      <4> QED
        BY <1>9, <2>2, <2>5, <3>3, <4>1
    <3> QED
      BY <3>1, <3>2, <3>3
  <2> QED
    BY <2>1, <2>4, <2>5 DEF CopyInv
<1>13. (prev \in Block \cup {0} /\ blk[ret].ops = RET /\ blk[ret].code # 0)'
  BY <1>4, <1>5, <1>6, <1>9 DEF CopyInv
<1>14. \A x \in Block' \ {ret'} : blk'[x].code # 0 => ~blk'[x].visited
  <2>1. \A x \in Block \ {ret} : blk[x].code # 0 => ~blk[x].visited
    BY DEF CopyInv
  <2> QED
    BY <1>4, <1>6, <1>9, <2>1
<1>15. (~blk[entry].visited \/ Frame(entry, "COPY") \in OnStack)'
  <2>1. entry = b \/ Frame(entry, "COPY") # Frame(b, "COPY")
    BY FrameIs
  <2> QED
    BY <1>1, <1>2, <1>4, <1>5, <1>9, <2>1 DEF CopyInv, Frame
<1>16. \A f \in OnStack' : f.b \in L
  BY <1>1, <1>2, FrameIs
<1>17. CopyInv(L)'
  BY <1>4, <1>7, <1>8, <1>11, <1>12, <1>13, <1>14, <1>15, <1>16 DEF CopyInv
<1> QED
  BY <1>2, <1>3, <1>6, <1>9, <1>17

LEMMA CopyBlockKeeps ==
  ASSUME IsSeq(stack), Frames, Graph, IsSeq(text), codesize \in Nat,
         NEW L \in SUBSET Block, CopyInv(L), CopyBlock
  PROVE  IsSeq(stack') /\ Frames' /\ Graph' /\ IsSeq(text') /\ L \in SUBSET Block' /\ CopyInv(L)'
<1>1. /\ stack # <<>> /\ Top.at = "COPY" /\ entry' = entry /\ ret' = ret /\ codesize' = codesize
  BY DEF CopyBlock, AtCopy, At
<1>2. PICK b : b = Top.b
  OBVIOUS
<1>3. b \in Block
  BY <1>1, <1>2, CopyTop DEF CopyInv
<1>4. CASE blk[b].code # 0
  <2>1. blk' = [blk EXCEPT ![b].visited = FALSE] /\ Return /\ text' = text /\ prev' = prev
    BY <1>2, <1>4 DEF CopyBlock
  <2> QED
    BY <1>1, <1>2, <1>4, <2>1, CopyAgainKeeps
<1>5. CASE blk[b].code = 0
  <2>1. LaysOut(b) /\ Goto(b, "NEXT")
    BY <1>2, <1>3, <1>5, CopyBlockIs DEF CopyInv
  <2> QED
    BY <1>1, <1>2, <1>5, <2>1, CopyLaysKeeps
<1> QED
  BY <1>4, <1>5

LEMMA CopyKeeps ==
  ASSUME IsSeq(stack), Frames, Graph, IsSeq(text), codesize \in Nat,
         NEW L \in SUBSET Block, CopyInv(L), Copy
  PROVE  IsSeq(stack') /\ Frames' /\ Graph' /\ IsSeq(text') /\ L \in SUBSET Block' /\ CopyInv(L)'
BY CopyBlockKeeps, CopyNextKeeps, CopyJumpKeeps DEF Copy

\* The block of RET comes last.
LEMMA CopyRetKeeps ==
  ASSUME IsSeq(stack), Frames, Graph, IsSeq(text), codesize \in Nat,
         NEW L \in SUBSET Block, CopyRetInv(L), Copy
  PROVE  IsSeq(stack') /\ Frames' /\ Graph' /\ IsSeq(text') /\ L \in SUBSET Block' /\ CopyRetInv(L)'
<1>1. stack # <<>> /\ entry' = entry /\ ret' = ret /\ codesize' = codesize
  BY DEF Copy, CopyBlock, CopyNext, CopyJump, AtCopy, At
<1>2. PICK b : b = Top.b
  OBVIOUS
<1>3. OnStack = Below \cup {Top} /\ b = ret /\ ret \in Block /\ entry \in Block
  <2>1. OnStack = Below \cup {Top}
    BY <1>1, StackIs
  <2> QED
    BY <1>2, <2>1 DEF CopyRetInv, Graph
<1>4. blk[b].next = 0 /\ blk[b].jump = 0
  BY <1>3, SuccIs
<1>5. ASSUME blk' = blk, text' = text, prev' = prev, Goto(b, "JUMP") \/ Return
      PROVE  IsSeq(stack') /\ Frames' /\ Graph' /\ IsSeq(text') /\ L \in SUBSET Block' /\ CopyRetInv(L)'
  <2>1. IsSeq(stack') /\ \A f \in OnStack' : f \in Below \/ f = Frame(b, "JUMP")
    BY <1>1, <1>5, GotoIs, ReturnIs
  <2>2. Frames'
    BY <1>1, <1>5, FramesKept
  <2>3. Block' = Block /\ Graph' /\ \A x : Succ(x)' = Succ(x)
    BY <1>1, <1>5, Untouched
  <2>4. Volume(L)' = Volume(L)
    BY <1>1, <1>3, <1>5, VolumeSame DEF SameOps
  <2>5. \A f \in OnStack' : f.b = ret
    BY <1>3, <2>1, FrameIs DEF CopyRetInv
  <2>6. CopyRetInv(L)'
    BY <1>1, <1>5, <2>3, <2>4, <2>5 DEF CopyRetInv, Closed
  <2> QED
    BY <1>5, <2>1, <2>2, <2>3, <2>6
<1>6. CASE CopyBlock
  <2>1. CASE blk[b].code # 0
    <3>1. blk' = [blk EXCEPT ![b].visited = FALSE] /\ Return /\ text' = text /\ prev' = prev
      BY <1>2, <1>6, <2>1 DEF CopyBlock
    <3>2. IsSeq(stack') /\ OnStack' = Below
      BY <1>1, <3>1, ReturnIs
    <3>3. Frames'
      BY <1>1, <3>1, FramesKept
    <3>4. PICK h : h = blk'
      OBVIOUS
    <3>5. Size(h) /\ SameLinks(h) /\ SameCounts(h) /\ SameOps(h) /\ SamePlaces(h) /\ Flag(h, b, FALSE)
      BY <1>3, <3>1, <3>4, MarkEffect
    <3>6. Graph' /\ Block' = Block /\ \A x \in Block : Succ(x)' = Succ(x)
      <4>1. \A x \in Block : /\ IsSeq(h[x].ops) /\ h[x].incoming \in Int
                             /\ h[x].visited \in BOOLEAN /\ h[x].code \in Nat
        BY <3>5 DEF SameCounts, SameOps, SamePlaces, Flag, Graph
      <4> QED
        BY <1>1, <3>4, <3>5, <4>1, Unlinked
    <3>7. Volume(L)' = Volume(L)
      BY <1>1, <1>3, <3>1, <3>4, <3>5, VolumeSame
    <3>8. \A x \in L : ~h[x].visited
      BY <3>5 DEF Flag, CopyRetInv
    <3>9. CopyRetInv(L)'
      BY <1>1, <1>3, <3>1, <3>2, <3>4, <3>6, <3>7, <3>8 DEF CopyRetInv, Closed
    <3> QED
      BY <3>1, <3>2, <3>3, <3>6, <3>9
  <2>2. CASE blk[b].code = 0
    <3>1. LaysOut(b) /\ Goto(b, "NEXT")
      BY <1>2, <1>3, <1>6, <2>2, CopyBlockIs DEF CopyRetInv
    <3>2. IsSeq(stack') /\ OnStack' = Below \cup {Frame(b, "NEXT")}
      BY <1>1, <3>1, GotoIs
    <3>3. Frames'
      BY <1>1, <3>1, FramesKept
    <3>4. Graph' /\ Block' = Block /\ \A x \in Block : Succ(x)' = Succ(x)
      BY <1>3, <3>1, LaysOutGraph DEF CopyRetInv
    <3>5. PICK h : h = blk'
      OBVIOUS
    <3>6. (\A x \in L : ~h[x].visited) /\ IsSeq(text') /\ prev' \in Block \cup {0}
      BY <1>3, <3>1, <3>5 DEF LaysOut, Lays, Flag, CopyRetInv
    <3>7. (Volume(L) <= codesize)'
      <4>1. PICK v : v = Volume(L)
        OBVIOUS
      <4>2. PICK w : w = Volume(L)'
        OBVIOUS
      <4>3. v \in Nat /\ w \in Nat /\ w <= v
        BY <1>3, <3>1, <4>1, <4>2, LaysOutVolume
      <4>4. w <= codesize
        BY <4>1, <4>3 DEF CopyRetInv
      <4> QED
        BY <1>1, <4>2, <4>4
    <3>8. \A f \in OnStack' : f.b = ret
      BY <1>3, <3>2, FrameIs DEF CopyRetInv
    <3>9. CopyRetInv(L)'
      BY <1>1, <3>4, <3>5, <3>6, <3>7, <3>8 DEF CopyRetInv, Closed
    <3> QED
      BY <3>2, <3>3, <3>4, <3>6, <3>9
  <2> QED
    BY <2>1, <2>2
<1>7. CASE CopyNext
  <2>1. blk' = blk /\ text' = text /\ prev' = prev /\ Goto(b, "JUMP")
    BY <1>2, <1>4, <1>7 DEF CopyNext
  <2> QED
    BY <1>5, <2>1
<1>8. CASE CopyJump
  <2>1. blk' = blk /\ text' = text /\ prev' = prev /\ Return
    BY <1>2, <1>4, <1>8 DEF CopyJump
  <2> QED
    BY <1>5, <2>1
<1> QED
  BY <1>6, <1>7, <1>8 DEF Copy


-------------------------------------------------------------------------------
(* From one pass to the next.                                                  *)

\* Part of a counted set is counted.
LEMMA CountedPart ==
  ASSUME Graph, NEW L \in SUBSET Block, Counted(L), NEW K, K \subseteq L
  PROVE  Counted(K)
<1>1. IsFiniteSet(L)
  BY BlockFinite, FS_Subset
<1>2. \A t \in Block : blk[t].incoming \in Int
  BY DEF Graph
<1>3. \A t \in Block : Enter(blk, t, K) \in Nat /\ Enter(blk, t, L) \in Nat /\ Enter(blk, t, K) <= Enter(blk, t, L)
  BY <1>1, EnterMonotone
<1>4. \A t \in Block : blk[t].incoming = 0 \/ blk[t].incoming >= Enter(blk, t, L)
  BY EnteringIs DEF Counted
<1>5. \A t \in Block : blk[t].incoming = 0 \/ blk[t].incoming >= Enter(blk, t, K)
  BY <1>2, <1>3, <1>4
<1> QED
  BY <1>5, EnteringIs DEF Counted

LEMMA BuiltGraph ==
  ASSUME Built
  PROVE  Graph /\ AllTold /\ Unplaced /\ blk[ret].ops = RET /\ \A x \in Block : ~blk[x].visited
<1>1. Blocks(blk) /\ entry \in Block /\ ret \in Block /\ entry # ret
  BY DEF Built, Blocks, Block
<1>2. ASSUME NEW b \in Block
      PROVE  /\ IsSeq(blk[b].ops) /\ Succ(b) \subseteq Block \ {entry} /\ (Succ(b) = {} <=> b = ret)
             /\ blk[b].incoming \in Nat /\ blk[b].incoming >= Entering(b, Block)
             /\ blk[b].code = 0 /\ ~blk[b].visited
  BY DEF Built
<1>3. Graph
  <2>1. \A b \in Block : blk[b].incoming \in Int /\ blk[b].code \in Nat
    BY <1>2
  <2>2. ASSUME NEW b \in Block
        PROVE  blk[b].visited \in BOOLEAN
    <3>1. blk[b].visited = FALSE
      BY DEF Built
    <3>2. FALSE \in BOOLEAN
      OBVIOUS
    <3> QED
      BY <3>1, <3>2, Zenon
  <2> QED
    BY <1>1, <1>2, <2>1, <2>2 DEF Graph
<1>4. blk[ret].ops = RET
  BY DEF Built, RET
<1> QED
  BY <1>2, <1>3, <1>4 DEF AllTold, Unplaced

LEMMA Strip0Starts ==
  ASSUME stack = <<>>, Built, blk' = blk, entry' = entry, ret' = ret, stack' = <<Frame(entry, "TAIL")>>
  PROVE  IsSeq(stack') /\ Frames' /\ Graph' /\ Strip0Inv' /\ Unplaced' /\ blk'[ret].ops = RET
<1>1. Graph /\ AllTold /\ Unplaced /\ blk[ret].ops = RET /\ \A x \in Block : ~blk[x].visited
  BY BuiltGraph
<1>2. /\ IsSeq(stack') /\ stack' # <<>> /\ Below' = {} /\ Top' = Frame(entry, "TAIL")
      /\ OnStack' = {Frame(entry, "TAIL")}
  BY StartIs
<1>3. /\ Block' = Block /\ Graph' /\ \A x : Succ(x)' = Succ(x)
      /\ \A t, K : Entering(t, K)' = Entering(t, K)
  BY <1>1, Untouched
<1>4. Frames'
  BY <1>2, FrameIs DEF Frames, Frame
<1>5. AllTold' /\ Unplaced'
  BY <1>1, <1>3 DEF AllTold, Unplaced
<1>6. Strip0Frames'
  <2>1. entry \in Block
    BY <1>1 DEF Graph
  <2> QED
    BY <1>2, <1>3, <2>1, FrameIs DEF Strip0Frames
<1>7. Strip0Marks'
  <2>1. Begins(entry)'
    BY <1>2, FrameIs DEF Begins
  <2> QED
    BY <1>1, <1>3, <2>1 DEF Strip0Marks, Begins
<1> QED
  BY <1>1, <1>2, <1>3, <1>4, <1>5, <1>6, <1>7 DEF Strip0Inv

\* A pass that has ended leaves the flags of a closed set of blocks alike.
LEMMA Strip0Ends ==
  ASSUME stack = <<>>, Graph, Strip0Inv, NEW K, K = {x \in Block : blk[x].visited}
  PROVE  Closed(K) /\ Counted(K)
<1>1. ~Begins(entry) /\ (\A x : ~Begins(x) /\ ~Stripping(x)) /\ OnStack = {}
  BY EmptyStack DEF Begins, Stripping
<1>2. entry \in K
  BY <1>1 DEF Strip0Inv, Strip0Marks, Graph
<1>3. ASSUME NEW x \in K
      PROVE  Succ(x) \subseteq K
  <2>1. x \in Block /\ blk[x].visited /\ Succ(x) \subseteq Block
    BY DEF Graph
  <2>2. \A s \in Succ(x) : blk[s].visited
    BY <1>1, <2>1 DEF Strip0Inv, Strip0Marks
  <2> QED
    BY <2>1, <2>2
<1>4. Counted(Block)
  BY DEF Strip0Inv, AllTold, Counted
<1>5. Counted(K)
  <2>1. K \subseteq Block
    OBVIOUS
  <2> QED
    BY <1>4, <2>1, CountedPart
<1> QED
  BY <1>2, <1>3, <1>5 DEF Closed

LEMMA Strip1Ends ==
  ASSUME stack = <<>>, Graph, NEW L \in SUBSET Block, Strip1Inv(L), NEW K, K = {x \in L : ~blk[x].visited}
  PROVE  Closed(K) /\ Counted(K)
<1>1. \A x : ~Pends(x)
  BY EmptyStack DEF Pends
<1>2. entry \in K
  BY <1>1 DEF Strip1Inv, Closed
<1>3. ASSUME NEW x \in K
      PROVE  Succ(x) \subseteq K
  <2>1. x \in L /\ ~blk[x].visited /\ Succ(x) \subseteq L
    BY DEF Strip1Inv, Closed
  <2>2. \A s \in Succ(x) : ~blk[s].visited
    BY <1>1, <2>1 DEF Strip1Inv
  <2> QED
    BY <2>1, <2>2
<1>4. Counted(K)
  <2>1. K \subseteq L
    OBVIOUS
  <2> QED
    BY <2>1, CountedPart DEF Strip1Inv
<1> QED
  BY <1>2, <1>3, <1>4 DEF Closed

LEMMA SizeEnds ==
  ASSUME stack = <<>>, Graph, NEW L \in SUBSET Block, SizeInv(L), NEW K, K = Marked(L)
  PROVE  Closed(K) /\ Counted(K) /\ \A x \in K : x \in Block /\ blk[x].visited /\ Laid(x)
<1>1. \A x : ~Pends(x)
  BY EmptyStack DEF Pends
<1>2. \A x \in K : x \in L /\ x \in Block /\ blk[x].visited /\ Laid(x)
  BY DEF SizeInv, Marked
<1>3. entry \in K
  BY <1>1 DEF SizeInv, Closed, Marked
<1>4. ASSUME NEW x \in K
      PROVE  Succ(x) \subseteq K
  <2>1. Succ(x) \subseteq L /\ \A s \in Succ(x) : blk[s].visited
    BY <1>1, <1>2 DEF SizeInv, Closed
  <2> QED
    BY <2>1 DEF Marked
<1>5. Counted(K)
  <2>1. K \subseteq L
    BY <1>2
  <2> QED
    BY <2>1, CountedPart DEF SizeInv
<1> QED
  BY <1>2, <1>3, <1>4, <1>5 DEF Closed

LEMMA CopyEnds ==
  ASSUME stack = <<>>, Graph, NEW L \in SUBSET Block, CopyInv(L), NEW K, K = {x \in L : ~blk[x].visited}
  PROVE  Closed(K)
<1>1. OnStack = {} /\ \A x, s : ~Awaits(x, s)
  BY EmptyStack DEF Awaits
<1>2. entry \in K
  BY <1>1 DEF CopyInv, Closed
<1>3. ASSUME NEW x \in K
      PROVE  Succ(x) \subseteq K
  <2>1. x \in L /\ ~blk[x].visited /\ Succ(x) \subseteq L
    BY DEF CopyInv, Closed
  <2>2. \A s \in Succ(x) : ~blk[s].visited
    BY <1>1, <2>1 DEF CopyInv
  <2> QED
    BY <2>1, <2>2
<1>4. K \subseteq Block
  OBVIOUS
<1> QED
  BY <1>2, <1>3, <1>4 DEF Closed

\* The pass begins with a set of blocks that is as the one before left it.
LEMMA SetKept ==
  ASSUME Graph, entry' = entry, ret' = ret, Size(blk'), SameLinks(blk'), SameCounts(blk'), SameOps(blk'),
         SameFlags(blk'), \A x \in Block : blk'[x].code \in Nat,
         NEW K \in SUBSET Block
  PROVE  /\ Graph' /\ Block' = Block
         /\ Closed(K) => Closed(K)'
         /\ Counted(K) => Counted(K)'
<1>1. PICK h : h = blk'
  OBVIOUS
<1>2. Size(h) /\ SameLinks(h) /\ SameCounts(h) /\ SameOps(h) /\ SameFlags(h) /\ \A x \in Block : h[x].code \in Nat
  BY <1>1
<1>3. Graph' /\ Block' = Block /\ \A x \in Block : Succ(x)' = Succ(x)
  <2>1. \A x \in Block : /\ IsSeq(h[x].ops) /\ h[x].incoming \in Int
                         /\ h[x].visited \in BOOLEAN /\ h[x].code \in Nat
    BY <1>2 DEF SameCounts, SameOps, SameFlags, Graph
  <2> QED
    BY <1>1, <1>2, <2>1, Unlinked
<1>4. Closed(K) => Closed(K)'
  <2> SUFFICES ASSUME Closed(K) PROVE Closed(K)'
    OBVIOUS
  <2>1. \A x \in K : Succ(x)' \subseteq K
    BY <1>3 DEF Closed
  <2> QED
    BY <1>3, <2>1 DEF Closed
<1>5. Counted(K) => Counted(K)'
  <2> SUFFICES ASSUME Counted(K) PROVE Counted(K)'
    OBVIOUS
  <2>1. \A t : Enter(h, t, K) = Enter(blk, t, K)
    BY <1>2, EnterSame DEF SameLinks
  <2>2. \A t \in Block : h[t].incoming = 0 \/ h[t].incoming >= Enter(h, t, K)
    BY <1>2, <2>1, EnteringIs DEF Counted, SameCounts
  <2> QED
    BY <1>1, <1>3, <2>2 DEF Counted, Entering, Enter, NextIn, JumpIn
<1> QED
  BY <1>3, <1>4, <1>5


LEMMA Strip1Starts ==
  ASSUME stack = <<>>, Graph, Strip0Inv, blk' = blk, entry' = entry, ret' = ret,
         stack' = <<Frame(entry, "TAIL")>>
  PROVE  IsSeq(stack') /\ Frames' /\ Graph' /\ (\E L \in SUBSET Block' : Strip1Inv(L)') /\ (Unplaced => Unplaced')
<1>1. PICK K : K = {x \in Block : blk[x].visited}
  OBVIOUS
<1>2. Closed(K) /\ Counted(K)
  BY <1>1, Strip0Ends
<1>3. /\ IsSeq(stack') /\ OnStack' = {Frame(entry, "TAIL")}
  BY StartIs
<1>4. /\ Block' = Block /\ Graph' /\ \A x : Succ(x)' = Succ(x)
      /\ \A t, L : Entering(t, L)' = Entering(t, L)
  BY Untouched
<1>5. Frames'
  BY <1>3, FrameIs DEF Frames, Frame
<1>6. Closed(K)' /\ Counted(K)' /\ K \in SUBSET Block'
  BY <1>1, <1>2, <1>4 DEF Closed, Counted
<1>7. \A f \in OnStack' : f.at = "TAIL" /\ f.b \in K /\ Led(f.b, K)'
  BY <1>2, <1>3, FrameIs DEF Closed, Led
<1>8. Pends(entry)'
  BY <1>3, FrameIs DEF Pends
<1>9. \A x \in K : blk'[x].visited
  BY <1>1
<1>10. Strip1Inv(K)'
  BY <1>6, <1>7, <1>8, <1>9 DEF Strip1Inv
<1> QED
  BY <1>3, <1>4, <1>5, <1>6, <1>10, UnplacedKept

LEMMA SizeStarts ==
  ASSUME stack = <<>>, Graph, codesize \in Nat, NEW L \in SUBSET Block, Strip1Inv(L),
         blk' = blk, entry' = entry, ret' = ret, codesize' = codesize, stack' = <<Frame(entry, "TAIL")>>
  PROVE  IsSeq(stack') /\ Frames' /\ Graph' /\ (\E K \in SUBSET Block' : SizeInv(K)') /\ (Unplaced => Unplaced')
<1>1. PICK K : K = {x \in L : ~blk[x].visited}
  OBVIOUS
<1>2. Closed(K) /\ Counted(K)
  BY <1>1, Strip1Ends
<1>3. /\ IsSeq(stack') /\ OnStack' = {Frame(entry, "TAIL")}
  BY StartIs
<1>4. /\ Block' = Block /\ Graph' /\ \A x : Succ(x)' = Succ(x)
      /\ \A t, M : Entering(t, M)' = Entering(t, M)
  BY Untouched
<1>5. Frames'
  BY <1>3, FrameIs DEF Frames, Frame
<1>6. Closed(K)' /\ Counted(K)' /\ K \in SUBSET Block'
  BY <1>1, <1>2, <1>4 DEF Closed, Counted
<1>7. \A f \in OnStack' : f.at = "TAIL" /\ f.b \in K \cup {0}
  BY <1>2, <1>3, FrameIs DEF Closed
<1>8. Pends(entry)'
  BY <1>3, FrameIs DEF Pends
<1>9. Marked(K)' = {}
  BY <1>1 DEF Marked
<1>10. (Cardinality(Pieces(blk, Marked(K))) <= codesize)'
  <2>1. Pieces(blk', {}) = {}
    BY DEF Pieces
  <2>2. Cardinality(Pieces(blk', {})) = 0
    BY <2>1, FS_EmptySet
  <2> QED
    BY <1>9, <2>2
<1>11. SizeInv(K)'
  BY <1>6, <1>7, <1>8, <1>9, <1>10 DEF SizeInv
<1> QED
  BY <1>3, <1>4, <1>5, <1>6, <1>11, UnplacedKept

\* The RET has one instruction.
LEMMA RetVolume ==
  ASSUME Graph, blk[ret].ops = RET, NEW K \in SUBSET Block
  PROVE  /\ Cardinality(Pieces(blk, K \cup {ret})) \in Nat /\ Cardinality(Pieces(blk, K)) \in Nat
         /\ ret \in K => Cardinality(Pieces(blk, K \cup {ret})) = Cardinality(Pieces(blk, K))
         /\ ret \notin K => Cardinality(Pieces(blk, K \cup {ret})) = Cardinality(Pieces(blk, K)) + 1
<1>1. IsFiniteSet(K) /\ ret \in Block /\ \A x \in Block : IsSeq(blk[x].ops)
  BY BlockFinite, FS_Subset DEF Graph
<1>2. CASE ret \in K
  <2>1. K \cup {ret} = K
    BY <1>2
  <2>2. Cardinality(Pieces(blk, K)) \in Nat
    BY <1>1, PiecesFinite
  <2> QED
    BY <1>2, <2>1, <2>2
<1>3. CASE ret \notin K
  <2>1. \A x \in K \cup {ret} : IsSeq(blk[x].ops)
    BY <1>1
  <2>2. /\ Cardinality(Pieces(blk, K \cup {ret})) = Cardinality(Pieces(blk, K)) + Len(blk[ret].ops)
        /\ Cardinality(Pieces(blk, K \cup {ret})) \in Nat /\ Cardinality(Pieces(blk, K)) \in Nat
    BY <1>1, <1>3, <2>1, PiecesMore
  <2>3. Len(blk[ret].ops) = 1
    BY SeqOne DEF RET
  <2> QED
    BY <1>3, <2>2, <2>3
<1> QED
  BY <1>2, <1>3

LEMMA CopyStarts ==
  ASSUME stack = <<>>, Graph, codesize \in Nat, Fresh, Unplaced, blk[ret].ops = RET,
         NEW L \in SUBSET Block, SizeInv(L),
         blk' = [blk EXCEPT ![ret].code = 1], entry' = entry, ret' = ret, codesize' = codesize,
         prev' = prev, text' = text, stack' = <<Frame(entry, "COPY")>>
  PROVE  IsSeq(stack') /\ Frames' /\ Graph' /\ (\E K \in SUBSET Block' : CopyInv(K)')
<1>1. PICK K : K = Marked(L)
  OBVIOUS
<1>2. Closed(K) /\ Counted(K) /\ \A x \in K : x \in Block /\ blk[x].visited /\ Laid(x)
  BY <1>1, SizeEnds
<1>3. entry \in Block /\ ret \in Block /\ entry # ret /\ entry \in K /\ K \in SUBSET Block
  BY <1>2 DEF Graph, Closed
<1>4. /\ IsSeq(stack') /\ stack' # <<>> /\ Top' = Frame(entry, "COPY") /\ OnStack' = {Frame(entry, "COPY")}
  BY StartIs
<1>5. Frames'
  BY <1>4, FrameIs DEF Frames, Frame
<1>6. PICK h : h = blk'
  OBVIOUS
<1>7. /\ Size(h) /\ SameLinks(h) /\ SameCounts(h) /\ SameOps(h) /\ SameFlags(h)
      /\ \A x \in Block : h[x].code = IF x = ret THEN 1 ELSE blk[x].code
  <2>1. PICK v : v = 1
    OBVIOUS
  <2>2. h = [blk EXCEPT ![ret].code = v]
    BY <1>6, <2>1
  <2>3. Graph /\ ret \in Block
    BY <1>3
  <2>4. Size(h) /\ SameLinks(h) /\ SameCounts(h) /\ SameOps(h) /\ SameFlags(h) /\ CodeAt(h, ret, v)
    BY <2>2, <2>3, PlaceEffect
  <2> QED
    BY <2>1, <2>4 DEF CodeAt
<1>8. \A x \in Block : h[x].code = IF x = ret THEN 1 ELSE 0
  BY <1>7 DEF Unplaced
<1>9. Graph' /\ Block' = Block /\ Closed(K)' /\ Counted(K)'
  BY <1>2, <1>3, <1>6, <1>7, <1>8, SetKept
<1>10. \A x \in Block : /\ h[x].next = blk[x].next /\ h[x].jump = blk[x].jump /\ h[x].ops = blk[x].ops
                        /\ h[x].visited = blk[x].visited
  BY <1>7 DEF SameLinks, SameOps, SameFlags
<1>11. (prev \in Block \cup {0} /\ blk[ret].ops = RET /\ blk[ret].code # 0)'
  BY <1>3, <1>6, <1>8, <1>10 DEF Fresh
<1>12. \A x \in Block' \ {ret'} : blk'[x].code # 0 => ~blk'[x].visited
  BY <1>6, <1>8, <1>9
<1>13. \A x \in K : blk'[x].visited
  BY <1>2, <1>3, <1>6, <1>10
<1>14. (Frame(entry, "COPY") \in OnStack)' /\ \A f \in OnStack' : f.b \in K
  BY <1>3, <1>4, FrameIs DEF Frame
<1>15. PICK p : p = Cardinality(Pieces(blk, K))
  OBVIOUS
<1>16. PICK q : q = Cardinality(Pieces(blk, K \cup {ret}))
  OBVIOUS
<1>17. /\ p \in Nat /\ q \in Nat /\ p <= codesize
       /\ ret \in K => q = p
       /\ ret \notin K => q = p + 1
  BY <1>1, <1>3, <1>15, <1>16, RetVolume DEF SizeInv
<1>18. Volume(K)' = q
  <2>1. Volume(K)' = Volume(K)
    BY <1>3, <1>6, <1>7, VolumeSame
  <2>2. Volume(K) = Len(text) + q
    BY <1>16 DEF Volume
  <2>3. Len(text) = 0
    BY DEF Fresh
  <2> QED
    BY <1>17, <2>1, <2>2, <2>3
<1>19. ret \notin K => Early(K)'
  <2> SUFFICES ASSUME ret \notin K PROVE Early(K)'
    OBVIOUS
  <2>1. \A x \in K : h[x].code = 0
    BY <1>3, <1>8
  <2>2. Laid(entry)'
    <3>1. Laid(entry)
      BY <1>2, <1>3
    <3>2. h[entry].next = blk[entry].next /\ h[entry].jump = blk[entry].jump /\ h[entry].ops = blk[entry].ops
      BY <1>3, <1>10
    <3>3. blk[entry].next # 0 => /\ h[blk[entry].next].next = blk[blk[entry].next].next
                                 /\ h[blk[entry].next].jump = blk[blk[entry].next].jump
      BY <1>3, <1>10, SuccIs
    <3>4. Laid(entry) <=> IF h[entry].next = 0 THEN h[entry].jump # 0 => h[entry].ops # <<>>
                          ELSE h[h[entry].next].next = 0 /\ h[h[entry].next].jump \notin {0, h[entry].next}
      BY <3>2, <3>3 DEF Laid
    <3> QED
      BY <1>6, <3>1, <3>4 DEF Laid
  <2>3. h[entry].next # 0 => h[h[entry].next].ops # <<>>
    <3> SUFFICES ASSUME h[entry].next # 0 PROVE h[h[entry].next].ops # <<>>
      OBVIOUS
    <3>1. PICK n : n = blk[entry].next
      OBVIOUS
    <3>2. n # 0 /\ h[entry].next = n /\ n \in Succ(entry)
      BY <1>3, <1>10, <3>1 DEF Succ
    <3>3. n \in K /\ n \in Block /\ Laid(n) /\ Laid(entry)
      BY <1>2, <1>3, <3>2 DEF Closed
    <3>4. blk[n].next = 0 /\ blk[n].jump # 0
      BY <3>1, <3>2, <3>3 DEF Laid
    <3>5. blk[n].ops # <<>>
      BY <3>3, <3>4 DEF Laid
    <3> QED
      BY <1>10, <3>2, <3>3, <3>5
  <2> QED
    BY <1>4, <1>6, <2>1, <2>2, <2>3 DEF Early, Frame, Fresh
<1>20. (Volume(K) <= codesize \/ (ret \notin K /\ Early(K) /\ Volume(K) <= codesize + 1))'
  <2>1. CASE ret \in K
    <3>1. q <= codesize
      BY <1>17, <2>1
    <3> QED
      BY <1>18, <3>1
  <2>2. CASE ret \notin K
    <3>1. q <= codesize + 1
      BY <1>17, <2>2
    <3> QED
      BY <1>18, <1>19, <2>2, <3>1
  <2> QED
    BY <2>1, <2>2
<1>21. CopyInv(K)'
  BY <1>9, <1>11, <1>12, <1>13, <1>14, <1>20 DEF CopyInv
<1> QED
  BY <1>3, <1>4, <1>5, <1>9, <1>21

LEMMA CopyRetStarts ==
  ASSUME stack = <<>>, Graph, codesize \in Nat, IsSeq(text),
         NEW L \in SUBSET Block, CopyInv(L),
         blk' = [blk EXCEPT ![ret].code = 0], entry' = entry, ret' = ret, codesize' = codesize,
         prev' = prev, text' = text, stack' = <<Frame(ret, "COPY")>>
  PROVE  IsSeq(stack') /\ Frames' /\ Graph' /\ (\E K \in SUBSET Block' : CopyRetInv(K)')
<1>1. PICK K : K = {x \in L : ~blk[x].visited}
  OBVIOUS
<1>2. Closed(K) /\ K \in SUBSET Block /\ K \subseteq L /\ ret \in Block
  BY <1>1, CopyEnds DEF Graph
<1>3. /\ IsSeq(stack') /\ OnStack' = {Frame(ret, "COPY")}
  BY StartIs
<1>4. Frames'
  BY <1>3, FrameIs DEF Frames, Frame
<1>5. PICK h : h = blk'
  OBVIOUS
<1>6. /\ Size(h) /\ SameLinks(h) /\ SameCounts(h) /\ SameOps(h) /\ SameFlags(h)
      /\ \A x \in Block : h[x].code = IF x = ret THEN 0 ELSE blk[x].code
  <2>1. PICK v : v = 0
    OBVIOUS
  <2>2. h = [blk EXCEPT ![ret].code = v]
    BY <1>5, <2>1
  <2>3. Graph /\ ret \in Block
    BY <1>2
  <2>4. Size(h) /\ SameLinks(h) /\ SameCounts(h) /\ SameOps(h) /\ SameFlags(h) /\ CodeAt(h, ret, v)
    BY <2>2, <2>3, PlaceEffect
  <2> QED
    BY <2>1, <2>4 DEF CodeAt
<1>7. \A x \in Block : h[x].code \in Nat
  BY <1>6 DEF Graph
<1>8. Graph' /\ Block' = Block /\ Closed(K)'
  BY <1>2, <1>5, <1>6, <1>7, SetKept
<1>9. \A x \in K : ~h[x].visited
  BY <1>1, <1>6 DEF SameFlags
<1>10. (Volume(K) <= codesize)'
  <2>1. Volume(K)' = Volume(K)
    BY <1>2, <1>5, <1>6, VolumeSame
  <2>2. ~Early(L)
    BY DEF Early
  <2>3. Volume(L) <= codesize
    BY <2>2 DEF CopyInv
  <2>4. IsFiniteSet(L \cup {ret}) /\ \A x \in L \cup {ret} : IsSeq(blk[x].ops)
    <3>1. L \cup {ret} \subseteq Block
      BY <1>2
    <3>2. IsFiniteSet(L \cup {ret})
      BY <3>1, BlockFinite, FS_Subset
    <3> QED
      BY <3>1, <3>2 DEF Graph
  <2>5. PICK M : M = L \cup {ret}
    OBVIOUS
  <2>6. PICK N : N = K \cup {ret}
    OBVIOUS
  <2>7. IsFiniteSet(M) /\ N \subseteq M /\ IsFiniteSet(N)
        /\ (\A x \in M : IsSeq(blk[x].ops)) /\ \A x \in N : IsSeq(blk[x].ops)
    BY <1>2, <2>4, <2>5, <2>6, FS_Subset
  <2>8. PICK m : m = Cardinality(Pieces(blk, M))
    OBVIOUS
  <2>9. PICK n : n = Cardinality(Pieces(blk, N))
    OBVIOUS
  <2>10. m \in Nat /\ n \in Nat /\ n <= m
    BY <2>7, <2>8, <2>9, PiecesFinite, PiecesSubset
  <2>11. Volume(L) = Len(text) + m /\ Volume(K) = Len(text) + n /\ Len(text) \in Nat
    BY <2>5, <2>6, <2>8, <2>9, SeqIs DEF Volume
  <2>12. Volume(K) <= codesize
    BY <2>3, <2>10, <2>11
  <2> QED
    BY <2>1, <2>12
<1>11. CopyRetInv(K)'
  BY <1>3, <1>5, <1>8, <1>9, <1>10, FrameIs DEF CopyRetInv, CopyInv
<1> QED
  BY <1>2, <1>3, <1>4, <1>8, <1>11


-------------------------------------------------------------------------------
(* The invariant.                                                              *)

\* A jump filled in.
Filled(s, k, v) == [s EXCEPT ![k].to = v]

LEMMA FilledIs ==
  ASSUME NEW s, IsSeq(s), NEW k, NEW v, NEW t, t = Filled(s, k, v)
  PROVE  IsSeq(t) /\ Len(t) = Len(s)
<1>1. Len(s) \in Nat /\ DOMAIN s = 1..Len(s)
  BY SeqIs
<1> DEFINE R == {t[i] : i \in 1..Len(s)}
<1>2. t = [i \in 1..Len(s) |-> t[i]]
  BY <1>1 DEF Filled
<1>3. t \in [1..Len(s) -> R]
  BY <1>2
<1> HIDE DEF R
<1> QED
  BY <1>1, <1>3, SeqFunction

LEMMA SetjumpKeeps ==
  ASSUME IsSeq(stack), Frames, IsSeq(text), CodeFits, Setjump
  PROVE  IsSeq(stack') /\ Frames' /\ IsSeq(text') /\ CodeFits'
<1>1. stack # <<>> /\ codesize' = codesize
  BY DEF Setjump, At
<1>2. PICK b : b = Top.b
  OBVIOUS
<1>3. PICK n : n = blk[b].next
  OBVIOUS
<1>4. PICK j : j = blk[b].jump
  OBVIOUS
<1>5. /\ Return \/ Goto(n, "LOOP") \/ Call(n, "LOOP", j, "LOOP")
      /\ text' = text \/ text' = [text EXCEPT ![blk[b].opjmp].to = blk[j].code]
  BY <1>2, <1>3, <1>4, Zenon DEF Setjump
<1>6. IsSeq(stack') /\ Frames'
  BY <1>1, <1>5, ReturnIs, GotoIs, CallIs, FramesKept
<1>7. IsSeq(text') /\ Len(text') = Len(text)
  <2>1. PICK t : t = text'
    OBVIOUS
  <2>2. PICK k : k = blk[b].opjmp
    OBVIOUS
  <2>3. PICK v : v = blk[j].code
    OBVIOUS
  <2>4. t = text \/ t = [text EXCEPT ![k].to = v]
    BY <1>5, <2>1, <2>2, <2>3
  <2>5. CASE t = text
    BY <2>1, <2>5
  <2>6. CASE t = [text EXCEPT ![k].to = v]
    <3>0. t = Filled(text, k, v)
      BY <2>6, Zenon DEF Filled
    <3>1. IsSeq(t) /\ Len(t) = Len(text)
      BY <3>0, FilledIs
    <3> QED
      BY <2>1, <3>1
  <2> QED
    BY <2>4, <2>5, <2>6
<1> QED
  BY <1>1, <1>6, <1>7 DEF CodeFits

\* Once the RET is laid out there is nothing left to lay out.
LEMMA VolumeFits ==
  ASSUME Graph, IsSeq(text), codesize \in Nat, NEW L \in SUBSET Block, NEW d \in Nat, Volume(L) <= codesize + d
  PROVE  Len(text) <= codesize + d
<1>1. Len(text) \in Nat
  BY SeqIs
<1>2. L \cup {ret} \subseteq Block /\ \A x \in Block : IsSeq(blk[x].ops)
  BY DEF Graph
<1>3. IsFiniteSet(L \cup {ret})
  BY <1>2, BlockFinite, FS_Subset
<1>4. Cardinality(Pieces(blk, L \cup {ret})) \in Nat
  BY <1>2, <1>3, PiecesFinite
<1> QED
  BY <1>1, <1>4 DEF Volume


\* What a step of one of the passes must show.
LEMMA InvNext ==
  ASSUME (IsSeq(stack) /\ Frames /\ IsSeq(text) /\ codesize \in Nat)',
         \/ /\ (Graph /\ Fresh /\ Unplaced /\ blk[ret].ops = RET)'
            /\ \/ (pass = "strip0" /\ Strip0Inv)'
               \/ (pass = "strip1" /\ \E L \in SUBSET Block : Strip1Inv(L))'
               \/ (pass = "size" /\ \E L \in SUBSET Block : SizeInv(L))'
         \/ (pass = "copy" /\ Graph /\ \E L \in SUBSET Block : CopyInv(L))'
         \/ (pass = "copyret" /\ Graph /\ \E L \in SUBSET Block : CopyRetInv(L))'
         \/ (pass \in {"setjump", "done"} /\ CodeFits)'
  PROVE  BlocksInv'
BY Zenon DEF BlocksInv


LEMMA InvStutters ==
  ASSUME BlocksInv, UNCHANGED vars
  PROVE  BlocksInv'
<1>1. /\ blk' = blk /\ entry' = entry /\ ret' = ret /\ pass' = pass /\ stack' = stack
      /\ prev' = prev /\ codesize' = codesize /\ text' = text
  BY DEF vars
<1>2. Frames' <=> Frames
  BY <1>1 DEF Frames, OnStack
<1>3. Built' <=> Built
  BY <1>1 DEF Built, Block, Succ, Entering
<1>4. Graph' <=> Graph
  BY <1>1 DEF Graph, Block, Succ
<1>5. Block' = Block /\ (\A x : Succ(x)' = Succ(x)) /\ (\A t, L : Entering(t, L)' = Entering(t, L))
  BY <1>1, Untouched
<1>6. /\ Fresh' <=> Fresh
      /\ Unplaced' <=> Unplaced
      /\ CodeFits' <=> CodeFits
  BY <1>1 DEF Fresh, Unplaced, CodeFits, Block
<1>7. OnStack' = OnStack /\ Below' = Below /\ Top' = Top
  BY <1>1, SameStack
<1>8. Strip0Inv' <=> Strip0Inv
  BY <1>1, <1>5, <1>7 DEF Strip0Inv, AllTold, Strip0Frames, Strip0Marks, Begins, Stripping
<1>9. \A L : Strip1Inv(L)' <=> Strip1Inv(L)
  BY <1>1, <1>5, <1>7 DEF Strip1Inv, Closed, Counted, Led, Pends
<1>10. \A L : SizeInv(L)' <=> SizeInv(L)
  BY <1>1, <1>5, <1>7 DEF SizeInv, Closed, Counted, Pends, Marked, Laid
<1>11. \A L : CopyInv(L)' <=> CopyInv(L)
  BY <1>1, <1>5, <1>7 DEF CopyInv, Closed, Counted, Awaits, Volume, Early, Laid
<1>12. \A L : CopyRetInv(L)' <=> CopyRetInv(L)
  BY <1>1, <1>5, <1>7 DEF CopyRetInv, Closed, Volume
<1> QED
  BY <1>1, <1>2, <1>3, <1>4, <1>5, <1>6, <1>8, <1>9, <1>10, <1>11, <1>12, Zenon DEF BlocksInv

LEMMA InvInside ==
  ASSUME BlocksInv, Strip0 \/ Strip1Tail \/ SizeTail \/ Copy \/ Setjump
  PROVE  BlocksInv'
<1> USE DEF At, AtCopy
<1>1. IsSeq(stack) /\ Frames /\ IsSeq(text) /\ codesize \in Nat
  BY DEF BlocksInv
<1>2. CASE Strip0
  <2>1. /\ pass = "strip0" /\ pass' = pass /\ ret' = ret /\ prev' = prev /\ text' = text /\ codesize' = codesize
    BY <1>2 DEF Strip0, Strip0Tail, Strip0Jump, Strip0Both, Strip0Next
  <2>2. Graph /\ Strip0Inv /\ Fresh /\ Unplaced /\ blk[ret].ops = RET
    BY <2>1 DEF BlocksInv
  <2>3. IsSeq(stack') /\ Frames' /\ Graph' /\ Strip0Inv' /\ blk'[ret].ops = RET /\ Unplaced'
    BY <1>1, <1>2, <2>2, Strip0TailKeeps, Strip0JumpKeeps, Strip0BothKeeps, Strip0NextKeeps DEF Strip0
  <2>4. Fresh'
    BY <2>1, <2>2 DEF Fresh
  <2> QED
    BY <1>1, <2>1, <2>3, <2>4, InvNext
<1>3. CASE Strip1Tail
  <2>1. /\ pass = "strip1" /\ pass' = pass /\ ret' = ret /\ prev' = prev /\ text' = text /\ codesize' = codesize
    BY <1>3 DEF Strip1Tail
  <2>2. Graph /\ Fresh /\ Unplaced /\ blk[ret].ops = RET /\ \E L \in SUBSET Block : Strip1Inv(L)
    BY <2>1 DEF BlocksInv
  <2>3. /\ IsSeq(stack') /\ Frames' /\ Graph' /\ blk'[ret].ops = RET /\ Unplaced'
        /\ \E L \in SUBSET Block' : Strip1Inv(L)'
    BY <1>1, <1>3, <2>2, Strip1TailKeeps
  <2>4. Fresh'
    BY <2>1, <2>2 DEF Fresh
  <2> QED
    BY <1>1, <2>1, <2>3, <2>4, InvNext
<1>4. CASE SizeTail
  <2>1. /\ pass = "size" /\ pass' = pass /\ ret' = ret /\ prev' = prev /\ text' = text
    BY <1>4 DEF SizeTail
  <2>2. Graph /\ Fresh /\ Unplaced /\ blk[ret].ops = RET /\ \E L \in SUBSET Block : SizeInv(L)
    BY <2>1 DEF BlocksInv
  <2>3. /\ IsSeq(stack') /\ Frames' /\ Graph' /\ blk'[ret].ops = RET /\ codesize' \in Nat /\ Unplaced'
        /\ \E L \in SUBSET Block' : SizeInv(L)'
    BY <1>1, <1>4, <2>2, SizeTailKeeps
  <2>4. Fresh'
    BY <2>1, <2>2 DEF Fresh
  <2> QED
    BY <1>1, <2>1, <2>3, <2>4, InvNext
<1>5. CASE Copy
  <2>1. pass \in {"copy", "copyret"} /\ pass' = pass /\ codesize' = codesize
    BY <1>5 DEF Copy, CopyBlock, CopyNext, CopyJump
  <2>2. CASE pass = "copy"
    <3>1. Graph /\ \E L \in SUBSET Block : CopyInv(L)
      BY <2>2 DEF BlocksInv
    <3>2. IsSeq(stack') /\ Frames' /\ Graph' /\ IsSeq(text') /\ \E L \in SUBSET Block' : CopyInv(L)'
      BY <1>1, <1>5, <3>1, CopyKeeps
    <3> QED
      BY <1>1, <2>1, <2>2, <3>2, InvNext
  <2>3. CASE pass = "copyret"
    <3>1. Graph /\ \E L \in SUBSET Block : CopyRetInv(L)
      BY <2>3 DEF BlocksInv
    <3>2. IsSeq(stack') /\ Frames' /\ Graph' /\ IsSeq(text') /\ \E L \in SUBSET Block' : CopyRetInv(L)'
      BY <1>1, <1>5, <3>1, CopyRetKeeps
    <3> QED
      BY <1>1, <2>1, <2>3, <3>2, InvNext
  <2> QED
    BY <2>1, <2>2, <2>3
<1>6. CASE Setjump
  <2>1. pass = "setjump" /\ pass' = pass /\ codesize' = codesize
    BY <1>6 DEF Setjump
  <2>2. CodeFits
    BY <2>1 DEF BlocksInv
  <2>3. IsSeq(stack') /\ Frames' /\ IsSeq(text') /\ CodeFits'
    BY <1>1, <1>6, <2>2, SetjumpKeeps
  <2> QED
    BY <1>1, <2>1, <2>3, InvNext
<1> QED
  BY <1>2, <1>3, <1>4, <1>5, <1>6


LEMMA InvLink ==
  ASSUME BlocksInv, Link, UNCHANGED <<entry, ret, prev, codesize, text>>
  PROVE  BlocksInv'
<1>1. /\ IsSeq(stack) /\ Frames /\ IsSeq(text) /\ codesize \in Nat
      /\ entry' = entry /\ ret' = ret /\ prev' = prev /\ codesize' = codesize /\ text' = text
  BY DEF BlocksInv
<1>2. Fresh' <=> Fresh
  BY <1>1 DEF Fresh
<1>3. CASE Pass("asm", "strip0", "TAIL") /\ UNCHANGED blk
  <2>1. pass = "asm" /\ pass' = "strip0" /\ stack = <<>> /\ stack' = <<Frame(entry, "TAIL")>> /\ blk' = blk
    BY <1>3 DEF Pass
  <2>2. Built /\ Fresh
    BY <2>1 DEF BlocksInv
  <2>3. IsSeq(stack') /\ Frames' /\ Graph' /\ Strip0Inv' /\ Unplaced' /\ blk'[ret].ops = RET
    BY <1>1, <2>1, <2>2, Strip0Starts
  <2> QED
    BY <1>1, <1>2, <2>1, <2>2, <2>3, InvNext
<1>4. CASE Pass("strip0", "strip1", "TAIL") /\ UNCHANGED blk
  <2>1. pass = "strip0" /\ pass' = "strip1" /\ stack = <<>> /\ stack' = <<Frame(entry, "TAIL")>> /\ blk' = blk
    BY <1>4 DEF Pass
  <2>2. Graph /\ Strip0Inv /\ Fresh /\ Unplaced /\ blk[ret].ops = RET
    BY <2>1 DEF BlocksInv
  <2>3. IsSeq(stack') /\ Frames' /\ Graph' /\ Unplaced' /\ \E L \in SUBSET Block' : Strip1Inv(L)'
    BY <1>1, <2>1, <2>2, Strip1Starts
  <2>4. blk'[ret'].ops = RET
    BY <1>1, <2>1, <2>2
  <2> QED
    BY <1>1, <1>2, <2>1, <2>2, <2>3, <2>4, InvNext
<1>5. CASE Pass("strip1", "size", "TAIL") /\ UNCHANGED blk
  <2>1. pass = "strip1" /\ pass' = "size" /\ stack = <<>> /\ stack' = <<Frame(entry, "TAIL")>> /\ blk' = blk
    BY <1>5 DEF Pass
  <2>2. Graph /\ Fresh /\ Unplaced /\ blk[ret].ops = RET /\ \E L \in SUBSET Block : Strip1Inv(L)
    BY <2>1 DEF BlocksInv
  <2>3. IsSeq(stack') /\ Frames' /\ Graph' /\ Unplaced' /\ \E L \in SUBSET Block' : SizeInv(L)'
    BY <1>1, <2>1, <2>2, SizeStarts
  <2>4. blk'[ret'].ops = RET
    BY <1>1, <2>1, <2>2
  <2> QED
    BY <1>1, <1>2, <2>1, <2>2, <2>3, <2>4, InvNext
<1>6. CASE Pass("size", "copy", "COPY") /\ blk' = [blk EXCEPT ![ret].code = 1]
  <2>1. pass = "size" /\ pass' = "copy" /\ stack = <<>> /\ stack' = <<Frame(entry, "COPY")>>
    BY <1>6 DEF Pass
  <2>2. Graph /\ Fresh /\ Unplaced /\ blk[ret].ops = RET
    BY <2>1 DEF BlocksInv
  <2>3. PICK L \in SUBSET Block : SizeInv(L)
    BY <2>1 DEF BlocksInv
  <2>4. IsSeq(stack') /\ Frames' /\ Graph' /\ \E K \in SUBSET Block' : CopyInv(K)'
    BY <1>1, <1>6, <2>1, <2>2, <2>3, CopyStarts
  <2> QED
    BY <1>1, <2>1, <2>4, InvNext
<1>7. CASE /\ pass = "copy" /\ stack = <<>>
           /\ pass' = "copyret" /\ stack' = <<Frame(ret, "COPY")>>
           /\ blk' = [blk EXCEPT ![ret].code = 0]
  <2>1. Graph
    BY <1>7 DEF BlocksInv
  <2>2. PICK L \in SUBSET Block : CopyInv(L)
    BY <1>7 DEF BlocksInv
  <2>3. IsSeq(stack') /\ Frames' /\ Graph' /\ \E K \in SUBSET Block' : CopyRetInv(K)'
    BY <1>1, <1>7, <2>1, <2>2, CopyRetStarts
  <2> QED
    BY <1>1, <1>7, <2>3, InvNext
<1>8. CASE Pass("copyret", "setjump", "LOOP") /\ UNCHANGED blk
  <2>1. pass = "copyret" /\ pass' = "setjump" /\ stack' = <<Frame(entry, "LOOP")>> /\ blk' = blk
    BY <1>8 DEF Pass
  <2>2. Graph
    BY <2>1 DEF BlocksInv
  <2>3. PICK L \in SUBSET Block : CopyRetInv(L)
    BY <2>1 DEF BlocksInv
  <2>4. CodeFits'
    <3>1. Volume(L) <= codesize + 0
      BY <1>1, <2>3 DEF CopyRetInv
    <3>2. Len(text) <= codesize + 0
      BY <1>1, <2>2, <3>1, VolumeFits
    <3> QED
      BY <1>1, <3>2 DEF CodeFits
  <2>5. IsSeq(stack') /\ OnStack' = {Frame(entry, "LOOP")}
    BY <2>1, StartIs
  <2>6. Frames'
    BY <2>5, FrameIs DEF Frames, Frame
  <2> QED
    BY <1>1, <2>1, <2>4, <2>5, <2>6, InvNext
<1>9. CASE pass = "setjump" /\ stack = <<>> /\ pass' = "done" /\ UNCHANGED <<blk, stack>>
  <2>1. CodeFits
    BY <1>9 DEF BlocksInv
  <2>2. CodeFits'
    BY <1>1, <2>1 DEF CodeFits
  <2>3. IsSeq(stack') /\ Frames'
    BY <1>1, <1>9, SameStack
  <2> QED
    BY <1>1, <1>9, <2>2, <2>3, InvNext
<1> QED
  BY <1>3, <1>4, <1>5, <1>6, <1>7, <1>8, <1>9 DEF Link

\* The invariant of the passes holds for every graph that the generator can hand
\* over (Built): what each pass has done with the flags, the counts and the
\* room so far is what the next one relies on.
THEOREM BlocksInvariant == BlocksSpec => []BlocksInv
<1>1. pass = "asm" /\ stack = <<>> /\ Built /\ prev = 0 /\ codesize = 0 /\ text = <<>> => BlocksInv
  <2> SUFFICES ASSUME pass = "asm", stack = <<>>, Built, prev = 0, codesize = 0, text = <<>>
               PROVE  BlocksInv
    OBVIOUS
  <2>1. IsSeq(<<>>)
    <3>1. <<>> \in Seq({})
      OBVIOUS
    <3> QED
      BY <3>1, SeqOver
  <2>2. IsSeq(stack) /\ IsSeq(text) /\ codesize \in Nat
    BY <2>1
  <2>3. Frames
    BY EmptyStack DEF Frames
  <2>4. Fresh
    BY DEF Fresh
  <2> QED
    BY <2>2, <2>3, <2>4 DEF BlocksInv
<1>2. BlocksInv /\ [Compile]_vars => BlocksInv'
  BY InvStutters, InvInside, InvLink DEF Compile
<1> QED
  BY <1>1, <1>2, PTL DEF BlocksSpec

-------------------------------------------------------------------------------
(* What it says about the passes.                                              *)

LEMMA SetOfReached ==
  ASSUME Graph, NEW L \in SUBSET Block, Closed(L)
  PROVE  Reached \subseteq L
<1>1. Len(blk) \in Nat
  BY SeqIs DEF Graph, Blocks
<1> QED
  BY <1>1, ReachedIn DEF Closed

LEMMA CountsTell ==
  ASSUME Graph, NEW L \in SUBSET Block, Reached \subseteq L, Counted(L)
  PROVE  \A b \in Reached : blk[b].incoming = 1 => Entering(b, Reached) <= 1
<1>1. Counted(Reached)
  BY CountedPart
<1>2. Reached \subseteq Block
  OBVIOUS
<1>3. PICK R : R = Reached
  OBVIOUS
<1>4. ASSUME NEW b \in R, blk[b].incoming = 1
      PROVE  Entering(b, R) <= 1
  <2>1. blk[b].incoming = 0 \/ blk[b].incoming >= Entering(b, R)
    BY <1>1, <1>2, <1>3, <1>4 DEF Counted
  <2>2. IsFiniteSet(R)
    BY <1>2, <1>3, BlockFinite, FS_Subset
  <2>3. Entering(b, R) \in Nat
    BY <2>2, EnteringIs, EnterIsNat
  <2> QED
    BY <1>4, <2>1, <2>3
<1> QED
  BY <1>3, <1>4

\* A block that knows of one edge only is entered once from the blocks of the
\* method, whatever strip0 redirected and strip1 joined on the way.
THEOREM BlocksSinglePredecessor == BlocksSpec => []SinglePredecessor
<1>1. ASSUME BlocksInv, pass \in {"strip0", "strip1", "size", "copy"}
      PROVE  Graph /\ \E L \in SUBSET Block : Reached \subseteq L /\ Counted(L)
  <2>1. Graph
    BY <1>1 DEF BlocksInv
  <2>2. CASE pass = "strip0"
    <3>1. Counted(Block)
      BY <1>1, <2>2 DEF BlocksInv, Strip0Inv, AllTold, Counted
    <3>2. Reached \subseteq Block
      <4>1. Len(blk) \in Nat /\ entry \in Block /\ \A b \in Block : Succ(b) \subseteq Block
        BY <2>1, SeqIs DEF Graph, Blocks
      <4> QED
        BY <4>1, ReachedIn
    <3> QED
      BY <2>1, <3>1, <3>2
  <2>3. CASE pass # "strip0"
    <3>1. PICK L \in SUBSET Block : Closed(L) /\ Counted(L)
      BY <1>1, <2>3 DEF BlocksInv, Strip1Inv, SizeInv, CopyInv
    <3> QED
      BY <2>1, <3>1, SetOfReached
  <2> QED
    BY <2>2, <2>3
<1>2. BlocksInv => SinglePredecessor
  BY <1>1, CountsTell DEF SinglePredecessor
<1> QED
  BY <1>2, BlocksInvariant, PTL

\* When a pass has ended, every block of the method has the flag that the next
\* pass starts from, so that it comes to all of them.
THEOREM BlocksFlagsHandedOver == BlocksSpec => []FlagsHandedOver
<1>1. ASSUME BlocksInv, stack = <<>>, pass \in {"strip0", "size"}
      PROVE  \A b \in Reached : blk[b].visited
  <2>1. Graph
    BY <1>1 DEF BlocksInv
  <2>2. \E K \in SUBSET Block : Closed(K) /\ \A b \in K : blk[b].visited
    <3>1. CASE pass = "strip0"
      <4>1. Strip0Inv
        BY <1>1, <3>1 DEF BlocksInv
      <4>2. PICK K : K = {x \in Block : blk[x].visited}
        OBVIOUS
      <4>3. Closed(K)
        BY <1>1, <2>1, <4>1, <4>2, Strip0Ends
      <4> QED
        BY <4>2, <4>3
    <3>2. CASE pass = "size"
      <4>1. PICK L \in SUBSET Block : SizeInv(L)
        BY <3>2, <1>1 DEF BlocksInv
      <4>2. PICK K : K = Marked(L)
        OBVIOUS
      <4>3. Closed(K)
        BY <1>1, <2>1, <4>1, <4>2, SizeEnds
      <4> QED
        BY <4>2, <4>3 DEF Marked
    <3> QED
      BY <1>1, <3>1, <3>2
  <2> QED
    BY <2>1, <2>2, SetOfReached
<1>2. ASSUME BlocksInv, stack = <<>>, pass \in {"strip1", "copy", "copyret"}
      PROVE  \A b \in Reached : ~blk[b].visited
  <2>1. Graph
    BY <1>2 DEF BlocksInv
  <2>2. \E K \in SUBSET Block : Closed(K) /\ \A b \in K : ~blk[b].visited
    <3>1. CASE pass = "strip1"
      <4>1. PICK L \in SUBSET Block : Strip1Inv(L)
        BY <3>1, <1>2 DEF BlocksInv
      <4>2. PICK K : K = {x \in L : ~blk[x].visited}
        OBVIOUS
      <4>3. Closed(K)
        BY <1>2, <2>1, <4>1, <4>2, Strip1Ends
      <4> QED
        BY <4>2, <4>3
    <3>2. CASE pass = "copy"
      <4>1. PICK L \in SUBSET Block : CopyInv(L)
        BY <3>2, <1>2 DEF BlocksInv
      <4>2. PICK K : K = {x \in L : ~blk[x].visited}
        OBVIOUS
      <4>3. Closed(K)
        BY <1>2, <2>1, <4>1, <4>2, CopyEnds
      <4> QED
        BY <4>2, <4>3
    <3>3. CASE pass = "copyret"
      <4>1. PICK L \in SUBSET Block : CopyRetInv(L)
        BY <3>3, <1>2 DEF BlocksInv
      <4> QED
        BY <4>1 DEF CopyRetInv
    <3> QED
      BY <1>2, <3>1, <3>2, <3>3
  <2> QED
    BY <2>1, <2>2, SetOfReached
<1>3. BlocksInv => FlagsHandedOver
  BY <1>1, <1>2 DEF FlagsHandedOver
<1> QED
  BY <1>3, BlocksInvariant, PTL

\* The instructions laid out never outrun the room that BasicBlock_size counted:
\* a RET that it did not count is paid for by a jump that BasicBlock_copy takes
\* away before.
THEOREM BlocksCodeFits == BlocksSpec => []CodeFits
<1>1. ASSUME BlocksInv
      PROVE  CodeFits
  <2>1. IsSeq(text) /\ codesize \in Nat
    BY <1>1 DEF BlocksInv
  <2>2. CASE pass \in {"asm", "strip0", "strip1", "size"}
    <3>1. text = <<>>
      BY <1>1, <2>2 DEF BlocksInv, Fresh
    <3>2. Len(text) = 0
      BY <3>1
    <3> QED
      BY <2>1, <3>2 DEF CodeFits
  <2>3. CASE pass = "copy"
    <3>1. Graph
      BY <1>1, <2>3 DEF BlocksInv
    <3>2. PICK L \in SUBSET Block : CopyInv(L)
      BY <1>1, <2>3 DEF BlocksInv
    <3>3. CASE Volume(L) <= codesize
      <4>1. Volume(L) <= codesize + 0
        BY <2>1, <3>3
      <4>2. Len(text) <= codesize + 0
        BY <2>1, <3>1, <4>1, VolumeFits
      <4> QED
        BY <2>1, <4>2 DEF CodeFits
    <3>4. CASE ret \notin L /\ Volume(L) <= codesize + 1
      <4>1. PICK p : p = Cardinality(Pieces(blk, L))
        OBVIOUS
      <4>2. PICK q : q = Cardinality(Pieces(blk, L \cup {ret}))
        OBVIOUS
      <4>3. blk[ret].ops = RET
        BY <3>2 DEF CopyInv
      <4>4. p \in Nat /\ q = p + 1
        BY <3>1, <3>4, <4>1, <4>2, <4>3, RetVolume
      <4>5. Len(text) + q <= codesize + 1
        BY <3>4, <4>2 DEF Volume
      <4>6. Len(text) \in Nat
        BY <2>1, SeqIs
      <4> QED
        BY <2>1, <4>4, <4>5, <4>6 DEF CodeFits
    <3> QED
      BY <3>2, <3>3, <3>4 DEF CopyInv
  <2>4. CASE pass = "copyret"
    <3>1. Graph
      BY <1>1, <2>4 DEF BlocksInv
    <3>2. PICK L \in SUBSET Block : CopyRetInv(L)
      BY <1>1, <2>4 DEF BlocksInv
    <3>3. Volume(L) <= codesize + 0
      BY <2>1, <3>2 DEF CopyRetInv
    <3>4. Len(text) <= codesize + 0
      BY <2>1, <3>1, <3>3, VolumeFits
    <3> QED
      BY <2>1, <3>4 DEF CodeFits
  <2>5. CASE pass \in {"setjump", "done"}
    BY <1>1, <2>5 DEF BlocksInv
  <2> QED
    BY <1>1, <2>2, <2>3, <2>4, <2>5 DEF BlocksInv
<1> QED
  BY <1>1, BlocksInvariant, PTL

===============================================================================
