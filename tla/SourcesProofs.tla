---------------------------- MODULE SourcesProofs ----------------------------
(***************************************************************************)
(* Proofs about the source adapters, for every format, every set of levels *)
(* and sources of any length.                                              *)
(*                                                                         *)
(* An adapter looks at its stack of open containers alone; what it builds  *)
(* is said of all containers that came before.  Stacked is what the stack  *)
(* still knows of them.  Every reader reads an event by the operations of  *)
(* SourceTree, so each has one lemma that says its tree stays sound.       *)
(*                                                                         *)
(* Of the words, a reader of lines, paragraphs, cells or pages has said    *)
(* those of its source but the ones of its open paragraph, code or list    *)
(* (TellsLines, TellsList, TellsPages).  The parser of HTML holds its      *)
(* words in registers: Held is all of them, in the order they will be said *)
(* in.  A tag moves words from one register to the one before it, or loses *)
(* some (Loses: none is new or doubled); in a straight page it loses none, *)
(* since Clean says which registers are empty inside which elements.       *)
(***************************************************************************)
EXTENDS Sources, FiniteSetTheorems, WellFoundedInduction, TLAPS

\* A set of numbers has a least element.
LEMMA LeastOf ==
  ASSUME NEW N \in SUBSET Nat, N # {}
  PROVE  \E n \in N : \A m \in N : n <= m
<1>1. PICK n \in N : \A m \in N : ~(<<m, n>> \in OpToRel(<, Nat))
  BY WFMin, NatLessThanWellFounded
<1>2. ASSUME NEW m \in N PROVE n <= m
  <2>1. ~(m < n)
    BY <1>1 DEF OpToRel
  <2> QED
    BY <2>1
<1> QED
  BY <1>2

\* A sequence, whatever it holds.
IsSequence(s) == s \in Seq({s[i] : i \in DOMAIN s})

\* An element more makes a sequence one longer.
LEMMA OneLonger ==
  ASSUME NEW s, IsSequence(s), NEW e
  PROVE  /\ IsSequence(Append(s, e))
         /\ Len(s) \in Nat /\ DOMAIN s = 1..Len(s)
         /\ Len(Append(s, e)) = Len(s) + 1
         /\ \A i \in 1..Len(s) : Append(s, e)[i] = s[i]
         /\ Append(s, e)[Len(s) + 1] = e
<1>1. PICK A : A = {s[i] : i \in DOMAIN s}
  OBVIOUS
<1>2. PICK t : t = Append(s, e)
  OBVIOUS
<1>3. s \in Seq(A)
  BY <1>1 DEF IsSequence
<1>4. s \in Seq(A \cup {e}) /\ Len(s) \in Nat /\ DOMAIN s = 1..Len(s)
  BY <1>3
<1>5. /\ t \in Seq(A \cup {e}) /\ Len(t) = Len(s) + 1 /\ DOMAIN t = 1..Len(t)
      /\ \A i \in 1..Len(s) : t[i] = s[i]
      /\ t[Len(s) + 1] = e
  BY <1>2, <1>4
<1>6. IsSequence(t)
  <2>1. \A i \in 1..Len(t) : t[i] \in {t[j] : j \in 1..Len(t)}
    OBVIOUS
  <2>2. Len(t) \in Nat /\ t = [i \in 1..Len(t) |-> t[i]]
    BY <1>4, <1>5
  <2>3. t \in [1..Len(t) -> {t[j] : j \in 1..Len(t)}]
    BY <2>1, <2>2
  <2>4. t \in Seq({t[j] : j \in 1..Len(t)})
    BY <2>2, <2>3
  <2> QED
    BY <1>5, <2>4 DEF IsSequence
<1> QED
  BY <1>2, <1>4, <1>5, <1>6, Zenon

\* The greatest of some numbers up to a bound, or 0.
LEMMA GreatestUpTo ==
  ASSUME NEW n \in Nat, NEW K \in SUBSET (1..n)
  PROVE  /\ Max({0} \cup K) \in {0} \cup K
         /\ \A k \in K : k <= Max({0} \cup K)
<1> DEFINE P(x) == x \in {0} \cup K /\ \A k \in {0} \cup K : x >= k
           D == {d \in 0..n : n - d \in {0} \cup K}
<1>1. \E x \in {0} \cup K : \A k \in {0} \cup K : x >= k
  <2>1. D \in SUBSET Nat /\ n \in D
    OBVIOUS
  <2> HIDE DEF D
  <2>2. PICK d \in D : \A e \in D : d <= e
    BY <2>1, LeastOf
  <2> USE DEF D
  <2>3. n - d \in {0} \cup K /\ d \in 0..n
    BY <2>2
  <2>4. ASSUME NEW k \in {0} \cup K PROVE n - d >= k
    <3>1. k \in 0..n /\ n - k \in 0..n /\ n - (n - k) = k
      OBVIOUS
    <3>2. n - k \in D
      BY <3>1
    <3>3. d <= n - k
      BY <2>2, <3>2
    <3> QED
      BY <2>3, <3>1, <3>3
  <2> QED
    BY <2>3, <2>4
<1>2. P(Max({0} \cup K))
  BY <1>1 DEF Max
<1> QED
  BY <1>2

-----------------------------------------------------------------------------
(* The containers of a source *)

\* An item that is a container.
IsPlace(items, i) == i \in 1..Len(items) /\ IsContainer(items[i])

\* The container an item of a level stands in, as NestingSound has it.
Nested(items, i) ==
  LET earlier == {j \in 1..(i - 1) : IsContainer(items[j])}
      shallower == {j \in earlier : items[j].level < items[i].level}
  IN  IF IsContainer(items[i])
      THEN items[i].parent = IF shallower = {} THEN 0 ELSE Max(shallower)
      ELSE items[i].parent = Max(earlier)

\* Items and open containers are what they are.
Shaped(t) ==
  /\ {"items", "stack"} \subseteq DOMAIN t
  /\ IsSequence(t.items) /\ t.stack \in Seq(Nat)
  /\ \A i \in 1..Len(t.items) : t.items[i].level \in Nat
  /\ t.stack = <<>> => t.items = <<>>

\* The open containers nest; no container came after the innermost; and for each that
\* came there is an open one that is not before it and not deeper.
Stacked(items, stack) ==
  /\ \A k \in 1..Len(stack) : IsPlace(items, stack[k])
  /\ \A j, k \in 1..Len(stack) :
       j < k => stack[j] < stack[k] /\ items[stack[j]].level < items[stack[k]].level
  /\ \A i \in 1..Len(items) : IsContainer(items[i]) =>
       \E k \in 1..Len(stack) : i <= stack[k] /\ items[stack[k]].level <= items[i].level

\* What every step of every reader keeps of its tree.
SoundTree(t) ==
  /\ Shaped(t) /\ Stacked(t.items, t.stack)
  /\ \A i \in 1..Len(t.items) : Nested(t.items, i)

\* What stands before an item does not change when one is added.
LEMMA NestedStays ==
  ASSUME NEW items, IsSequence(items), NEW item, NEW i \in 1..Len(items), Nested(items, i)
  PROVE  Nested(Append(items, item), i)
<1>1. PICK more : more = Append(items, item)
  OBVIOUS
<1>2. Len(items) \in Nat /\ \A j \in 1..Len(items) : more[j] = items[j]
  BY <1>1, OneLonger
<1>3. more[i] = items[i]
  BY <1>2
<1>4. {j \in 1..(i - 1) : IsContainer(more[j])}
        = {j \in 1..(i - 1) : IsContainer(items[j])}
  <2>1. \A j \in 1..(i - 1) : j \in 1..Len(items)
    BY <1>2
  <2>2. \A j \in 1..(i - 1) : more[j] = items[j]
    BY <1>2, <2>1
  <2> QED
    BY <2>2, Zenon
<1>5. {j \in {k \in 1..(i - 1) : IsContainer(items[k])} : more[j].level < more[i].level}
        = {j \in {k \in 1..(i - 1) : IsContainer(items[k])} : items[j].level < items[i].level}
  <2>1. \A j \in 1..(i - 1) : j \in 1..Len(items)
    BY <1>2
  <2>2. \A j \in 1..(i - 1) : more[j].level = items[j].level
    BY <1>2, <2>1
  <2> QED
    BY <1>3, <2>2
<1>6. Nested(more, i)
  BY <1>3, <1>4, <1>5, Zenon DEF Nested
<1> QED
  BY <1>1, <1>6

\* What stays open when a container of a level opens.
LEMMA StillOpenFacts ==
  ASSUME NEW t, Shaped(t), Stacked(t.items, t.stack), NEW level \in Nat
  PROVE  \E p \in 0..Len(t.stack) :
           /\ StillOpen(t, level) = SubSeq(t.stack, 1, p)
           /\ \A k \in 1..Len(t.stack) : t.items[t.stack[k]].level < level <=> k <= p
<1> DEFINE K == {k \in DOMAIN t.stack : t.items[t.stack[k]].level < level}
           p == Max({0} \cup K)
           n == Len(t.stack)
<1>1. n \in Nat /\ DOMAIN t.stack = 1..n /\ \A k \in 1..n : t.items[t.stack[k]].level \in Nat
  BY DEF Shaped, Stacked, IsPlace
<1>2. K \in SUBSET (1..n)
  BY <1>1
<1>3. p \in {0} \cup K /\ \A k \in K : k <= p
  <2> HIDE DEF n, K
  <2> QED
    BY <1>1, <1>2, GreatestUpTo
<1>4. ASSUME NEW k \in 1..n PROVE t.items[t.stack[k]].level < level <=> k <= p
  <2>1. ASSUME t.items[t.stack[k]].level < level PROVE k <= p
    <3>1. k \in K
      BY <1>1, <2>1
    <3> QED
      BY <1>3, <3>1
  <2>2. ASSUME k <= p PROVE t.items[t.stack[k]].level < level
    <3>1. p \in K
      <4> HIDE DEF p, K, n
      <4> QED
        BY <1>1, <1>3, <2>2
    <3>2. t.items[t.stack[p]].level < level /\ p \in 1..n
      BY <1>2, <3>1
    <3>3. k < p => t.items[t.stack[k]].level < t.items[t.stack[p]].level
      <4> HIDE DEF p, n
      <4> QED
        BY <3>2 DEF Stacked, n
    <3> HIDE DEF p, n
    <3> QED
      BY <1>1, <2>2, <3>2, <3>3
  <2> QED
    BY <2>1, <2>2
<1>5. p \in 0..n
  <2> HIDE DEF p, K, n
  <2> QED
    BY <1>1, <1>2, <1>3
<1>6. StillOpen(t, level) = SubSeq(t.stack, 1, p)
  BY DEF StillOpen
<1> QED
  BY <1>4, <1>5, <1>6

\* A container that opens nests where it belongs.
LEMMA OpenedSound ==
  ASSUME NEW t, SoundTree(t), NEW c, IsContainer(c), c.level \in Nat,
         {"kind", "level", "parent"} \subseteq DOMAIN c
  PROVE  SoundTree(Push(t, c, StillOpen(t, c.level)))
<1>1. PICK items : items = t.items
  OBVIOUS
<1>2. PICK stack : stack = t.stack
  OBVIOUS
<1>3. PICK p \in 0..Len(stack) :
        /\ StillOpen(t, c.level) = SubSeq(stack, 1, p)
        /\ \A k \in 1..Len(stack) : items[stack[k]].level < c.level <=> k <= p
  BY <1>1, <1>2, StillOpenFacts DEF SoundTree
<1>4. PICK above : above = SubSeq(stack, 1, p)
  OBVIOUS
<1>5. PICK item : item = [c EXCEPT !.parent = IF above = <<>> THEN 0 ELSE Last(above)]
  OBVIOUS
<1>6. PICK n : n = Len(items)
  OBVIOUS
<1>7. PICK more : more = Append(items, item)
  OBVIOUS
<1>8. PICK open : open = Append(above, n + 1)
  OBVIOUS
<1>9. Push(t, c, StillOpen(t, c.level)) = [items |-> more, stack |-> open]
  BY <1>1, <1>3, <1>4, <1>5, <1>6, <1>7, <1>8 DEF Push
<1>10. /\ IsSequence(items) /\ stack \in Seq(Nat) /\ n \in Nat
       /\ \A i \in 1..n : items[i].level \in Nat
       /\ Stacked(items, stack) /\ \A i \in 1..n : Nested(items, i)
  <2>1. IsSequence(items)
    BY <1>1 DEF SoundTree, Shaped
  <2> QED
    BY <1>1, <1>2, <1>6, <2>1, OneLonger DEF SoundTree, Shaped
<1>11. /\ IsSequence(more) /\ Len(more) = n + 1 /\ more[n + 1] = item
       /\ \A i \in 1..n : more[i] = items[i]
  BY <1>6, <1>7, <1>10, OneLonger
<1>12. /\ IsContainer(item) /\ item.level = c.level /\ item.level \in Nat
       /\ item.parent = IF above = <<>> THEN 0 ELSE Last(above)
  BY <1>5 DEF IsContainer
<1>13. /\ Len(stack) \in Nat /\ above \in Seq(Nat) /\ Len(above) = p
       /\ \A k \in 1..p : above[k] = stack[k] /\ k \in 1..Len(stack)
  BY <1>3, <1>4, <1>10
<1>14. /\ open \in Seq(Nat) /\ Len(open) = p + 1 /\ open[p + 1] = n + 1 /\ open # <<>>
       /\ \A k \in 1..p : open[k] = stack[k]
  <2>1. above \in Seq(Nat) /\ n + 1 \in Nat /\ Len(above) = p /\ p \in Nat
    BY <1>10, <1>13
  <2>2. /\ open \in Seq(Nat) /\ Len(open) = p + 1 /\ open[p + 1] = n + 1
        /\ \A k \in 1..p : open[k] = above[k]
    BY <1>8, <2>1
  <2>3. open # <<>>
    BY <2>1, <2>2
  <2> QED
    BY <1>13, <2>2, <2>3
<1>15. /\ \A k \in 1..p : stack[k] \in 1..n /\ IsContainer(items[stack[k]])
       /\ \A k \in 1..p : more[stack[k]] = items[stack[k]]
  BY <1>6, <1>10, <1>11, <1>13 DEF Stacked, IsPlace
<1>16. Shaped([items |-> more, stack |-> open])
  <2>1. \A i \in 1..(n + 1) : more[i].level \in Nat
    BY <1>10, <1>11, <1>12
  <2> QED
    BY <1>11, <1>14, <2>1 DEF Shaped
<1>17. Stacked(more, open)
  <2>1. ASSUME NEW k \in 1..Len(open) PROVE IsPlace(more, open[k])
    <3>1. CASE k = p + 1
      BY <1>10, <1>11, <1>12, <1>14, <3>1 DEF IsPlace
    <3>2. CASE k # p + 1
      <4>1. k \in 1..p
        BY <1>14, <3>2
      <4>2. open[k] = stack[k] /\ stack[k] \in 1..Len(more)
        BY <1>10, <1>11, <1>14, <1>15, <4>1
      <4>3. IsContainer(more[stack[k]])
        BY <1>15, <4>1, Zenon
      <4> QED
        BY <4>2, <4>3 DEF IsPlace
    <3> QED
      BY <3>1, <3>2
  <2>2. ASSUME NEW j \in 1..Len(open), NEW k \in 1..Len(open), j < k
        PROVE  open[j] < open[k] /\ more[open[j]].level < more[open[k]].level
    <3>1. j \in 1..p
      BY <1>14, <2>2
    <3>2. CASE k = p + 1
      <4>1. open[j] = stack[j] /\ more[open[j]].level = items[stack[j]].level
        BY <1>14, <1>15, <3>1
      <4>2. items[stack[j]].level < c.level
        BY <1>3, <1>13, <3>1
      <4> QED
        BY <1>10, <1>11, <1>12, <1>14, <1>15, <3>1, <3>2, <4>1, <4>2
    <3>3. CASE k # p + 1
      <4>1. k \in 1..p
        BY <1>14, <3>3
      <4> QED
        BY <1>10, <1>13, <1>14, <1>15, <2>2, <3>1, <4>1 DEF Stacked
    <3> QED
      BY <3>2, <3>3
  <2>3. ASSUME NEW i \in 1..Len(more), IsContainer(more[i])
        PROVE  \E k \in 1..Len(open) : i <= open[k] /\ more[open[k]].level <= more[i].level
    <3>1. CASE i = n + 1
      BY <1>10, <1>11, <1>12, <1>14, <3>1
    <3>2. CASE i # n + 1
      <4>1. i \in 1..n /\ more[i] = items[i]
        BY <1>10, <1>11, <3>2
      <4>2. PICK k \in 1..Len(stack) : i <= stack[k] /\ items[stack[k]].level <= items[i].level
        BY <1>6, <1>10, <2>3, <4>1 DEF Stacked
      <4>3. CASE k <= p
        <5>1. k \in 1..p /\ k \in 1..Len(open)
          BY <1>14, <4>3
        <5> QED
          BY <1>14, <1>15, <4>1, <4>2, <5>1
      <4>4. CASE ~(k <= p)
        <5>1. ~(items[stack[k]].level < c.level)
          BY <1>3, <4>4
        <5>2. stack[k] \in 1..n
          BY <1>6, <1>10 DEF Stacked, IsPlace
        <5>3. items[stack[k]].level \in Nat /\ items[i].level \in Nat
          BY <1>10, <4>1, <5>2
        <5>4. c.level <= more[i].level
          BY <1>12, <4>1, <4>2, <5>1, <5>3
        <5>5. p + 1 \in 1..Len(open) /\ i <= open[p + 1] /\ more[open[p + 1]].level = c.level
          BY <1>10, <1>11, <1>12, <1>14, <4>1
        <5> QED
          BY <5>4, <5>5
      <4> QED
        BY <4>3, <4>4
    <3> QED
      BY <3>1, <3>2
  <2> QED
    BY <2>1, <2>2, <2>3 DEF Stacked
<1>18. ASSUME NEW i \in 1..Len(more) PROVE Nested(more, i)
  <2>1. CASE i # n + 1
    <3>1. i \in 1..Len(items)
      BY <1>6, <1>10, <1>11, <2>1
    <3> QED
      BY <1>6, <1>7, <1>10, <3>1, NestedStays
  <2>2. CASE i = n + 1
    <3> DEFINE earlier == {j \in 1..(i - 1) : IsContainer(more[j])}
               shallower == {j \in earlier : more[j].level < more[i].level}
    <3>1. ASSUME NEW j \in shallower
          PROVE  p # 0 /\ j <= stack[p]
      <4>1. j \in 1..n /\ IsContainer(items[j]) /\ items[j].level < c.level
        BY <1>10, <1>11, <1>12, <2>2
      <4>2. PICK k \in 1..Len(stack) : j <= stack[k] /\ items[stack[k]].level <= items[j].level
        BY <1>6, <1>10, <4>1 DEF Stacked
      <4>3. stack[k] \in 1..n
        BY <1>6, <1>10 DEF Stacked, IsPlace
      <4>4. items[stack[k]].level \in Nat /\ items[j].level \in Nat
        BY <1>10, <4>1, <4>3
      <4>5. k <= p
        BY <1>3, <4>1, <4>2, <4>4
      <4>6. p \in 1..Len(stack) /\ stack[p] \in 1..n
        BY <1>13, <1>15, <4>5
      <4>7. k < p => stack[k] < stack[p]
        BY <1>10, <4>6 DEF Stacked
      <4> QED
        BY <1>10, <4>1, <4>2, <4>3, <4>5, <4>6, <4>7
    <3>2. CASE p = 0
      <4>1. shallower = {} /\ above = <<>>
        BY <1>13, <3>1, <3>2
      <4> QED
        BY <1>11, <1>12, <2>2, <4>1 DEF Nested
    <3>3. CASE p # 0
      <4>1. p \in 1..p /\ p \in 1..Len(stack)
        BY <1>13, <3>3
      <4>2. stack[p] \in shallower
        <5>1. items[stack[p]].level < c.level
          BY <1>3, <4>1
        <5> QED
          BY <1>10, <1>11, <1>12, <1>15, <2>2, <4>1, <5>1
      <4>3. \A x \in shallower : (\A y \in shallower : x >= y) => x = stack[p]
        <5>1. shallower \subseteq Nat
          BY <1>10, <2>2
        <5> HIDE DEF shallower
        <5>2. ASSUME NEW x \in shallower, \A y \in shallower : x >= y PROVE x = stack[p]
          <6>1. x >= stack[p] /\ x <= stack[p] /\ x \in Nat /\ stack[p] \in Nat
            BY <3>1, <4>2, <5>1, <5>2
          <6> QED
            BY <6>1
        <5> QED
          BY <5>2
      <4>4. \A y \in shallower : stack[p] >= y
        <5>1. shallower \subseteq Nat /\ stack[p] \in Nat
          BY <1>10, <2>2, <4>2
        <5> HIDE DEF shallower
        <5> QED
          BY <3>1, <5>1
      <4>5. Max(shallower) = stack[p]
        <5> HIDE DEF shallower
        <5> QED
          BY <4>2, <4>3, <4>4 DEF Max
      <4>6. above # <<>> /\ Last(above) = stack[p]
        BY <1>13, <3>3, <4>1 DEF Last
      <4>7. item.parent = Max(shallower) /\ shallower # {}
        BY <1>12, <4>2, <4>5, <4>6
      <4> HIDE DEF shallower
      <4>8. IsContainer(more[i]) /\ more[i].parent = IF shallower = {} THEN 0 ELSE Max(shallower)
        BY <1>11, <1>12, <2>2, <4>7
      <4> QED
        BY <4>8, Zenon DEF Nested, shallower
    <3> QED
      BY <3>2, <3>3
  <2> QED
    BY <2>1, <2>2
<1> QED
  BY <1>9, <1>16, <1>17, <1>18 DEF SoundTree

\* A tree with nothing in it nests.
LEMMA EmptyTreeSound == SoundTree(EmptyTree)
<1>1. IsSequence(<<>>) /\ <<>> \in Seq(Nat) /\ Len(<<>>) = 0
  BY DEF IsSequence
<1> QED
  BY <1>1 DEF SoundTree, Shaped, Stacked, EmptyTree

\* With a container a tree nests as before.
LEMMA WithCurrentSound ==
  ASSUME NEW t, SoundTree(t)
  PROVE  SoundTree(WithCurrent(t)) /\ WithCurrent(t).stack # <<>>
<1>1. CASE t.stack # <<>>
  BY <1>1 DEF WithCurrent
<1>2. CASE t.stack = <<>>
  <2>1. PICK c : c = [Item("document", <<>>) EXCEPT !.level = 1]
    OBVIOUS
  <2>2. /\ IsContainer(c) /\ c.level = 1 /\ c.level \in Nat
        /\ {"kind", "level", "parent"} \subseteq DOMAIN c
    BY <2>1 DEF IsContainer, Item
  <2>3. PICK q \in 0..Len(t.stack) : StillOpen(t, c.level) = SubSeq(t.stack, 1, q)
    BY <2>2, StillOpenFacts DEF SoundTree
  <2>4. StillOpen(t, c.level) = <<>>
    BY <1>2, <2>3
  <2>5. WithCurrent(t) = Push(t, c, StillOpen(t, c.level))
    BY <1>2, <2>1, <2>4 DEF WithCurrent
  <2>6. SoundTree(WithCurrent(t))
    BY <2>2, <2>5, OpenedSound
  <2>7. WithCurrent(t).stack = Append(<<>>, Len(t.items) + 1)
    BY <2>4, <2>5 DEF Push
  <2> QED
    BY <2>6, <2>7
<1> QED
  BY <1>1, <1>2

\* A block stands in the container that came last.
LEMMA AddedSound ==
  ASSUME NEW t, SoundTree(t), NEW b, ~IsContainer(b), b.level \in Nat,
         {"kind", "level", "parent"} \subseteq DOMAIN b
  PROVE  SoundTree(Added(t, b))
<1>1. PICK u : u = WithCurrent(t)
  OBVIOUS
<1>2. SoundTree(u) /\ u.stack # <<>>
  BY <1>1, WithCurrentSound
<1>3. PICK items : items = u.items
  OBVIOUS
<1>4. PICK stack : stack = u.stack
  OBVIOUS
<1>5. PICK n : n = Len(items)
  OBVIOUS
<1>6. PICK item : item = [b EXCEPT !.parent = Last(stack)]
  OBVIOUS
<1>7. PICK more : more = Append(items, item)
  OBVIOUS
<1>8. PICK v : v = Added(t, b)
  OBVIOUS
<1>9. v.items = more /\ v.stack = stack /\ {"items", "stack"} \subseteq DOMAIN v
  BY <1>1, <1>2, <1>3, <1>4, <1>6, <1>7, <1>8 DEF Added, SoundTree, Shaped
<1>10. /\ IsSequence(items) /\ stack \in Seq(Nat) /\ n \in Nat
       /\ \A i \in 1..n : items[i].level \in Nat
       /\ Stacked(items, stack) /\ \A i \in 1..n : Nested(items, i)
  <2>1. IsSequence(items)
    BY <1>2, <1>3 DEF SoundTree, Shaped
  <2> QED
    BY <1>2, <1>3, <1>4, <1>5, <2>1, OneLonger DEF SoundTree, Shaped
<1>11. /\ IsSequence(more) /\ Len(more) = n + 1 /\ more[n + 1] = item
       /\ \A i \in 1..n : more[i] = items[i]
  BY <1>5, <1>7, <1>10, OneLonger
<1>12. ~IsContainer(item) /\ item.level \in Nat /\ item.parent = Last(stack)
  BY <1>6 DEF IsContainer
<1>13. PICK m \in Nat : m = Len(stack) /\ m \in 1..Len(stack) /\ Last(stack) = stack[m]
  BY <1>2, <1>4, <1>10 DEF Last
<1>14. \A k \in 1..Len(stack) : stack[k] \in 1..n /\ more[stack[k]] = items[stack[k]]
  BY <1>5, <1>10, <1>11 DEF Stacked, IsPlace
<1>15. Shaped(v)
  <2>1. \A i \in 1..(n + 1) : more[i].level \in Nat
    BY <1>10, <1>11, <1>12
  <2> QED
    BY <1>2, <1>4, <1>9, <1>10, <1>11, <2>1 DEF Shaped
<1>16. Stacked(more, stack)
  <2>1. ASSUME NEW k \in 1..Len(stack) PROVE IsPlace(more, stack[k])
    <3>1. stack[k] \in 1..Len(more)
      BY <1>10, <1>11, <1>14
    <3>2. IsContainer(items[stack[k]])
      BY <1>10 DEF Stacked, IsPlace
    <3>3. IsContainer(more[stack[k]])
      BY <1>14, <3>2, Zenon
    <3> QED
      BY <3>1, <3>3 DEF IsPlace
  <2>2. ASSUME NEW i \in 1..Len(more), IsContainer(more[i])
        PROVE  \E k \in 1..Len(stack) : i <= stack[k] /\ more[stack[k]].level <= more[i].level
    <3>1. i # n + 1
      BY <1>11, <1>12, <2>2
    <3>2. i \in 1..n /\ more[i] = items[i]
      BY <1>10, <1>11, <3>1
    <3>3. PICK k \in 1..Len(stack) : i <= stack[k] /\ items[stack[k]].level <= items[i].level
      BY <1>5, <1>10, <2>2, <3>2 DEF Stacked
    <3> QED
      BY <1>14, <3>2, <3>3
  <2>3. ASSUME NEW j \in 1..Len(stack), NEW k \in 1..Len(stack), j < k
        PROVE  stack[j] < stack[k] /\ more[stack[j]].level < more[stack[k]].level
    BY <1>10, <1>14, <2>3 DEF Stacked
  <2> QED
    BY <2>1, <2>2, <2>3 DEF Stacked
<1>17. ASSUME NEW i \in 1..Len(more) PROVE Nested(more, i)
  <2>1. CASE i # n + 1
    <3>1. i \in 1..Len(items)
      BY <1>5, <1>10, <1>11, <2>1
    <3> QED
      BY <1>5, <1>7, <1>10, <3>1, NestedStays
  <2>2. CASE i = n + 1
    <3> DEFINE earlier == {j \in 1..(i - 1) : IsContainer(more[j])}
    <3>1. earlier \subseteq Nat
      BY <1>10, <2>2
    <3>2. stack[m] \in earlier
      <4>1. IsContainer(items[stack[m]])
        BY <1>10, <1>13 DEF Stacked, IsPlace
      <4>2. IsContainer(more[stack[m]])
        BY <1>13, <1>14, <4>1, Zenon
      <4>3. stack[m] \in 1..(i - 1)
        BY <1>10, <1>13, <1>14, <2>2
      <4> QED
        BY <4>2, <4>3
    <3>3. ASSUME NEW j \in earlier PROVE j <= stack[m]
      <4>1. j \in 1..n /\ IsContainer(items[j])
        BY <1>10, <1>11, <2>2
      <4>2. PICK k \in 1..Len(stack) : j <= stack[k]
        BY <1>5, <1>10, <4>1 DEF Stacked
      <4>3. k < m => stack[k] < stack[m]
        BY <1>10, <1>13 DEF Stacked
      <4>4. stack[k] \in 1..n /\ stack[m] \in 1..n
        BY <1>13, <1>14
      <4> QED
        BY <1>10, <1>13, <4>1, <4>2, <4>3, <4>4
    <3> HIDE DEF earlier
    <3>4. \A x \in earlier : (\A y \in earlier : x >= y) => x = stack[m]
      <4>1. ASSUME NEW x \in earlier, \A y \in earlier : x >= y PROVE x = stack[m]
        <5>1. x >= stack[m] /\ x <= stack[m] /\ x \in Nat /\ stack[m] \in Nat
          BY <3>1, <3>2, <3>3, <4>1
        <5> QED
          BY <5>1
      <4> QED
        BY <4>1
    <3>5. \A y \in earlier : stack[m] >= y
      BY <3>1, <3>2, <3>3
    <3>6. Max(earlier) = stack[m]
      BY <3>2, <3>4, <3>5 DEF Max
    <3>7. ~IsContainer(more[i]) /\ more[i].parent = Max(earlier)
      BY <1>11, <1>12, <1>13, <2>2, <3>6
    <3> QED
      BY <3>7, Zenon DEF Nested, earlier
  <2> QED
    BY <2>1, <2>2
<1>18. SoundTree(v)
  BY <1>9, <1>15, <1>16, <1>17 DEF SoundTree
<1> QED
  BY <1>8, <1>18

\* A document is never without a container.
LEMMA RootedSound == ASSUME NEW t, SoundTree(t) PROVE SoundTree(Rooted(t))
  BY WithCurrentSound DEF Rooted

\* A block of some kind joins the tree.
LEMMA ItemAdded ==
  ASSUME NEW t, SoundTree(t), NEW kind, kind \notin {"container", "document"}, NEW says
  PROVE  SoundTree(Added(t, Item(kind, says)))
<1>1. PICK b : b = Item(kind, says)
  OBVIOUS
<1>2. /\ ~IsContainer(b) /\ b.level \in Nat
      /\ {"kind", "level", "parent"} \subseteq DOMAIN b
  BY <1>1 DEF Item, IsContainer
<1> QED
  BY <1>1, <1>2, AddedSound

\* A heading opens a container.
LEMMA HeadingOpened ==
  ASSUME NEW t, SoundTree(t), NEW says, NEW level \in Nat
  PROVE  SoundTree(Opened(t, says, level))
<1>1. PICK c : c = [Item("container", says) EXCEPT !.level = level]
  OBVIOUS
<1>2. /\ IsContainer(c) /\ c.level = level /\ c.level \in Nat
      /\ {"kind", "level", "parent"} \subseteq DOMAIN c
  BY <1>1 DEF Item, IsContainer
<1>3. SoundTree(Push(t, c, StillOpen(t, c.level)))
  BY <1>2, OpenedSound
<1> QED
  BY <1>1, <1>2, <1>3 DEF Opened

-----------------------------------------------------------------------------
(* The readers, event by event *)

\* A reader, whatever else it keeps, has a sound tree.
Carries(r) == "tree" \in DOMAIN r /\ SoundTree(r.tree)

\* render_markdown: a paragraph or the code is written.
LEMMA FlushCarries ==
  ASSUME NEW r, Carries(r)
  PROVE  /\ Carries(FlushParagraph(r)) /\ Carries(FlushCode(r))
         /\ Carries(MarkdownEnd(r))
<1>1. Carries(FlushParagraph(r))
  <2>1. CASE r.para = <<>>
    BY <2>1 DEF FlushParagraph
  <2>2. CASE r.para # <<>>
    <3>1. SoundTree(Added(r.tree, Item("paragraph", r.para)))
      BY ItemAdded DEF Carries
    <3> QED
      BY <2>2, <3>1 DEF FlushParagraph, Carries
  <2> QED
    BY <2>1, <2>2
<1>2. Carries(FlushCode(r))
  <2>1. SoundTree(Added(r.tree, Item("code", r.code)))
    BY ItemAdded DEF Carries
  <2> QED
    BY <2>1 DEF FlushCode, Carries
<1> QED
  BY <1>1, <1>2 DEF MarkdownEnd

\* A line of Markdown.
LEMMA MarkdownLineCarries ==
  ASSUME NEW r, Carries(r), NEW line \in Lines, NEW word
  PROVE  Carries(MarkdownLine(r, line, word))
<1>1. /\ line.is \in {"text", "blank", "spaces", "fence", "heading"}
      /\ line.is = "heading" => line.level \in Nat
  BY LevelsAssumption DEF Lines, PlainLines, Line
<1> DEFINE after == MarkdownLine(r, line, word)
<1>2. CASE line.is = "fence"
  <2>1. after = IF r.fenced THEN FlushCode(r)
                ELSE [FlushParagraph(r) EXCEPT !.fenced = TRUE]
    BY <1>2 DEF MarkdownLine
  <2>2. Carries(FlushCode(r)) /\ Carries(FlushParagraph(r))
    BY FlushCarries
  <2>3. Carries([FlushParagraph(r) EXCEPT !.fenced = TRUE])
    BY <2>2 DEF Carries
  <2> QED
    BY <2>1, <2>2, <2>3
<1>3. CASE line.is # "fence" /\ r.fenced
  <2>1. after = IF line.is \in {"text", "heading"} THEN [r EXCEPT !.code = Append(@, word)] ELSE r
    BY <1>3 DEF MarkdownLine
  <2> QED
    BY <2>1 DEF Carries
<1>4. CASE line.is = "heading" /\ ~r.fenced
  <2>1. PICK closed : closed = FlushParagraph(r)
    OBVIOUS
  <2>2. Carries(closed)
    BY <2>1, FlushCarries
  <2>3. SoundTree(Opened(closed.tree, <<word>>, line.level))
    BY <1>1, <1>4, <2>2, HeadingOpened DEF Carries
  <2>4. "tree" \in DOMAIN after /\ after.tree = Opened(closed.tree, <<word>>, line.level)
    BY <1>4, <2>1, <2>2 DEF MarkdownLine, Carries
  <2>5. SoundTree(after.tree)
    BY <2>3, <2>4, Zenon
  <2> QED
    BY <2>4, <2>5, Zenon DEF Carries
<1>5. CASE line.is = "text" /\ ~r.fenced
  <2>1. after = [r EXCEPT !.para = Append(@, word)]
    BY <1>5 DEF MarkdownLine
  <2> QED
    BY <2>1 DEF Carries
<1>6. CASE line.is \in {"blank", "spaces"} /\ ~r.fenced
  <2>1. after = FlushParagraph(r)
    BY <1>6 DEF MarkdownLine
  <2> QED
    BY <2>1, FlushCarries
<1> QED
  BY <1>1, <1>2, <1>3, <1>4, <1>5, <1>6

\* A line of plain text.
LEMMA TextLineCarries ==
  ASSUME NEW r, Carries(r), NEW line, NEW word
  PROVE  Carries(TextLine(r, line, word))
<1>1. Carries(FlushParagraph(r))
  BY FlushCarries
<1>2. Carries([r EXCEPT !.para = Append(@, word)])
  BY DEF Carries
<1>3. TextLine(r, line, word)
        \in {FlushParagraph(r), r, [r EXCEPT !.para = Append(@, word)]}
  BY DEF TextLine
<1> QED
  BY <1>1, <1>2, <1>3

\* Cells of a notebook and their outputs.
LEMMA NotebookCarries ==
  ASSUME NEW r, Carries(r), NEW word, NEW output \in Outputs
  PROVE  /\ Carries(MarkdownCell(r)) /\ Carries(CodeCell(r, word))
         /\ Carries(CellOutput(r, output, word))
<1>1. PICK closed : closed = MarkdownEnd(r)
  OBVIOUS
<1>2. Carries(closed)
  BY <1>1, FlushCarries
<1>3. Carries(MarkdownCell(r))
  BY <1>1, <1>2 DEF MarkdownCell, Carries
<1>4. Carries(CodeCell(r, word))
  <2>1. SoundTree(Added(closed.tree, Item("code", <<word>>)))
    BY <1>2, ItemAdded DEF Carries
  <2> QED
    BY <1>1, <1>2, <2>1 DEF CodeCell, Carries
<1>5. Carries(CellOutput(r, output, word))
  <2>1. CASE OutputBlock(output, word) = <<>>
    BY <2>1 DEF CellOutput
  <2>2. CASE OutputBlock(output, word) # <<>>
    <3>1. PICK kind \in {"code", "figure"} :
            OutputBlock(output, word) = <<Item(kind, <<word>>)>>
      BY <2>2 DEF OutputBlock, Outputs
    <3>2. PICK b : b = [Item(kind, <<word>>) EXCEPT !.of = r.cell]
      OBVIOUS
    <3>3. /\ ~IsContainer(b) /\ b.level \in Nat
          /\ {"kind", "level", "parent"} \subseteq DOMAIN b
      BY <3>2 DEF Item, IsContainer
    <3>4. SoundTree(Added(r.tree, b))
      BY <3>3, AddedSound DEF Carries
    <3>5. CellOutput(r, output, word) = [r EXCEPT !.tree = Added(@, b)]
      BY <2>2, <3>1, <3>2 DEF CellOutput
    <3> QED
      BY <3>4, <3>5 DEF Carries
  <2> QED
    BY <2>1, <2>2
<1> QED
  BY <1>3, <1>4, <1>5

\* Tables and the end of a .docx write the list that is held back.
LEMMA DocxCarries ==
  ASSUME NEW d, Carries(d), NEW word, NEW rows
  PROVE  /\ Carries(FlushList(d)) /\ Carries(DocxTable(d, rows, word))
         /\ Carries(DocxEnd(d))
<1>1. Carries(FlushList(d))
  <2>1. SoundTree(Added(d.tree, Item("list", d.list)))
    BY ItemAdded DEF Carries
  <2> QED
    BY <2>1 DEF FlushList, Carries
<1>2. Carries(DocxTable(d, rows, word))
  <2>1. PICK b : b = [Item("table", <<word>>) EXCEPT !.cells = Cells(rows)]
    OBVIOUS
  <2>2. /\ ~IsContainer(b) /\ b.level \in Nat
        /\ {"kind", "level", "parent"} \subseteq DOMAIN b
    BY <2>1 DEF Item, IsContainer
  <2>3. SoundTree(Added(FlushList(d).tree, b))
    BY <1>1, <2>2, AddedSound DEF Carries
  <2>4. DocxTable(d, rows, word)
          = [FlushList(d) EXCEPT !.tree = Added(@, b)]
    BY <2>1 DEF DocxTable
  <2> QED
    BY <1>1, <2>3, <2>4 DEF Carries
<1>3. Carries(DocxEnd(d))
  <2>1. SoundTree(Rooted(FlushList(d).tree))
    BY <1>1, RootedSound DEF Carries
  <2> QED
    BY <1>1, <2>1 DEF DocxEnd, Carries
<1> QED
  BY <1>1, <1>2, <1>3

\* A paragraph of a .docx.
LEMMA DocxParagraphCarries ==
  ASSUME NEW d, Carries(d), NEW word, NEW p \in Paragraphs
  PROVE  Carries(DocxParagraph(d, p, word))
<1>1. ASSUME NEW e, Carries(e) PROVE Carries(StyledParagraph(e, p, word))
  <2> DEFINE after == StyledParagraph(e, p, word)
  <2>1. /\ p.text \in BOOLEAN
        /\ p.style \in {"heading", "title", "caption", "code", "paragraph"}
        /\ p.style = "heading" => p.level \in Nat
    BY LevelsAssumption DEF Paragraphs, Styles
  <2>2. CASE ~p.text
    BY <1>1, <2>2 DEF StyledParagraph
  <2>3. CASE p.text /\ p.style = "title"
    <3>1. after = [e EXCEPT !.title = word]
      BY <2>3 DEF StyledParagraph
    <3> QED
      BY <1>1, <3>1 DEF Carries
  <2>4. CASE p.text /\ p.style = "heading"
    <3>1. SoundTree(Opened(e.tree, <<word>>, p.level))
      BY <1>1, <2>1, <2>4, HeadingOpened DEF Carries
    <3>2. after = [e EXCEPT !.tree = Opened(@, <<word>>, p.level)]
      BY <2>4 DEF StyledParagraph
    <3> QED
      BY <1>1, <3>1, <3>2 DEF Carries
  <2>5. CASE p.text /\ p.style \in {"caption", "code", "paragraph"}
    <3>1. SoundTree(Added(e.tree, Item(p.style, <<word>>)))
      BY <1>1, <2>5, ItemAdded DEF Carries
    <3>2. after = [e EXCEPT !.tree = Added(@, Item(p.style, <<word>>))]
      BY <2>5 DEF StyledParagraph
    <3> QED
      BY <1>1, <3>1, <3>2 DEF Carries
  <2> QED
    BY <2>1, <2>2, <2>3, <2>4, <2>5
<1>2. Carries(FlushList(d))
  BY DocxCarries
<1>3. Carries(DocxParagraph(d, p, word))
  <2>1. Carries(StyledParagraph(FlushList(d), p, word))
    BY <1>1, <1>2
  <2>2. ASSUME NEW e, Carries(e)
        PROVE  Carries([e EXCEPT !.num = p.num, !.list = Append(@, word)])
    BY <2>2 DEF Carries
  <2> QED
    BY <1>2, <2>1, <2>2 DEF DocxParagraph
<1> QED
  BY <1>3

\* Pages and blocks of a PDF.
LEMMA PdfCarries ==
  ASSUME NEW d, Carries(d), NEW block, NEW word, NEW images
  PROVE  /\ Carries(PdfBlock(d, block, word))
         /\ Carries(NextPage(d, images)) /\ Carries(PdfEnd(d))
<1>1. Carries(PageEnd(d))
  <2>1. CASE d.written
    BY <2>1 DEF PageEnd
  <2>2. CASE ~d.written
    <3>1. PICK b : b = [Item("placeholder", <<>>) EXCEPT
                          !.id = <<"ocr-placeholder", d.page>>]
      OBVIOUS
    <3>2. /\ ~IsContainer(b) /\ b.level \in Nat
          /\ {"kind", "level", "parent"} \subseteq DOMAIN b
      BY <3>1 DEF Item, IsContainer
    <3>3. SoundTree(Added(d.tree, b))
      BY <3>2, AddedSound DEF Carries
    <3>4. PICK after : after = PageEnd(d)
      OBVIOUS
    <3>5. "tree" \in DOMAIN after /\ after.tree = Added(d.tree, b)
      BY <2>2, <3>1, <3>4 DEF PageEnd, Carries
    <3> QED
      BY <3>3, <3>4, <3>5 DEF Carries
  <2> QED
    BY <2>1, <2>2
<1>2. Carries(PdfBlock(d, block, word))
  <2>1. PICK kind : kind = PdfKind(block)
    OBVIOUS
  <2>2. kind \in {"none", "figure", "code", "paragraph"}
    BY <2>1 DEF PdfKind
  <2>3. CASE kind = "none"
    BY <2>1, <2>3 DEF PdfBlock
  <2>4. CASE kind # "none"
    <3>1. PICK key : key = <<kind, block.box, block.text>>
      OBVIOUS
    <3>2. PICK id : id = SourceId(kind, d.page, block.box, block.text, Ordinal(d, key))
      OBVIOUS
    <3>3. PICK says : says = IF kind = "figure" THEN <<>> ELSE <<word>>
      OBVIOUS
    <3>4. PICK b : b = [Item(kind, says) EXCEPT !.id = id]
      OBVIOUS
    <3>5. /\ ~IsContainer(b) /\ b.level \in Nat
          /\ {"kind", "level", "parent"} \subseteq DOMAIN b
      BY <2>2, <2>4, <3>4 DEF Item, IsContainer
    <3>6. SoundTree(Added(d.tree, b))
      BY <3>5, AddedSound DEF Carries
    <3>7. PdfBlock(d, block, word)
            = [d EXCEPT !.tree = Added(@, b), !.seen = Append(@, key),
                        !.written = @ \/ kind # "figure"]
      BY <2>1, <2>4, <3>1, <3>2, <3>3, <3>4 DEF PdfBlock
    <3> QED
      BY <3>6, <3>7 DEF Carries
  <2> QED
    BY <2>3, <2>4
<1>3. Carries(NextPage(d, images)) /\ Carries(PdfEnd(d))
  BY <1>1 DEF NextPage, PdfEnd, Carries
<1> QED
  BY <1>2, <1>3

\* The HTML parser carries a tree and the level of the heading that is open, or 0.
Parses(h) == Carries(h) /\ "level" \in DOMAIN h /\ h.level \in Nat

\* A block is emitted into the open item or into the tree.
LEMMA EmitParses ==
  ASSUME NEW h, Parses(h), NEW kind, kind \notin {"container", "document"}, NEW says
  PROVE  Parses(Emit(h, Block(kind, says)))
<1>1. PICK after : after = Emit(h, Block(kind, says))
  OBVIOUS
<1>2. SoundTree(Added(h.tree, Item(kind, says)))
  BY ItemAdded DEF Parses, Carries
<1>3. CASE h.items # <<>>
  <2>1. after = [h EXCEPT !.items[Len(h.items)] = Append(@, Block(kind, says))]
    BY <1>1, <1>3 DEF Emit
  <2>2. after.tree = h.tree /\ after.level = h.level /\ {"tree", "level"} \subseteq DOMAIN after
    BY <2>1 DEF Parses, Carries
  <2> QED
    BY <1>1, <2>2 DEF Parses, Carries
<1>4. CASE h.items = <<>>
  <2>1. after = [h EXCEPT !.tree = Added(@, Item(kind, says))]
    BY <1>1, <1>4 DEF Emit, Block
  <2>2. /\ after.tree = Added(h.tree, Item(kind, says)) /\ after.level = h.level
        /\ {"tree", "level"} \subseteq DOMAIN after
    BY <2>1 DEF Parses, Carries
  <2> QED
    BY <1>1, <1>2, <2>2 DEF Parses, Carries
<1> QED
  BY <1>3, <1>4

\* The text that was read is emitted, if there is any.
LEMMA EmitTextParses ==
  ASSUME NEW h, Parses(h), NEW kind, kind \notin {"container", "document"}
  PROVE  Parses(EmitText(h, kind))
<1>1. Parses([h EXCEPT !.text = <<>>])
  BY DEF Parses, Carries
<1>2. Parses(Emit([h EXCEPT !.text = <<>>], Block(kind, h.text)))
  BY <1>1, EmitParses
<1> QED
  BY <1>2 DEF EmitText

\* A start tag.
LEMMA StartTagParses ==
  ASSUME NEW h, Parses(h), NEW tag
  PROVE  Parses(StartTag(h, tag))
<1> DEFINE after == StartTag(h, tag)
<1>1. Parses(Emit(h, Block("figure", <<>>)))
  BY EmitParses
<1>2. CASE h.skip = 0 /\ tag = "img"
  BY <1>1, <1>2 DEF StartTag, Heading
<1>3. CASE h.skip = 0 /\ tag \in Heading
  <2>1. after = [h EXCEPT !.level = LevelOf(tag), !.text = <<>>]
    BY <1>3 DEF StartTag, Heading
  <2>2. LevelOf(tag) \in Nat
    <3>1. \E n \in 1..6 : tag = <<"h1", "h2", "h3", "h4", "h5", "h6">>[n]
      BY <1>3 DEF Heading
    <3>2. LevelOf(tag) \in 1..6
      BY <3>1 DEF LevelOf
    <3> QED
      BY <3>2
  <2> QED
    BY <2>1, <2>2 DEF Parses, Carries
<1>4. CASE ~(h.skip = 0 /\ (tag = "img" \/ tag \in Heading))
  <2>1. after.tree = h.tree /\ after.level = h.level /\ {"tree", "level"} \subseteq DOMAIN after
    BY <1>4 DEF StartTag, Heading, Parses, Carries
  <2> QED
    BY <2>1 DEF Parses, Carries
<1> QED
  BY <1>2, <1>3, <1>4

\* An end tag.
LEMMA EndTagParses ==
  ASSUME NEW h, Parses(h), NEW tag
  PROVE  Parses(EndTag(h, tag))
<1> DEFINE after == EndTag(h, tag)
<1>1. ASSUME NEW g, g.tree = h.tree, g.level \in Nat, {"tree", "level"} \subseteq DOMAIN g
      PROVE  Parses(g)
  BY <1>1 DEF Parses, Carries
<1>2. Parses([h EXCEPT !.capture = FALSE])
  BY DEF Parses, Carries
<1>3. Parses(EndHeading(h))
  <2>1. SoundTree(Opened(h.tree, h.text, h.level))
    BY HeadingOpened DEF Parses, Carries
  <2>2. PICK g : g = EndHeading(h)
    OBVIOUS
  <2>3. /\ g.tree = IF h.text = <<>> THEN h.tree ELSE Opened(h.tree, h.text, h.level)
        /\ g.level = 0 /\ {"tree", "level"} \subseteq DOMAIN g
    BY <2>2 DEF EndHeading, Parses, Carries
  <2> QED
    BY <2>1, <2>2, <2>3 DEF Parses, Carries
<1>4. Parses(EndList(h))
  <2>1. PICK shut : shut = [h EXCEPT !.lists = Front(@)]
    OBVIOUS
  <2>2. Parses(shut)
    BY <2>1 DEF Parses, Carries
  <2>3. PICK says : says = SaidBy(FlattenSeq(Last(h.lists)))
    OBVIOUS
  <2>4. Parses(Emit(shut, Block("list", says)))
    BY <2>2, EmitParses
  <2> QED
    BY <2>1, <2>2, <2>3, <2>4 DEF EndList
<1>5. Parses(EndTable(h))
  <2>1. PICK says : says = FlattenSeq(FlattenSeq(h.rows))
    OBVIOUS
  <2>2. PICK g : g = IF h.rows = <<>> THEN h ELSE Emit(h, Block("table", says))
    OBVIOUS
  <2>3. Parses(Emit(h, Block("table", says)))
    BY EmitParses
  <2>4. Parses(g)
    BY <2>2, <2>3
  <2>5. EndTable(h) = [g EXCEPT !.rows = <<>>]
    BY <2>1, <2>2 DEF EndTable
  <2> QED
    BY <2>4, <2>5 DEF Parses, Carries
<1>6. /\ Parses(EndTitle(h)) /\ Parses(EndItem(h))
      /\ Parses(EndCell(h)) /\ Parses(EndRow(h))
  BY DEF EndTitle, EndItem, EndCell, EndRow, Parses, Carries
<1>7. /\ Parses(EmitText([h EXCEPT !.capture = FALSE], "code"))
      /\ Parses(EmitText([h EXCEPT !.capture = FALSE], "caption"))
      /\ Parses(EmitText([h EXCEPT !.capture = FALSE], "paragraph"))
  BY <1>2, EmitTextParses
<1>8. Parses([h EXCEPT !.skip = IF @ = 0 THEN 0 ELSE @ - 1])
  BY DEF Parses, Carries
<1>9. after \in {[h EXCEPT !.skip = IF @ = 0 THEN 0 ELSE @ - 1], h,
                 EndTitle(h), EndHeading(h), EndItem(h),
                 EndList(h), EndCell(h), EndRow(h),
                 EndTable(h),
                 EmitText([h EXCEPT !.capture = FALSE], "code"),
                 EmitText([h EXCEPT !.capture = FALSE], "caption"),
                 EmitText([h EXCEPT !.capture = FALSE], "paragraph")}
  BY DEF EndTag, Heading
<1> HIDE DEF after
<1>10. Parses(after)
  BY <1>3, <1>4, <1>5, <1>6, <1>7, <1>8, <1>9
<1> QED
  BY <1>10 DEF after

\* Text, and the end of a page.
LEMMA TextDataParses ==
  ASSUME NEW h, Parses(h), NEW word
  PROVE  Parses(TextData(h, word)) /\ Carries(HtmlEnd(h))
<1>1. SoundTree(Rooted(h.tree))
  BY RootedSound DEF Parses, Carries
<1> QED
  BY <1>1 DEF TextData, HtmlEnd, Parses, Carries

-----------------------------------------------------------------------------
(* Every source *)

\* The invariant of the adapters. The parser of HTML, until it has ended, knows the level
\* of the heading it is in (Parses), and pushes a container at that level.
NestingInv ==
  /\ format \in Formats /\ Carries(reader)
  /\ format = "html" /\ ~done => Parses(reader)

\* Nothing is read yet: the tree is empty, or holds the root container alone.
LEMMA NestingInitially == Init => NestingInv
<1> SUFFICES ASSUME Init PROVE NestingInv
  OBVIOUS
<1>1. /\ SoundTree(EmptyTree) /\ SoundTree(WithCurrent(EmptyTree))
  BY EmptyTreeSound, WithCurrentSound
<1>2. format \in Formats /\ reader = Start[format]
  BY DEF Init
<1>3. reader.tree \in {EmptyTree, WithCurrent(EmptyTree)}
      /\ "tree" \in DOMAIN reader
  BY <1>2 DEF Start, Formats, Reading, TextStart,
       DocxStart, NotebookStart, PdfStart, HtmlStart
<1>4. format = "html" => "level" \in DOMAIN reader /\ reader.level = 0
  BY <1>2 DEF Start, HtmlStart
<1> QED
  BY <1>1, <1>2, <1>3, <1>4 DEF NestingInv, Carries, Parses

\* Each event of each format is read by one step of its reader, which keeps the tree sound.
LEMMA NestingStep ==
  ASSUME NestingInv, Next PROVE NestingInv'
<1>1. format \in Formats /\ Carries(reader) /\ (format = "html" /\ ~done => Parses(reader))
  BY DEF NestingInv
<1>2. ASSUME NEW f, NEW event, Reads(f, event), f # "html", Carries(reader')
      PROVE  NestingInv'
  BY <1>1, <1>2 DEF Reads, NestingInv
<1>3. ASSUME NEW event, Reads("html", event), Parses(reader) => Parses(reader')
      PROVE  NestingInv'
  BY <1>1, <1>3 DEF Reads, NestingInv, Parses
<1>4. CASE ReadMarkdown
  BY <1>1, <1>2, <1>4, MarkdownLineCarries DEF ReadMarkdown
<1>5. CASE ReadText
  BY <1>1, <1>2, <1>5, TextLineCarries DEF ReadText
<1>6. CASE ReadParagraph
  BY <1>1, <1>2, <1>6, DocxParagraphCarries DEF ReadParagraph
<1>7. CASE ReadTable
  BY <1>1, <1>2, <1>7, DocxCarries DEF ReadTable
<1>8. CASE ReadCellLine
  BY <1>1, <1>2, <1>8, MarkdownLineCarries DEF ReadCellLine
<1>9. CASE ReadCellEnd
  <2>1. "stream" \in Outputs
    BY DEF Outputs
  <2> QED
    BY <1>1, <1>2, <1>9, <2>1, NotebookCarries DEF ReadCellEnd
<1>10. CASE ReadCodeCell
  <2>1. "stream" \in Outputs
    BY DEF Outputs
  <2> QED
    BY <1>1, <1>2, <1>10, <2>1, NotebookCarries DEF ReadCodeCell
<1>11. CASE ReadOutput
  BY <1>1, <1>2, <1>11, NotebookCarries DEF ReadOutput
<1>12. CASE ReadPage
  BY <1>1, <1>2, <1>12, PdfCarries DEF ReadPage
<1>13. CASE ReadBlock
  BY <1>1, <1>2, <1>13, PdfCarries DEF ReadBlock
<1>14. CASE ReadStartTag
  BY <1>3, <1>14, StartTagParses DEF ReadStartTag
<1>15. CASE ReadEndTag
  BY <1>3, <1>15, EndTagParses DEF ReadEndTag
<1>16. CASE ReadData
  BY <1>3, <1>16, TextDataParses DEF ReadData
<1>17. CASE End
  <2>1. Carries(DocxEnd(reader)) /\ Carries(PdfEnd(reader))
    BY <1>1, DocxCarries, PdfCarries
  <2>2. format = "html" => Carries(HtmlEnd(reader))
    BY <1>1, <1>17, TextDataParses DEF End
  <2>3. PICK closed : closed = MarkdownEnd(reader)
    OBVIOUS
  <2>4. Carries(closed) /\ SoundTree(Rooted(closed.tree))
    BY <1>1, <2>3, FlushCarries, RootedSound DEF Carries
  <2>5. Carries([closed EXCEPT !.tree = Rooted(@)])
    BY <2>4 DEF Carries
  <2>6. Carries(Ended)
    BY <1>1, <2>1, <2>2, <2>3, <2>5 DEF Ended, Formats
  <2> QED
    BY <1>1, <1>17, <2>6 DEF End, NestingInv
<1> QED
  BY <1>4, <1>5, <1>6, <1>7, <1>8, <1>9, <1>10, <1>11, <1>12, <1>13, <1>14, <1>15, <1>16,
     <1>17 DEF Next

\* A container stands under the nearest shallower one before it, and a block in the
\* container that came last, however headings are skipped, repeated and returned to
\* (ContainerStack.open and add, adapters/_shared.py:52-89), in every format, for
\* sources of every length.
THEOREM SourcesNest == Spec => []NestingSound
<1>1. NestingInv /\ [Next]_(vars) => NestingInv'
  <2>1. ASSUME NestingInv, UNCHANGED vars PROVE NestingInv'
    BY <2>1 DEF NestingInv, Parses, vars
  <2> QED
    BY <2>1, NestingStep
<1>2. NestingInv => NestingSound
  <2> SUFFICES ASSUME NestingInv PROVE NestingSound
    OBVIOUS
  <2>1. SoundTree(reader.tree)
    BY DEF NestingInv, Carries
  <2>2. /\ IsSequence(reader.tree.items)
        /\ \A i \in 1..Len(reader.tree.items) : Nested(reader.tree.items, i)
    BY <2>1 DEF SoundTree, Shaped
  <2>3. DOMAIN reader.tree.items = 1..Len(reader.tree.items)
    BY <2>2, OneLonger
  <2> QED
    BY <2>2, <2>3, Zenon DEF Nested, NestingSound, Items, Tree
<1> QED
  BY <1>1, <1>2, NestingInitially, PTL DEF Spec

\* A set that holds 0 and with a number the next one holds all of them up to N.
LEMMA UpTo ==
  ASSUME NEW N \in Nat, NEW S, 0 \in S, \A n \in 1..N : n - 1 \in S => n \in S
  PROVE  \A n \in 0..N : n \in S
<1> DEFINE Bad == (0..N) \ S
<1>1. ASSUME Bad # {} PROVE FALSE
  <2>1. PICK n \in Bad : \A m \in Bad : n <= m
    <3>1. Bad \in SUBSET Nat
      OBVIOUS
    <3> HIDE DEF Bad
    <3> QED
      BY <1>1, <3>1, LeastOf
  <2>2. n \in 0..N /\ n \notin S /\ n # 0
    BY <2>1
  <2>3. n \in 1..N /\ n - 1 \in 0..N /\ ~(n <= n - 1)
    BY <2>2
  <2>4. n - 1 \notin Bad
    BY <2>1, <2>3
  <2> QED
    BY <2>2, <2>3, <2>4
<1> QED
  BY <1>1

\* A set that holds the empty sequence and with a sequence those one longer.
LEMMA EverySeq ==
  ASSUME NEW X, NEW S, <<>> \in S, \A s \in Seq(X) : \A e \in X : s \in S => Append(s, e) \in S
  PROVE  \A s \in Seq(X) : s \in S
<1> SUFFICES ASSUME NEW s \in Seq(X) PROVE s \in S
  OBVIOUS
<1> DEFINE P == {n \in 0..Len(s) : SubSeq(s, 1, n) \in S}
<1>1. Len(s) \in Nat
  OBVIOUS
<1>2. 0 \in P
  <2>1. SubSeq(s, 1, 0) = <<>>
    OBVIOUS
  <2>2. SubSeq(s, 1, 0) \in S
    BY <2>1, Zenon
  <2> QED
    BY <1>1, <2>2
<1>3. ASSUME NEW n \in 1..Len(s), n - 1 \in P PROVE n \in P
  <2> DEFINE front == SubSeq(s, 1, n - 1)
  <2>1. front \in Seq(X) /\ s[n] \in X /\ front \in S
    BY <1>3
  <2>2. SubSeq(s, 1, n) = Append(front, s[n])
    OBVIOUS
  <2> HIDE DEF front
  <2>3. SubSeq(s, 1, n) \in S
    BY <2>1, <2>2, Zenon
  <2> QED
    BY <2>3
<1> HIDE DEF P
<1>4. Len(s) \in P
  BY <1>1, <1>2, <1>3, UpTo
<1>5. SubSeq(s, 1, Len(s)) = s
  OBVIOUS
<1> QED
  BY <1>4, <1>5 DEF P

\* f is the recursion that starts at `base` and goes on by F.
Recursion(f, N, base, F) == f = [n \in 0..N |-> IF n = 0 THEN base ELSE F[<<n, f[n - 1]>>]]

\* There is such a function.
LEMMA RecursionExists ==
  ASSUME NEW A, NEW base \in A, NEW N \in Nat, NEW F \in [(1..N) \X A -> A]
  PROVE  \E f \in [0..N -> A] : Recursion(f, N, base, F)
<1> DEFINE P == {n \in 0..N : \E f \in [0..n -> A] : Recursion(f, n, base, F)}
<1>1. 0 \in P
  <2> DEFINE f == [n \in 0..0 |-> base]
  <2>1. f \in [0..0 -> A] /\ Recursion(f, 0, base, F)
    BY DEF Recursion
  <2> QED
    BY <2>1
<1>2. ASSUME NEW n \in 1..N, n - 1 \in P PROVE n \in P
  <2>1. PICK f \in [0..(n - 1) -> A] : Recursion(f, n - 1, base, F)
    BY <1>2
  <2> DEFINE g == [m \in 0..n |-> IF m = n THEN F[<<n, f[n - 1]>>] ELSE f[m]]
  <2>2. \A m \in 0..(n - 1) : g[m] = f[m]
    OBVIOUS
  <2>3. f[n - 1] \in A /\ F[<<n, f[n - 1]>>] \in A
    OBVIOUS
  <2>4. g \in [0..n -> A]
    BY <2>3
  <2>5. ASSUME NEW m \in 0..n PROVE g[m] = IF m = 0 THEN base ELSE F[<<m, g[m - 1]>>]
    <3>1. CASE m = n
      BY <2>2, <3>1
    <3>2. CASE m # n
      <4>1. m \in 0..(n - 1)
        BY <3>2
      <4>2. f[m] = IF m = 0 THEN base ELSE F[<<m, f[m - 1]>>]
        BY <2>1, <4>1 DEF Recursion
      <4>3. m # 0 => m - 1 \in 0..(n - 1)
        BY <4>1
      <4> QED
        BY <2>2, <4>1, <4>2, <4>3
    <3> QED
      BY <3>1, <3>2
  <2> HIDE DEF g
  <2>6. Recursion(g, n, base, F)
    BY <2>4, <2>5 DEF Recursion
  <2> QED
    BY <2>4, <2>6
<1> HIDE DEF P
<1>3. N \in P
  BY <1>1, <1>2, UpTo
<1> QED
  BY <1>3 DEF P

\* Of a sequence and one element more.
LEMMA AppendFacts ==
  ASSUME NEW X, NEW s \in Seq(X), NEW e \in X
  PROVE  /\ Range(Append(s, e)) = Range(s) \cup {e}
         /\ IsInjective(Append(s, e)) <=> IsInjective(s) /\ e \notin Range(s)
<1> DEFINE t == Append(s, e)
           N == Len(s)
<1>1. /\ N \in Nat /\ DOMAIN s = 1..N /\ DOMAIN t = 1..(N + 1)
      /\ t[N + 1] = e /\ \A n \in 1..N : t[n] = s[n]
  OBVIOUS
<1> HIDE DEF t, N
<1>2. Range(t) = Range(s) \cup {e}
  <2>1. ASSUME NEW x \in Range(t) PROVE x \in Range(s) \cup {e}
    <3>1. PICK n \in 1..(N + 1) : t[n] = x
      BY <1>1, <2>1 DEF Range
    <3>2. CASE n = N + 1
      BY <1>1, <3>1, <3>2
    <3>3. CASE n # N + 1
      <4>1. n \in 1..N
        BY <1>1, <3>3
      <4> QED
        BY <1>1, <3>1, <4>1 DEF Range
    <3> QED
      BY <3>2, <3>3
  <2>2. ASSUME NEW x \in Range(s) PROVE x \in Range(t)
    <3>1. PICK n \in 1..N : s[n] = x
      BY <1>1, <2>2 DEF Range
    <3>2. n \in 1..(N + 1) /\ t[n] = x
      BY <1>1, <3>1
    <3> QED
      BY <1>1, <3>2 DEF Range
  <2>3. e \in Range(t)
    <3>1. N + 1 \in 1..(N + 1)
      BY <1>1
    <3> QED
      BY <1>1, <3>1 DEF Range
  <2> QED
    BY <2>1, <2>2, <2>3
<1>3. ASSUME IsInjective(t) PROVE IsInjective(s) /\ e \notin Range(s)
  <2>1. \A i, j \in 1..(N + 1) : t[i] = t[j] => i = j
    BY <1>1, <1>3 DEF IsInjective
  <2>2. IsInjective(s)
    BY <1>1, <2>1 DEF IsInjective
  <2>3. ASSUME e \in Range(s) PROVE FALSE
    <3>1. PICK n \in 1..N : s[n] = e
      BY <1>1, <2>3 DEF Range
    <3>2. t[n] = t[N + 1] /\ n # N + 1 /\ n \in 1..(N + 1) /\ N + 1 \in 1..(N + 1)
      BY <1>1, <3>1
    <3> QED
      BY <2>1, <3>2
  <2> QED
    BY <2>2, <2>3
<1>4. ASSUME IsInjective(s), e \notin Range(s) PROVE IsInjective(t)
  <2>1. \A i \in 1..N : s[i] # e
    BY <1>1, <1>4 DEF Range
  <2>2. \A i, j \in 1..N : s[i] = s[j] => i = j
    BY <1>1, <1>4 DEF IsInjective
  <2>3. \A i \in 1..(N + 1) : i \in 1..N \/ i = N + 1
    BY <1>1
  <2>4. \A i, j \in 1..(N + 1) : t[i] = t[j] => i = j
    BY <1>1, <2>1, <2>2, <2>3
  <2> QED
    BY <1>1, <2>4 DEF IsInjective
<1> QED
  BY <1>2, <1>3, <1>4 DEF t

\* Of the empty sequence.
LEMMA EmptyFacts == Range(<<>>) = {} /\ IsInjective(<<>>)
  BY DEF Range, IsInjective

\* Of two sequences one after the other.
LEMMA ConcatFacts ==
  ASSUME NEW X, NEW s \in Seq(X), NEW t \in Seq(X)
  PROVE  /\ Range(s \o t) = Range(s) \cup Range(t)
         /\ IsInjective(s \o t) <=>
              IsInjective(s) /\ IsInjective(t) /\ Range(s) \cap Range(t) = {}
<1> DEFINE P == {u \in Seq(X) :
             /\ Range(s \o u) = Range(s) \cup Range(u)
             /\ IsInjective(s \o u) <=>
                  IsInjective(s) /\ IsInjective(u) /\ Range(s) \cap Range(u) = {}}
<1>1. <<>> \in P
  <2>1. s \o <<>> = s /\ <<>> \in Seq(X)
    OBVIOUS
  <2> QED
    BY <2>1, EmptyFacts
<1>2. ASSUME NEW u \in Seq(X), NEW e \in X, u \in P PROVE Append(u, e) \in P
  <2>1. s \o Append(u, e) = Append(s \o u, e) /\ s \o u \in Seq(X) /\ Append(u, e) \in Seq(X)
    OBVIOUS
  <2>2. /\ Range(s \o u) = Range(s) \cup Range(u)
        /\ IsInjective(s \o u) <=>
             IsInjective(s) /\ IsInjective(u) /\ Range(s) \cap Range(u) = {}
    BY <1>2
  <2>3. /\ Range(Append(u, e)) = Range(u) \cup {e}
        /\ IsInjective(Append(u, e)) <=> IsInjective(u) /\ e \notin Range(u)
    BY AppendFacts
  <2>4. /\ Range(Append(s \o u, e)) = Range(s \o u) \cup {e}
        /\ IsInjective(Append(s \o u, e)) <=> IsInjective(s \o u) /\ e \notin Range(s \o u)
    BY <2>1, AppendFacts
  <2>5. Range(s \o Append(u, e)) = Range(s) \cup Range(Append(u, e))
    BY <2>1, <2>2, <2>3, <2>4
  <2>6. IsInjective(s \o Append(u, e)) <=> IsInjective(s \o u) /\ e \notin Range(s) \cup Range(u)
    BY <2>1, <2>2, <2>4
  <2>7. Range(s) \cap Range(Append(u, e)) = {} <=> e \notin Range(s) /\ Range(s) \cap Range(u) = {}
    BY <2>3
  <2> QED
    BY <2>1, <2>2, <2>3, <2>5, <2>6, <2>7
<1> HIDE DEF P
<1>3. \A u \in Seq(X) : u \in P
  BY <1>1, <1>2, EverySeq
<1> QED
  BY <1>3 DEF P

\* What FlattenSeq's function is at each index.
FlatSteps(f, c) == f[1] = c[1] /\ \A i \in 2..Len(c) : f[i] = f[i - 1] \o c[i]

\* FlattenSeq is one of them.
LEMMA FlattenIs ==
  ASSUME NEW X, NEW c \in Seq(Seq(X)), Len(c) # 0
  PROVE  \E f \in [1..Len(c) -> Seq(X)] : FlatSteps(f, c) /\ FlattenSeq(c) = f[Len(c)]
<1> DEFINE N == Len(c)
           F == [p \in (1..(N - 1)) \X Seq(X) |-> p[2] \o c[p[1] + 1]]
           Is(f) == f = [i \in 1..N |-> IF i = 1 THEN c[i] ELSE f[i - 1] \o c[i]]
           g == CHOOSE f : Is(f)
<1>1. N \in Nat /\ N - 1 \in Nat /\ N >= 1 /\ \A n \in 1..N : c[n] \in Seq(X)
  OBVIOUS
<1>2. F \in [(1..(N - 1)) \X Seq(X) -> Seq(X)]
  <2>1. ASSUME NEW n \in 1..(N - 1), NEW x \in Seq(X) PROVE x \o c[n + 1] \in Seq(X)
    <3>1. c[n + 1] \in Seq(X)
      BY <1>1
    <3> QED
      BY <3>1
  <2> HIDE DEF N
  <2> QED
    BY <2>1
<1>3. PICK f \in [0..(N - 1) -> Seq(X)] : Recursion(f, N - 1, c[1], F)
  <2>1. c[1] \in Seq(X)
    BY <1>1
  <2> HIDE DEF F, N
  <2> QED
    BY <1>1, <1>2, <2>1, RecursionExists
<1> DEFINE h == [i \in 1..N |-> f[i - 1]]
<1>4. ASSUME NEW i \in 1..N
      PROVE  h[i] = IF i = 1 THEN c[i] ELSE h[i - 1] \o c[i]
  <2>1. i - 1 \in 0..(N - 1)
    BY <1>1
  <2>2. f[i - 1] = IF i - 1 = 0 THEN c[1] ELSE F[<<i - 1, f[(i - 1) - 1]>>]
    BY <1>3, <2>1 DEF Recursion
  <2>3. i # 1 => i - 1 \in 1..N /\ i - 1 \in 1..(N - 1) /\ (i - 1) - 1 \in 0..(N - 1) /\ (i - 1) + 1 = i
    BY <1>1
  <2>4. i # 1 => f[(i - 1) - 1] \in Seq(X)
    BY <2>3
  <2>5. i # 1 => F[<<i - 1, f[(i - 1) - 1]>>] = f[(i - 1) - 1] \o c[i]
    BY <2>3, <2>4
  <2>6. i = 1 => f[i - 1] = c[1]
    BY <2>2
  <2>7. h[i] = f[i - 1] /\ (i # 1 => h[i - 1] = f[(i - 1) - 1])
    BY <2>3
  <2>8. i # 1 => f[i - 1] = f[(i - 1) - 1] \o c[i]
    <3> HIDE DEF F, N
    <3>1. i # 1 => i - 1 # 0
      BY <1>1
    <3> QED
      BY <2>2, <2>5, <3>1
  <2> HIDE DEF F, N, h
  <2>9. CASE i = 1
    BY <2>6, <2>7, <2>9
  <2>10. CASE i # 1
    BY <2>7, <2>8, <2>10
  <2> QED
    BY <2>9, <2>10
<1>5. Is(h)
  <2>1. h = [i \in 1..N |-> h[i]]
    OBVIOUS
  <2> HIDE DEF h, N
  <2> QED
    BY <1>4, <2>1
<1>6. Is(g)
  <2> HIDE DEF h
  <2> QED
    BY <1>5
<1>7. FlattenSeq(c) = g[N]
  BY DEF FlattenSeq
<1> HIDE DEF g
<1>8. \A i \in 1..N : g[i] = IF i = 1 THEN c[i] ELSE g[i - 1] \o c[i]
  BY <1>6
<1>9. DOMAIN g = 1..N
  BY <1>6
<1> HIDE DEF N
<1> DEFINE P == {n \in 0..(N - 1) : g[n + 1] \in Seq(X)}
<1>10. \A n \in 0..(N - 1) : n \in P
  <2>1. 0 \in P
    <3>1. 0 \in 0..(N - 1) /\ 0 + 1 = 1 /\ 1 \in 1..N
      BY <1>1
    <3>2. g[1] = c[1]
      BY <1>8, <3>1
    <3>3. g[0 + 1] \in Seq(X)
      BY <1>1, <3>1, <3>2
    <3> QED
      BY <3>1, <3>3
  <2>2. ASSUME NEW n \in 1..(N - 1), n - 1 \in P PROVE n \in P
    <3>1. n + 1 \in 1..N /\ n + 1 # 1 /\ (n + 1) - 1 = (n - 1) + 1 /\ n \in 0..(N - 1)
      BY <1>1
    <3>2. g[(n - 1) + 1] \in Seq(X) /\ c[n + 1] \in Seq(X)
      BY <1>1, <2>2, <3>1
    <3>3. g[n + 1] = g[(n - 1) + 1] \o c[n + 1]
      BY <1>8, <3>1
    <3>4. g[n + 1] \in Seq(X)
      BY <3>2, <3>3
    <3> QED
      BY <3>1, <3>4
  <2> HIDE DEF P
  <2> QED
    BY <1>1, <2>1, <2>2, UpTo
<1>11. ASSUME NEW i \in 1..N PROVE g[i] \in Seq(X)
  <2>1. i - 1 \in 0..(N - 1) /\ (i - 1) + 1 = i
    BY <1>1
  <2>2. g[(i - 1) + 1] \in Seq(X)
    BY <1>10, <2>1
  <2> QED
    BY <2>1, <2>2
<1>12. g \in [1..N -> Seq(X)]
  <2>1. g = [i \in 1..N |-> g[i]]
    BY <1>6
  <2> QED
    BY <1>11, <2>1
<1>13. FlatSteps(g, c)
  <2>1. \A i \in 2..N : i \in 1..N /\ i # 1
    BY <1>1
  <2>2. 1 \in 1..N
    BY <1>1
  <2> QED
    BY <1>8, <2>1, <2>2 DEF FlatSteps, N
<1> QED
  BY <1>7, <1>12, <1>13 DEF N

\* No sequences make an empty one.
LEMMA FlattenEmpty == FlattenSeq(<<>>) = <<>>
  BY DEF FlattenSeq

\* Sequences of elements make a sequence of elements.
LEMMA FlattenType ==
  ASSUME NEW X, NEW c \in Seq(Seq(X))
  PROVE  FlattenSeq(c) \in Seq(X)
<1>1. CASE Len(c) = 0
  <2>1. c = <<>> /\ <<>> \in Seq(X)
    BY <1>1
  <2> QED
    BY <2>1, FlattenEmpty
<1>2. CASE Len(c) # 0
  <2>1. Len(c) \in 1..Len(c)
    BY <1>2
  <2> QED
    BY <1>2, <2>1, FlattenIs
<1> QED
  BY <1>1, <1>2

\* One sequence more.
LEMMA FlattenAppend ==
  ASSUME NEW X, NEW c \in Seq(Seq(X)), NEW x \in Seq(X)
  PROVE  FlattenSeq(Append(c, x)) = FlattenSeq(c) \o x
<1> DEFINE t == Append(c, x)
           N == Len(c)
<1>1. /\ t \in Seq(Seq(X)) /\ Len(t) = N + 1 /\ N \in Nat
      /\ t[N + 1] = x /\ \A n \in 1..N : t[n] = c[n]
  OBVIOUS
<1> HIDE DEF t
<1>2. Len(t) # 0
  BY <1>1
<1>3. PICK g : FlatSteps(g, t) /\ FlattenSeq(t) = g[N + 1]
  BY <1>1, <1>2, FlattenIs
<1>4. CASE N = 0
  <2>1. c = <<>>
    BY <1>4
  <2>2. FlattenSeq(t) = x
    BY <1>1, <1>3, <1>4 DEF FlatSteps
  <2>3. <<>> \o x = x
    OBVIOUS
  <2> QED
    BY <2>1, <2>2, <2>3, FlattenEmpty DEF t
<1>5. CASE N # 0
  <2>1. PICK f : FlatSteps(f, c) /\ FlattenSeq(c) = f[N]
    BY <1>5, FlattenIs
  <2> HIDE DEF N
  <2> DEFINE P == {n \in 0..(N - 1) : f[n + 1] = g[n + 1]}
  <2>2. 0 \in P
    <3>1. 0 \in 0..(N - 1) /\ 0 + 1 = 1 /\ 1 \in 1..N
      BY <1>1, <1>5
    <3>2. f[1] = c[1] /\ g[1] = t[1] /\ t[1] = c[1]
      BY <1>1, <1>3, <2>1, <3>1 DEF FlatSteps
    <3>3. f[0 + 1] = g[0 + 1]
      BY <3>1, <3>2
    <3> QED
      BY <3>1, <3>3
  <2>3. ASSUME NEW n \in 1..(N - 1), n - 1 \in P PROVE n \in P
    <3>1. n + 1 \in 2..N /\ n + 1 \in 1..N /\ n + 1 \in 2..(N + 1) /\ (n + 1) - 1 = (n - 1) + 1 /\ n \in 0..(N - 1)
      BY <1>1
    <3>2. f[(n - 1) + 1] = g[(n - 1) + 1]
      BY <2>3
    <3>3. f[n + 1] = f[(n + 1) - 1] \o c[n + 1] /\ g[n + 1] = g[(n + 1) - 1] \o t[n + 1]
      BY <1>1, <1>3, <2>1, <3>1 DEF FlatSteps, N
    <3>4. f[n + 1] = g[n + 1]
      BY <1>1, <3>1, <3>2, <3>3
    <3> QED
      BY <3>1, <3>4
  <2>4. \A n \in 0..(N - 1) : n \in P
    <3>1. N - 1 \in Nat
      BY <1>1, <1>5
    <3> HIDE DEF P
    <3> QED
      BY <2>2, <2>3, <3>1, UpTo
  <2>5. f[N] = g[N]
    <3>1. N - 1 \in 0..(N - 1) /\ (N - 1) + 1 = N
      BY <1>1, <1>5
    <3>2. f[(N - 1) + 1] = g[(N - 1) + 1]
      BY <2>4, <3>1
    <3> QED
      BY <3>1, <3>2
  <2>6. g[N + 1] = g[N] \o x
    <3>1. N + 1 \in 2..Len(t) /\ (N + 1) - 1 = N
      BY <1>1, <1>5
    <3> QED
      BY <1>1, <1>3, <3>1 DEF FlatSteps
  <2> QED
    BY <1>3, <2>1, <2>5, <2>6 DEF t
<1> QED
  BY <1>4, <1>5

\* Three sequences, and one that may be empty.
LEMMA Concats ==
  ASSUME NEW X, NEW s \in Seq(X), NEW t \in Seq(X), NEW u \in Seq(X)
  PROVE  /\ s \o t \in Seq(X) /\ (s \o t) \o u = s \o (t \o u)
         /\ s \o <<>> = s /\ <<>> \o s = s /\ <<>> \in Seq(X)
  OBVIOUS

\* Two sequences of sequences.
LEMMA FlattenConcat ==
  ASSUME NEW X, NEW c \in Seq(Seq(X)), NEW d \in Seq(Seq(X))
  PROVE  FlattenSeq(c \o d) = FlattenSeq(c) \o FlattenSeq(d)
<1> DEFINE P == {e \in Seq(Seq(X)) : FlattenSeq(c \o e) = FlattenSeq(c) \o FlattenSeq(e)}
<1>1. <<>> \in P
  <2>1. c \o <<>> = c /\ <<>> \in Seq(Seq(X)) /\ FlattenSeq(c) \in Seq(X)
    BY FlattenType
  <2>2. FlattenSeq(c) \o <<>> = FlattenSeq(c)
    BY <2>1
  <2> QED
    BY <2>1, <2>2, FlattenEmpty
<1>2. ASSUME NEW e \in Seq(Seq(X)), NEW x \in Seq(X), e \in P PROVE Append(e, x) \in P
  <2>1. c \o Append(e, x) = Append(c \o e, x) /\ c \o e \in Seq(Seq(X)) /\ Append(e, x) \in Seq(Seq(X))
    OBVIOUS
  <2>2. PICK C : C = FlattenSeq(c)
    OBVIOUS
  <2>3. PICK E : E = FlattenSeq(e)
    OBVIOUS
  <2>4. C \in Seq(X) /\ E \in Seq(X)
    BY <2>2, <2>3, FlattenType
  <2>5. FlattenSeq(c \o e) = C \o E
    BY <1>2, <2>2, <2>3
  <2>6. FlattenSeq(Append(c \o e, x)) = (C \o E) \o x
    BY <2>1, <2>5, FlattenAppend
  <2>7. FlattenSeq(Append(e, x)) = E \o x
    BY <2>3, FlattenAppend
  <2>8. (C \o E) \o x = C \o (E \o x)
    BY <2>4
  <2>9. FlattenSeq(c \o Append(e, x)) = FlattenSeq(c) \o FlattenSeq(Append(e, x))
    BY <2>1, <2>2, <2>6, <2>7, <2>8, Zenon
  <2> QED
    BY <2>1, <2>9
<1> HIDE DEF P
<1>3. \A e \in Seq(Seq(X)) : e \in P
  BY <1>1, <1>2, EverySeq
<1> QED
  BY <1>3 DEF P

-----------------------------------------------------------------------------
(* What blocks say *)

\* Blocks, or the items of a tree, that say words.
Worded(s) == IsSequence(s) /\ \A i \in DOMAIN s : s[i].says \in Seq(Nat)

\* One block more says its words after the others.
LEMMA SaidByAppend ==
  ASSUME NEW s, Worded(s), NEW e, e.says \in Seq(Nat)
  PROVE  /\ Worded(Append(s, e)) /\ SaidBy(s) \in Seq(Nat)
         /\ SaidBy(Append(s, e)) = SaidBy(s) \o e.says
<1> DEFINE texts == [i \in DOMAIN s |-> s[i].says]
<1>1. PICK t : t = Append(s, e)
  OBVIOUS
<1>2. PICK n : n = Len(s)
  OBVIOUS
<1>3. /\ IsSequence(t) /\ n \in Nat /\ DOMAIN s = 1..n /\ Len(t) = n + 1
      /\ \A i \in 1..n : t[i] = s[i]
      /\ t[n + 1] = e
  BY <1>1, <1>2, OneLonger DEF Worded
<1>4. DOMAIN t = 1..(n + 1)
  BY <1>3, OneLonger
<1>5. texts = [i \in 1..n |-> s[i].says] /\ \A i \in 1..n : s[i].says \in Seq(Nat)
  BY <1>3 DEF Worded
<1>6. texts \in Seq(Seq(Nat)) /\ Len(texts) = n /\ \A i \in 1..n : texts[i] = s[i].says
  <2> HIDE DEF texts
  <2> QED
    BY <1>3, <1>5
<1>7. \A i \in DOMAIN t : t[i].says \in Seq(Nat)
  BY <1>3, <1>4, <1>5
<1>8. [i \in DOMAIN t |-> t[i].says] = Append(texts, e.says)
  <2>1. PICK a : a = Append(texts, e.says)
    OBVIOUS
  <2> HIDE DEF texts
  <2>2. a \in Seq(Seq(Nat)) /\ Len(a) = n + 1 /\ a[n + 1] = e.says /\ \A i \in 1..n : a[i] = texts[i]
    BY <1>3, <1>6, <2>1
  <2>3. a = [i \in 1..(n + 1) |-> a[i]]
    BY <1>3, <2>2
  <2>4. \A i \in 1..(n + 1) : a[i] = t[i].says
    BY <1>3, <1>6, <2>2
  <2>5. [i \in DOMAIN t |-> t[i].says] = a
    BY <1>4, <2>3, <2>4
  <2> QED
    BY <2>1, <2>5
<1>9. SaidBy(t) = FlattenSeq(Append(texts, e.says)) /\ SaidBy(s) = FlattenSeq(texts)
  BY <1>8, Zenon DEF SaidBy
<1>10. FlattenSeq(Append(texts, e.says)) = FlattenSeq(texts) \o e.says /\ FlattenSeq(texts) \in Seq(Nat)
  <2> HIDE DEF texts
  <2> QED
    BY <1>6, FlattenAppend, FlattenType
<1>11. Worded(t) /\ SaidBy(s) \in Seq(Nat) /\ SaidBy(t) = SaidBy(s) \o e.says
  <2> HIDE DEF texts
  <2> QED
    BY <1>3, <1>7, <1>9, <1>10, Zenon DEF Worded
<1> QED
  BY <1>1, <1>11, Zenon

\* No blocks say nothing.
LEMMA SaidByNone == Worded(<<>>) /\ SaidBy(<<>>) = <<>>
<1>1. IsSequence(<<>>) /\ DOMAIN <<>> = {}
  BY DEF IsSequence
<1>2. [i \in DOMAIN <<>> |-> <<>>[i].says] = <<>>
  BY <1>1
<1>3. SaidBy(<<>>) = FlattenSeq(<<>>)
  BY <1>2, Zenon DEF SaidBy
<1> QED
  BY <1>1, <1>3, FlattenEmpty DEF Worded

\* The blocks of a page of HTML.
Blocks == [kind : {"figure", "code", "caption", "paragraph", "list", "table"}, says : Seq(Nat)]

\* Blocks say what they say, one after the other.
LEMMA SaidByFacts ==
  ASSUME NEW s \in Seq(Blocks)
  PROVE  /\ Worded(s) /\ SaidBy(s) \in Seq(Nat)
         /\ \A b \in Blocks : SaidBy(Append(s, b)) = SaidBy(s) \o b.says
<1> DEFINE P == {t \in Seq(Blocks) : Worded(t)}
<1>1. <<>> \in P
  BY SaidByNone
<1>2. ASSUME NEW t \in Seq(Blocks), NEW b \in Blocks, t \in P PROVE Append(t, b) \in P
  <2>1. b.says \in Seq(Nat) /\ Append(t, b) \in Seq(Blocks)
    BY DEF Blocks
  <2> QED
    BY <1>2, <2>1, SaidByAppend
<1> HIDE DEF P
<1>3. s \in P
  BY <1>1, <1>2, EverySeq
<1>4. Worded(s)
  BY <1>3 DEF P
<1>5. ASSUME NEW b \in Blocks PROVE SaidBy(s) \in Seq(Nat) /\ SaidBy(Append(s, b)) = SaidBy(s) \o b.says
  <2>1. b.says \in Seq(Nat)
    BY DEF Blocks
  <2> QED
    BY <1>4, <2>1, SaidByAppend
<1>6. Block("figure", <<>>) \in Blocks
  BY DEF Block, Blocks
<1> QED
  BY <1>4, <1>5, <1>6

\* Two sequences of blocks.
LEMMA SaidByConcat ==
  ASSUME NEW s \in Seq(Blocks), NEW t \in Seq(Blocks)
  PROVE  SaidBy(s \o t) = SaidBy(s) \o SaidBy(t)
<1> DEFINE P == {u \in Seq(Blocks) : SaidBy(s \o u) = SaidBy(s) \o SaidBy(u)}
<1>1. SaidBy(s) \in Seq(Nat)
  BY SaidByFacts
<1>2. <<>> \in P
  <2>1. s \o <<>> = s /\ <<>> \in Seq(Blocks) /\ SaidBy(s) \o <<>> = SaidBy(s)
    BY <1>1
  <2> QED
    BY <2>1, SaidByNone
<1>3. ASSUME NEW u \in Seq(Blocks), NEW b \in Blocks, u \in P PROVE Append(u, b) \in P
  <2>1. s \o Append(u, b) = Append(s \o u, b) /\ s \o u \in Seq(Blocks) /\ Append(u, b) \in Seq(Blocks)
    OBVIOUS
  <2>2. PICK S : S = SaidBy(s)
    OBVIOUS
  <2>3. PICK U : U = SaidBy(u)
    OBVIOUS
  <2>4. PICK w : w = b.says
    OBVIOUS
  <2>5. S \in Seq(Nat) /\ U \in Seq(Nat) /\ w \in Seq(Nat)
    BY <2>2, <2>3, <2>4, SaidByFacts DEF Blocks
  <2>6. SaidBy(Append(s \o u, b)) = (S \o U) \o w
    BY <1>3, <2>1, <2>2, <2>3, <2>4, SaidByFacts
  <2>7. SaidBy(Append(u, b)) = U \o w
    BY <2>3, <2>4, SaidByFacts
  <2>8. (S \o U) \o w = S \o (U \o w)
    BY <2>5, Concats
  <2>9. SaidBy(s \o Append(u, b)) = SaidBy(s) \o SaidBy(Append(u, b))
    BY <2>1, <2>2, <2>6, <2>7, <2>8, Zenon
  <2> QED
    BY <2>1, <2>9
<1> HIDE DEF P
<1>4. t \in P
  BY <1>2, <1>3, EverySeq
<1> QED
  BY <1>4 DEF P

-----------------------------------------------------------------------------
(* Numbers in their order *)

\* What InOrder's function is at each number.
OrderSteps(f, numbers, n) ==
  /\ f[0] = <<>>
  /\ \A k \in 1..n : f[k] = IF k \in numbers THEN Append(f[k - 1], k) ELSE f[k - 1]

\* InOrder is one of them.
LEMMA InOrderIs ==
  ASSUME NEW numbers, NEW n \in Nat
  PROVE  \E f \in [0..n -> Seq(Nat)] : OrderSteps(f, numbers, n) /\ InOrder(numbers, n) = f[n]
<1> DEFINE F == [p \in (1..n) \X Seq(Nat) |-> IF p[1] \in numbers THEN Append(p[2], p[1]) ELSE p[2]]
           Is(f) == f = [k \in 0..n |->
             IF k = 0 THEN <<>> ELSE IF k \in numbers THEN Append(f[k - 1], k) ELSE f[k - 1]]
           g == CHOOSE f : Is(f)
<1>1. F \in [(1..n) \X Seq(Nat) -> Seq(Nat)]
  OBVIOUS
<1>2. PICK f \in [0..n -> Seq(Nat)] : Recursion(f, n, <<>>, F)
  <2>1. <<>> \in Seq(Nat)
    OBVIOUS
  <2> HIDE DEF F
  <2> QED
    BY <1>1, <2>1, RecursionExists
<1>3. ASSUME NEW k \in 0..n
      PROVE  f[k] = IF k = 0 THEN <<>> ELSE IF k \in numbers THEN Append(f[k - 1], k) ELSE f[k - 1]
  <2>1. f[k] = IF k = 0 THEN <<>> ELSE F[<<k, f[k - 1]>>]
    BY <1>2 DEF Recursion
  <2>2. k # 0 => k \in 1..n /\ k - 1 \in 0..n
    OBVIOUS
  <2>3. k # 0 => F[<<k, f[k - 1]>>] = IF k \in numbers THEN Append(f[k - 1], k) ELSE f[k - 1]
    BY <2>2
  <2> HIDE DEF F
  <2> QED
    BY <2>1, <2>3
<1>4. Is(f)
  <2>1. f = [k \in 0..n |-> f[k]]
    OBVIOUS
  <2> QED
    BY <1>3, <2>1
<1>5. Is(g)
  BY <1>4
<1>6. InOrder(numbers, n) = g[n]
  BY DEF InOrder
<1> HIDE DEF g
<1>7. \A k \in 0..n : g[k] = IF k = 0 THEN <<>> ELSE IF k \in numbers THEN Append(g[k - 1], k) ELSE g[k - 1]
  BY <1>5
<1>8. DOMAIN g = 0..n /\ g = [k \in 0..n |-> g[k]]
  BY <1>5
<1> DEFINE P == {k \in 0..n : g[k] \in Seq(Nat)}
<1>9. \A k \in 0..n : k \in P
  <2>1. 0 \in P
    <3>1. g[0] = <<>> /\ 0 \in 0..n
      BY <1>7
    <3>2. g[0] \in Seq(Nat)
      BY <3>1
    <3> QED
      BY <3>1, <3>2
  <2>2. ASSUME NEW k \in 1..n, k - 1 \in P PROVE k \in P
    <3>1. k \in 0..n /\ k # 0 /\ g[k - 1] \in Seq(Nat) /\ k \in Nat
      BY <2>2
    <3>2. g[k] = IF k \in numbers THEN Append(g[k - 1], k) ELSE g[k - 1]
      BY <1>7, <3>1
    <3>3. g[k] \in Seq(Nat)
      BY <3>1, <3>2
    <3> QED
      BY <3>1, <3>3
  <2> HIDE DEF P
  <2> QED
    BY <2>1, <2>2, UpTo
<1>10. g \in [0..n -> Seq(Nat)]
  BY <1>8, <1>9
<1>11. OrderSteps(g, numbers, n)
  <2>1. \A k \in 1..n : k \in 0..n /\ k # 0
    OBVIOUS
  <2> QED
    BY <1>7, <2>1 DEF OrderSteps
<1> QED
  BY <1>6, <1>10, <1>11

\* They are some of them, each once.
LEMMA InOrderFacts ==
  ASSUME NEW numbers, NEW n \in Nat
  PROVE  /\ InOrder(numbers, n) \in Seq(Nat)
         /\ Range(InOrder(numbers, n)) \subseteq 1..n
         /\ IsInjective(InOrder(numbers, n))
<1>1. PICK f \in [0..n -> Seq(Nat)] : OrderSteps(f, numbers, n) /\ InOrder(numbers, n) = f[n]
  BY InOrderIs
<1> DEFINE P == {k \in 0..n : Range(f[k]) \subseteq 1..k /\ IsInjective(f[k])}
<1>2. 0 \in P
  BY <1>1, EmptyFacts DEF OrderSteps
<1>3. ASSUME NEW k \in 1..n, k - 1 \in P PROVE k \in P
  <2>1. /\ k - 1 \in 0..n /\ k \in Nat /\ f[k - 1] \in Seq(Nat)
        /\ Range(f[k - 1]) \subseteq 1..(k - 1) /\ IsInjective(f[k - 1])
    BY <1>3
  <2>2. f[k] = IF k \in numbers THEN Append(f[k - 1], k) ELSE f[k - 1]
    BY <1>1 DEF OrderSteps
  <2>3. /\ Range(Append(f[k - 1], k)) = Range(f[k - 1]) \cup {k}
        /\ k \notin Range(f[k - 1]) => IsInjective(Append(f[k - 1], k))
    BY <2>1, AppendFacts
  <2>4. k \notin Range(f[k - 1]) /\ 1..(k - 1) \subseteq 1..k /\ k \in 1..k
    BY <2>1
  <2>5. Range(f[k]) \subseteq 1..k /\ IsInjective(f[k])
    BY <2>1, <2>2, <2>3, <2>4
  <2> QED
    BY <2>5
<1> HIDE DEF P
<1>4. \A k \in 0..n : k \in P
  BY <1>2, <1>3, UpTo
<1>5. f[n] \in Seq(Nat) /\ n \in 0..n
  OBVIOUS
<1> QED
  BY <1>1, <1>4, <1>5 DEF P

\* One number further.
LEMMA InOrderNext ==
  ASSUME NEW n \in Nat, NEW numbers, NEW others, \A k \in 1..n : k \in numbers <=> k \in others
  PROVE  InOrder(others, n + 1)
           = IF n + 1 \in others THEN Append(InOrder(numbers, n), n + 1) ELSE InOrder(numbers, n)
<1>1. PICK f : OrderSteps(f, numbers, n) /\ InOrder(numbers, n) = f[n]
  BY InOrderIs
<1>2. PICK g : OrderSteps(g, others, n + 1) /\ InOrder(others, n + 1) = g[n + 1]
  <2>1. n + 1 \in Nat
    OBVIOUS
  <2> QED
    BY <2>1, InOrderIs
<1> DEFINE P == {k \in 0..n : f[k] = g[k]}
<1>3. 0 \in P
  BY <1>1, <1>2 DEF OrderSteps
<1>4. ASSUME NEW k \in 1..n, k - 1 \in P PROVE k \in P
  <2>1. k \in 1..(n + 1) /\ f[k - 1] = g[k - 1]
    BY <1>4
  <2>2. /\ f[k] = IF k \in numbers THEN Append(f[k - 1], k) ELSE f[k - 1]
        /\ g[k] = IF k \in others THEN Append(g[k - 1], k) ELSE g[k - 1]
    BY <1>1, <1>2, <2>1 DEF OrderSteps
  <2>3. k \in numbers <=> k \in others
    OBVIOUS
  <2>4. f[k] = g[k]
    BY <2>1, <2>2, <2>3
  <2> QED
    BY <2>4
<1> HIDE DEF P
<1>5. n \in 0..n /\ \A k \in 0..n : k \in P
  BY <1>3, <1>4, UpTo
<1>6. f[n] = g[n]
  BY <1>5 DEF P
<1>7. n + 1 \in 1..(n + 1) /\ (n + 1) - 1 = n
  OBVIOUS
<1>8. g[n + 1] = IF n + 1 \in others THEN Append(g[(n + 1) - 1], n + 1) ELSE g[(n + 1) - 1]
  BY <1>2, <1>7, Zenon DEF OrderSteps
<1> QED
  BY <1>1, <1>2, <1>6, <1>7, <1>8

-----------------------------------------------------------------------------
(* The elements that are open *)

\* Open, of any source.
Opens(s) ==
  LET after[n \in 0..Len(s)] ==
        IF n = 0 THEN <<>>
        ELSE CASE s[n].is = "start" /\ s[n].tag \notin Void -> Append(after[n - 1], n)
               [] s[n].is = "end" -> Front(after[n - 1])
               [] OTHER -> after[n - 1]
  IN  after

\* What an event opens or closes.
OpensNext(s, n, open) ==
  CASE s[n].is = "start" /\ s[n].tag \notin Void -> Append(open, n)
    [] s[n].is = "end" -> Front(open)
    [] OTHER -> open

\* All but the last of some numbers.
LEMMA FrontFacts ==
  ASSUME NEW X, NEW o \in Seq(X)
  PROVE  /\ Front(o) \in Seq(X)
         /\ o # <<>> => /\ Len(Front(o)) = Len(o) - 1 /\ Len(o) \in 1..Len(o)
                        /\ \A k \in 1..(Len(o) - 1) : Front(o)[k] = o[k]
                        /\ o = Append(Front(o), Last(o)) /\ Last(o) \in X
                        /\ Last(o) = o[Len(o)]
  BY DEF Front, Last

\* What Open's function is after each event.
LEMMA OpensFacts ==
  ASSUME NEW s, IsSequence(s)
  PROVE  /\ DOMAIN Opens(s) = 0..Len(s) /\ Opens(s)[0] = <<>>
         /\ \A n \in 1..Len(s) : Opens(s)[n] = OpensNext(s, n, Opens(s)[n - 1])
         /\ \A n \in 0..Len(s) : Opens(s)[n] \in Seq(1..n)
<1> DEFINE N == Len(s)
           F == [p \in (1..N) \X Seq(Nat) |-> OpensNext(s, p[1], p[2])]
           Is(f) == f = [n \in 0..N |->
             IF n = 0 THEN <<>>
             ELSE CASE s[n].is = "start" /\ s[n].tag \notin Void -> Append(f[n - 1], n)
                    [] s[n].is = "end" -> Front(f[n - 1])
                    [] OTHER -> f[n - 1]]
           g == CHOOSE f : Is(f)
<1>1. N \in Nat
  BY OneLonger
<1> HIDE DEF N
<1>2. F \in [(1..N) \X Seq(Nat) -> Seq(Nat)]
  <2>1. ASSUME NEW n \in 1..N, NEW o \in Seq(Nat) PROVE OpensNext(s, n, o) \in Seq(Nat)
    <3>1. Front(o) \in Seq(Nat) /\ Append(o, n) \in Seq(Nat)
      BY <1>1, FrontFacts
    <3> QED
      BY <3>1 DEF OpensNext
  <2> QED
    BY <2>1
<1>3. PICK f \in [0..N -> Seq(Nat)] : Recursion(f, N, <<>>, F)
  <2>1. <<>> \in Seq(Nat)
    OBVIOUS
  <2> HIDE DEF F
  <2> QED
    BY <1>1, <1>2, <2>1, RecursionExists
<1>4. ASSUME NEW n \in 0..N
      PROVE  f[n] = IF n = 0 THEN <<>> ELSE OpensNext(s, n, f[n - 1])
  <2>1. f[n] = IF n = 0 THEN <<>> ELSE F[<<n, f[n - 1]>>]
    BY <1>3 DEF Recursion
  <2>2. n # 0 => n \in 1..N /\ n - 1 \in 0..N
    BY <1>1
  <2>3. n # 0 => F[<<n, f[n - 1]>>] = OpensNext(s, n, f[n - 1])
    BY <2>2
  <2> HIDE DEF F
  <2> QED
    BY <2>1, <2>3
<1>5. Is(f)
  <2>1. f = [n \in 0..N |-> f[n]]
    OBVIOUS
  <2>2. f = [n \in 0..N |-> IF n = 0 THEN <<>> ELSE OpensNext(s, n, f[n - 1])]
    BY <1>4, <2>1
  <2> QED
    BY <2>2 DEF OpensNext
<1>6. Is(g)
  BY <1>5
<1>7. Opens(s) = g
  BY DEF Opens, N
<1> HIDE DEF g
<1>8. g = [n \in 0..N |-> IF n = 0 THEN <<>> ELSE OpensNext(s, n, g[n - 1])]
  BY <1>6 DEF OpensNext
<1>9. DOMAIN g = 0..N /\ g[0] = <<>> /\ \A n \in 1..N : g[n] = OpensNext(s, n, g[n - 1])
  <2>1. 0 \in 0..N /\ \A n \in 1..N : n \in 0..N /\ n # 0
    BY <1>1
  <2>2. \A n \in 0..N : g[n] = IF n = 0 THEN <<>> ELSE OpensNext(s, n, g[n - 1])
    BY <1>8, Zenon
  <2>3. DOMAIN g = 0..N
    BY <1>8, Zenon
  <2> QED
    BY <2>1, <2>2, <2>3
<1> DEFINE P == {n \in 0..N : g[n] \in Seq(1..n)}
<1>10. 0 \in P
  <2>1. <<>> \in Seq(1..0) /\ 0 \in 0..N
    BY <1>1
  <2> QED
    BY <1>9, <2>1
<1>11. ASSUME NEW n \in 1..N, n - 1 \in P PROVE n \in P
  <2>1. PICK o : o = g[n - 1]
    OBVIOUS
  <2>2. o \in Seq(1..(n - 1)) /\ n \in 0..N
    BY <1>11, <2>1
  <2>3. o \in Seq(1..n) /\ n \in 1..n
    <3>1. Len(o) \in Nat /\ o = [k \in 1..Len(o) |-> o[k]] /\ \A k \in 1..Len(o) : o[k] \in 1..(n - 1)
      BY <2>2
    <3>2. \A k \in 1..Len(o) : o[k] \in 1..n
      BY <3>1
    <3> QED
      BY <3>1, <3>2
  <2>4. Front(o) \in Seq(1..n) /\ Append(o, n) \in Seq(1..n)
    <3>1. PICK X : X = 1..n
      OBVIOUS
    <3>2. o \in Seq(X) /\ n \in X
      BY <2>3, <3>1
    <3>3. Front(o) \in Seq(X) /\ Append(o, n) \in Seq(X)
      BY <3>2, FrontFacts
    <3> QED
      BY <3>1, <3>3
  <2>5. OpensNext(s, n, o) \in Seq(1..n)
    BY <2>3, <2>4 DEF OpensNext
  <2>6. g[n] = OpensNext(s, n, o)
    BY <1>9, <2>1
  <2> QED
    BY <2>2, <2>5, <2>6
<1> HIDE DEF P
<1>12. \A n \in 0..N : n \in P
  BY <1>1, <1>10, <1>11, UpTo
<1>13. \A n \in 0..N : g[n] \in Seq(1..n)
  BY <1>12 DEF P
<1> QED
  BY <1>7, <1>9, <1>13 DEF N

\* One event more changes nothing before it.
LEMMA OpensAppend ==
  ASSUME NEW s, IsSequence(s), NEW e
  PROVE  /\ \A n \in 0..Len(s) : Opens(Append(s, e))[n] = Opens(s)[n]
         /\ Opens(Append(s, e))[Len(s) + 1]
              = OpensNext(Append(s, e), Len(s) + 1, Opens(s)[Len(s)])
<1> DEFINE N == Len(s)
<1>1. PICK t : t = Append(s, e)
  OBVIOUS
<1>2. N \in Nat /\ IsSequence(t) /\ Len(t) = N + 1 /\ \A n \in 1..N : t[n] = s[n]
  BY <1>1, OneLonger
<1>3. PICK f : f = Opens(s)
  OBVIOUS
<1>4. PICK g : g = Opens(t)
  OBVIOUS
<1>5. f[0] = <<>> /\ \A n \in 1..N : f[n] = OpensNext(s, n, f[n - 1])
  BY <1>3, OpensFacts
<1>6. g[0] = <<>> /\ \A n \in 1..(N + 1) : g[n] = OpensNext(t, n, g[n - 1])
  BY <1>2, <1>4, OpensFacts
<1> HIDE DEF N
<1> DEFINE P == {n \in 0..N : g[n] = f[n]}
<1>7. 0 \in P
  BY <1>2, <1>5, <1>6
<1>8. ASSUME NEW n \in 1..N, n - 1 \in P PROVE n \in P
  <2>1. n \in 1..(N + 1) /\ n \in 0..N /\ g[n - 1] = f[n - 1] /\ t[n] = s[n]
    BY <1>2, <1>8
  <2>2. OpensNext(t, n, f[n - 1]) = OpensNext(s, n, f[n - 1])
    BY <2>1, Zenon DEF OpensNext
  <2>3. g[n] = f[n]
    BY <1>5, <1>6, <2>1, <2>2
  <2> QED
    BY <2>1, <2>3
<1> HIDE DEF P
<1>9. \A n \in 0..N : n \in P
  BY <1>2, <1>7, <1>8, UpTo
<1>10. \A n \in 0..N : g[n] = f[n]
  BY <1>9 DEF P
<1>11. N + 1 \in 1..(N + 1) /\ (N + 1) - 1 = N /\ N \in 0..N
  BY <1>2
<1>12. g[N + 1] = OpensNext(t, N + 1, f[N])
  BY <1>6, <1>10, <1>11
<1> QED
  BY <1>1, <1>3, <1>4, <1>10, <1>12 DEF N

-----------------------------------------------------------------------------
(* What is spoken *)

\* An event more says its word after the others, or nothing.
LEMMA SpokenNext ==
  ASSUME IsSequence(source), NEW e, source' = Append(source, e), format' = format,
         NEW word, word = Len(source) + 1
  PROVE  Spoken' = IF Speaks(word)' THEN Append(Spoken, word) ELSE Spoken
<1> DEFINE N == Len(source)
<1>1. /\ N \in Nat /\ IsSequence(source') /\ Len(source') = N + 1
      /\ DOMAIN source = 1..N /\ DOMAIN source' = 1..(N + 1)
      /\ \A n \in 1..N : source'[n] = source[n]
  <2>1. IsSequence(source') /\ Len(source') = N + 1
    BY OneLonger
  <2>2. DOMAIN source' = 1..Len(source')
    BY <2>1, OneLonger
  <2> QED
    BY <2>1, <2>2, OneLonger
<1>2. ASSUME NEW n \in 1..N PROVE Around(n)' = Around(n)
  <2>1. Open = Opens(source) /\ Open' = Opens(source')
    BY DEF Open, Opens
  <2>2. n \in 0..N
    BY <1>1
  <2>3. Open'[n] = Open[n]
    BY <2>1, <2>2, OpensAppend
  <2>4. Open[n] \in Seq(1..n)
    BY <2>1, <2>2, OpensFacts
  <2>5. \A k \in Range(Open[n]) : k \in 1..N
    <3>1. Range(Open[n]) \subseteq 1..n
      BY <2>4 DEF Range
    <3> QED
      BY <1>1, <3>1
  <2>6. \A k \in Range(Open[n]) : source'[k].tag = source[k].tag
    BY <1>1, <2>5
  <2>7. {source'[k].tag : k \in Range(Open[n])} = {source[k].tag : k \in Range(Open[n])}
    BY <2>6
  <2> QED
    BY <2>3, <2>7, Zenon DEF Around
<1>3. ASSUME NEW n \in 1..N PROVE Speaks(n)' <=> Speaks(n)
  <2>1. source'[n] = source[n] /\ Around(n)' = Around(n)
    BY <1>1, <1>2
  <2> QED
    BY <2>1 DEF Speaks
<1>4. PICK numbers : numbers = {n \in DOMAIN source : Speaks(n)}
  OBVIOUS
<1>5. PICK others : others = {n \in DOMAIN source' : Speaks(n)'}
  OBVIOUS
<1>6. \A k \in 1..N : k \in numbers <=> k \in others
  <2>1. \A k \in 1..N : k \in 1..(N + 1)
    BY <1>1
  <2> QED
    BY <1>1, <1>3, <1>4, <1>5, <2>1, Zenon
<1>7. Spoken = InOrder(numbers, N) /\ Spoken' = InOrder(others, N + 1)
  BY <1>1, <1>4, <1>5 DEF Spoken
<1>8. word \in others <=> Speaks(word)'
  <2>1. word \in DOMAIN source'
    BY <1>1
  <2> QED
    BY <1>5, <2>1, Zenon
<1> HIDE DEF N
<1>9. InOrder(others, N + 1)
        = IF N + 1 \in others THEN Append(InOrder(numbers, N), N + 1) ELSE InOrder(numbers, N)
  BY <1>1, <1>6, InOrderNext
<1>10. word = N + 1
  BY DEF N
<1>11. Spoken' = IF word \in others THEN Append(Spoken, word) ELSE Spoken
  BY <1>7, <1>9, <1>10
<1> QED
  BY <1>8, <1>11, Zenon

\* Words are numbers of events, and no event says two.
LEMMA SpokenFacts ==
  ASSUME IsSequence(source)
  PROVE  /\ Len(source) \in Nat /\ Spoken \in Seq(Nat)
         /\ Range(Spoken) \subseteq 1..Len(source) /\ IsInjective(Spoken)
<1>1. Len(source) \in Nat
  BY OneLonger
<1> QED
  BY <1>1, InOrderFacts DEF Spoken

-----------------------------------------------------------------------------
(* What a tree says *)

\* A tree that says some words.
Tells(t, words) ==
  /\ {"items", "stack"} \subseteq DOMAIN t
  /\ Worded(t.items) /\ words \in Seq(Nat) /\ Said(t) = words

\* A container that opens says its heading.
LEMMA PushTells ==
  ASSUME NEW t, NEW words, Tells(t, words), NEW above,
         NEW c, c.says \in Seq(Nat), {"says", "parent"} \subseteq DOMAIN c
  PROVE  Tells(Push(t, c, above), words \o c.says)
<1>1. PICK item : item = [c EXCEPT !.parent = IF above = <<>> THEN 0 ELSE Last(above)]
  OBVIOUS
<1>2. item.says = c.says /\ item.says \in Seq(Nat)
  BY <1>1
<1>3. PICK u : u = Push(t, c, above)
  OBVIOUS
<1>4. u.items = Append(t.items, item) /\ {"items", "stack"} \subseteq DOMAIN u
  BY <1>1, <1>3 DEF Push
<1>5. Worded(t.items) /\ words = SaidBy(t.items) /\ words \in Seq(Nat)
  BY DEF Tells, Said, SaidBy
<1>6. Worded(u.items) /\ SaidBy(u.items) = words \o c.says
  BY <1>2, <1>4, <1>5, SaidByAppend
<1>7. words \o c.says \in Seq(Nat)
  BY <1>5
<1>8. Said(u) = SaidBy(u.items)
  BY DEF Said, SaidBy
<1> QED
  BY <1>3, <1>4, <1>6, <1>7, <1>8 DEF Tells

\* A container without a heading says nothing.
LEMMA WithCurrentTells ==
  ASSUME NEW t, NEW words, Tells(t, words)
  PROVE  Tells(WithCurrent(t), words) /\ Tells(Rooted(t), words)
<1>1. PICK c : c = [Item("document", <<>>) EXCEPT !.level = 1]
  OBVIOUS
<1>2. c.says = <<>> /\ c.says \in Seq(Nat) /\ {"says", "parent"} \subseteq DOMAIN c
  BY <1>1 DEF Item
<1>3. Tells(Push(t, c, <<>>), words \o c.says)
  BY <1>2, PushTells
<1>4. words \o c.says = words
  BY <1>2 DEF Tells
<1> QED
  BY <1>1, <1>3, <1>4 DEF WithCurrent, Rooted

\* A heading.
LEMMA OpenedTells ==
  ASSUME NEW t, NEW words, Tells(t, words), NEW says \in Seq(Nat), NEW level
  PROVE  Tells(Opened(t, says, level), words \o says)
<1>1. PICK c : c = [Item("container", says) EXCEPT !.level = level]
  OBVIOUS
<1>2. c.says = says /\ c.says \in Seq(Nat) /\ {"says", "parent"} \subseteq DOMAIN c
  BY <1>1 DEF Item
<1>3. Tells(Push(t, c, StillOpen(t, level)), words \o c.says)
  BY <1>2, PushTells
<1> QED
  BY <1>1, <1>2, <1>3 DEF Opened

\* A block.
LEMMA AddedTells ==
  ASSUME NEW t, NEW words, Tells(t, words),
         NEW b, b.says \in Seq(Nat), {"says", "parent"} \subseteq DOMAIN b
  PROVE  Tells(Added(t, b), words \o b.says)
<1>1. PICK u : u = WithCurrent(t)
  OBVIOUS
<1>2. Tells(u, words)
  BY <1>1, WithCurrentTells
<1>3. PICK item : item = [b EXCEPT !.parent = Last(u.stack)]
  OBVIOUS
<1>4. item.says = b.says /\ item.says \in Seq(Nat)
  BY <1>3
<1>5. PICK v : v = Added(t, b)
  OBVIOUS
<1>6. v.items = Append(u.items, item) /\ {"items", "stack"} \subseteq DOMAIN v
  BY <1>1, <1>2, <1>3, <1>5 DEF Added, Tells
<1>7. Worded(u.items) /\ words = SaidBy(u.items) /\ words \in Seq(Nat)
  BY <1>2 DEF Tells, Said, SaidBy
<1>8. Worded(v.items) /\ SaidBy(v.items) = words \o b.says
  BY <1>4, <1>6, <1>7, SaidByAppend
<1>9. words \o b.says \in Seq(Nat) /\ Said(v) = SaidBy(v.items)
  BY <1>7 DEF Said, SaidBy
<1> QED
  BY <1>5, <1>6, <1>8, <1>9 DEF Tells

\* A block of some kind that says some words.
LEMMA ItemTells ==
  ASSUME NEW t, NEW words, Tells(t, words), NEW kind, NEW says \in Seq(Nat)
  PROVE  Tells(Added(t, Item(kind, says)), words \o says)
<1>1. PICK b : b = Item(kind, says)
  OBVIOUS
<1>2. b.says = says /\ b.says \in Seq(Nat) /\ {"says", "parent"} \subseteq DOMAIN b
  BY <1>1 DEF Item
<1>3. Tells(Added(t, b), words \o b.says)
  BY <1>2, AddedTells
<1> QED
  BY <1>1, <1>2, <1>3

\* A tree with nothing in it.
LEMMA EmptyTreeTells == Tells(EmptyTree, <<>>)
<1>1. Said(EmptyTree) = SaidBy(<<>>) /\ EmptyTree.items = <<>>
  BY DEF Said, SaidBy, EmptyTree
<1>2. {"items", "stack"} \subseteq DOMAIN EmptyTree /\ <<>> \in Seq(Nat)
  BY DEF EmptyTree
<1> QED
  BY <1>1, <1>2, SaidByNone DEF Tells

-----------------------------------------------------------------------------
(* What the readers of lines, paragraphs, cells and pages have said *)

\* A word more.
LEMMA OneWord ==
  ASSUME NEW s \in Seq(Nat), NEW t \in Seq(Nat), NEW word \in Nat
  PROVE  Append(s \o t, word) = s \o Append(t, word) /\ Append(t, word) \in Seq(Nat)
<1>1. Append(s \o t, word) = s \o Append(t, word)
  BY SMTT(60)
<1>2. Append(t, word) \in Seq(Nat)
  OBVIOUS
<1> QED
  BY <1>1, <1>2, Zenon

\* A reader of lines: what its tree says, and the paragraph or code it is in.
TellsLines(r, words) ==
  /\ {"tree", "para", "code", "fenced"} \subseteq DOMAIN r
  /\ r.para \in Seq(Nat) /\ r.code \in Seq(Nat) /\ r.fenced \in BOOLEAN
  /\ r.fenced => r.para = <<>>
  /\ ~r.fenced => r.code = <<>>
  /\ \E said \in Seq(Nat) : Tells(r.tree, said) /\ words = said \o (r.para \o r.code)

\* Only one of the two is open.
LEMMA LinesCases ==
  ASSUME NEW r, NEW words, TellsLines(r, words)
  PROVE  \E said \in Seq(Nat) :
           /\ Tells(r.tree, said) /\ words \in Seq(Nat)
           /\ words = IF r.fenced THEN said \o r.code ELSE said \o r.para
<1>1. PICK said \in Seq(Nat) : Tells(r.tree, said) /\ words = said \o (r.para \o r.code)
  BY DEF TellsLines
<1>2. r.para \in Seq(Nat) /\ r.code \in Seq(Nat)
  BY DEF TellsLines
<1>3. r.para \o r.code = IF r.fenced THEN r.code ELSE r.para
  BY <1>2, Concats DEF TellsLines
<1>4. words \in Seq(Nat)
  BY <1>1, <1>2
<1>5. words = IF r.fenced THEN said \o r.code ELSE said \o r.para
  BY <1>1, <1>3
<1> QED
  BY <1>1, <1>4, <1>5

\* And so it tells what it tells.
LEMMA LinesTold ==
  ASSUME NEW r, {"tree", "para", "code", "fenced"} \subseteq DOMAIN r,
         r.para \in Seq(Nat), r.code \in Seq(Nat), r.fenced \in BOOLEAN,
         NEW said, Tells(r.tree, said)
  PROVE  /\ r.fenced /\ r.para = <<>> => TellsLines(r, said \o r.code)
         /\ ~r.fenced /\ r.code = <<>> => TellsLines(r, said \o r.para)
<1>1. said \in Seq(Nat)
  BY DEF Tells
<1>2. r.para = <<>> => r.para \o r.code = r.code
  BY Concats
<1>3. r.code = <<>> => r.para \o r.code = r.para
  BY Concats
<1> QED
  BY <1>1, <1>2, <1>3 DEF TellsLines

\* A paragraph or the code is written where it belongs.
LEMMA FlushTells ==
  ASSUME NEW r, NEW words, TellsLines(r, words)
  PROVE  /\ ~r.fenced => /\ TellsLines(FlushParagraph(r), words)
                         /\ FlushParagraph(r).para = <<>> /\ ~FlushParagraph(r).fenced
                         /\ Tells(FlushParagraph(r).tree, words)
         /\ r.fenced => /\ TellsLines(FlushCode(r), words)
                        /\ FlushCode(r).para = <<>> /\ ~FlushCode(r).fenced
                        /\ Tells(FlushCode(r).tree, words)
         /\ DOMAIN FlushParagraph(r) = DOMAIN r /\ DOMAIN FlushCode(r) = DOMAIN r
<1>1. PICK said \in Seq(Nat) :
        /\ Tells(r.tree, said) /\ words \in Seq(Nat)
        /\ words = IF r.fenced THEN said \o r.code ELSE said \o r.para
  BY LinesCases
<1>2. /\ {"tree", "para", "code", "fenced"} \subseteq DOMAIN r
      /\ r.para \in Seq(Nat) /\ r.code \in Seq(Nat) /\ r.fenced \in BOOLEAN
      /\ r.fenced => r.para = <<>>
      /\ ~r.fenced => r.code = <<>>
  BY DEF TellsLines
<1>3. <<>> \in Seq(Nat) /\ words \o <<>> = words /\ said \o <<>> = said
  BY <1>1
<1>4. ASSUME ~r.fenced
      PROVE  /\ TellsLines(FlushParagraph(r), words)
             /\ FlushParagraph(r).para = <<>> /\ ~FlushParagraph(r).fenced
             /\ Tells(FlushParagraph(r).tree, words)
  <2>1. PICK g : g = FlushParagraph(r)
    OBVIOUS
  <2>2. Tells(Added(r.tree, Item("paragraph", r.para)), said \o r.para)
    BY <1>1, <1>2, ItemTells
  <2>3. /\ {"tree", "para", "code", "fenced"} \subseteq DOMAIN g
        /\ g.para = <<>> /\ g.code = <<>> /\ g.fenced = FALSE
        /\ g.tree = IF r.para = <<>> THEN r.tree ELSE Added(r.tree, Item("paragraph", r.para))
    BY <1>2, <1>4, <2>1 DEF FlushParagraph
  <2>4. Tells(g.tree, words)
    BY <1>1, <1>3, <1>4, <2>2, <2>3
  <2>5. TellsLines(g, words)
    BY <1>3, <2>3, <2>4, LinesTold
  <2> QED
    BY <2>1, <2>3, <2>4, <2>5
<1>5. ASSUME r.fenced
      PROVE  /\ TellsLines(FlushCode(r), words)
             /\ FlushCode(r).para = <<>> /\ ~FlushCode(r).fenced
             /\ Tells(FlushCode(r).tree, words)
  <2>1. PICK g : g = FlushCode(r)
    OBVIOUS
  <2>2. Tells(Added(r.tree, Item("code", r.code)), said \o r.code)
    BY <1>1, <1>2, ItemTells
  <2>3. /\ {"tree", "para", "code", "fenced"} \subseteq DOMAIN g
        /\ g.para = <<>> /\ g.code = <<>> /\ g.fenced = FALSE
        /\ g.tree = Added(r.tree, Item("code", r.code))
    BY <1>2, <1>5, <2>1 DEF FlushCode
  <2>4. Tells(g.tree, words)
    BY <1>1, <1>5, <2>2, <2>3
  <2>5. TellsLines(g, words)
    BY <1>3, <2>3, <2>4, LinesTold
  <2> QED
    BY <2>1, <2>3, <2>4, <2>5
<1>6. DOMAIN FlushParagraph(r) = DOMAIN r /\ DOMAIN FlushCode(r) = DOMAIN r
  BY DEF FlushParagraph, FlushCode
<1> QED
  BY <1>4, <1>5, <1>6

\* The text ends.
LEMMA EndTells ==
  ASSUME NEW r, NEW words, TellsLines(r, words)
  PROVE  /\ TellsLines(MarkdownEnd(r), words) /\ Tells(MarkdownEnd(r).tree, words)
         /\ MarkdownEnd(r).para = <<>> /\ ~MarkdownEnd(r).fenced
         /\ DOMAIN MarkdownEnd(r) = DOMAIN r
<1>1. PICK g : g = MarkdownEnd(r)
  OBVIOUS
<1>2. r.fenced \in BOOLEAN
  BY DEF TellsLines
<1>3. g = IF r.fenced THEN FlushCode(r) ELSE FlushParagraph(r)
  BY <1>1 DEF MarkdownEnd
<1>4. /\ TellsLines(g, words) /\ Tells(g.tree, words) /\ g.para = <<>> /\ ~g.fenced
      /\ DOMAIN g = DOMAIN r
  BY <1>2, <1>3, FlushTells
<1> QED
  BY <1>1, <1>4

\* A line of Markdown says its word if it has one.
LEMMA MarkdownLineTells ==
  ASSUME NEW r, NEW words, TellsLines(r, words), NEW line \in Lines, NEW word \in Nat
  PROVE  TellsLines(MarkdownLine(r, line, word),
                    IF line.is \in {"text", "heading"} THEN Append(words, word) ELSE words)
<1> DEFINE after == MarkdownLine(r, line, word)
<1>1. PICK said \in Seq(Nat) :
        /\ Tells(r.tree, said) /\ words \in Seq(Nat)
        /\ words = IF r.fenced THEN said \o r.code ELSE said \o r.para
  BY LinesCases
<1>2. /\ {"tree", "para", "code", "fenced"} \subseteq DOMAIN r
      /\ r.para \in Seq(Nat) /\ r.code \in Seq(Nat) /\ r.fenced \in BOOLEAN
      /\ r.fenced => r.para = <<>>
      /\ ~r.fenced => r.code = <<>>
  BY DEF TellsLines
<1>3. line.is \in {"text", "blank", "spaces", "fence", "heading"}
  BY DEF Lines, PlainLines, Line
<1>4. PICK closed : closed = FlushParagraph(r)
  OBVIOUS
<1>5. ~r.fenced => /\ TellsLines(closed, words) /\ closed.para = <<>> /\ ~closed.fenced
                   /\ Tells(closed.tree, words)
  BY <1>4, FlushTells
<1>6. ~r.fenced => closed.code = <<>> /\ DOMAIN closed = DOMAIN r
  BY <1>4, <1>5, FlushTells DEF TellsLines
<1>7. <<>> \in Seq(Nat) /\ words \o <<>> = words /\ Append(words, word) = words \o <<word>>
      /\ Append(words, word) \in Seq(Nat) /\ Append(words, word) \o <<>> = Append(words, word)
  BY <1>1
<1>8. CASE line.is = "fence"
  <2>1. after = IF r.fenced THEN FlushCode(r) ELSE [closed EXCEPT !.fenced = TRUE]
    BY <1>4, <1>8 DEF MarkdownLine
  <2>2. PICK g : g = [closed EXCEPT !.fenced = TRUE]
    OBVIOUS
  <2>3. ~r.fenced => /\ {"tree", "para", "code", "fenced"} \subseteq DOMAIN g
                     /\ g.para = <<>> /\ g.code = <<>> /\ g.fenced = TRUE
                     /\ g.tree = closed.tree
    BY <1>2, <1>5, <1>6, <2>2
  <2>4. ~r.fenced => TellsLines(g, words)
    BY <1>5, <1>7, <2>3, LinesTold
  <2>5. TellsLines(after, words)
    BY <2>1, <2>2, <2>4, FlushTells
  <2> QED
    BY <1>8, <2>5
<1>9. CASE line.is # "fence" /\ r.fenced
  <2>1. after = IF line.is \in {"text", "heading"} THEN [r EXCEPT !.code = Append(@, word)] ELSE r
    BY <1>9 DEF MarkdownLine
  <2>2. PICK g : g = [r EXCEPT !.code = Append(@, word)]
    OBVIOUS
  <2>3. /\ {"tree", "para", "code", "fenced"} \subseteq DOMAIN g
        /\ g.para = <<>> /\ g.code = Append(r.code, word) /\ g.fenced = TRUE
        /\ g.tree = r.tree
    BY <1>2, <1>9, <2>2
  <2>4. /\ Append(said \o r.code, word) = said \o Append(r.code, word)
        /\ Append(r.code, word) \in Seq(Nat)
    <3>1. PICK s \in Seq(Nat) : s = r.code
      BY <1>2
    <3>2. Append(said \o s, word) = said \o Append(s, word) /\ Append(s, word) \in Seq(Nat)
      BY OneWord
    <3> QED
      BY <3>1, <3>2
  <2>5. g.para \in Seq(Nat) /\ g.code \in Seq(Nat) /\ g.fenced \in BOOLEAN /\ Tells(g.tree, said)
    BY <1>1, <1>2, <1>7, <2>3, <2>4
  <2>6. TellsLines(g, said \o g.code)
    BY <2>3, <2>5, LinesTold
  <2>7. said \o g.code = Append(words, word)
    BY <1>1, <1>9, <2>3, <2>4
  <2>8. TellsLines(g, Append(words, word))
    BY <2>6, <2>7
  <2> QED
    BY <2>1, <2>2, <2>8
<1>10. CASE line.is = "heading" /\ ~r.fenced
  <2>1. /\ DOMAIN after = DOMAIN closed
        /\ after.tree = Opened(closed.tree, <<word>>, line.level)
        /\ after.para = closed.para /\ after.code = closed.code /\ after.fenced = closed.fenced
    BY <1>2, <1>4, <1>6, <1>10 DEF MarkdownLine
  <2>2. PICK g : g = after
    OBVIOUS
  <2>3. /\ {"tree", "para", "code", "fenced"} \subseteq DOMAIN g
        /\ g.para = <<>> /\ g.code = <<>> /\ g.fenced = FALSE
    <3>1. closed.fenced = FALSE
      BY <1>5, <1>10 DEF TellsLines
    <3> HIDE DEF after
    <3> QED
      BY <1>2, <1>5, <1>6, <1>10, <2>1, <2>2, <3>1
  <2>4. Tells(g.tree, words \o <<word>>)
    <3>1. <<word>> \in Seq(Nat)
      OBVIOUS
    <3>2. Tells(Opened(closed.tree, <<word>>, line.level), words \o <<word>>)
      BY <1>5, <1>10, <3>1, OpenedTells
    <3> QED
      BY <2>1, <2>2, <3>2, Zenon
  <2>5. TellsLines(g, Append(words, word))
    <3>1. Tells(g.tree, Append(words, word))
      BY <1>7, <2>4, Zenon
    <3> QED
      BY <1>7, <2>3, <3>1, LinesTold
  <2> QED
    BY <1>10, <2>2, <2>5
<1>11. CASE line.is = "text" /\ ~r.fenced
  <2>1. PICK g : g = [r EXCEPT !.para = Append(@, word)]
    OBVIOUS
  <2>2. after = g
    BY <1>11, <2>1 DEF MarkdownLine
  <2>3. /\ {"tree", "para", "code", "fenced"} \subseteq DOMAIN g
        /\ g.code = <<>> /\ g.para = Append(r.para, word) /\ g.fenced = FALSE
        /\ g.tree = r.tree
    BY <1>2, <1>11, <2>1
  <2>4. /\ Append(said \o r.para, word) = said \o Append(r.para, word)
        /\ Append(r.para, word) \in Seq(Nat)
    <3>1. PICK s \in Seq(Nat) : s = r.para
      BY <1>2
    <3>2. Append(said \o s, word) = said \o Append(s, word) /\ Append(s, word) \in Seq(Nat)
      BY OneWord
    <3> QED
      BY <3>1, <3>2
  <2>5. g.para \in Seq(Nat) /\ g.code \in Seq(Nat) /\ g.fenced \in BOOLEAN /\ Tells(g.tree, said)
    BY <1>1, <1>2, <1>7, <2>3, <2>4
  <2>6. TellsLines(g, said \o g.para)
    BY <2>3, <2>5, LinesTold
  <2>7. said \o g.para = Append(words, word)
    BY <1>1, <1>11, <2>3, <2>4
  <2>8. TellsLines(g, Append(words, word))
    BY <2>6, <2>7
  <2> QED
    BY <1>11, <2>2, <2>8
<1>12. CASE line.is \in {"blank", "spaces"} /\ ~r.fenced
  <2>1. after = closed
    BY <1>4, <1>12 DEF MarkdownLine
  <2> QED
    BY <1>5, <1>12, <2>1
<1> QED
  BY <1>2, <1>3, <1>8, <1>9, <1>10, <1>11, <1>12

\* A line of plain text, where nothing is fenced.
LEMMA TextLineTells ==
  ASSUME NEW r, NEW words, TellsLines(r, words), ~r.fenced, NEW line \in PlainLines, NEW word \in Nat
  PROVE  /\ TellsLines(TextLine(r, line, word),
                       IF line.is = "text" THEN Append(words, word) ELSE words)
         /\ ~TextLine(r, line, word).fenced
<1>1. PICK said \in Seq(Nat) :
        Tells(r.tree, said) /\ words \in Seq(Nat) /\ words = said \o r.para
  BY LinesCases
<1>2. /\ {"tree", "para", "code", "fenced"} \subseteq DOMAIN r
      /\ r.para \in Seq(Nat) /\ r.code = <<>> /\ r.code \in Seq(Nat) /\ r.fenced = FALSE
  BY DEF TellsLines
<1>3. line.is \in {"text", "blank", "spaces"}
  BY DEF PlainLines, Line
<1>4. PICK g : g = [r EXCEPT !.para = Append(@, word)]
  OBVIOUS
<1>5. /\ {"tree", "para", "code", "fenced"} \subseteq DOMAIN g
      /\ g.code = <<>> /\ g.para = Append(r.para, word) /\ g.fenced = FALSE
      /\ g.tree = r.tree
  BY <1>2, <1>4
<1>6. PICK para \in Seq(Nat) : para = r.para
  BY <1>2
<1>7. Append(said \o para, word) = said \o Append(para, word) /\ Append(para, word) \in Seq(Nat)
  BY OneWord
<1>8. TellsLines(g, Append(words, word))
  <2>1. g.para \in Seq(Nat) /\ g.code \in Seq(Nat) /\ g.fenced \in BOOLEAN /\ Tells(g.tree, said)
    BY <1>1, <1>2, <1>5, <1>6, <1>7
  <2>2. TellsLines(g, said \o g.para)
    BY <1>5, <2>1, LinesTold
  <2> QED
    BY <1>1, <1>5, <1>6, <1>7, <2>2
<1>9. TextLine(r, line, word) = CASE line.is = "blank" -> FlushParagraph(r)
                                  [] line.is = "spaces" -> r
                                  [] line.is = "text" -> g
  BY <1>3, <1>4 DEF TextLine
<1> QED
  BY <1>2, <1>3, <1>5, <1>8, <1>9, FlushTells

\* Cells of a notebook; an output follows when nothing is pending.
LEMMA NotebookTells ==
  ASSUME NEW r, NEW words, TellsLines(r, words), NEW word \in Nat, NEW output \in Outputs
  PROVE  /\ TellsLines(MarkdownCell(r), words)
         /\ MarkdownCell(r).para = <<>> /\ MarkdownCell(r).code = <<>>
         /\ TellsLines(CodeCell(r, word), Append(words, word))
         /\ CodeCell(r, word).para = <<>> /\ CodeCell(r, word).code = <<>>
         /\ r.para = <<>> /\ r.code = <<>> =>
              /\ TellsLines(CellOutput(r, output, word),
                            IF output = "nothing" THEN words ELSE Append(words, word))
              /\ CellOutput(r, output, word).para = <<>> /\ CellOutput(r, output, word).code = <<>>
<1>1. PICK closed : closed = MarkdownEnd(r)
  OBVIOUS
<1>2. /\ TellsLines(closed, words) /\ Tells(closed.tree, words)
      /\ closed.para = <<>> /\ closed.code = <<>> /\ closed.fenced = FALSE
      /\ {"tree", "para", "code", "fenced"} \subseteq DOMAIN closed
  <2>1. /\ TellsLines(closed, words) /\ Tells(closed.tree, words)
        /\ closed.para = <<>> /\ ~closed.fenced
    BY <1>1, EndTells
  <2>2. closed.fenced \in BOOLEAN /\ closed.code = <<>>
    BY <2>1 DEF TellsLines
  <2>3. {"tree", "para", "code", "fenced"} \subseteq DOMAIN closed
    BY <2>1 DEF TellsLines
  <2> QED
    BY <2>1, <2>2, <2>3
<1>3. /\ words \in Seq(Nat) /\ <<>> \in Seq(Nat) /\ words \o <<>> = words
      /\ Append(words, word) \in Seq(Nat) /\ Append(words, word) \o <<>> = Append(words, word)
      /\ Append(words, word) = words \o <<word>> /\ <<word>> \in Seq(Nat)
  <2>1. words \in Seq(Nat)
    BY LinesCases
  <2> QED
    BY <2>1
<1>4. /\ TellsLines(MarkdownCell(r), words)
      /\ MarkdownCell(r).para = <<>> /\ MarkdownCell(r).code = <<>>
  <2>1. PICK g : g = MarkdownCell(r)
    OBVIOUS
  <2>2. /\ DOMAIN g = DOMAIN closed /\ g.tree = closed.tree
        /\ g.para = <<>> /\ g.code = <<>> /\ g.fenced = FALSE
    BY <1>1, <1>2, <2>1 DEF MarkdownCell
  <2>3. TellsLines(g, words)
    BY <1>2, <1>3, <2>2, LinesTold
  <2> QED
    BY <2>1, <2>2, <2>3
<1>5. /\ TellsLines(CodeCell(r, word), Append(words, word))
      /\ CodeCell(r, word).para = <<>> /\ CodeCell(r, word).code = <<>>
  <2>1. PICK g : g = CodeCell(r, word)
    OBVIOUS
  <2>2. /\ DOMAIN g = DOMAIN closed /\ g.tree = Added(closed.tree, Item("code", <<word>>))
        /\ g.para = <<>> /\ g.code = <<>> /\ g.fenced = FALSE
    BY <1>1, <1>2, <2>1 DEF CodeCell
  <2>3. Tells(g.tree, Append(words, word))
    BY <1>2, <1>3, <2>2, ItemTells
  <2>4. TellsLines(g, Append(words, word))
    BY <1>2, <1>3, <2>2, <2>3, LinesTold
  <2> QED
    BY <2>1, <2>2, <2>4
<1>6. ASSUME r.para = <<>>, r.code = <<>>
      PROVE  /\ TellsLines(CellOutput(r, output, word),
                           IF output = "nothing" THEN words ELSE Append(words, word))
             /\ CellOutput(r, output, word).para = <<>> /\ CellOutput(r, output, word).code = <<>>
  <2>1. CASE output = "nothing"
    <3>1. CellOutput(r, output, word) = r
      BY <2>1 DEF CellOutput, OutputBlock
    <3> QED
      BY <1>6, <2>1, <3>1
  <2>2. CASE output # "nothing"
    <3>1. PICK kind \in {"code", "figure"} :
            OutputBlock(output, word) = <<Item(kind, <<word>>)>>
      BY <2>2 DEF OutputBlock, Outputs
    <3>2. PICK b : b = [Item(kind, <<word>>) EXCEPT !.of = r.cell]
      OBVIOUS
    <3>3. b.says = <<word>> /\ b.says \in Seq(Nat) /\ {"says", "parent"} \subseteq DOMAIN b
      BY <1>3, <3>2 DEF Item
    <3>4. PICK g : g = CellOutput(r, output, word)
      OBVIOUS
    <3>5. g = [r EXCEPT !.tree = Added(@, b)]
      BY <3>1, <3>2, <3>4 DEF CellOutput
    <3>6. PICK said \in Seq(Nat) :
            /\ Tells(r.tree, said)
            /\ words = IF r.fenced THEN said \o r.code ELSE said \o r.para
      BY LinesCases
    <3>7. words = said
      BY <1>6, <3>6
    <3>8. Tells(Added(r.tree, b), Append(words, word))
      BY <1>3, <3>3, <3>6, <3>7, AddedTells
    <3>9. /\ {"tree", "para", "code", "fenced"} \subseteq DOMAIN g
          /\ g.para = <<>> /\ g.code = <<>> /\ g.fenced = r.fenced /\ g.fenced \in BOOLEAN
          /\ Tells(g.tree, Append(words, word))
      BY <1>6, <3>5, <3>8 DEF TellsLines
    <3>10. TellsLines(g, Append(words, word))
      BY <1>3, <3>9, LinesTold
    <3> QED
      BY <2>2, <3>4, <3>9, <3>10
  <2> QED
    BY <2>1, <2>2
<1> QED
  BY <1>4, <1>5, <1>6

\* The reader of a .docx: what its tree says, and the list it is in.
TellsList(d, words) ==
  /\ {"tree", "list", "num", "title"} \subseteq DOMAIN d /\ d.list \in Seq(Nat)
  /\ \E said \in Seq(Nat) : Tells(d.tree, said) /\ words = said \o d.list

\* The list is written.
LEMMA FlushListTells ==
  ASSUME NEW d, NEW words, TellsList(d, words)
  PROVE  /\ TellsList(FlushList(d), words) /\ FlushList(d).list = <<>>
         /\ Tells(FlushList(d).tree, words)
<1>1. PICK said \in Seq(Nat) : Tells(d.tree, said) /\ words = said \o d.list
  BY DEF TellsList
<1>2. {"tree", "list", "num", "title"} \subseteq DOMAIN d /\ d.list \in Seq(Nat)
  BY DEF TellsList
<1>3. PICK g : g = FlushList(d)
  OBVIOUS
<1>4. Tells(Added(d.tree, Item("list", d.list)), said \o d.list)
  BY <1>1, <1>2, ItemTells
<1>5. /\ {"tree", "list", "num", "title"} \subseteq DOMAIN g /\ g.list = <<>>
      /\ g.tree = IF d.list = <<>> THEN d.tree ELSE Added(d.tree, Item("list", d.list))
  BY <1>2, <1>3 DEF FlushList
<1>6. /\ words \in Seq(Nat) /\ said \o <<>> = said /\ words \o <<>> = words /\ <<>> \in Seq(Nat)
  BY <1>1, <1>2
<1>7. Tells(g.tree, words)
  BY <1>1, <1>4, <1>5, <1>6
<1>8. TellsList(g, words)
  BY <1>5, <1>6, <1>7 DEF TellsList
<1> QED
  BY <1>3, <1>5, <1>7, <1>8

\* What a reader of a .docx tells when no list is open.
LEMMA ListTold ==
  ASSUME NEW d, {"tree", "list", "num", "title"} \subseteq DOMAIN d, d.list = <<>>,
         NEW words, Tells(d.tree, words)
  PROVE  TellsList(d, words)
<1>1. words \in Seq(Nat) /\ words \o <<>> = words /\ <<>> \in Seq(Nat)
  BY DEF Tells
<1> QED
  BY <1>1 DEF TellsList

\* A paragraph says its word if it has a text, unless it is the title of the document.
LEMMA DocxParagraphTells ==
  ASSUME NEW d, NEW words, TellsList(d, words), NEW p \in Paragraphs, NEW word \in Nat
  PROVE  TellsList(DocxParagraph(d, p, word),
                   IF p.text /\ (p.style # "title" \/ p.num # 0) THEN Append(words, word) ELSE words)
<1>1. /\ p.text \in BOOLEAN
      /\ p.style \in {"heading", "title", "caption", "code", "paragraph"}
  BY DEF Paragraphs, Styles
<1>2. /\ words \in Seq(Nat) /\ Append(words, word) = words \o <<word>> /\ <<word>> \in Seq(Nat)
  <2>1. words \in Seq(Nat)
    BY DEF TellsList
  <2> QED
    BY <2>1
<1>3. PICK f : f = FlushList(d)
  OBVIOUS
<1>4. /\ TellsList(f, words) /\ f.list = <<>> /\ Tells(f.tree, words)
      /\ {"tree", "list", "num", "title"} \subseteq DOMAIN f
  BY <1>3, FlushListTells DEF TellsList
<1>5. CASE p.num # 0 /\ p.text
  <2>1. PICK e : e = IF d.num # 0 /\ p.num # d.num THEN f ELSE d
    OBVIOUS
  <2>2. TellsList(e, words)
    BY <1>4, <2>1
  <2>3. PICK g : g = [e EXCEPT !.num = p.num, !.list = Append(@, word)]
    OBVIOUS
  <2>4. /\ {"tree", "list", "num", "title"} \subseteq DOMAIN e /\ e.list \in Seq(Nat)
    BY <2>2 DEF TellsList
  <2>5. /\ {"tree", "list", "num", "title"} \subseteq DOMAIN g
        /\ g.list = Append(e.list, word) /\ g.tree = e.tree
    BY <2>3, <2>4
  <2>6. PICK said \in Seq(Nat) : Tells(e.tree, said) /\ words = said \o e.list
    BY <2>2 DEF TellsList
  <2>7. Append(words, word) = said \o Append(e.list, word) /\ Append(e.list, word) \in Seq(Nat)
    <3>1. PICK list \in Seq(Nat) : list = e.list
      BY <2>4
    <3>2. Append(said \o list, word) = said \o Append(list, word) /\ Append(list, word) \in Seq(Nat)
      BY OneWord
    <3> QED
      BY <2>6, <3>1, <3>2
  <2>8. TellsList(g, Append(words, word))
    BY <2>5, <2>6, <2>7 DEF TellsList
  <2>9. DocxParagraph(d, p, word) = g
    BY <1>3, <1>5, <2>1, <2>3 DEF DocxParagraph
  <2> QED
    BY <1>5, <2>8, <2>9
<1>6. CASE ~(p.num # 0 /\ p.text)
  <2>1. PICK g : g = StyledParagraph(f, p, word)
    OBVIOUS
  <2>2. DocxParagraph(d, p, word) = g
    BY <1>3, <1>6, <2>1 DEF DocxParagraph
  <2>3. CASE ~p.text
    <3>1. g = f
      BY <2>1, <2>3 DEF StyledParagraph
    <3> QED
      BY <1>4, <2>2, <2>3, <3>1
  <2>4. CASE p.text /\ p.style = "title"
    <3>1. g = [f EXCEPT !.title = word]
      BY <2>1, <2>4 DEF StyledParagraph
    <3>2. /\ {"tree", "list", "num", "title"} \subseteq DOMAIN g /\ g.list = <<>> /\ g.tree = f.tree
      BY <1>4, <3>1
    <3>3. TellsList(g, words)
      BY <1>4, <3>2, ListTold
    <3> QED
      BY <1>6, <2>2, <2>4, <3>3
  <2>5. CASE p.text /\ p.style = "heading"
    <3>1. g = [f EXCEPT !.tree = Opened(@, <<word>>, p.level)]
      BY <2>1, <2>5 DEF StyledParagraph
    <3>2. /\ {"tree", "list", "num", "title"} \subseteq DOMAIN g /\ g.list = <<>>
          /\ g.tree = Opened(f.tree, <<word>>, p.level)
      BY <1>4, <3>1
    <3>3. Tells(g.tree, Append(words, word))
      BY <1>2, <1>4, <3>2, OpenedTells
    <3>4. TellsList(g, Append(words, word))
      BY <3>2, <3>3, ListTold
    <3> QED
      BY <1>6, <2>2, <2>5, <3>4
  <2>6. CASE p.text /\ p.style \in {"caption", "code", "paragraph"}
    <3>1. g = [f EXCEPT !.tree = Added(@, Item(p.style, <<word>>))]
      BY <2>1, <2>6 DEF StyledParagraph
    <3>2. /\ {"tree", "list", "num", "title"} \subseteq DOMAIN g /\ g.list = <<>>
          /\ g.tree = Added(f.tree, Item(p.style, <<word>>))
      BY <1>4, <3>1
    <3>3. Tells(g.tree, Append(words, word))
      BY <1>2, <1>4, <3>2, ItemTells
    <3>4. TellsList(g, Append(words, word))
      BY <3>2, <3>3, ListTold
    <3> QED
      BY <1>6, <2>2, <2>6, <3>4
  <2> QED
    BY <1>1, <2>3, <2>4, <2>5, <2>6
<1> QED
  BY <1>5, <1>6

\* A table says its word, and the end none.
LEMMA DocxTells ==
  ASSUME NEW d, NEW words, TellsList(d, words), NEW rows, NEW word \in Nat
  PROVE  /\ TellsList(DocxTable(d, rows, word), Append(words, word))
         /\ Tells(DocxEnd(d).tree, words)
<1>1. PICK f : f = FlushList(d)
  OBVIOUS
<1>2. /\ f.list = <<>> /\ Tells(f.tree, words)
      /\ {"tree", "list", "num", "title"} \subseteq DOMAIN f
  BY <1>1, FlushListTells DEF TellsList
<1>3. TellsList(DocxTable(d, rows, word), Append(words, word))
  <2>1. PICK b : b = [Item("table", <<word>>) EXCEPT !.cells = Cells(rows)]
    OBVIOUS
  <2>2. b.says = <<word>> /\ b.says \in Seq(Nat) /\ {"says", "parent"} \subseteq DOMAIN b
    BY <2>1 DEF Item
  <2>3. PICK g : g = DocxTable(d, rows, word)
    OBVIOUS
  <2>4. g = [f EXCEPT !.tree = Added(@, b)]
    BY <1>1, <2>1, <2>3 DEF DocxTable
  <2>5. /\ {"tree", "list", "num", "title"} \subseteq DOMAIN g /\ g.list = <<>>
        /\ g.tree = Added(f.tree, b)
    BY <1>2, <2>4
  <2>6. Append(words, word) = words \o <<word>>
    BY <1>2 DEF Tells
  <2>7. Tells(g.tree, Append(words, word))
    BY <1>2, <2>2, <2>5, <2>6, AddedTells
  <2> QED
    BY <2>3, <2>5, <2>7, ListTold
<1>4. Tells(DocxEnd(d).tree, words)
  <2>1. DocxEnd(d).tree = Rooted(f.tree)
    BY <1>1, <1>2 DEF DocxEnd
  <2> QED
    BY <1>2, <2>1, WithCurrentTells
<1> QED
  BY <1>3, <1>4

\* The reader of a PDF.
TellsPages(d, words) ==
  {"tree", "page", "seen", "written", "images", "unread"} \subseteq DOMAIN d /\ Tells(d.tree, words)

\* A block of a PDF says its word if it is of text, and a page none.
LEMMA PdfTells ==
  ASSUME NEW d, NEW words, TellsPages(d, words), NEW block, NEW word \in Nat, NEW images
  PROVE  /\ TellsPages(PdfBlock(d, block, word),
                       IF PdfKind(block) \in {"code", "paragraph"} THEN Append(words, word) ELSE words)
         /\ TellsPages(NextPage(d, images), words) /\ TellsPages(PdfEnd(d), words)
<1>1. /\ {"tree", "page", "seen", "written", "images", "unread"} \subseteq DOMAIN d
      /\ Tells(d.tree, words) /\ words \in Seq(Nat)
  BY DEF TellsPages, Tells
<1>2. TellsPages(PageEnd(d), words)
  <2>1. CASE d.written
    BY <2>1 DEF PageEnd
  <2>2. CASE ~d.written
    <3>1. PICK b : b = [Item("placeholder", <<>>) EXCEPT !.id = <<"ocr-placeholder", d.page>>]
      OBVIOUS
    <3>2. /\ b.says = <<>> /\ b.says \in Seq(Nat) /\ {"says", "parent"} \subseteq DOMAIN b
      BY <3>1 DEF Item
    <3>3. Tells(Added(d.tree, b), words)
      <4>1. words \o <<>> = words
        BY <1>1
      <4> QED
        BY <1>1, <3>2, <4>1, AddedTells
    <3>4. PICK g : g = PageEnd(d)
      OBVIOUS
    <3>5. /\ {"tree", "page", "seen", "written", "images", "unread"} \subseteq DOMAIN g
          /\ g.tree = Added(d.tree, b)
      BY <1>1, <2>2, <3>1, <3>4 DEF PageEnd
    <3> QED
      BY <3>3, <3>4, <3>5 DEF TellsPages
  <2> QED
    BY <2>1, <2>2
<1>3. TellsPages(PdfBlock(d, block, word),
                 IF PdfKind(block) \in {"code", "paragraph"} THEN Append(words, word) ELSE words)
  <2>1. PICK kind : kind = PdfKind(block)
    OBVIOUS
  <2>2. kind \in {"none", "figure", "code", "paragraph"}
    BY <2>1 DEF PdfKind
  <2>3. CASE kind = "none"
    BY <2>1, <2>3 DEF PdfBlock
  <2>4. CASE kind # "none"
    <3>1. PICK key : key = <<kind, block.box, block.text>>
      OBVIOUS
    <3>2. PICK id : id = SourceId(kind, d.page, block.box, block.text, Ordinal(d, key))
      OBVIOUS
    <3>3. PICK says : says = IF kind = "figure" THEN <<>> ELSE <<word>>
      OBVIOUS
    <3>4. PICK b : b = [Item(kind, says) EXCEPT !.id = id]
      OBVIOUS
    <3>5. /\ b.says = says /\ b.says \in Seq(Nat) /\ {"says", "parent"} \subseteq DOMAIN b
      BY <3>3, <3>4 DEF Item
    <3>6. Tells(Added(d.tree, b), words \o says)
      BY <1>1, <3>5, AddedTells
    <3>7. words \o says = IF kind \in {"code", "paragraph"} THEN Append(words, word) ELSE words
      BY <1>1, <2>2, <2>4, <3>3
    <3>8. PICK g : g = PdfBlock(d, block, word)
      OBVIOUS
    <3>9. g = [d EXCEPT !.tree = Added(@, b), !.seen = Append(@, key),
                        !.written = @ \/ kind # "figure"]
      BY <2>1, <2>4, <3>1, <3>2, <3>3, <3>4, <3>8 DEF PdfBlock
    <3>10. /\ {"tree", "page", "seen", "written", "images", "unread"} \subseteq DOMAIN g
           /\ g.tree = Added(d.tree, b)
      BY <1>1, <3>9
    <3> QED
      BY <2>1, <3>6, <3>7, <3>8, <3>10 DEF TellsPages
  <2> QED
    BY <2>2, <2>3, <2>4
<1>4. /\ TellsPages(NextPage(d, images), words) /\ TellsPages(PdfEnd(d), words)
  BY <1>2 DEF NextPage, PdfEnd, TellsPages
<1> QED
  BY <1>3, <1>4

-----------------------------------------------------------------------------
(* The words the parser of HTML holds *)

\* Words, one after the other.
s ++ t == s \o t

\* Three sequences of words.
LEMMA Joins ==
  ASSUME NEW s \in Seq(Nat), NEW t \in Seq(Nat), NEW u \in Seq(Nat)
  PROVE  /\ s ++ t \in Seq(Nat) /\ (s ++ t) ++ u = s ++ (t ++ u)
         /\ s ++ <<>> = s /\ <<>> ++ s = s
<1>1. (s \o t) \o u = s \o (t \o u)
  BY SMTT(60)
<1>2. s \o t \in Seq(Nat) /\ s \o <<>> = s /\ <<>> \o s = s
  OBVIOUS
<1> QED
  BY <1>1, <1>2, Zenon DEF ++

\* What blocks say, one after the other.
LEMMA SaidByJoins ==
  ASSUME NEW s \in Seq(Blocks)
  PROVE  /\ SaidBy(s) \in Seq(Nat)
         /\ \A b \in Blocks : SaidBy(Append(s, b)) = SaidBy(s) ++ b.says
         /\ \A t \in Seq(Blocks) : SaidBy(s \o t) = SaidBy(s) ++ SaidBy(t)
  BY SaidByFacts, SaidByConcat DEF ++

\* What words are in two sequences, one after the other, and whether one is in them twice.
LEMMA JoinedWords ==
  ASSUME NEW s \in Seq(Nat), NEW t \in Seq(Nat)
  PROVE  /\ s ++ t \in Seq(Nat) /\ Range(s ++ t) = Range(s) \cup Range(t)
         /\ IsInjective(s ++ t) <=>
              IsInjective(s) /\ IsInjective(t) /\ Range(s) \cap Range(t) = {}
<1>1. /\ Range(s \o t) = Range(s) \cup Range(t)
      /\ IsInjective(s \o t) <=> IsInjective(s) /\ IsInjective(t) /\ Range(s) \cap Range(t) = {}
  BY ConcatFacts
<1> QED
  BY <1>1, Joins, Zenon DEF ++

\* The words of sequences of words, with one more of them.
LEMMA FlattenJoin ==
  ASSUME NEW c \in Seq(Seq(Nat)), NEW x \in Seq(Nat)
  PROVE  FlattenSeq(Append(c, x)) = FlattenSeq(c) ++ x
  BY FlattenAppend, Zenon DEF ++

\* Words of which some may be lost and others moved, but none is new or doubled.
Loses(after, words) ==
  /\ after \in Seq(Nat) /\ words \in Seq(Nat)
  /\ Range(after) \subseteq Range(words)
  /\ IsInjective(words) => IsInjective(after)

\* Nothing is lost by doing nothing, nor by one loss after the other.
LEMMA LosesOrder ==
  /\ \A u \in Seq(Nat) : Loses(u, u)
  /\ \A u, v, w : Loses(u, v) /\ Loses(v, w) => Loses(u, w)
  BY DEF Loses

\* What is lost of a part is lost of the whole; and parts may be dropped or change places.
LEMMA LosesPart ==
  ASSUME NEW a \in Seq(Nat), NEW u, NEW v, Loses(u, v)
  PROVE  /\ Loses(a ++ u, a ++ v) /\ Loses(u ++ a, v ++ a)
         /\ Loses(a ++ v, v ++ a) /\ Loses(v ++ a, a ++ v)
         /\ Loses(a, a ++ v) /\ Loses(v, a ++ v) /\ Loses(a, v ++ a) /\ Loses(v, v ++ a)
<1>1. /\ u \in Seq(Nat) /\ v \in Seq(Nat)
      /\ Range(u) \subseteq Range(v) /\ (IsInjective(v) => IsInjective(u))
  BY DEF Loses
<1>2. a ++ u \in Seq(Nat) /\ a ++ v \in Seq(Nat) /\ u ++ a \in Seq(Nat) /\ v ++ a \in Seq(Nat)
  BY <1>1, Joins
<1>3. /\ Range(a ++ u) = Range(a) \cup Range(u)
      /\ IsInjective(a ++ u) <=> IsInjective(a) /\ IsInjective(u) /\ Range(a) \cap Range(u) = {}
  BY <1>1, JoinedWords
<1>4. /\ Range(a ++ v) = Range(a) \cup Range(v)
      /\ IsInjective(a ++ v) <=> IsInjective(a) /\ IsInjective(v) /\ Range(a) \cap Range(v) = {}
  BY <1>1, JoinedWords
<1>5. /\ Range(u ++ a) = Range(u) \cup Range(a)
      /\ IsInjective(u ++ a) <=> IsInjective(u) /\ IsInjective(a) /\ Range(u) \cap Range(a) = {}
  BY <1>1, JoinedWords
<1>6. /\ Range(v ++ a) = Range(v) \cup Range(a)
      /\ IsInjective(v ++ a) <=> IsInjective(v) /\ IsInjective(a) /\ Range(v) \cap Range(a) = {}
  BY <1>1, JoinedWords
<1>7. Loses(a ++ u, a ++ v)
  BY <1>1, <1>2, <1>3, <1>4 DEF Loses
<1>8. Loses(u ++ a, v ++ a)
  BY <1>1, <1>2, <1>5, <1>6 DEF Loses
<1>9. Loses(a ++ v, v ++ a) /\ Loses(v ++ a, a ++ v)
  BY <1>1, <1>2, <1>4, <1>6 DEF Loses
<1>10. /\ Loses(a, a ++ v) /\ Loses(v, a ++ v) /\ Loses(a, v ++ a) /\ Loses(v, v ++ a)
  BY <1>1, <1>2, <1>4, <1>6 DEF Loses
<1> QED
  BY <1>7, <1>8, <1>9, <1>10

\* The content of a list that is open and of the item of it that is open.
Content(lists, items, k) ==
  SaidBy(FlattenSeq(lists[k])) ++ (IF k <= Len(items) THEN SaidBy(items[k]) ELSE <<>>)

\* That of the first n lists.
Contents(lists, items, n) == FlattenSeq([k \in 1..n |-> Content(lists, items, k)])

Lists == Seq(Seq(Seq(Blocks)))
OpenItems == Seq(Seq(Blocks))

\* List by list.
LEMMA ContentsFacts ==
  ASSUME NEW lists \in Lists, NEW items \in OpenItems
  PROVE  /\ \A k \in 1..Len(lists) : Content(lists, items, k) \in Seq(Nat)
         /\ Contents(lists, items, 0) = <<>>
         /\ \A n \in 1..Len(lists) :
              Contents(lists, items, n) = Contents(lists, items, n - 1) ++ Content(lists, items, n)
         /\ \A n \in 0..Len(lists) : Contents(lists, items, n) \in Seq(Nat)
<1>1. ASSUME NEW k \in 1..Len(lists)
      PROVE  Content(lists, items, k) \in Seq(Nat)
  <2>1. lists[k] \in Seq(Seq(Blocks)) /\ k \in Nat /\ Len(items) \in Nat
    BY DEF Lists, OpenItems
  <2>2. SaidBy(FlattenSeq(lists[k])) \in Seq(Nat)
    BY <2>1, FlattenType, SaidByJoins
  <2>3. k <= Len(items) => items[k] \in Seq(Blocks)
    BY <2>1 DEF OpenItems
  <2>4. k <= Len(items) => SaidBy(items[k]) \in Seq(Nat)
    BY <2>3, SaidByJoins
  <2>5. PICK a \in Seq(Nat) : a = SaidBy(FlattenSeq(lists[k]))
    BY <2>2
  <2>6. PICK b \in Seq(Nat) : b = IF k <= Len(items) THEN SaidBy(items[k]) ELSE <<>>
    <3>1. <<>> \in Seq(Nat)
      OBVIOUS
    <3> QED
      BY <2>4, <3>1
  <2>7. Content(lists, items, k) = a ++ b
    BY <2>5, <2>6 DEF Content
  <2> QED
    BY <2>7, Joins
<1>2. PICK f : f = [k \in 1..Len(lists) |-> Content(lists, items, k)]
  OBVIOUS
<1>3. Len(lists) \in Nat
  BY DEF Lists
<1>4. ASSUME NEW n \in 0..Len(lists)
      PROVE  /\ [k \in 1..n |-> Content(lists, items, k)] \in Seq(Seq(Nat))
             /\ n # 0 => [k \in 1..n |-> Content(lists, items, k)]
                           = Append([k \in 1..(n - 1) |-> Content(lists, items, k)],
                                    Content(lists, items, n))
  <2>1. \A k \in 1..n : k \in 1..Len(lists)
    BY <1>3
  <2>2. PICK c : c = [k \in 1..n |-> Content(lists, items, k)]
    OBVIOUS
  <2>3. PICK d : d = [k \in 1..(n - 1) |-> Content(lists, items, k)]
    OBVIOUS
  <2>4. c \in Seq(Seq(Nat)) /\ Len(c) = n /\ \A k \in 1..n : c[k] = Content(lists, items, k)
    BY <1>1, <1>3, <2>1, <2>2
  <2>5. n # 0 => d \in Seq(Seq(Nat)) /\ Len(d) = n - 1 /\ \A k \in 1..(n - 1) : d[k] = c[k]
    <3>1. n # 0 => n - 1 \in Nat /\ \A k \in 1..(n - 1) : k \in 1..n
      BY <1>3
    <3> QED
      BY <1>1, <2>1, <2>3, <2>4, <3>1
  <2>6. n # 0 => c = Append(d, c[n])
    <3>1. n # 0 => n \in 1..n
      BY <1>3
    <3> QED
      BY <1>3, <2>4, <2>5, <3>1
  <2>7. n # 0 => c[n] = Content(lists, items, n)
    BY <1>3, <2>4
  <2> QED
    BY <2>2, <2>3, <2>4, <2>6, <2>7
<1>5. Contents(lists, items, 0) = <<>>
  <2>1. [k \in 1..0 |-> Content(lists, items, k)] = <<>>
    OBVIOUS
  <2> QED
    BY <2>1, FlattenEmpty, Zenon DEF Contents
<1>6. ASSUME NEW n \in 1..Len(lists)
      PROVE  Contents(lists, items, n) = Contents(lists, items, n - 1) ++ Content(lists, items, n)
  <2>1. n \in 0..Len(lists) /\ n # 0 /\ n - 1 \in 0..Len(lists)
    BY <1>3
  <2>2. PICK d : d = [k \in 1..(n - 1) |-> Content(lists, items, k)]
    OBVIOUS
  <2>3. d \in Seq(Seq(Nat))
    BY <1>4, <2>1, <2>2
  <2>4. [k \in 1..n |-> Content(lists, items, k)] = Append(d, Content(lists, items, n))
    BY <1>4, <2>1, <2>2
  <2>5. FlattenSeq(Append(d, Content(lists, items, n))) = FlattenSeq(d) ++ Content(lists, items, n)
    BY <1>1, <2>3, FlattenJoin
  <2> QED
    BY <2>2, <2>4, <2>5, Zenon DEF Contents
<1>7. ASSUME NEW n \in 0..Len(lists) PROVE Contents(lists, items, n) \in Seq(Nat)
  <2>1. PICK c : c = [k \in 1..n |-> Content(lists, items, k)]
    OBVIOUS
  <2>2. FlattenSeq(c) \in Seq(Nat)
    BY <1>4, <2>1, FlattenType
  <2> QED
    BY <2>1, <2>2 DEF Contents
<1> QED
  BY <1>1, <1>5, <1>6, <1>7

\* The same contents in other lists and items.
LEMMA ContentsSame ==
  ASSUME NEW lists, NEW items, NEW others, NEW theirs, NEW n,
         \A k \in 1..n : Content(lists, items, k) = Content(others, theirs, k)
  PROVE  Contents(lists, items, n) = Contents(others, theirs, n)
<1>1. [k \in 1..n |-> Content(lists, items, k)] = [k \in 1..n |-> Content(others, theirs, k)]
  OBVIOUS
<1> QED
  BY <1>1, Zenon DEF Contents

\* One list more, with nothing in it, and no item of it.
LEMMA ListOpens ==
  ASSUME NEW lists \in Lists, NEW items \in OpenItems, Len(items) = Len(lists)
  PROVE  /\ Append(lists, <<>>) \in Lists /\ Len(Append(lists, <<>>)) = Len(lists) + 1
         /\ Contents(Append(lists, <<>>), items, Len(lists) + 1) = Contents(lists, items, Len(lists))
<1>1. PICK n : n = Len(lists)
  OBVIOUS
<1>2. PICK more : more = Append(lists, <<>>)
  OBVIOUS
<1>3. /\ n \in Nat /\ more \in Lists /\ Len(more) = n + 1 /\ more[n + 1] = <<>>
      /\ \A k \in 1..n : more[k] = lists[k]
  <2>1. <<>> \in Seq(Seq(Blocks)) /\ lists \in Seq(Seq(Seq(Blocks)))
    BY DEF Lists
  <2> QED
    BY <1>1, <1>2, <2>1 DEF Lists
<1>4. Contents(more, items, n + 1) = Contents(more, items, n) ++ Content(more, items, n + 1)
  <2>1. n + 1 \in 1..Len(more) /\ (n + 1) - 1 = n
    BY <1>3
  <2> QED
    BY <1>3, <2>1, ContentsFacts
<1>5. Content(more, items, n + 1) = <<>>
  <2>1. ~(n + 1 <= Len(items))
    BY <1>1, <1>3
  <2>2. SaidBy(FlattenSeq(more[n + 1])) = <<>>
    BY <1>3, FlattenEmpty, SaidByNone
  <2>3. <<>> ++ <<>> = <<>>
    <3>1. <<>> \in Seq(Nat)
      OBVIOUS
    <3> QED
      BY <3>1, Joins
  <2> QED
    BY <2>1, <2>2, <2>3 DEF Content
<1>6. Contents(more, items, n) = Contents(lists, items, n)
  <2>1. \A k \in 1..n : Content(more, items, k) = Content(lists, items, k)
    BY <1>3 DEF Content
  <2> QED
    BY <1>3, <2>1, ContentsSame
<1>7. Contents(lists, items, n) ++ <<>> = Contents(lists, items, n)
  <2>1. n \in 0..Len(lists)
    BY <1>1, <1>3
  <2>2. Contents(lists, items, n) \in Seq(Nat)
    BY <2>1, ContentsFacts
  <2> QED
    BY <2>2, Joins
<1>8. Contents(more, items, n + 1) = Contents(lists, items, n)
  BY <1>4, <1>5, <1>6, <1>7
<1> QED
  BY <1>1, <1>2, <1>3, <1>8

\* An item opens in the innermost list, with nothing in it.
LEMMA ItemOpens ==
  ASSUME NEW lists \in Lists, NEW items \in OpenItems, Len(lists) = Len(items) + 1
  PROVE  /\ Append(items, <<>>) \in OpenItems /\ Len(Append(items, <<>>)) = Len(items) + 1
         /\ Contents(lists, Append(items, <<>>), Len(lists)) = Contents(lists, items, Len(lists))
<1>1. PICK n : n = Len(items)
  OBVIOUS
<1>2. PICK more : more = Append(items, <<>>)
  OBVIOUS
<1>3. /\ n \in Nat /\ more \in OpenItems /\ Len(more) = n + 1 /\ more[n + 1] = <<>>
      /\ \A k \in 1..n : more[k] = items[k]
  <2>1. <<>> \in Seq(Blocks) /\ items \in Seq(Seq(Blocks))
    BY DEF OpenItems
  <2> QED
    BY <1>1, <1>2, <2>1 DEF OpenItems
<1>4. ASSUME NEW k \in 1..Len(lists) PROVE Content(lists, more, k) = Content(lists, items, k)
  <2>1. CASE k # n + 1
    <3>1. k \in 1..n
      BY <1>1, <1>3, <2>1
    <3>2. k <= Len(items) /\ k <= Len(more)
      BY <1>1, <1>3, <3>1
    <3> QED
      BY <1>3, <3>1, <3>2 DEF Content
  <2>2. CASE k = n + 1
    <3>1. ~(k <= Len(items)) /\ k <= Len(more)
      BY <1>1, <1>3, <2>2
    <3>2. SaidBy(more[k]) = <<>>
      BY <1>3, <2>2, SaidByNone
    <3> QED
      BY <3>1, <3>2 DEF Content
  <2> QED
    BY <2>1, <2>2
<1>5. Len(lists) \in Nat
  BY DEF Lists
<1>6. Contents(lists, more, Len(lists)) = Contents(lists, items, Len(lists))
  BY <1>4, <1>5, ContentsSame
<1> QED
  BY <1>1, <1>2, <1>3, <1>6

\* One thing more in the last of some sequences.
Grown(s, x) == [s EXCEPT ![Len(s)] = Append(@, x)]

\* A block joins the innermost item.
LEMMA ItemGrows ==
  ASSUME NEW lists \in Lists, NEW items \in OpenItems, Len(lists) = Len(items), items # <<>>,
         NEW block \in Blocks
  PROVE  LET more == Grown(items, block)
         IN  /\ more \in OpenItems /\ Len(more) = Len(items) /\ more # <<>>
             /\ Contents(lists, more, Len(lists)) = Contents(lists, items, Len(lists)) ++ block.says
             /\ Last(more) = Append(Last(items), block)
<1>0. PICK more : more = Grown(items, block)
  OBVIOUS
<1>1. PICK n : n = Len(items)
  OBVIOUS
<1>2. n \in Nat /\ n \in 1..n /\ items[n] \in Seq(Blocks) /\ Last(items) = items[n]
  BY <1>1 DEF OpenItems, Last
<1>3. PICK last : last = Append(items[n], block)
  OBVIOUS
<1>4. last \in Seq(Blocks)
  BY <1>2, <1>3
<1>5. more = [items EXCEPT ![n] = last]
  BY <1>0, <1>1, <1>3 DEF Grown
<1>6. /\ more \in OpenItems /\ Len(more) = n /\ more[n] = last
      /\ \A k \in 1..(n - 1) : more[k] = items[k]
  <2>1. items \in [1..n -> Seq(Blocks)]
    BY <1>1 DEF OpenItems
  <2>2. more \in [1..n -> Seq(Blocks)]
    BY <1>4, <1>5, <2>1
  <2>3. more \in Seq(Seq(Blocks)) /\ Len(more) = n
    BY <1>2, <2>2
  <2>4. more[n] = last /\ \A k \in 1..(n - 1) : more[k] = items[k]
    BY <1>2, <1>5, <2>1
  <2> QED
    BY <2>3, <2>4 DEF OpenItems
<1>7. more # <<>> /\ Last(more) = last
  BY <1>2, <1>6 DEF Last
<1>8. Contents(lists, more, n - 1) = Contents(lists, items, n - 1)
  <2>1. ASSUME NEW k \in 1..(n - 1) PROVE Content(lists, more, k) = Content(lists, items, k)
    <3>1. k <= Len(items) /\ k <= Len(more) /\ more[k] = items[k]
      BY <1>1, <1>2, <1>6
    <3> QED
      BY <3>1 DEF Content
  <2>2. \A k \in 1..(n - 1) : Content(lists, more, k) = Content(lists, items, k)
    BY <2>1, Zenon
  <2> QED
    BY <2>2, ContentsSame
<1>9. PICK a : a = SaidBy(FlattenSeq(lists[n]))
  OBVIOUS
<1>10. PICK b : b = SaidBy(items[n])
  OBVIOUS
<1>11. PICK c : c = Contents(lists, items, n - 1)
  OBVIOUS
<1>12. PICK w : w = block.says
  OBVIOUS
<1>13. a \in Seq(Nat) /\ b \in Seq(Nat) /\ c \in Seq(Nat) /\ w \in Seq(Nat)
  <2>1. lists[n] \in Seq(Seq(Blocks)) /\ n - 1 \in 0..Len(lists)
    BY <1>1, <1>2 DEF Lists
  <2>2. FlattenSeq(lists[n]) \in Seq(Blocks)
    BY <2>1, FlattenType
  <2>3. a \in Seq(Nat)
    BY <1>9, <2>2, SaidByJoins
  <2>4. b \in Seq(Nat)
    BY <1>2, <1>10, SaidByJoins
  <2>5. c \in Seq(Nat)
    BY <1>11, <2>1, ContentsFacts
  <2>6. w \in Seq(Nat)
    BY <1>12 DEF Blocks
  <2> QED
    BY <2>3, <2>4, <2>5, <2>6
<1>14. Contents(lists, items, n) = c ++ (a ++ b)
  <2>1. Content(lists, items, n) = a ++ b
    BY <1>1, <1>2, <1>9, <1>10 DEF Content
  <2>2. n \in 1..Len(lists)
    BY <1>1, <1>2
  <2> QED
    BY <1>11, <2>1, <2>2, ContentsFacts
<1>15. Contents(lists, more, n) = c ++ (a ++ (b ++ w))
  <2>1. SaidBy(last) = b ++ w
    BY <1>2, <1>3, <1>10, <1>12, SaidByJoins
  <2>5. n <= Len(more) /\ SaidBy(more[n]) = b ++ w
    <3>1. n <= Len(more)
      BY <1>2, <1>6
    <3> QED
      BY <1>6, <2>1, <3>1, Zenon
  <2>2. Content(lists, more, n) = a ++ (b ++ w)
    BY <1>9, <2>5, Zenon DEF Content
  <2>3. n \in 1..Len(lists)
    BY <1>1, <1>2
  <2>4. Contents(lists, more, n) = Contents(lists, more, n - 1) ++ Content(lists, more, n)
    BY <1>6, <2>3, ContentsFacts
  <2> QED
    BY <1>8, <1>11, <2>2, <2>4
<1>16. c ++ (a ++ (b ++ w)) = (c ++ (a ++ b)) ++ w
  <2>1. a ++ b \in Seq(Nat) /\ (a ++ b) ++ w = a ++ (b ++ w)
    BY <1>13, Joins
  <2>2. (c ++ (a ++ b)) ++ w = c ++ ((a ++ b) ++ w)
    BY <1>13, <2>1, Joins
  <2> QED
    BY <2>1, <2>2
<1>17. Contents(lists, more, n) = Contents(lists, items, n) ++ block.says
  BY <1>12, <1>14, <1>15, <1>16
<1> QED
  BY <1>0, <1>1, <1>2, <1>3, <1>6, <1>7, <1>17

\* An item closes, with a text before its blocks, and joins its list.
LEMMA ItemCloses ==
  ASSUME NEW lists \in Lists, NEW items \in OpenItems, Len(lists) = Len(items), items # <<>>,
         NEW before \in Seq(Blocks)
  PROVE  LET more == Grown(lists, before \o Last(items))
         IN  /\ more \in Lists /\ Len(more) = Len(lists) /\ Front(items) \in OpenItems
             /\ Len(Front(items)) = Len(items) - 1 /\ Last(items) \in Seq(Blocks)
             /\ \E a \in Seq(Nat) :
                  /\ Contents(lists, items, Len(lists)) = a ++ SaidBy(Last(items))
                  /\ Contents(more, Front(items), Len(lists))
                       = a ++ (SaidBy(before) ++ SaidBy(Last(items)))
                  /\ Contents(lists, Front(items), Len(lists)) = a
<1>0. PICK more : more = Grown(lists, before \o Last(items))
  OBVIOUS
<1>1. PICK n : n = Len(items)
  OBVIOUS
<1>2. /\ n \in Nat /\ n \in 1..n /\ items[n] \in Seq(Blocks) /\ Last(items) = items[n]
      /\ n - 1 \in Nat
  BY <1>1 DEF OpenItems, Last
<1>3. PICK item : item = before \o items[n]
  OBVIOUS
<1>4. item \in Seq(Blocks)
  BY <1>2, <1>3
<1>5. lists \in [1..n -> Seq(Seq(Blocks))] /\ lists[n] \in Seq(Seq(Blocks))
  BY <1>1, <1>2 DEF Lists
<1>6. PICK last : last = Append(lists[n], item)
  OBVIOUS
<1>7. last \in Seq(Seq(Blocks))
  BY <1>4, <1>5, <1>6
<1>8. more = [lists EXCEPT ![n] = last]
  BY <1>0, <1>1, <1>2, <1>3, <1>6 DEF Grown
<1>9. /\ more \in Lists /\ Len(more) = n /\ more[n] = last
      /\ \A k \in 1..(n - 1) : more[k] = lists[k]
  <2>1. more \in [1..n -> Seq(Seq(Blocks))]
    BY <1>5, <1>7, <1>8
  <2>2. more \in Seq(Seq(Seq(Blocks))) /\ Len(more) = n
    BY <1>2, <2>1
  <2>3. more[n] = last /\ \A k \in 1..(n - 1) : more[k] = lists[k]
    BY <1>2, <1>5, <1>8
  <2> QED
    BY <2>2, <2>3 DEF Lists
<1>10. PICK front : front = Front(items)
  OBVIOUS
<1>11. /\ front \in OpenItems /\ Len(front) = n - 1
       /\ \A k \in 1..(n - 1) : front[k] = items[k]
  BY <1>1, <1>10, FrontFacts DEF OpenItems
<1>12. PICK a : a = SaidBy(FlattenSeq(lists[n]))
  OBVIOUS
<1>13. PICK b : b = SaidBy(items[n])
  OBVIOUS
<1>14. PICK c : c = Contents(lists, items, n - 1)
  OBVIOUS
<1>15. PICK w : w = SaidBy(before)
  OBVIOUS
<1>16. a \in Seq(Nat) /\ b \in Seq(Nat) /\ c \in Seq(Nat) /\ w \in Seq(Nat)
  <2>1. FlattenSeq(lists[n]) \in Seq(Blocks)
    BY <1>5, FlattenType
  <2>6. n - 1 \in 0..Len(lists)
    BY <1>1, <1>2
  <2>2. a \in Seq(Nat) /\ b \in Seq(Nat) /\ w \in Seq(Nat)
    BY <1>2, <1>12, <1>13, <1>15, <2>1, SaidByJoins
  <2>3. c \in Seq(Nat)
    BY <1>14, <2>6, ContentsFacts
  <2> QED
    BY <2>2, <2>3
<1>17. Contents(lists, items, n) = c ++ (a ++ b)
  <2>1. Content(lists, items, n) = a ++ b
    BY <1>1, <1>2, <1>12, <1>13 DEF Content
  <2>2. n \in 1..Len(lists)
    BY <1>1, <1>2
  <2> QED
    BY <1>14, <2>1, <2>2, ContentsFacts
<1>18. /\ Contents(more, front, n - 1) = c
       /\ Contents(lists, front, n - 1) = c
  <2>1. ASSUME NEW k \in 1..(n - 1)
        PROVE  /\ Content(more, front, k) = Content(lists, items, k)
               /\ Content(lists, front, k) = Content(lists, items, k)
    <3>1. /\ k <= Len(items) /\ k <= Len(front)
          /\ more[k] = lists[k] /\ front[k] = items[k]
      BY <1>1, <1>2, <1>9, <1>11
    <3> QED
      BY <3>1 DEF Content
  <2>2. \A k \in 1..(n - 1) : Content(more, front, k) = Content(lists, items, k)
    BY <2>1, Zenon
  <2>3. \A k \in 1..(n - 1) : Content(lists, front, k) = Content(lists, items, k)
    BY <2>1, Zenon
  <2>4. Contents(more, front, n - 1) = Contents(lists, items, n - 1)
    BY <2>2, ContentsSame
  <2>5. Contents(lists, front, n - 1) = Contents(lists, items, n - 1)
    BY <2>3, ContentsSame
  <2> QED
    BY <1>14, <2>4, <2>5
<1>19. ~(n <= Len(front))
  BY <1>2, <1>11
<1>20. Contents(lists, front, n) = c ++ a
  <2>1. Content(lists, front, n) = a
    BY <1>12, <1>16, <1>19, Joins DEF Content
  <2>2. n \in 1..Len(lists)
    BY <1>1, <1>2
  <2>3. Contents(lists, front, n) = Contents(lists, front, n - 1) ++ Content(lists, front, n)
    BY <1>11, <2>2, ContentsFacts
  <2> QED
    BY <1>18, <2>1, <2>3
<1>21. Contents(more, front, n) = c ++ (a ++ (w ++ b))
  <2>1. SaidBy(item) = w ++ b
    BY <1>2, <1>3, <1>13, <1>15, SaidByJoins
  <2>2. FlattenSeq(last) = FlattenSeq(lists[n]) \o item
    BY <1>4, <1>5, <1>6, FlattenAppend
  <2>3. SaidBy(FlattenSeq(last)) = a ++ (w ++ b)
    <3>1. FlattenSeq(lists[n]) \in Seq(Blocks)
      BY <1>5, FlattenType
    <3> QED
      BY <1>4, <1>12, <2>1, <2>2, <3>1, SaidByJoins
  <2>4. a ++ (w ++ b) \in Seq(Nat)
    BY <1>16, Joins
  <2>5. Content(more, front, n) = a ++ (w ++ b)
    BY <1>9, <1>19, <2>3, <2>4, Joins DEF Content
  <2>6. n \in 1..Len(more)
    BY <1>2, <1>9
  <2>7. Contents(more, front, n) = Contents(more, front, n - 1) ++ Content(more, front, n)
    BY <1>9, <1>11, <2>6, ContentsFacts
  <2> QED
    BY <1>18, <2>5, <2>7
<1>22. PICK ca \in Seq(Nat) : ca = c ++ a
  BY <1>16, Joins
<1>23. /\ Contents(lists, items, n) = ca ++ b
       /\ Contents(more, front, n) = ca ++ (w ++ b)
       /\ Contents(lists, front, n) = ca
  <2>1. (c ++ a) ++ b = c ++ (a ++ b)
    BY <1>16, Joins
  <2>2. w ++ b \in Seq(Nat)
    BY <1>16, Joins
  <2>3. (c ++ a) ++ (w ++ b) = c ++ (a ++ (w ++ b))
    BY <1>16, <2>2, Joins
  <2> QED
    BY <1>17, <1>20, <1>21, <1>22, <2>1, <2>3
<1>24. Last(items) \in Seq(Blocks) /\ b = SaidBy(Last(items))
  BY <1>2, <1>13
<1> QED
  BY <1>0, <1>1, <1>9, <1>10, <1>11, <1>15, <1>22, <1>23, <1>24, Zenon

\* The innermost list closes, and all that is said in it is its own.
LEMMA ListCloses ==
  ASSUME NEW lists \in Lists, NEW items \in OpenItems, Len(lists) = Len(items) + 1
  PROVE  /\ Front(lists) \in Lists /\ Len(Front(lists)) = Len(items)
         /\ FlattenSeq(Last(lists)) \in Seq(Blocks)
         /\ Contents(lists, items, Len(lists))
              = Contents(Front(lists), items, Len(items)) ++ SaidBy(FlattenSeq(Last(lists)))
         /\ Contents(Front(lists), items, Len(items)) \in Seq(Nat)
<1>1. PICK n : n = Len(lists)
  OBVIOUS
<1>2. PICK front : front = Front(lists)
  OBVIOUS
<1>3. Len(items) \in Nat /\ n \in Nat /\ n \in 1..n /\ n - 1 \in Nat /\ n - 1 = Len(items) /\ lists # <<>>
  BY <1>1 DEF Lists, OpenItems
<1>4. /\ front \in Lists /\ Len(front) = n - 1 /\ Last(lists) = lists[n]
      /\ \A k \in 1..(n - 1) : front[k] = lists[k]
  BY <1>1, <1>2, <1>3, FrontFacts DEF Lists
<1>5. FlattenSeq(Last(lists)) \in Seq(Blocks)
  <2>1. Last(lists) \in Seq(Seq(Blocks))
    BY <1>1, <1>3, <1>4 DEF Lists
  <2> QED
    BY <2>1, FlattenType
<1>6. Contents(front, items, n - 1) = Contents(lists, items, n - 1)
  <2>1. \A k \in 1..(n - 1) : Content(front, items, k) = Content(lists, items, k)
    BY <1>4 DEF Content
  <2> QED
    BY <1>3, <2>1, ContentsSame
<1>7. Content(lists, items, n) = SaidBy(FlattenSeq(Last(lists)))
  <2>1. ~(n <= Len(items))
    BY <1>3
  <2>2. SaidBy(FlattenSeq(Last(lists))) \in Seq(Nat)
    BY <1>5, SaidByJoins
  <2> QED
    BY <1>4, <2>1, <2>2, Joins DEF Content
<1>8. Contents(lists, items, n) = Contents(lists, items, n - 1) ++ Content(lists, items, n)
  BY <1>1, <1>3, ContentsFacts
<1>9. Contents(front, items, n - 1) \in Seq(Nat)
  <2>1. n - 1 \in 0..Len(front)
    BY <1>3, <1>4
  <2> QED
    BY <1>4, <2>1, ContentsFacts
<1> QED
  BY <1>1, <1>2, <1>3, <1>4, <1>5, <1>6, <1>7, <1>8, <1>9

\* The words of the registers, one after the other: what is written into the tree, the
\* open lists and items; the rows of the open table, its last row, and the text.
Holding(w, r, q, t) == w ++ (r ++ (q ++ t))

\* Words that move from a register to the one before it, and words that are dropped.
LEMMA HoldingFacts ==
  ASSUME NEW w \in Seq(Nat), NEW r \in Seq(Nat), NEW q \in Seq(Nat), NEW t \in Seq(Nat)
  PROVE  /\ Holding(w, r, q, t) \in Seq(Nat)
         /\ Holding(w ++ r, <<>>, q, t) = Holding(w, r, q, t)
         /\ Holding(w, r ++ q, <<>>, t) = Holding(w, r, q, t)
         /\ Holding(w, r, q ++ t, <<>>) = Holding(w, r, q, t)
         /\ \A e \in Seq(Nat) : Holding(w, r, q, t ++ e) = Holding(w, r, q, t) ++ e
         /\ Holding(w, <<>>, <<>>, t) = w ++ t
<1> <<>> \in Seq(Nat)
  OBVIOUS
<1>1. PICK u : u = q ++ t
  OBVIOUS
<1>2. PICK v : v = r ++ u
  OBVIOUS
<1>3. u \in Seq(Nat) /\ v \in Seq(Nat) /\ w ++ v \in Seq(Nat)
  <2>1. u \in Seq(Nat)
    BY <1>1, Joins
  <2>2. v \in Seq(Nat)
    BY <1>2, <2>1, Joins
  <2> QED
    BY <2>1, <2>2, Joins
<1>4. Holding(w, r, q, t) = w ++ v
  BY <1>1, <1>2 DEF Holding
<1>5. Holding(w ++ r, <<>>, q, t) = Holding(w, r, q, t)
  <2>1. <<>> ++ u = u
    BY <1>3, Joins
  <2>2. (w ++ r) ++ u = w ++ (r ++ u)
    BY <1>3, Joins
  <2> QED
    BY <1>1, <1>2, <1>4, <2>1, <2>2 DEF Holding
<1>6. Holding(w, r ++ q, <<>>, t) = Holding(w, r, q, t)
  <2>1. <<>> ++ t = t
    BY Joins
  <2>2. (r ++ q) ++ t = r ++ (q ++ t)
    BY Joins
  <2> QED
    BY <2>1, <2>2 DEF Holding
<1>7. Holding(w, r, q ++ t, <<>>) = Holding(w, r, q, t)
  <2>1. (q ++ t) ++ <<>> = q ++ t
    BY <1>1, <1>3, Joins
  <2> QED
    BY <2>1 DEF Holding
<1>8. ASSUME NEW e \in Seq(Nat) PROVE Holding(w, r, q, t ++ e) = Holding(w, r, q, t) ++ e
  <2>1. q ++ (t ++ e) = u ++ e
    BY <1>1, Joins
  <2>2. r ++ (u ++ e) = v ++ e
    BY <1>2, <1>3, Joins
  <2>3. w ++ (v ++ e) = (w ++ v) ++ e
    BY <1>3, Joins
  <2> QED
    BY <1>4, <2>1, <2>2, <2>3 DEF Holding
<1>9. Holding(w, <<>>, <<>>, t) = w ++ t
  <2>1. <<>> ++ t = t
    BY Joins
  <2> QED
    BY <2>1 DEF Holding
<1> QED
  BY <1>3, <1>4, <1>5, <1>6, <1>7, <1>8, <1>9

\* Words that stand alone.
LEMMA HoldingAlone ==
  ASSUME NEW v \in Seq(Nat)
  PROVE  Holding(v, <<>>, <<>>, <<>>) = v
<1> <<>> \in Seq(Nat)
  OBVIOUS
<1>1. Holding(v, <<>>, <<>>, <<>>) = v ++ <<>>
  BY HoldingFacts
<1>2. v ++ <<>> = v
  BY Joins
<1> QED
  BY <1>1, <1>2

\* What is lost of a register is lost of all of them.
LEMMA HoldingLoses ==
  ASSUME NEW w \in Seq(Nat), NEW r \in Seq(Nat), NEW q \in Seq(Nat), NEW t \in Seq(Nat)
  PROVE  /\ Loses(Holding(w, r, q, <<>>), Holding(w, r, q, t))
         /\ Loses(Holding(w, <<>>, q, t), Holding(w, r, q, t))
         /\ Loses(Holding(w, r, <<>>, t), Holding(w, r, q, t))
         /\ \A v : Loses(v, w ++ t) => Loses(Holding(v, r, q, <<>>), Holding(w, r, q, t))
<1> <<>> \in Seq(Nat)
  OBVIOUS
<1>1. q ++ t \in Seq(Nat) /\ r ++ (q ++ t) \in Seq(Nat)
  <2>1. q ++ t \in Seq(Nat)
    BY Joins
  <2> QED
    BY <2>1, Joins
<1>2. Loses(<<>>, t) /\ Loses(<<>>, q) /\ Loses(<<>>, r)
  <2>1. ASSUME NEW s \in Seq(Nat) PROVE Loses(<<>>, s)
    BY EmptyFacts DEF Loses
  <2> QED
    BY <2>1
<1>3. Loses(Holding(w, r, q, <<>>), Holding(w, r, q, t))
  <2>1. Loses(q ++ <<>>, q ++ t)
    BY <1>2, LosesPart
  <2>2. Loses(r ++ (q ++ <<>>), r ++ (q ++ t))
    BY <2>1, LosesPart
  <2> QED
    BY <2>2, LosesPart DEF Holding
<1>4. Loses(Holding(w, <<>>, q, t), Holding(w, r, q, t))
  <2>1. Loses(<<>> ++ (q ++ t), r ++ (q ++ t))
    BY <1>1, <1>2, LosesPart
  <2> QED
    BY <2>1, LosesPart DEF Holding
<1>5. Loses(Holding(w, r, <<>>, t), Holding(w, r, q, t))
  <2>1. Loses(<<>> ++ t, q ++ t)
    BY <1>2, LosesPart
  <2>2. Loses(r ++ (<<>> ++ t), r ++ (q ++ t))
    BY <2>1, LosesPart
  <2> QED
    BY <2>2, LosesPart DEF Holding
<1>6. ASSUME NEW v, Loses(v, w ++ t) PROVE Loses(Holding(v, r, q, <<>>), Holding(w, r, q, t))
  <2>1. PICK g : g = r ++ q
    OBVIOUS
  <2>2. g \in Seq(Nat) /\ r ++ (q ++ t) = g ++ t /\ q ++ <<>> = q
    BY <2>1, Joins
  <2>3. Loses(v ++ g, (w ++ t) ++ g)
    BY <1>6, <2>2, LosesPart
  <2>4. (w ++ t) ++ g = w ++ (t ++ g)
    BY <2>2, Joins
  <2>5. Loses(t ++ g, g ++ t)
    <3>1. Loses(g, g)
      BY <2>2, LosesOrder
    <3> QED
      BY <3>1, LosesPart
  <2>6. Loses(w ++ (t ++ g), w ++ (g ++ t))
    BY <2>5, LosesPart
  <2>7. Loses(v ++ g, w ++ (g ++ t))
    BY <2>3, <2>4, <2>6, LosesOrder
  <2> QED
    BY <2>1, <2>2, <2>7 DEF Holding
<1> QED
  BY <1>3, <1>4, <1>5, <1>6

\* The registers of the parser.
Registers == {"tree", "title", "titled", "skip", "text", "capture", "inTitle", "level",
              "lists", "items", "rows", "row", "cell"}

\* What is in them.
HtmlShape(h) ==
  /\ DOMAIN h = Registers
  /\ Tells(h.tree, Said(h.tree))
  /\ h.lists \in Lists /\ h.items \in OpenItems
  /\ h.rows \in Seq(Seq(Seq(Nat))) /\ h.row \in Seq(Seq(Nat)) /\ h.text \in Seq(Nat)
  /\ h.capture \in BOOLEAN /\ h.inTitle \in BOOLEAN /\ h.cell \in BOOLEAN
  /\ h.skip \in Nat /\ h.level \in Nat

\* The words of the tree, the open lists and their items.
Written(h) == Said(h.tree) ++ Contents(h.lists, h.items, Len(h.lists))

\* The words of the closed rows, and of the open one.
RowsSay(h) == FlattenSeq(FlattenSeq(h.rows))
RowSays(h) == FlattenSeq(h.row)

\* The text, if it is not that of the title.
TextSays(h) == IF h.inTitle THEN <<>> ELSE h.text

Held(h) == Holding(Written(h), RowsSay(h), RowSays(h), TextSays(h))

\* They are words.
LEMMA HeldFacts ==
  ASSUME NEW h, HtmlShape(h)
  PROVE  /\ Said(h.tree) \in Seq(Nat) /\ Contents(h.lists, h.items, Len(h.lists)) \in Seq(Nat)
         /\ Written(h) \in Seq(Nat) /\ RowsSay(h) \in Seq(Nat) /\ RowSays(h) \in Seq(Nat)
         /\ TextSays(h) \in Seq(Nat) /\ Held(h) \in Seq(Nat)
<1>1. Said(h.tree) \in Seq(Nat)
  BY DEF HtmlShape, Tells
<1>2. h.lists \in Lists /\ h.items \in OpenItems /\ h.rows \in Seq(Seq(Seq(Nat)))
      /\ h.row \in Seq(Seq(Nat)) /\ h.text \in Seq(Nat)
  BY DEF HtmlShape
<1>3. Contents(h.lists, h.items, Len(h.lists)) \in Seq(Nat)
  <2>1. PICK n : n = Len(h.lists)
    OBVIOUS
  <2>2. n \in 0..n
    BY <1>2, <2>1 DEF Lists
  <2> QED
    BY <1>2, <2>1, <2>2, ContentsFacts
<1>4. Written(h) \in Seq(Nat)
  BY <1>1, <1>3, Joins DEF Written
<1>5. RowsSay(h) \in Seq(Nat)
  <2>1. FlattenSeq(h.rows) \in Seq(Seq(Nat))
    BY <1>2, FlattenType
  <2> QED
    BY <2>1, FlattenType DEF RowsSay
<1>6. RowSays(h) \in Seq(Nat)
  BY <1>2, FlattenType DEF RowSays
<1>7. TextSays(h) \in Seq(Nat)
  <2>1. <<>> \in Seq(Nat)
    OBVIOUS
  <2> QED
    BY <1>2, <2>1 DEF TextSays
<1> QED
  BY <1>1, <1>3, <1>4, <1>5, <1>6, <1>7, HoldingFacts DEF Held

\* The registers that Emit leaves alone.
SameRest(g, h) ==
  /\ g.lists = h.lists /\ Len(g.items) = Len(h.items)
  /\ g.rows = h.rows /\ g.row = h.row /\ g.text = h.text
  /\ g.capture = h.capture /\ g.inTitle = h.inTitle /\ g.cell = h.cell
  /\ g.skip = h.skip /\ g.level = h.level

\* A block that is emitted says its words after those that are written.
LEMMA EmitFacts ==
  ASSUME NEW h, HtmlShape(h), Len(h.lists) = Len(h.items), NEW block \in Blocks
  PROVE  /\ HtmlShape(Emit(h, block)) /\ SameRest(Emit(h, block), h)
         /\ Written(Emit(h, block)) = Written(h) ++ block.says
         /\ h.items # <<>> => Last(Emit(h, block).items) = Append(Last(h.items), block)
<1>1. PICK g : g = Emit(h, block)
  OBVIOUS
<1>2. PICK s : s = Said(h.tree)
  OBVIOUS
<1>3. PICK c : c = Contents(h.lists, h.items, Len(h.lists))
  OBVIOUS
<1>4. PICK w : w = block.says
  OBVIOUS
<1>5. s \in Seq(Nat) /\ c \in Seq(Nat) /\ w \in Seq(Nat) /\ Written(h) = s ++ c
  <2>1. w \in Seq(Nat)
    BY <1>4 DEF Blocks
  <2> QED
    BY <1>2, <1>3, <2>1, HeldFacts DEF Written
<1>6. CASE h.items # <<>>
  <2>1. PICK lists : lists = h.lists
    OBVIOUS
  <2>2. PICK items : items = h.items
    OBVIOUS
  <2>3. PICK more : more = Grown(items, block)
    OBVIOUS
  <2>4. lists \in Lists /\ items \in OpenItems /\ Len(lists) = Len(items) /\ items # <<>>
    BY <1>6, <2>1, <2>2 DEF HtmlShape
  <2>5. /\ more \in OpenItems /\ Len(more) = Len(items)
        /\ Contents(lists, more, Len(lists)) = Contents(lists, items, Len(lists)) ++ w
        /\ Last(more) = Append(Last(items), block)
    BY <1>4, <2>3, <2>4, ItemGrows
  <2>6. g = [h EXCEPT !.items = more]
    BY <1>1, <1>6, <2>2, <2>3 DEF Emit, Grown
  <2>7. DOMAIN h = Registers
    BY DEF HtmlShape
  <2>12. /\ DOMAIN g = Registers /\ g.items = more /\ g.tree = h.tree
         /\ g.lists = h.lists /\ g.rows = h.rows /\ g.row = h.row /\ g.text = h.text
         /\ g.capture = h.capture /\ g.inTitle = h.inTitle /\ g.cell = h.cell
         /\ g.skip = h.skip /\ g.level = h.level
    BY <2>6, <2>7, Zenon DEF Registers
  <2>8. /\ DOMAIN g = Registers /\ g.items = more /\ g.tree = h.tree
        /\ SameRest(g, h)
    BY <2>2, <2>5, <2>12 DEF SameRest
  <2>9. HtmlShape(g)
    <3>1. /\ DOMAIN g = Registers /\ g.tree = h.tree /\ g.items \in OpenItems /\ g.lists = h.lists
          /\ g.rows = h.rows /\ g.row = h.row /\ g.text = h.text
          /\ g.capture = h.capture /\ g.inTitle = h.inTitle /\ g.cell = h.cell
          /\ g.skip = h.skip /\ g.level = h.level
      BY <2>5, <2>8 DEF SameRest
    <3> QED
      BY <3>1 DEF HtmlShape
  <2>10. Written(g) = s ++ (c ++ w)
    <3>1. g.lists = lists
      BY <2>1, <2>8 DEF SameRest
    <3>2. Written(g) = Said(g.tree) ++ Contents(g.lists, g.items, Len(g.lists))
      BY DEF Written
    <3>3. Contents(g.lists, g.items, Len(g.lists)) = c ++ w
      BY <1>3, <2>1, <2>2, <2>5, <2>8, <3>1
    <3> QED
      BY <1>2, <2>8, <3>2, <3>3
  <2>11. Written(g) = Written(h) ++ w
    BY <1>5, <2>10, Joins
  <2> QED
    BY <1>1, <1>4, <2>2, <2>5, <2>8, <2>9, <2>11
<1>7. CASE h.items = <<>>
  <2>1. PICK t : t = Added(h.tree, Item(block.kind, w))
    OBVIOUS
  <2>2. g = [h EXCEPT !.tree = t]
    BY <1>1, <1>4, <1>7, <2>1 DEF Emit
  <2>3. DOMAIN h = Registers
    BY DEF HtmlShape
  <2>4. DOMAIN g = Registers /\ g.tree = t /\ g.items = h.items /\ SameRest(g, h)
    BY <2>2, <2>3 DEF SameRest, Registers
  <2>5. Tells(t, s \o w)
    <3>1. Tells(h.tree, s)
      BY <1>2 DEF HtmlShape
    <3> QED
      BY <1>5, <2>1, <3>1, ItemTells
  <2>6. Said(t) = s ++ w /\ Tells(t, Said(t))
    BY <2>5, Zenon DEF Tells, ++
  <2>7. HtmlShape(g)
    <3>1. /\ DOMAIN g = Registers /\ g.items = h.items /\ g.lists = h.lists
          /\ Tells(g.tree, Said(g.tree))
          /\ g.rows = h.rows /\ g.row = h.row /\ g.text = h.text
          /\ g.capture = h.capture /\ g.inTitle = h.inTitle /\ g.cell = h.cell
          /\ g.skip = h.skip /\ g.level = h.level
      BY <2>4, <2>6 DEF SameRest
    <3> QED
      BY <3>1 DEF HtmlShape
  <2>8. c = <<>>
    <3>1. Len(h.lists) = 0
      BY <1>7
    <3>2. h.lists \in Lists /\ h.items \in OpenItems
      BY DEF HtmlShape
    <3> QED
      BY <1>3, <3>1, <3>2, ContentsFacts
  <2>9. Contents(g.lists, g.items, Len(g.lists)) = c
    BY <1>3, <2>4 DEF SameRest
  <2>10. Written(g) = (s ++ w) ++ <<>> /\ Written(h) = s ++ <<>>
    BY <1>5, <2>4, <2>6, <2>8, <2>9 DEF Written
  <2>11. Written(g) = Written(h) ++ w
    <3>1. s ++ w \in Seq(Nat)
      BY <1>5, Joins
    <3> QED
      BY <1>5, <2>10, <3>1, Joins
  <2> QED
    BY <1>1, <1>4, <1>7, <2>4, <2>7, <2>11
<1> QED
  BY <1>6, <1>7

-----------------------------------------------------------------------------
(* Start tags *)

\* What the parser remembers of the innermost open element.
Marks(h, inner) ==
  /\ inner \in {"pre", "block"} => h.capture
  /\ h.inTitle <=> inner = "title"
  /\ h.skip = IF inner = "ignored" THEN 1 ELSE 0
  /\ h.level > 0 <=> inner \in Heading
  /\ Len(h.lists) = Len(h.items) + (IF inner = "list" THEN 1 ELSE 0)

\* What elements stand in.
Holders == {"body", "list", "table", "tr", "li", "cell", "quote", "figcaption"}

\* The elements that stand in one.
LEMMA InsideFacts ==
  ASSUME NEW outer, outer \in Holders \/ Inside(outer) # {}
  PROVE  /\ outer \in Holders
         /\ Inside(outer) \subseteq {"h1", "h2", "title", "meta", "pre", "figcaption", "ignored", "quote",
                                     "block", "list", "table", "li", "tr", "cell", "img"}
         /\ "li" \in Inside(outer) <=> outer = "list"
         /\ outer = "list" => Inside(outer) = {"li"}
         /\ "cell" \in Inside(outer) <=> outer = "tr"
         /\ outer = "tr" => Inside(outer) = {"cell"}
         /\ "tr" \in Inside(outer) <=> outer = "table"
         /\ outer = "table" => Inside(outer) = {"tr"}
         /\ "img" \in Inside(outer) => outer = "li"
         /\ {"h1", "title", "meta", "ignored"} \cap Inside(outer) # {} => outer = "body"
         /\ {"h2", "block", "pre", "quote", "figcaption", "list", "table"} \cap Inside(outer) # {} =>
              outer \in {"body", "li", "cell", "quote", "figcaption"}
<1>1. outer \in Holders
  BY DEF Inside, Holders
<1> QED
  BY <1>1 DEF Inside, Holders, Flow

\* Registers with the same words but for the text.
Alike(g, h) ==
  /\ g.tree = h.tree /\ g.lists = h.lists /\ g.items = h.items
  /\ g.rows = h.rows /\ g.row = h.row

\* They hold the same but for the text.
LEMMA AlikeHolds ==
  ASSUME NEW g, NEW h, HtmlShape(h), HtmlShape(g), Alike(g, h)
  PROVE  /\ Held(g) = Holding(Written(h), RowsSay(h), RowSays(h), TextSays(g))
         /\ TextSays(g) = TextSays(h) => Held(g) = Held(h) /\ Loses(Held(g), Held(h))
         /\ TextSays(g) = <<>> => Loses(Held(g), Held(h))
<1>1. Written(g) = Written(h) /\ RowsSay(g) = RowsSay(h) /\ RowSays(g) = RowSays(h)
  BY DEF Alike, Written, RowsSay, RowSays
<1>2. Held(g) = Holding(Written(h), RowsSay(h), RowSays(h), TextSays(g))
  BY <1>1 DEF Held
<1>3. Held(h) \in Seq(Nat)
  BY HeldFacts
<1>4. TextSays(g) = TextSays(h) => Held(g) = Held(h) /\ Loses(Held(g), Held(h))
  BY <1>2, <1>3, LosesOrder DEF Held
<1>5. TextSays(g) = <<>> => Loses(Held(g), Held(h))
  BY <1>2, HeldFacts, HoldingLoses DEF Held
<1> QED
  BY <1>2, <1>4, <1>5

\* The level of a heading.
LEMMA LevelFacts ==
  ASSUME NEW tag \in Heading
  PROVE  LevelOf(tag) \in Nat /\ LevelOf(tag) > 0
<1>1. \E n \in 1..6 : tag = <<"h1", "h2", "h3", "h4", "h5", "h6">>[n]
  <2>1. tag \in {"h1", "h2", "h3", "h4", "h5", "h6"}
    BY DEF Heading
  <2>2. 1 \in 1..6 /\ 2 \in 1..6 /\ 3 \in 1..6 /\ 4 \in 1..6 /\ 5 \in 1..6 /\ 6 \in 1..6
    OBVIOUS
  <2> QED
    BY <2>1, <2>2
<1>2. LevelOf(tag) \in 1..6
  BY <1>1, Zenon DEF LevelOf
<1> QED
  BY <1>2

\* A start tag, and what it adds to what the parser remembers.
StartMarks(g, h, tag) ==
  /\ HtmlShape(g) /\ Marks(g, tag) /\ Loses(Held(g), Held(h))
  /\ Len(g.items) = Len(h.items) + (IF tag = "li" THEN 1 ELSE 0)
  /\ g.cell <=> h.cell \/ tag = "cell"
  /\ g.capture <=> h.capture \/ tag \in {"pre", "block", "quote", "figcaption"}
  /\ g.rows = IF tag = "table" THEN <<>> ELSE h.rows
  /\ g.row = IF tag = "tr" THEN <<>> ELSE h.row
  /\ tag = "li" => Last(g.items) = <<>>
  /\ h.text = <<>> /\ (tag = "table" => h.rows = <<>>) /\ (tag = "tr" => h.row = <<>>) =>
       Held(g) = Held(h) /\ g.text = <<>>

\* Those that begin a text, and those that are ignored.
LEMMA StartOfText ==
  ASSUME NEW h, HtmlShape(h), NEW outer \in Holders, Marks(h, outer),
         NEW tag \in Inside(outer), tag \notin Void \cup {"list", "li", "table", "tr"}
  PROVE  StartMarks(StartTag(h, tag), h, tag)
<1>1. PICK g : g = StartTag(h, tag)
  OBVIOUS
<1>2. ~h.inTitle /\ h.skip = 0 /\ h.level = 0 /\ outer # "list"
  <2>1. outer # "list"
    BY InsideFacts
  <2>2. h.level \in Nat
    BY DEF HtmlShape
  <2> QED
    BY <2>1, <2>2 DEF Marks, Holders, Heading
<1>3. tag \in {"title", "pre", "figcaption", "block", "quote", "ignored", "cell"} \cup Heading
      /\ tag \notin {"list", "li", "table", "tr"}
  BY InsideFacts DEF Void, Heading
<1>4. DOMAIN h = Registers /\ h.capture \in BOOLEAN /\ h.inTitle \in BOOLEAN /\ h.cell \in BOOLEAN
  BY DEF HtmlShape
<1>5. /\ DOMAIN g = Registers /\ Alike(g, h)
      /\ g.text = IF tag = "ignored" THEN h.text ELSE <<>>
      /\ g.capture <=> h.capture \/ tag \in {"pre", "block", "quote", "figcaption"}
      /\ g.inTitle <=> tag = "title"
      /\ g.skip = IF tag = "ignored" THEN 1 ELSE 0
      /\ g.level = IF tag \in Heading THEN LevelOf(tag) ELSE 0
      /\ g.cell <=> h.cell \/ tag = "cell"
      /\ g.capture \in BOOLEAN /\ g.inTitle \in BOOLEAN /\ g.cell \in BOOLEAN
  <2>1. CASE tag = "ignored"
    <3>1. g = [h EXCEPT !.skip = h.skip + 1]
      <4>1. tag \notin {"title", "meta", "img", "list", "li", "table", "tr", "cell"}
                      \cup Heading \cup {"pre", "block", "quote", "figcaption"}
        BY <2>1 DEF Heading
      <4> QED
        BY <1>1, <2>1, <4>1 DEF StartTag
    <3> QED
      BY <1>2, <1>4, <2>1, <3>1 DEF Alike, Registers, Heading
  <2>2. CASE tag = "title"
    <3>1. g = [h EXCEPT !.inTitle = TRUE, !.text = <<>>]
      <4>1. tag \notin {"ignored", "meta", "img", "list", "li", "table", "tr", "cell"}
                      \cup Heading \cup {"pre", "block", "quote", "figcaption"}
        BY <2>2 DEF Heading
      <4> QED
        BY <1>1, <1>2, <2>2, <4>1 DEF StartTag
    <3> QED
      BY <1>2, <1>4, <2>2, <3>1 DEF Alike, Registers, Heading
  <2>3. CASE tag \in Heading
    <3>1. g = [h EXCEPT !.level = LevelOf(tag), !.text = <<>>]
      BY <1>1, <1>2, <2>3 DEF StartTag, Heading
    <3> QED
      BY <1>2, <1>4, <2>3, <3>1 DEF Alike, Registers, Heading
  <2>4. CASE tag \in {"pre", "block", "quote", "figcaption"}
    <3>1. g = [h EXCEPT !.capture = TRUE, !.text = <<>>]
      <4>1. tag \notin {"ignored", "title", "meta", "img"} \cup Heading
        BY <2>4 DEF Heading
      <4> QED
        BY <1>1, <1>2, <2>4, <4>1 DEF StartTag
    <3> QED
      BY <1>2, <1>4, <2>4, <3>1 DEF Alike, Registers, Heading
  <2>5. CASE tag = "cell"
    <3>1. g = [h EXCEPT !.cell = TRUE, !.text = <<>>]
      <4>1. tag \notin {"ignored", "title", "meta", "img", "list", "li", "table", "tr"}
                      \cup Heading \cup {"pre", "block", "quote", "figcaption"}
        BY <2>5 DEF Heading
      <4> QED
        BY <1>1, <1>2, <2>5, <4>1 DEF StartTag
    <3> QED
      BY <1>2, <1>4, <2>5, <3>1 DEF Alike, Registers, Heading
  <2> QED
    BY <1>3, <2>1, <2>2, <2>3, <2>4, <2>5
<1>6. HtmlShape(g)
  <2>1. g.text \in Seq(Nat)
    BY <1>5 DEF HtmlShape
  <2>2. g.skip \in Nat /\ g.level \in Nat
    BY <1>5, LevelFacts
  <2> QED
    BY <1>5, <2>1, <2>2 DEF HtmlShape, Alike
<1>7. Marks(g, tag)
  <2>1. Len(g.lists) = Len(g.items) + 0
    BY <1>2, <1>5 DEF Alike, Marks
  <2>2. g.level > 0 <=> tag \in Heading
    BY <1>5, LevelFacts
  <2> QED
    BY <1>3, <1>5, <2>1, <2>2 DEF Marks
<1>8. /\ Loses(Held(g), Held(h))
      /\ h.text = <<>> => Held(g) = Held(h) /\ g.text = <<>>
  <2>1. TextSays(g) = <<>> \/ TextSays(g) = TextSays(h)
    BY <1>2, <1>5 DEF TextSays
  <2>2. h.text = <<>> => TextSays(g) = TextSays(h) /\ g.text = <<>>
    BY <1>5 DEF TextSays
  <2> QED
    BY <1>5, <1>6, <2>1, <2>2, AlikeHolds
<1>9. Len(g.items) = Len(h.items) + 0
  <2>1. Len(h.items) \in Nat /\ g.items = h.items
    BY <1>5 DEF HtmlShape, OpenItems, Alike
  <2> QED
    BY <2>1
<1>10. StartMarks(g, h, tag)
  BY <1>3, <1>5, <1>6, <1>7, <1>8, <1>9 DEF StartMarks, Alike
<1> QED
  BY <1>1, <1>10

\* Those of lists, items, tables and rows.
LEMMA StartOfPart ==
  ASSUME NEW h, HtmlShape(h), NEW outer \in Holders, Marks(h, outer),
         NEW tag \in Inside(outer), tag \in {"list", "li", "table", "tr"}
  PROVE  StartMarks(StartTag(h, tag), h, tag)
<1>1. PICK g : g = StartTag(h, tag)
  OBVIOUS
<1>2. ~h.inTitle /\ h.skip = 0 /\ h.level = 0
  <2>1. h.level \in Nat
    BY DEF HtmlShape
  <2> QED
    BY <2>1 DEF Marks, Holders, Heading
<1>3. tag \notin {"ignored", "title", "meta", "img", "cell"} \cup Heading \cup {"pre", "block", "quote", "figcaption"}
  BY DEF Heading
<1>4. DOMAIN h = Registers
  BY DEF HtmlShape
<1>5. h.lists \in Lists /\ h.items \in OpenItems /\ Len(h.lists) \in Nat /\ Len(h.items) \in Nat
  BY DEF HtmlShape, Lists, OpenItems
<1>6. Len(h.lists) = Len(h.items) + (IF outer = "list" THEN 1 ELSE 0)
  BY DEF Marks
<1>7. CASE tag \in {"table", "tr"}
  <2>1. g = IF tag = "table" THEN [h EXCEPT !.rows = <<>>] ELSE [h EXCEPT !.row = <<>>]
    BY <1>1, <1>2, <1>3, <1>7 DEF StartTag
  <2>2. /\ DOMAIN g = Registers /\ g.tree = h.tree /\ g.lists = h.lists /\ g.items = h.items
        /\ g.rows = IF tag = "table" THEN <<>> ELSE h.rows
        /\ g.row = IF tag = "tr" THEN <<>> ELSE h.row
        /\ g.text = h.text /\ g.capture = h.capture /\ g.inTitle = h.inTitle /\ g.cell = h.cell
        /\ g.skip = h.skip /\ g.level = h.level
    BY <1>4, <1>7, <2>1 DEF Registers
  <2>3. HtmlShape(g)
    <3>1. <<>> \in Seq(Seq(Seq(Nat))) /\ <<>> \in Seq(Seq(Nat))
      OBVIOUS
    <3> QED
      BY <2>2, <3>1 DEF HtmlShape
  <2>4. Marks(g, tag)
    <3>1. outer # "list"
      BY <1>7, InsideFacts
    <3>2. /\ tag \notin {"pre", "block", "quote", "figcaption"} /\ tag \notin Heading
          /\ tag # "title" /\ tag # "ignored" /\ tag # "list"
      BY <1>3, <1>7
    <3>3. Len(g.lists) = Len(g.items) + 0
      BY <1>6, <2>2, <3>1
    <3> QED
      BY <1>2, <2>2, <3>2, <3>3 DEF Marks
  <2>5. Written(g) = Written(h) /\ TextSays(g) = TextSays(h)
    BY <2>2 DEF Written, TextSays
  <2>6. CASE tag = "table"
    <3>1. g.rows = <<>> /\ g.row = h.row
      BY <2>2, <2>6
    <3>2. RowsSay(g) = <<>> /\ RowSays(g) = RowSays(h)
      BY <3>1, FlattenEmpty DEF RowsSay, RowSays
    <3>3. Loses(Held(g), Held(h))
      BY <2>5, <3>2, HeldFacts, HoldingLoses DEF Held
    <3>4. h.rows = <<>> => Held(g) = Held(h)
      BY <2>5, <3>1, <3>2 DEF Held, RowsSay
    <3> QED
      BY <1>1, <1>5, <2>2, <2>3, <2>4, <2>6, <3>3, <3>4 DEF StartMarks
  <2>7. CASE tag = "tr"
    <3>1. g.row = <<>> /\ g.rows = h.rows
      BY <2>2, <2>7
    <3>2. RowSays(g) = <<>> /\ RowsSay(g) = RowsSay(h)
      BY <3>1, FlattenEmpty DEF RowsSay, RowSays
    <3>3. Loses(Held(g), Held(h))
      BY <2>5, <3>2, HeldFacts, HoldingLoses DEF Held
    <3>4. h.row = <<>> => Held(g) = Held(h)
      BY <2>5, <3>1, <3>2 DEF Held, RowSays
    <3> QED
      BY <1>1, <1>5, <2>2, <2>3, <2>4, <2>7, <3>3, <3>4 DEF StartMarks
  <2> QED
    BY <1>7, <2>6, <2>7
<1>8. CASE tag = "list"
  <2>1. PICK lists : lists = Append(h.lists, <<>>)
    OBVIOUS
  <2>2. g = [h EXCEPT !.lists = lists]
    BY <1>1, <1>2, <1>3, <1>8, <2>1 DEF StartTag
  <2>3. /\ DOMAIN g = Registers /\ g.tree = h.tree /\ g.lists = lists /\ g.items = h.items
        /\ g.rows = h.rows /\ g.row = h.row
        /\ g.text = h.text /\ g.capture = h.capture /\ g.inTitle = h.inTitle /\ g.cell = h.cell
        /\ g.skip = h.skip /\ g.level = h.level
    BY <1>4, <2>2, Zenon DEF Registers
  <2>4. Len(h.items) = Len(h.lists)
    <3>1. outer # "list"
      BY <1>8, InsideFacts
    <3> QED
      BY <1>5, <1>6, <3>1
  <2>5. /\ lists \in Lists /\ Len(lists) = Len(h.lists) + 1
        /\ Contents(lists, h.items, Len(h.lists) + 1) = Contents(h.lists, h.items, Len(h.lists))
    BY <1>5, <2>1, <2>4, ListOpens
  <2>6. HtmlShape(g)
    BY <2>3, <2>5 DEF HtmlShape
  <2>7. Marks(g, tag)
    BY <1>2, <1>3, <1>8, <2>3, <2>4, <2>5 DEF Marks
  <2>8. Held(g) = Held(h)
    <3>1. Contents(g.lists, g.items, Len(g.lists)) = Contents(h.lists, h.items, Len(h.lists))
      BY <2>3, <2>5
    <3> QED
      BY <2>3, <3>1 DEF Held, Written, RowsSay, RowSays, TextSays
  <2>9. Loses(Held(g), Held(h))
    BY <2>8, HeldFacts, LosesOrder
  <2> QED
    BY <1>1, <1>5, <1>8, <2>3, <2>6, <2>7, <2>8, <2>9 DEF StartMarks
<1>9. CASE tag = "li"
  <2>1. PICK items : items = Append(h.items, <<>>)
    OBVIOUS
  <2>2. outer = "list" /\ Len(h.lists) = Len(h.items) + 1 /\ h.lists # <<>>
    <3>1. outer = "list"
      BY <1>9, InsideFacts
    <3> QED
      BY <1>5, <1>6, <3>1
  <2>3. g = [h EXCEPT !.items = items, !.text = <<>>]
    BY <1>1, <1>2, <1>3, <1>9, <2>1, <2>2 DEF StartTag
  <2>4. /\ DOMAIN g = Registers /\ g.tree = h.tree /\ g.lists = h.lists /\ g.items = items
        /\ g.rows = h.rows /\ g.row = h.row
        /\ g.text = <<>> /\ g.capture = h.capture /\ g.inTitle = h.inTitle /\ g.cell = h.cell
        /\ g.skip = h.skip /\ g.level = h.level
    BY <1>4, <2>3, Zenon DEF Registers
  <2>5. /\ items \in OpenItems /\ Len(items) = Len(h.items) + 1
        /\ Contents(h.lists, items, Len(h.lists)) = Contents(h.lists, h.items, Len(h.lists))
    BY <1>5, <2>1, <2>2, ItemOpens
  <2>6. HtmlShape(g)
    <3>1. <<>> \in Seq(Nat)
      OBVIOUS
    <3> QED
      BY <2>4, <2>5, <3>1 DEF HtmlShape
  <2>7. Marks(g, tag)
    BY <1>2, <1>3, <1>5, <1>9, <2>2, <2>4, <2>5 DEF Marks
  <2>8. Held(g) = Holding(Written(h), RowsSay(h), RowSays(h), <<>>) /\ TextSays(h) = h.text
    <3>1. Contents(g.lists, g.items, Len(g.lists)) = Contents(h.lists, h.items, Len(h.lists))
      BY <2>4, <2>5
    <3>2. TextSays(g) = <<>> /\ TextSays(h) = h.text
      BY <1>2, <2>4 DEF TextSays
    <3> QED
      BY <2>4, <3>1, <3>2 DEF Held, Written, RowsSay, RowSays
  <2>9. Loses(Held(g), Held(h))
    BY <2>8, HeldFacts, HoldingLoses DEF Held
  <2>10. h.text = <<>> => Held(g) = Held(h)
    BY <2>8 DEF Held
  <2>11. Last(items) = <<>>
    BY <1>5, <2>1, <2>5 DEF Last, OpenItems
  <2> QED
    BY <1>1, <1>9, <2>4, <2>5, <2>6, <2>7, <2>9, <2>10, <2>11 DEF StartMarks
<1> QED
  BY <1>7, <1>8, <1>9

\* A tag without an element: only an image says something, which is nothing.
LEMMA StartOfVoid ==
  ASSUME NEW h, HtmlShape(h), NEW outer \in Holders, Marks(h, outer),
         NEW tag \in Inside(outer), tag \in Void, outer = "li" => h.items # <<>>,
         NEW g, g = StartTag(h, tag)
  PROVE  /\ HtmlShape(g) /\ Marks(g, outer) /\ Held(g) = Held(h)
         /\ Len(g.items) = Len(h.items) /\ g.cell = h.cell /\ g.capture = h.capture
         /\ g.rows = h.rows /\ g.row = h.row /\ g.text = h.text
         /\ outer = "li" => SaidBy(Last(g.items)) = SaidBy(Last(h.items))
<1>1. h.skip = 0 /\ DOMAIN h = Registers
  BY DEF Marks, Holders, HtmlShape
<1>2. CASE tag = "meta"
  <2>1. tag \notin {"ignored", "title", "img", "list", "li", "table", "tr", "cell"}
                     \cup Heading \cup {"pre", "block", "quote", "figcaption"}
    BY <1>2 DEF Heading
  <2>2. g = [h EXCEPT !.titled = TRUE]
    BY <1>1, <1>2, <2>1 DEF StartTag
  <2>3. /\ DOMAIN g = Registers /\ g.tree = h.tree /\ g.lists = h.lists /\ g.items = h.items
        /\ g.rows = h.rows /\ g.row = h.row
        /\ g.text = h.text /\ g.capture = h.capture /\ g.inTitle = h.inTitle /\ g.cell = h.cell
        /\ g.skip = h.skip /\ g.level = h.level
    BY <1>1, <2>2, Zenon DEF Registers
  <2>4. HtmlShape(g) /\ Marks(g, outer)
    BY <2>3 DEF HtmlShape, Marks
  <2>5. Held(g) = Held(h)
    BY <2>3 DEF Held, Written, RowsSay, RowSays, TextSays
  <2> QED
    BY <2>3, <2>4, <2>5
<1>3. CASE tag = "img"
  <2>1. tag \notin {"ignored", "title", "meta", "list", "li", "table", "tr", "cell"}
                     \cup Heading \cup {"pre", "block", "quote", "figcaption"}
    BY <1>3 DEF Heading
  <2>2. PICK b : b = Block("figure", <<>>)
    OBVIOUS
  <2>3. g = Emit(h, b)
    BY <1>1, <1>3, <2>1, <2>2 DEF StartTag
  <2>4. b \in Blocks /\ b.says = <<>>
    <3>1. <<>> \in Seq(Nat)
      OBVIOUS
    <3> QED
      BY <2>2, <3>1 DEF Block, Blocks
  <2>5. outer = "li" /\ h.items # <<>>
    BY <1>3, InsideFacts
  <2>6. Len(h.lists) = Len(h.items)
    <3>1. Len(h.items) \in Nat
      BY DEF HtmlShape, OpenItems
    <3> QED
      BY <2>5, <3>1 DEF Marks
  <2>7. /\ HtmlShape(g) /\ SameRest(g, h) /\ Written(g) = Written(h) ++ <<>>
        /\ Last(g.items) = Append(Last(h.items), b)
    BY <2>3, <2>4, <2>5, <2>6, EmitFacts
  <2>8. Written(g) = Written(h)
    BY <2>7, HeldFacts, Joins
  <2>9. Held(g) = Held(h)
    BY <2>7, <2>8 DEF Held, SameRest, RowsSay, RowSays, TextSays
  <2>10. Marks(g, outer)
    BY <2>7 DEF Marks, SameRest
  <2>11. SaidBy(Last(g.items)) = SaidBy(Last(h.items))
    <3>1. Last(h.items) \in Seq(Blocks)
      BY <2>5 DEF HtmlShape, OpenItems, Last
    <3>2. PICK s : s = Last(h.items)
      OBVIOUS
    <3>3. SaidBy(Append(s, b)) = SaidBy(s) ++ <<>> /\ SaidBy(s) \in Seq(Nat)
      BY <2>4, <3>1, <3>2, SaidByJoins
    <3>4. SaidBy(Append(s, b)) = SaidBy(s)
      BY <3>3, Joins
    <3> QED
      BY <2>7, <3>2, <3>4
  <2> QED
    BY <2>7, <2>9, <2>10, <2>11 DEF SameRest
<1> QED
  BY <1>2, <1>3 DEF Void

-----------------------------------------------------------------------------
(* End tags *)

\* What the parser remembers of an element that others stand in.
LEMMA HolderMarks ==
  ASSUME NEW g, NEW outer \in Holders, ~g.inTitle, g.skip = 0, g.level = 0,
         Len(g.lists) = Len(g.items) + (IF outer = "list" THEN 1 ELSE 0)
  PROVE  Marks(g, outer)
<1>1. outer \notin {"pre", "block", "title", "ignored"} \cup Heading
  BY DEF Holders, Heading
<1> QED
  BY <1>1 DEF Marks

\* An end tag: what the parser remembers of the element around it, which words it may
\* have lost, and when it has not.
EndMarks(g, h, tag, outer) ==
  /\ HtmlShape(g) /\ Marks(g, outer) /\ Loses(Held(g), Held(h))
  /\ Len(h.items) = Len(g.items) + (IF tag = "li" THEN 1 ELSE 0)
  /\ g.cell <=> h.cell /\ tag # "cell"
  /\ g.capture <=> h.capture /\ tag \notin {"pre", "block", "quote", "figcaption"}
  /\ tag \notin {"tr", "table"} => g.rows = h.rows
  /\ tag = "table" => g.rows = <<>>
  /\ tag \notin {"cell", "tr"} => g.row = h.row
  /\ tag = "tr" => g.row = <<>>
  /\ g.text = IF tag \in {"ignored", "list", "tr", "table"} THEN h.text ELSE <<>>
  /\ \/ tag \in {"ignored", "title", "list", "cell", "tr", "table"}
     \/ /\ h.rows = <<>> /\ h.row = <<>>
        /\ tag \in Heading => h.items = <<>>
        /\ tag = "li" => h.text = <<>> \/ SaidBy(Last(h.items)) = <<>>
     => Held(g) = Held(h)

\* The title, which is no part of the text, and an element that is ignored.
LEMMA EndOfTitle ==
  ASSUME NEW h, HtmlShape(h), NEW outer \in Holders, NEW tag \in Inside(outer), Marks(h, tag),
         tag \in {"title", "ignored"}
  PROVE  EndMarks(EndTag(h, tag), h, tag, outer)
<1>1. PICK g : g = EndTag(h, tag)
  OBVIOUS
<1>2. tag \notin {"li", "list", "cell", "tr", "table"} \cup Heading \cup {"pre", "block", "quote", "figcaption"}
  BY DEF Heading
<1>3. h.level = 0 /\ (h.inTitle <=> tag = "title")
      /\ h.skip = (IF tag = "ignored" THEN 1 ELSE 0)
  <2>1. h.level \in Nat
    BY DEF HtmlShape
  <2> QED
    BY <1>2, <2>1 DEF Marks
<1>4. DOMAIN h = Registers
  BY DEF HtmlShape
<1>5. /\ DOMAIN g = Registers /\ Alike(g, h)
      /\ g.capture = h.capture /\ g.inTitle = FALSE /\ g.cell = h.cell /\ g.skip = 0 /\ g.level = 0
      /\ g.text = IF tag = "ignored" THEN h.text ELSE <<>>
  <2>1. CASE tag = "ignored"
    <3>1. g = [h EXCEPT !.skip = IF h.skip = 0 THEN 0 ELSE h.skip - 1]
      BY <1>1, <1>2, <2>1 DEF EndTag
    <3>2. (IF h.skip = 0 THEN 0 ELSE h.skip - 1) = 0
      BY <1>3, <2>1
    <3>3. g = [h EXCEPT !.skip = 0]
      BY <3>1, <3>2, Zenon
    <3> QED
      BY <1>3, <1>4, <2>1, <3>3 DEF Alike, Registers, HtmlShape
  <2>2. CASE tag = "title"
    <3>1. g = EndTitle(h)
      BY <1>1, <1>2, <1>3, <2>2 DEF EndTag
    <3>2. PICK named : named = (h.text # <<>> /\ ~h.titled)
      OBVIOUS
    <3>3. PICK title : title = IF named THEN h.text[1] ELSE h.title
      OBVIOUS
    <3>4. PICK titled : titled = (h.titled \/ named)
      OBVIOUS
    <3>5. g = [h EXCEPT !.text = <<>>, !.inTitle = FALSE, !.titled = titled, !.title = title]
      BY <3>1, <3>2, <3>3, <3>4, Zenon DEF EndTitle
    <3> QED
      BY <1>3, <1>4, <2>2, <3>5 DEF Alike, Registers
  <2> QED
    BY <2>1, <2>2
<1>6. HtmlShape(g)
  <2>1. g.text \in Seq(Nat) /\ g.skip \in Nat /\ g.level \in Nat
    BY <1>5 DEF HtmlShape
  <2> QED
    BY <1>5, <2>1 DEF HtmlShape, Alike
<1>7. Marks(g, outer)
  <2>1. outer # "list" /\ tag # "list"
    BY <1>2, InsideFacts
  <2>2. Len(g.lists) = Len(g.items) + 0
    BY <1>5, <2>1 DEF Marks, Alike
  <2> QED
    BY <1>3, <1>5, <2>1, <2>2, HolderMarks
<1>8. Held(g) = Held(h) /\ Loses(Held(g), Held(h))
  <2>1. TextSays(g) = TextSays(h)
    BY <1>3, <1>5 DEF TextSays
  <2> QED
    BY <1>5, <1>6, <2>1, AlikeHolds
<1>9. Len(h.items) = Len(g.items) + 0
  <2>1. Len(h.items) \in Nat /\ g.items = h.items
    BY <1>5 DEF HtmlShape, OpenItems, Alike
  <2> QED
    BY <2>1
<1>10. EndMarks(g, h, tag, outer)
  BY <1>2, <1>5, <1>6, <1>7, <1>8, <1>9 DEF EndMarks, Alike
<1> QED
  BY <1>1, <1>10

\* A cell and a row join the row and the table they are in.
LEMMA EndOfCell ==
  ASSUME NEW h, HtmlShape(h), NEW outer \in Holders, NEW tag \in Inside(outer), Marks(h, tag),
         tag \in {"cell", "tr"}
  PROVE  EndMarks(EndTag(h, tag), h, tag, outer)
<1>1. PICK g : g = EndTag(h, tag)
  OBVIOUS
<1>2. tag \notin {"ignored", "title", "li", "list", "table"} \cup Heading \cup {"pre", "block", "quote", "figcaption"}
  BY DEF Heading
<1>3. h.level = 0 /\ ~h.inTitle /\ h.skip = 0 /\ TextSays(h) = h.text
  <2>1. h.level \in Nat
    BY DEF HtmlShape
  <2> QED
    BY <1>2, <2>1 DEF Marks, TextSays
<1>4. DOMAIN h = Registers /\ h.rows \in Seq(Seq(Seq(Nat))) /\ h.row \in Seq(Seq(Nat))
      /\ h.text \in Seq(Nat) /\ Len(h.items) \in Nat /\ h.items \in OpenItems
  BY DEF HtmlShape, OpenItems
<1>5. outer # "list" /\ tag # "list" /\ Len(h.lists) = Len(h.items) + 0
  <2>1. outer # "list" /\ tag # "list"
    BY <1>2, InsideFacts
  <2> QED
    BY <2>1 DEF Marks
<1>6. CASE tag = "cell"
  <2>1. PICK row : row = Append(h.row, h.text)
    OBVIOUS
  <2>2. g = [h EXCEPT !.row = row, !.text = <<>>, !.cell = FALSE]
    <3>1. g = EndCell(h)
      BY <1>1, <1>2, <1>3, <1>6 DEF EndTag
    <3> QED
      BY <2>1, <3>1, Zenon DEF EndCell
  <2>3. /\ DOMAIN g = Registers /\ g.tree = h.tree /\ g.lists = h.lists /\ g.items = h.items
        /\ g.rows = h.rows /\ g.row = row /\ g.text = <<>>
        /\ g.capture = h.capture /\ g.inTitle = h.inTitle /\ g.cell = FALSE
        /\ g.skip = h.skip /\ g.level = h.level
    BY <1>4, <2>2, Zenon DEF Registers
  <2>4. row \in Seq(Seq(Nat)) /\ FlattenSeq(row) = RowSays(h) ++ TextSays(h)
    BY <1>3, <1>4, <2>1, FlattenJoin DEF RowSays
  <2>5. HtmlShape(g)
    <3>1. <<>> \in Seq(Nat)
      OBVIOUS
    <3> QED
      BY <2>3, <2>4, <3>1 DEF HtmlShape
  <2>6. Marks(g, outer)
    BY <1>3, <1>5, <2>3, HolderMarks
  <2>7. Held(g) = Held(h)
    <3>1. Written(g) = Written(h) /\ RowsSay(g) = RowsSay(h) /\ TextSays(g) = <<>>
      BY <2>3 DEF Written, RowsSay, TextSays
    <3>2. RowSays(g) = RowSays(h) ++ TextSays(h)
      BY <2>3, <2>4 DEF RowSays
    <3> QED
      BY <3>1, <3>2, HeldFacts, HoldingFacts DEF Held
  <2>8. Loses(Held(g), Held(h))
    BY <2>7, HeldFacts, LosesOrder
  <2> QED
    BY <1>1, <1>4, <1>6, <2>3, <2>5, <2>6, <2>7, <2>8 DEF EndMarks
<1>7. CASE tag = "tr"
  <2>1. PICK rows : rows = IF h.row = <<>> THEN h.rows ELSE Append(h.rows, h.row)
    OBVIOUS
  <2>2. g = [h EXCEPT !.rows = rows, !.row = <<>>]
    <3>1. g = EndRow(h)
      BY <1>1, <1>2, <1>3, <1>7 DEF EndTag
    <3> QED
      BY <2>1, <3>1, Zenon DEF EndRow
  <2>3. /\ DOMAIN g = Registers /\ g.tree = h.tree /\ g.lists = h.lists /\ g.items = h.items
        /\ g.rows = rows /\ g.row = <<>> /\ g.text = h.text
        /\ g.capture = h.capture /\ g.inTitle = h.inTitle /\ g.cell = h.cell
        /\ g.skip = h.skip /\ g.level = h.level
    BY <1>4, <2>2, Zenon DEF Registers
  <2>4. rows \in Seq(Seq(Seq(Nat))) /\ FlattenSeq(FlattenSeq(rows)) = RowsSay(h) ++ RowSays(h)
    <3>1. CASE h.row = <<>>
      <4>1. RowSays(h) = <<>>
        BY <3>1, FlattenEmpty DEF RowSays
      <4> QED
        BY <1>4, <2>1, <3>1, <4>1, HeldFacts, Joins DEF RowsSay
    <3>2. CASE h.row # <<>>
      <4>1. PICK closed : closed = FlattenSeq(h.rows)
        OBVIOUS
      <4>2. FlattenSeq(rows) = closed \o h.row /\ rows \in Seq(Seq(Seq(Nat)))
        <5>1. PICK X : X = Seq(Nat)
          OBVIOUS
        <5>2. PICK c : c = h.rows
          OBVIOUS
        <5>3. PICK x : x = h.row
          OBVIOUS
        <5>4. c \in Seq(Seq(X)) /\ x \in Seq(X) /\ rows = Append(c, x)
          BY <1>4, <2>1, <3>2, <5>1, <5>2, <5>3
        <5>5. rows \in Seq(Seq(X)) /\ FlattenSeq(rows) = FlattenSeq(c) \o x
          BY <5>4, FlattenAppend
        <5> QED
          BY <4>1, <5>1, <5>2, <5>3, <5>5, Zenon
      <4>3. closed \in Seq(Seq(Nat))
        BY <1>4, <4>1, FlattenType
      <4>4. FlattenSeq(closed \o h.row) = FlattenSeq(closed) \o FlattenSeq(h.row)
        BY <1>4, <4>3, FlattenConcat
      <4> QED
        BY <4>1, <4>2, <4>4, Zenon DEF RowsSay, RowSays, ++
    <3> QED
      BY <3>1, <3>2
  <2>5. HtmlShape(g)
    <3>1. <<>> \in Seq(Seq(Nat))
      OBVIOUS
    <3> QED
      BY <2>3, <2>4, <3>1 DEF HtmlShape
  <2>6. Marks(g, outer)
    BY <1>3, <1>5, <2>3, HolderMarks
  <2>7. Held(g) = Held(h)
    <3>1. Written(g) = Written(h) /\ RowSays(g) = <<>> /\ TextSays(g) = TextSays(h)
      BY <2>3, FlattenEmpty DEF Written, RowSays, TextSays
    <3>2. RowsSay(g) = RowsSay(h) ++ RowSays(h)
      BY <2>3, <2>4 DEF RowsSay
    <3> QED
      BY <3>1, <3>2, HeldFacts, HoldingFacts DEF Held
  <2>8. Loses(Held(g), Held(h))
    BY <2>7, HeldFacts, LosesOrder
  <2> QED
    BY <1>1, <1>4, <1>7, <2>3, <2>5, <2>6, <2>7, <2>8 DEF EndMarks
<1> QED
  BY <1>6, <1>7

\* The text of an element is emitted.
LEMMA EndOfText ==
  ASSUME NEW h, HtmlShape(h), NEW outer \in Holders, NEW tag \in Inside(outer), Marks(h, tag),
         tag \in {"pre", "block", "quote", "figcaption"}
  PROVE  EndMarks(EndTag(h, tag), h, tag, outer)
<1>1. PICK g : g = EndTag(h, tag)
  OBVIOUS
<1>2. tag \notin {"ignored", "title", "li", "list", "cell", "tr", "table"} \cup Heading
  BY DEF Heading
<1>3. h.level = 0 /\ ~h.inTitle /\ h.skip = 0 /\ TextSays(h) = h.text
  <2>1. h.level \in Nat
    BY DEF HtmlShape
  <2> QED
    BY <1>2, <2>1 DEF Marks, TextSays
<1>4. DOMAIN h = Registers /\ h.text \in Seq(Nat) /\ Len(h.items) \in Nat
  BY DEF HtmlShape, OpenItems
<1>5. outer # "list" /\ tag # "list" /\ Len(h.lists) = Len(h.items)
  <2>1. outer # "list" /\ tag # "list"
    BY <1>2, InsideFacts
  <2>2. Len(h.lists) = Len(h.items) + 0
    BY <2>1 DEF Marks
  <2> QED
    BY <1>4, <2>1, <2>2
<1>6. PICK kind \in {"code", "caption", "paragraph"} : g = EmitText([h EXCEPT !.capture = FALSE], kind)
  <2>1. CASE tag = "pre"
    BY <1>1, <1>2, <1>3, <2>1 DEF EndTag
  <2>2. CASE tag \in {"block", "quote"}
    BY <1>1, <1>2, <1>3, <2>2 DEF EndTag
  <2>3. CASE tag = "figcaption"
    BY <1>1, <1>2, <1>3, <2>3 DEF EndTag
  <2> QED
    BY <2>1, <2>2, <2>3
<1>7. PICK d : d = [h EXCEPT !.capture = FALSE]
  OBVIOUS
<1>8. /\ DOMAIN d = Registers /\ Alike(d, h)
      /\ d.text = h.text /\ d.capture = FALSE /\ d.inTitle = h.inTitle /\ d.cell = h.cell
      /\ d.skip = h.skip /\ d.level = h.level
  BY <1>4, <1>7, Zenon DEF Registers, Alike
<1>9. PICK e : e = [d EXCEPT !.text = <<>>]
  OBVIOUS
<1>10. /\ DOMAIN e = Registers /\ Alike(e, h)
       /\ e.text = <<>> /\ e.capture = FALSE /\ e.inTitle = h.inTitle /\ e.cell = h.cell
       /\ e.skip = h.skip /\ e.level = h.level
  BY <1>8, <1>9, Zenon DEF Registers, Alike
<1>11. HtmlShape(e) /\ HtmlShape(d)
  <2>1. <<>> \in Seq(Nat)
    OBVIOUS
  <2> QED
    BY <1>8, <1>10, <2>1 DEF HtmlShape, Alike
<1>12. Written(e) = Written(h) /\ RowsSay(e) = RowsSay(h) /\ RowSays(e) = RowSays(h)
  BY <1>10 DEF Alike, Written, RowsSay, RowSays
<1>13. CASE h.text = <<>>
  <2>1. g = d /\ d.text = <<>>
    BY <1>6, <1>7, <1>8, <1>13 DEF EmitText
  <2>2. TextSays(d) = TextSays(h)
    BY <1>8 DEF TextSays
  <2>3. Held(d) = Held(h) /\ Loses(Held(d), Held(h))
    BY <1>8, <1>11, <2>2, AlikeHolds
  <2>4. Marks(d, outer)
    <3>1. /\ ~d.inTitle /\ d.skip = 0 /\ d.level = 0
          /\ Len(d.lists) = Len(d.items) + 0
      BY <1>3, <1>4, <1>5, <1>8 DEF Alike
    <3> QED
      BY <1>5, <3>1, HolderMarks
  <2>5. EndMarks(d, h, tag, outer)
    <3>1. /\ Len(h.items) = Len(d.items) + 0 /\ d.cell = h.cell /\ ~d.capture
          /\ d.rows = h.rows /\ d.row = h.row
      BY <1>4, <1>8 DEF Alike
    <3> QED
      BY <1>2, <1>11, <2>1, <2>3, <2>4, <3>1 DEF EndMarks
  <2> QED
    BY <1>1, <2>1, <2>5
<1>14. CASE h.text # <<>>
  <2>1. PICK b : b = Block(kind, h.text)
    OBVIOUS
  <2>2. b \in Blocks /\ b.says = h.text
    BY <1>4, <2>1 DEF Block, Blocks
  <2>3. g = Emit(e, b)
    BY <1>6, <1>7, <1>8, <1>9, <1>14, <2>1 DEF EmitText
  <2>4. Len(e.lists) = Len(e.items)
    BY <1>5, <1>10 DEF Alike
  <2>5. HtmlShape(g) /\ SameRest(g, e) /\ Written(g) = Written(h) ++ h.text
    BY <1>11, <1>12, <2>2, <2>3, <2>4, EmitFacts
  <2>6. RowsSay(g) = RowsSay(h) /\ RowSays(g) = RowSays(h) /\ TextSays(g) = <<>>
    BY <1>10, <1>12, <2>5 DEF SameRest, RowsSay, RowSays, TextSays
  <2>7. Held(g) = Holding(Written(h) ++ h.text, RowsSay(h), RowSays(h), <<>>)
    BY <2>5, <2>6 DEF Held
  <2>8. Loses(Held(g), Held(h))
    <3>1. Loses(Written(h) ++ h.text, Written(h) ++ h.text)
      BY <1>4, HeldFacts, Joins, LosesOrder
    <3> QED
      BY <1>3, <1>4, <2>7, <3>1, HeldFacts, HoldingLoses DEF Held
  <2>9. h.rows = <<>> /\ h.row = <<>> => Held(g) = Held(h)
    <3>1. h.rows = <<>> /\ h.row = <<>> => RowsSay(h) = <<>> /\ RowSays(h) = <<>>
      BY FlattenEmpty DEF RowsSay, RowSays
    <3>2. Holding(Written(h), <<>>, <<>>, h.text) = Written(h) ++ h.text
      BY <1>4, HeldFacts, HoldingFacts
    <3>3. Holding(Written(h) ++ h.text, <<>>, <<>>, <<>>) = Written(h) ++ h.text
      BY <1>4, HeldFacts, Joins, HoldingAlone
    <3> QED
      BY <1>3, <2>7, <3>1, <3>2, <3>3 DEF Held
  <2>10. Marks(g, outer)
    <3>1. /\ ~g.inTitle /\ g.skip = 0 /\ g.level = 0
          /\ Len(g.lists) = Len(g.items) + 0
      BY <1>3, <1>4, <1>10, <2>4, <2>5 DEF SameRest, Alike
    <3> QED
      BY <1>5, <3>1, HolderMarks
  <2>11. /\ Len(h.items) = Len(g.items) + 0 /\ g.cell = h.cell /\ ~g.capture
         /\ g.rows = h.rows /\ g.row = h.row /\ g.text = <<>>
    BY <1>4, <1>10, <2>5 DEF SameRest, Alike
  <2>12. EndMarks(g, h, tag, outer)
    BY <1>2, <2>5, <2>8, <2>9, <2>10, <2>11 DEF EndMarks
  <2> QED
    BY <1>1, <2>12
<1> QED
  BY <1>13, <1>14

\* A heading opens a container.
LEMMA EndOfHeading ==
  ASSUME NEW h, HtmlShape(h), NEW outer \in Holders, NEW tag \in Inside(outer), Marks(h, tag),
         tag \in Heading
  PROVE  EndMarks(EndTag(h, tag), h, tag, outer)
<1>1. PICK g : g = EndTag(h, tag)
  OBVIOUS
<1>2. tag \notin {"ignored", "title", "li", "list", "cell", "tr", "table", "pre", "block", "quote",
              "figcaption"}
  BY DEF Heading
<1>3. h.level # 0 /\ ~h.inTitle /\ h.skip = 0 /\ TextSays(h) = h.text
  BY <1>2 DEF Marks, TextSays
<1>4. DOMAIN h = Registers /\ h.text \in Seq(Nat) /\ Len(h.items) \in Nat
  BY DEF HtmlShape, OpenItems
<1>5. outer # "list" /\ tag # "list" /\ Len(h.lists) = Len(h.items) + 0
  <2>1. outer # "list" /\ tag # "list"
    BY <1>2, InsideFacts
  <2> QED
    BY <2>1 DEF Marks
<1>6. PICK tree : tree = IF h.text = <<>> THEN h.tree ELSE Opened(h.tree, h.text, h.level)
  OBVIOUS
<1>7. g = EndHeading(h)
  BY <1>1, <1>2, <1>3 DEF EndTag
<1>8. /\ DOMAIN g = Registers /\ g.tree = tree /\ g.lists = h.lists /\ g.items = h.items
      /\ g.rows = h.rows /\ g.row = h.row /\ g.text = <<>>
      /\ g.capture = h.capture /\ g.inTitle = h.inTitle /\ g.cell = h.cell
      /\ g.skip = h.skip /\ g.level = 0
  <2>1. PICK named : named = (h.text # <<>> /\ h.level = 1 /\ ~h.titled)
    OBVIOUS
  <2>2. PICK title : title = IF named THEN h.text[1] ELSE h.title
    OBVIOUS
  <2>3. PICK titled : titled = (h.titled \/ named)
    OBVIOUS
  <2>4. g = [h EXCEPT !.tree = tree, !.text = <<>>, !.level = 0, !.titled = titled, !.title = title]
    BY <1>6, <1>7, <2>1, <2>2, <2>3, Zenon DEF EndHeading
  <2> QED
    BY <1>4, <2>4, Zenon DEF Registers
<1>9. PICK s : s = Said(h.tree)
  OBVIOUS
<1>10. PICK c : c = Contents(h.lists, h.items, Len(h.lists))
  OBVIOUS
<1>11. s \in Seq(Nat) /\ c \in Seq(Nat) /\ Written(h) = s ++ c
  BY <1>9, <1>10, HeldFacts DEF Written
<1>12. Tells(tree, Said(tree)) /\ Said(tree) = s ++ h.text
  <2>1. Tells(h.tree, s)
    BY <1>9 DEF HtmlShape
  <2>2. CASE h.text = <<>>
    BY <1>6, <1>9, <1>11, <2>1, <2>2, Joins
  <2>3. CASE h.text # <<>>
    <3>1. Tells(tree, s \o h.text)
      BY <1>4, <1>6, <2>1, <2>3, OpenedTells
    <3> QED
      BY <3>1, Zenon DEF Tells, ++
  <2> QED
    BY <2>2, <2>3
<1>13. HtmlShape(g)
  <2>1. <<>> \in Seq(Nat)
    OBVIOUS
  <2> QED
    BY <1>8, <1>12, <2>1 DEF HtmlShape
<1>14. Marks(g, outer)
  BY <1>3, <1>5, <1>8, HolderMarks
<1>15. Written(g) = (s ++ h.text) ++ c
  BY <1>8, <1>10, <1>12 DEF Written
<1>16. Held(g) = Holding((s ++ h.text) ++ c, RowsSay(h), RowSays(h), <<>>)
  <2>1. RowsSay(g) = RowsSay(h) /\ RowSays(g) = RowSays(h) /\ TextSays(g) = <<>>
    BY <1>8 DEF RowsSay, RowSays, TextSays
  <2> QED
    BY <1>15, <2>1 DEF Held
<1>17. Loses(Held(g), Held(h))
  <2>1. PICK t : t = h.text
    OBVIOUS
  <2>2. (s ++ t) ++ c = s ++ (t ++ c) /\ (s ++ c) ++ t = s ++ (c ++ t)
    <3>1. t \in Seq(Nat)
      BY <1>4, <2>1
    <3>2. (s ++ t) ++ c = s ++ (t ++ c)
      BY <1>11, <3>1, Joins
    <3>3. (s ++ c) ++ t = s ++ (c ++ t)
      BY <1>11, <3>1, Joins
    <3> QED
      BY <3>2, <3>3
  <2>3. Loses(t ++ c, c ++ t)
    <3>1. Loses(c, c)
      BY <1>11, LosesOrder
    <3> QED
      BY <1>4, <2>1, <3>1, LosesPart
  <2>4. Loses(s ++ (t ++ c), s ++ (c ++ t))
    BY <1>11, <2>3, LosesPart
  <2>5. Loses((s ++ t) ++ c, Written(h) ++ t)
    BY <1>11, <2>2, <2>4
  <2> QED
    BY <1>3, <1>4, <1>16, <2>1, <2>5, HeldFacts, HoldingLoses DEF Held
<1>18. ASSUME h.rows = <<>>, h.row = <<>>, h.items = <<>> PROVE Held(g) = Held(h)
  <2>1. RowsSay(h) = <<>> /\ RowSays(h) = <<>>
    BY <1>18, FlattenEmpty DEF RowsSay, RowSays
  <2>2. c = <<>>
    <3>1. Len(h.lists) = 0
      BY <1>5, <1>18
    <3>2. h.lists \in Lists /\ h.items \in OpenItems
      BY DEF HtmlShape
    <3> QED
      BY <1>10, <3>1, <3>2, ContentsFacts
  <2>3. PICK t : t = h.text
    OBVIOUS
  <2>4. PICK v : v = s ++ t
    OBVIOUS
  <2>5. <<>> \in Seq(Nat) /\ v \in Seq(Nat) /\ t \in Seq(Nat)
    <3>1. <<>> \in Seq(Nat) /\ t \in Seq(Nat)
      BY <1>4, <2>3
    <3> QED
      BY <1>11, <2>4, <3>1, Joins
  <2>6. Held(g) = Holding(v ++ <<>>, <<>>, <<>>, <<>>) /\ v ++ <<>> = v
    BY <1>16, <2>1, <2>2, <2>3, <2>4, <2>5, Joins
  <2>7. Holding(v, <<>>, <<>>, <<>>) = v
    BY <2>5, HoldingAlone
  <2>8. Held(h) = Holding(s ++ <<>>, <<>>, <<>>, t) /\ s ++ <<>> = s
    BY <1>3, <1>11, <2>1, <2>2, <2>3, <2>5, Joins DEF Held
  <2>9. Holding(s, <<>>, <<>>, t) = v
    BY <1>11, <2>4, <2>5, HoldingFacts
  <2> QED
    BY <2>6, <2>7, <2>8, <2>9
<1>19. EndMarks(g, h, tag, outer)
  <2>1. Len(h.items) = Len(g.items) + 0
    BY <1>4, <1>8
  <2> QED
    BY <1>2, <1>8, <1>13, <1>14, <1>17, <1>18, <2>1 DEF EndMarks
<1> QED
  BY <1>1, <1>19

\* A table says its rows.
LEMMA EndOfTable ==
  ASSUME NEW h, HtmlShape(h), NEW outer \in Holders, "table" \in Inside(outer), Marks(h, "table")
  PROVE  EndMarks(EndTag(h, "table"), h, "table", outer)
<1>1. PICK g : g = EndTag(h, "table")
  OBVIOUS
<1>2. "table" \notin Heading
  BY DEF Heading
<1>3. h.level = 0 /\ ~h.inTitle /\ h.skip = 0
  <2>1. h.level \in Nat
    BY DEF HtmlShape
  <2> QED
    BY <1>2, <2>1 DEF Marks
<1>4. outer # "list" /\ Len(h.lists) = Len(h.items) /\ Len(h.items) \in Nat
  <2>1. Len(h.lists) = Len(h.items) + 0
    BY DEF Marks
  <2>2. Len(h.items) \in Nat
    BY DEF HtmlShape, OpenItems
  <2> QED
    BY <2>1, <2>2, InsideFacts
<1>5. g = EndTable(h)
  BY <1>1, <1>2, <1>3 DEF EndTag
<1>6. PICK e : e = IF h.rows = <<>> THEN h ELSE Emit(h, Block("table", RowsSay(h)))
  OBVIOUS
<1>7. g = [e EXCEPT !.rows = <<>>]
  BY <1>5, <1>6, Zenon DEF EndTable, RowsSay
<1>8. HtmlShape(e) /\ SameRest(e, h) /\ Written(e) = Written(h) ++ RowsSay(h)
  <2>1. CASE h.rows = <<>>
    <3>1. RowsSay(h) = <<>>
      BY <2>1, FlattenEmpty DEF RowsSay
    <3>2. e = h
      BY <1>6, <2>1
    <3>3. Written(h) ++ <<>> = Written(h)
      BY HeldFacts, Joins
    <3> QED
      BY <3>1, <3>2, <3>3 DEF SameRest
  <2>2. CASE h.rows # <<>>
    <3>1. PICK b : b = Block("table", RowsSay(h))
      OBVIOUS
    <3>2. b \in Blocks /\ b.says = RowsSay(h)
      BY <3>1, HeldFacts DEF Block, Blocks
    <3>3. e = Emit(h, b)
      BY <1>6, <2>2, <3>1
    <3> QED
      BY <1>4, <3>2, <3>3, EmitFacts
  <2> QED
    BY <2>1, <2>2
<1>9. DOMAIN e = Registers
  BY <1>8 DEF HtmlShape
<1>10. /\ DOMAIN g = Registers /\ g.tree = e.tree /\ g.lists = e.lists /\ g.items = e.items
       /\ g.rows = <<>> /\ g.row = e.row /\ g.text = e.text
       /\ g.capture = e.capture /\ g.inTitle = e.inTitle /\ g.cell = e.cell
       /\ g.skip = e.skip /\ g.level = e.level
  BY <1>7, <1>9, Zenon DEF Registers
<1>11. /\ g.lists = h.lists /\ Len(g.items) = Len(h.items) /\ g.rows = <<>> /\ g.row = h.row
       /\ g.text = h.text /\ g.capture = h.capture /\ g.inTitle = h.inTitle /\ g.cell = h.cell
       /\ g.skip = h.skip /\ g.level = h.level
  BY <1>8, <1>10 DEF SameRest
<1>12. HtmlShape(g)
  <2>1. <<>> \in Seq(Seq(Seq(Nat)))
    OBVIOUS
  <2> QED
    BY <1>8, <1>10, <2>1 DEF HtmlShape
<1>13. Marks(g, outer)
  <2>1. Len(g.lists) = Len(g.items) + 0
    BY <1>4, <1>11
  <2> QED
    BY <1>3, <1>4, <1>11, <2>1, HolderMarks
<1>14. Held(g) = Held(h)
  <2>1. Written(g) = Written(h) ++ RowsSay(h)
    BY <1>8, <1>10 DEF Written
  <2>2. RowsSay(g) = <<>> /\ RowSays(g) = RowSays(h) /\ TextSays(g) = TextSays(h)
    BY <1>11, FlattenEmpty DEF RowsSay, RowSays, TextSays
  <2> QED
    BY <2>1, <2>2, HeldFacts, HoldingFacts DEF Held
<1>15. Loses(Held(g), Held(h))
  BY <1>14, HeldFacts, LosesOrder
<1>16. Len(h.items) = Len(g.items) + 0
  BY <1>4, <1>11
<1> QED
  BY <1>1, <1>11, <1>12, <1>13, <1>14, <1>15, <1>16 DEF EndMarks

\* A list says its items.
LEMMA EndOfList ==
  ASSUME NEW h, HtmlShape(h), NEW outer \in Holders, "list" \in Inside(outer), Marks(h, "list")
  PROVE  EndMarks(EndTag(h, "list"), h, "list", outer)
<1>1. PICK g : g = EndTag(h, "list")
  OBVIOUS
<1>2. "list" \notin Heading
  BY DEF Heading
<1>3. h.level = 0 /\ ~h.inTitle /\ h.skip = 0
  <2>1. h.level \in Nat
    BY DEF HtmlShape
  <2> QED
    BY <1>2, <2>1 DEF Marks
<1>4. outer # "list" /\ Len(h.lists) = Len(h.items) + 1 /\ Len(h.items) \in Nat /\ h.lists # <<>>
  <2>1. Len(h.lists) = Len(h.items) + 1
    BY DEF Marks
  <2>2. Len(h.items) \in Nat /\ h.lists \in Lists
    BY DEF HtmlShape, OpenItems
  <2>3. h.lists # <<>>
    BY <2>1, <2>2
  <2> QED
    BY <2>1, <2>2, <2>3, InsideFacts
<1>5. g = EndList(h)
  BY <1>1, <1>2, <1>3, <1>4 DEF EndTag
<1>6. PICK lists : lists = Front(h.lists)
  OBVIOUS
<1>7. PICK l : l = SaidBy(FlattenSeq(Last(h.lists)))
  OBVIOUS
<1>8. PICK c : c = Contents(lists, h.items, Len(h.items))
  OBVIOUS
<1>9. /\ lists \in Lists /\ Len(lists) = Len(h.items) /\ l \in Seq(Nat) /\ c \in Seq(Nat)
      /\ Contents(h.lists, h.items, Len(h.lists)) = c ++ l
  <2>1. h.lists \in Lists /\ h.items \in OpenItems
    BY DEF HtmlShape
  <2>2. FlattenSeq(Last(h.lists)) \in Seq(Blocks)
    BY <1>4, <2>1, ListCloses
  <2>3. l \in Seq(Nat)
    BY <1>7, <2>2, SaidByJoins
  <2> QED
    BY <1>4, <1>6, <1>7, <1>8, <2>1, <2>3, ListCloses
<1>10. PICK shut : shut = [h EXCEPT !.lists = lists]
  OBVIOUS
<1>11. DOMAIN h = Registers
  BY DEF HtmlShape
<1>12. /\ DOMAIN shut = Registers /\ shut.tree = h.tree /\ shut.lists = lists /\ shut.items = h.items
       /\ shut.rows = h.rows /\ shut.row = h.row /\ shut.text = h.text
       /\ shut.capture = h.capture /\ shut.inTitle = h.inTitle /\ shut.cell = h.cell
       /\ shut.skip = h.skip /\ shut.level = h.level
  BY <1>10, <1>11, Zenon DEF Registers
<1>13. HtmlShape(shut)
  BY <1>9, <1>12 DEF HtmlShape
<1>14. Written(h) = Written(shut) ++ l
  <2>1. PICK s : s = Said(h.tree)
    OBVIOUS
  <2>2. s \in Seq(Nat) /\ Written(h) = s ++ (c ++ l)
    BY <1>9, <2>1, HeldFacts DEF Written
  <2>3. Written(shut) = s ++ c
    BY <1>8, <1>9, <1>12, <2>1 DEF Written
  <2> QED
    BY <1>9, <2>2, <2>3, Joins
<1>15. HtmlShape(g) /\ SameRest(g, shut) /\ Written(g) = Written(h)
  <2>1. CASE Last(h.lists) = <<>>
    <3>1. g = shut
      BY <1>5, <1>6, <1>10, <2>1, Zenon DEF EndList
    <3>2. l = <<>>
      BY <1>7, <2>1, FlattenEmpty, SaidByNone
    <3>3. Written(shut) ++ <<>> = Written(shut)
      BY <1>13, HeldFacts, Joins
    <3> QED
      BY <1>13, <1>14, <3>1, <3>2, <3>3 DEF SameRest
  <2>2. CASE Last(h.lists) # <<>>
    <3>1. PICK b : b = Block("list", l)
      OBVIOUS
    <3>2. b \in Blocks /\ b.says = l
      BY <1>9, <3>1 DEF Block, Blocks
    <3>3. g = Emit(shut, b)
      BY <1>5, <1>6, <1>7, <1>10, <2>2, <3>1, Zenon DEF EndList
    <3>4. Len(shut.lists) = Len(shut.items)
      BY <1>9, <1>12
    <3> QED
      BY <1>13, <1>14, <3>2, <3>3, <3>4, EmitFacts
  <2> QED
    BY <2>1, <2>2
<1>16. /\ g.lists = lists /\ Len(g.items) = Len(h.items) /\ g.rows = h.rows /\ g.row = h.row
       /\ g.text = h.text /\ g.capture = h.capture /\ g.inTitle = h.inTitle /\ g.cell = h.cell
       /\ g.skip = h.skip /\ g.level = h.level
  BY <1>12, <1>15 DEF SameRest
<1>17. Marks(g, outer)
  <2>1. Len(g.lists) = Len(g.items) + 0
    BY <1>4, <1>9, <1>16
  <2> QED
    BY <1>3, <1>4, <1>16, <2>1, HolderMarks
<1>18. Held(g) = Held(h)
  BY <1>15, <1>16 DEF Held, RowsSay, RowSays, TextSays
<1>19. Loses(Held(g), Held(h))
  BY <1>18, HeldFacts, LosesOrder
<1>20. Len(h.items) = Len(g.items) + 0
  BY <1>4, <1>16
<1> QED
  BY <1>1, <1>15, <1>16, <1>17, <1>18, <1>19, <1>20 DEF EndMarks

\* An item joins its list, the text that is left of it before its blocks.
LEMMA EndOfItem ==
  ASSUME NEW h, HtmlShape(h), NEW outer \in Holders, "li" \in Inside(outer), Marks(h, "li"),
         h.items # <<>>
  PROVE  EndMarks(EndTag(h, "li"), h, "li", outer)
<1>1. PICK g : g = EndTag(h, "li")
  OBVIOUS
<1>2. "li" \notin Heading
  BY DEF Heading
<1>3. h.level = 0 /\ ~h.inTitle /\ h.skip = 0 /\ TextSays(h) = h.text
  <2>1. h.level \in Nat
    BY DEF HtmlShape
  <2> QED
    BY <1>2, <2>1 DEF Marks, TextSays
<1>4. h.lists \in Lists /\ h.items \in OpenItems /\ h.text \in Seq(Nat) /\ DOMAIN h = Registers
  BY DEF HtmlShape
<1>5. outer = "list" /\ Len(h.lists) = Len(h.items) /\ Len(h.items) \in Nat /\ h.lists # <<>>
  <2>1. Len(h.lists) = Len(h.items) + 0
    BY DEF Marks
  <2>2. Len(h.items) \in Nat /\ Len(h.items) # 0
    BY <1>4 DEF OpenItems
  <2>3. h.lists # <<>>
    BY <2>1, <2>2
  <2> QED
    BY <2>1, <2>2, <2>3, InsideFacts
<1>6. g = EndItem(h)
  BY <1>1, <1>2, <1>3, <1>5 DEF EndTag
<1>7. PICK before : before = IF h.text = <<>> THEN <<>> ELSE <<Block("paragraph", h.text)>>
  OBVIOUS
<1>8. PICK t : t = h.text
  OBVIOUS
<1>9. before \in Seq(Blocks) /\ SaidBy(before) = t /\ t \in Seq(Nat) /\ (before = <<>> <=> t = <<>>)
  <2>1. CASE t = <<>>
    BY <1>4, <1>7, <1>8, <2>1, SaidByNone
  <2>2. CASE t # <<>>
    <3>1. PICK b : b = Block("paragraph", t)
      OBVIOUS
    <3>2. b \in Blocks /\ b.says = t
      BY <1>4, <1>8, <3>1 DEF Block, Blocks
    <3>3. before = Append(<<>>, b) /\ <<>> \in Seq(Blocks) /\ before \in Seq(Blocks) /\ before # <<>>
      BY <1>7, <1>8, <2>2, <3>1, <3>2
    <3>4. SaidBy(before) = SaidBy(<<>>) ++ t
      BY <3>2, <3>3, SaidByJoins
    <3>5. SaidBy(before) = t
      BY <1>4, <1>8, <3>4, SaidByNone, Joins
    <3> QED
      BY <1>4, <1>8, <2>2, <3>3, <3>5
  <2> QED
    BY <2>1, <2>2
<1>10. PICK item : item = before \o Last(h.items)
  OBVIOUS
<1>11. PICK lists : lists = IF item = <<>> THEN h.lists ELSE Grown(h.lists, item)
  OBVIOUS
<1>12. PICK items : items = Front(h.items)
  OBVIOUS
<1>13. /\ DOMAIN g = Registers /\ g.tree = h.tree /\ g.lists = lists /\ g.items = items
       /\ g.rows = h.rows /\ g.row = h.row /\ g.text = <<>>
       /\ g.capture = h.capture /\ g.inTitle = h.inTitle /\ g.cell = h.cell
       /\ g.skip = h.skip /\ g.level = h.level
  <2>1. PICK shut : shut = [h EXCEPT !.text = <<>>, !.items = items]
    OBVIOUS
  <2>2. /\ DOMAIN shut = Registers /\ shut.tree = h.tree /\ shut.lists = h.lists /\ shut.items = items
        /\ shut.rows = h.rows /\ shut.row = h.row /\ shut.text = <<>>
        /\ shut.capture = h.capture /\ shut.inTitle = h.inTitle /\ shut.cell = h.cell
        /\ shut.skip = h.skip /\ shut.level = h.level
    BY <1>4, <2>1, Zenon DEF Registers
  <2>3. CASE item = <<>>
    <3>1. g = shut
      BY <1>6, <1>7, <1>10, <1>12, <2>1, <2>3, Zenon DEF EndItem
    <3> QED
      BY <1>11, <2>2, <2>3, <3>1
  <2>4. CASE item # <<>>
    <3>1. g = [shut EXCEPT !.lists = Grown(shut.lists, item)]
      <4>1. g = [shut EXCEPT !.lists[Len(h.lists)] = Append(@, item)]
        BY <1>5, <1>6, <1>7, <1>10, <1>12, <2>1, <2>4, Zenon DEF EndItem
      <4> QED
        BY <2>2, <4>1 DEF Grown
    <3> QED
      BY <1>11, <2>2, <2>4, <3>1, Zenon DEF Registers
  <2> QED
    BY <2>3, <2>4
<1>14. Last(h.items) \in Seq(Blocks) /\ items \in OpenItems /\ Len(items) = Len(h.items) - 1
  BY <1>4, <1>5, <1>9, <1>12, ItemCloses
<1>15. PICK b : b = SaidBy(Last(h.items))
  OBVIOUS
<1>16. PICK a \in Seq(Nat) :
         /\ Contents(h.lists, h.items, Len(h.lists)) = a ++ b
         /\ Contents(Grown(h.lists, item), items, Len(h.lists)) = a ++ (t ++ b)
         /\ Contents(h.lists, items, Len(h.lists)) = a
  BY <1>4, <1>5, <1>9, <1>10, <1>12, <1>15, ItemCloses
<1>17. b \in Seq(Nat)
  BY <1>14, <1>15, SaidByJoins
<1>18. lists \in Lists /\ Len(lists) = Len(h.lists)
  <2>1. Grown(h.lists, item) \in Lists /\ Len(Grown(h.lists, item)) = Len(h.lists)
    BY <1>4, <1>5, <1>9, <1>10, ItemCloses
  <2> QED
    BY <1>4, <1>11, <2>1
<1>19. Contents(lists, items, Len(lists)) = a ++ (t ++ b)
  <2>1. CASE item = <<>>
    <3>1. before = <<>> /\ Last(h.items) = <<>>
      <4>1. PICK last \in Seq(Blocks) : last = Last(h.items)
        BY <1>14
      <4>2. before \o last = <<>>
        BY <1>10, <2>1, <4>1
      <4>3. Len(before) + Len(last) = 0 /\ Len(before) \in Nat /\ Len(last) \in Nat
        BY <1>9, <4>2
      <4>4. before = <<>> /\ last = <<>>
        BY <1>9, <4>3
      <4> QED
        BY <4>1, <4>4
    <3>2. t = <<>> /\ b = <<>>
      BY <1>9, <1>15, <3>1, SaidByNone
    <3>3. t ++ b = <<>> /\ a ++ <<>> = a
      BY <1>9, <3>2, Joins
    <3> QED
      BY <1>11, <1>16, <2>1, <3>3
  <2>2. CASE item # <<>>
    BY <1>11, <1>16, <1>18, <2>2
  <2> QED
    BY <2>1, <2>2
<1>20. HtmlShape(g)
  <2>1. <<>> \in Seq(Nat)
    OBVIOUS
  <2> QED
    BY <1>13, <1>14, <1>18, <2>1 DEF HtmlShape
<1>21. Marks(g, outer)
  <2>1. Len(g.lists) = Len(g.items) + 1
    BY <1>5, <1>13, <1>14, <1>18
  <2> QED
    BY <1>3, <1>5, <1>13, <2>1, HolderMarks
<1>22. PICK s : s = Said(h.tree)
  OBVIOUS
<1>23. s \in Seq(Nat) /\ Written(h) = s ++ (a ++ b) /\ Written(g) = s ++ (a ++ (t ++ b))
  BY <1>13, <1>16, <1>19, <1>22, HeldFacts DEF Written
<1>24. PICK ab : ab = a ++ b
  OBVIOUS
<1>25. PICK tb : tb = t ++ b
  OBVIOUS
<1>26. ab \in Seq(Nat) /\ tb \in Seq(Nat)
  BY <1>9, <1>17, <1>24, <1>25, Joins
<1>27. Loses(Written(g), Written(h) ++ t)
  <2>1. Loses(tb, b ++ t)
    <3>1. Loses(b, b)
      BY <1>17, LosesOrder
    <3> QED
      BY <1>9, <1>25, <3>1, LosesPart
  <2>2. Loses(a ++ tb, a ++ (b ++ t))
    BY <2>1, LosesPart
  <2>3. a ++ (b ++ t) = ab ++ t
    BY <1>9, <1>17, <1>24, Joins
  <2>4. Loses(s ++ (a ++ tb), s ++ (ab ++ t))
    BY <1>23, <2>2, <2>3, LosesPart
  <2>5. s ++ (ab ++ t) = (s ++ ab) ++ t
    BY <1>9, <1>23, <1>26, Joins
  <2> QED
    BY <1>23, <1>24, <1>25, <2>4, <2>5
<1>28. Held(g) = Holding(Written(g), RowsSay(h), RowSays(h), <<>>)
  <2>1. RowsSay(g) = RowsSay(h) /\ RowSays(g) = RowSays(h) /\ TextSays(g) = <<>>
    BY <1>13 DEF RowsSay, RowSays, TextSays
  <2> QED
    BY <2>1 DEF Held
<1>29. Loses(Held(g), Held(h))
  BY <1>3, <1>8, <1>9, <1>27, <1>28, HeldFacts, HoldingLoses DEF Held
<1>30. ASSUME h.rows = <<>>, h.row = <<>>, h.text = <<>> \/ SaidBy(Last(h.items)) = <<>>
       PROVE  Held(g) = Held(h)
  <2>1. RowsSay(h) = <<>> /\ RowSays(h) = <<>>
    BY <1>30, FlattenEmpty DEF RowsSay, RowSays
  <2>2. Held(h) = Written(h) ++ t
    <3>1. Holding(Written(h), <<>>, <<>>, t) = Written(h) ++ t
      <4>1. <<>> \in Seq(Nat) /\ Written(h) \in Seq(Nat)
        BY HeldFacts
      <4> QED
        BY <1>9, <4>1, HoldingFacts
    <3> QED
      BY <1>3, <1>8, <2>1, <3>1 DEF Held
  <2>3. Held(g) = Written(g)
    <3>1. Written(g) \in Seq(Nat)
      BY <1>20, HeldFacts
    <3> QED
      BY <1>28, <2>1, <3>1, HoldingAlone
  <2>4. CASE t = <<>>
    <3>1. tb = b
      BY <1>17, <1>25, <2>4, Joins
    <3>2. Written(h) ++ <<>> = Written(h)
      BY HeldFacts, Joins
    <3> QED
      BY <1>23, <1>25, <2>2, <2>3, <2>4, <3>1, <3>2
  <2>5. CASE b = <<>>
    <3>1. tb = t /\ ab = a
      BY <1>9, <1>24, <1>25, <2>5, Joins
    <3>2. Written(g) = s ++ (a ++ t) /\ Written(h) = s ++ a
      BY <1>23, <1>24, <1>25, <3>1
    <3>3. (s ++ a) ++ t = s ++ (a ++ t)
      BY <1>9, <1>23, Joins
    <3> QED
      BY <2>2, <2>3, <3>2, <3>3
  <2> QED
    BY <1>8, <1>15, <1>30, <2>4, <2>5
<1>31. EndMarks(g, h, "li", outer)
  <2>1. Len(h.items) = Len(g.items) + 1
    BY <1>5, <1>13, <1>14
  <2> QED
    BY <1>13, <1>20, <1>21, <1>29, <1>30, <2>1 DEF EndMarks
<1> QED
  BY <1>1, <1>31

\* A start tag of any element, and an end tag.
LEMMA TagFacts ==
  ASSUME NEW h, HtmlShape(h), NEW outer \in Holders, NEW tag \in Inside(outer), tag \notin Void
  PROVE  /\ Marks(h, outer) => StartMarks(StartTag(h, tag), h, tag)
         /\ Marks(h, tag) /\ (tag = "li" => h.items # <<>>) => EndMarks(EndTag(h, tag), h, tag, outer)
<1>1. ASSUME Marks(h, outer) PROVE StartMarks(StartTag(h, tag), h, tag)
  <2>1. CASE tag \in {"list", "li", "table", "tr"}
    BY <1>1, <2>1, StartOfPart
  <2>2. CASE tag \notin {"list", "li", "table", "tr"}
    <3>1. tag \notin Void \cup {"list", "li", "table", "tr"}
      BY <2>2
    <3> QED
      BY <1>1, <3>1, StartOfText
  <2> QED
    BY <2>1, <2>2
<1>2. ASSUME Marks(h, tag), tag = "li" => h.items # <<>>
      PROVE  EndMarks(EndTag(h, tag), h, tag, outer)
  <2>1. tag \in {"title", "ignored", "cell", "tr", "pre", "block", "quote", "figcaption", "table",
                 "list", "li"} \cup Heading
    BY InsideFacts DEF Void, Heading
  <2>2. CASE tag \in {"title", "ignored"}
    BY <1>2, <2>2, EndOfTitle
  <2>3. CASE tag \in {"cell", "tr"}
    BY <1>2, <2>3, EndOfCell
  <2>4. CASE tag \in {"pre", "block", "quote", "figcaption"}
    BY <1>2, <2>4, EndOfText
  <2>5. CASE tag \in Heading
    BY <1>2, <2>5, EndOfHeading
  <2>6. CASE tag = "table"
    BY <1>2, <2>6, EndOfTable
  <2>7. CASE tag = "list"
    BY <1>2, <2>7, EndOfList
  <2>8. CASE tag = "li"
    BY <1>2, <2>8, EndOfItem
  <2> QED
    BY <2>1, <2>2, <2>3, <2>4, <2>5, <2>6, <2>7, <2>8
<1> QED
  BY <1>1, <1>2

-----------------------------------------------------------------------------
(* Texts *)

\* A text is read, if the element is one that is read.
LEMMA DataFacts ==
  ASSUME NEW h, HtmlShape(h), NEW inner, Marks(h, inner), NEW word \in Nat
  PROVE  LET g == TextData(h, word)
             read == h.skip = 0 /\ Captures(h)
         IN  /\ HtmlShape(g) /\ Marks(g, inner) /\ g.cell = h.cell /\ g.items = h.items
             /\ g.rows = h.rows /\ g.row = h.row /\ g.capture = h.capture
             /\ ~read => g = h
             /\ read /\ inner # "title" => Held(g) = Held(h) ++ <<word>>
             /\ read /\ inner = "title" => Held(g) = Held(h)
<1>1. PICK g : g = TextData(h, word)
  OBVIOUS
<1>2. CASE ~(h.skip = 0 /\ Captures(h))
  <2>1. g = h
    BY <1>1, <1>2 DEF TextData
  <2> QED
    BY <1>1, <1>2, <2>1
<1>3. CASE h.skip = 0 /\ Captures(h)
  <2>1. PICK text : text = Append(h.text, word)
    OBVIOUS
  <2>2. g = [h EXCEPT !.text = text]
    BY <1>1, <1>3, <2>1 DEF TextData
  <2>3. DOMAIN h = Registers /\ h.text \in Seq(Nat) /\ <<word>> \in Seq(Nat)
    BY DEF HtmlShape
  <2>4. /\ DOMAIN g = Registers /\ Alike(g, h) /\ g.text = text
        /\ g.capture = h.capture /\ g.inTitle = h.inTitle /\ g.cell = h.cell
        /\ g.skip = h.skip /\ g.level = h.level
    BY <2>2, <2>3, Zenon DEF Registers, Alike
  <2>5. text \in Seq(Nat) /\ text = h.text ++ <<word>>
    BY <2>1, <2>3 DEF ++
  <2>6. HtmlShape(g)
    BY <2>4, <2>5 DEF HtmlShape, Alike
  <2>7. Marks(g, inner)
    BY <2>4 DEF Marks, Alike
  <2>8. ASSUME inner # "title" PROVE Held(g) = Held(h) ++ <<word>>
    <3>1. TextSays(g) = TextSays(h) ++ <<word>>
      BY <2>4, <2>5, <2>8 DEF TextSays, Marks
    <3>2. Held(g) = Holding(Written(h), RowsSay(h), RowSays(h), TextSays(h) ++ <<word>>)
      BY <2>4, <2>6, <3>1, AlikeHolds
    <3>3. PICK t \in Seq(Nat) : t = TextSays(h)
      BY HeldFacts
    <3>4. PICK e \in Seq(Nat) : e = <<word>>
      BY <2>3
    <3>5. Holding(Written(h), RowsSay(h), RowSays(h), t ++ e)
            = Holding(Written(h), RowsSay(h), RowSays(h), t) ++ e
      <4>1. PICK w \in Seq(Nat) : w = Written(h)
        BY HeldFacts
      <4>2. PICK r \in Seq(Nat) : r = RowsSay(h)
        BY HeldFacts
      <4>3. PICK q \in Seq(Nat) : q = RowSays(h)
        BY HeldFacts
      <4>4. Holding(w, r, q, t ++ e) = Holding(w, r, q, t) ++ e
        BY HoldingFacts
      <4> QED
        BY <4>1, <4>2, <4>3, <4>4
    <3> QED
      BY <3>2, <3>3, <3>4, <3>5 DEF Held
  <2>9. ASSUME inner = "title" PROVE Held(g) = Held(h)
    <3>1. TextSays(g) = TextSays(h)
      BY <2>4, <2>9 DEF TextSays, Marks
    <3> QED
      BY <2>4, <2>6, <3>1, AlikeHolds
  <2>10. /\ g.cell = h.cell /\ g.items = h.items /\ g.rows = h.rows /\ g.row = h.row
         /\ g.capture = h.capture
    BY <2>4 DEF Alike
  <2> QED
    BY <1>1, <1>3, <2>6, <2>7, <2>8, <2>9, <2>10
<1> QED
  BY <1>2, <1>3

-----------------------------------------------------------------------------
(* The elements that are open, and what stands in them *)

\* Holds and Mixed, of any source; whether an element has a text of its own, or an
\* element in it; and which elements are open around an event.
HoldsIn(s, n, m) == Opens(s)[m - 1] # <<>> /\ Last(Opens(s)[m - 1]) = n
IsElement(s, m) == s[m].is = "start" /\ s[m].tag \notin Void
HasText(s, n) == \E k \in DOMAIN s : HoldsIn(s, n, k) /\ s[k].is = "data"
HasChild(s, n) == \E m \in DOMAIN s : HoldsIn(s, n, m) /\ IsElement(s, m)
OpenAt(s, n, m) == n \in Range(Opens(s)[m - 1])
MixedIn(s, n) ==
  \E m \in DOMAIN s :
    /\ IsElement(s, m)
    /\ \/ HoldsIn(s, n, m) /\ (s[n].tag = "cell" \/ HasText(s, n))
       \/ OpenAt(s, n, m) /\ s[n].tag = "li" /\ s[m].tag \in Heading
StraightIn(s) == \A n \in DOMAIN s : s[n].is = "start" => ~MixedIn(s, n)

Innermost(s, o) == IF o = <<>> THEN "body" ELSE s[Last(o)].tag

\* They stand where the standard lets them stand.
Standing(s, o) ==
  \A k \in 1..Len(o) :
    /\ IsElement(s, o[k])
    /\ s[o[k]].tag \in Inside(IF k = 1 THEN "body" ELSE s[o[k - 1]].tag)
    /\ k > 1 => HoldsIn(s, o[k - 1], o[k])
    /\ \A i \in 1..(k - 1) : OpenAt(s, o[i], o[k])

\* An event more changes nothing of what the others stand in.
LEMMA EventFacts ==
  ASSUME NEW s, IsSequence(s), NEW e
  PROVE  LET t == Append(s, e)
             N == Len(s)
             o == Opens(s)[N]
         IN  /\ IsSequence(t) /\ Len(t) = N + 1 /\ N \in Nat /\ o \in Seq(1..N)
             /\ DOMAIN s = 1..N /\ DOMAIN t = 1..(N + 1)
             /\ t[N + 1] = e /\ \A n \in 1..N : t[n] = s[n]
             /\ Opens(t)[N + 1] = OpensNext(t, N + 1, o)
             /\ \A m \in 1..N : \A n : HoldsIn(t, n, m) <=> HoldsIn(s, n, m)
             /\ \A n : HoldsIn(t, n, N + 1) <=> o # <<>> /\ Last(o) = n
             /\ \A m \in 1..N : \A n : OpenAt(t, n, m) <=> OpenAt(s, n, m)
             /\ \A n : OpenAt(t, n, N + 1) <=> n \in Range(o)
             /\ \A n : HasText(s, n) => HasText(t, n)
             /\ \A n : HasChild(s, n) => HasChild(t, n)
             /\ StraightIn(t) => StraightIn(s)
<1>1. PICK t : t = Append(s, e)
  OBVIOUS
<1>2. PICK N \in Nat : N = Len(s)
  BY OneLonger
<1>3. PICK o : o = Opens(s)[N]
  OBVIOUS
<1>4. /\ IsSequence(t) /\ Len(t) = N + 1 /\ DOMAIN s = 1..N /\ DOMAIN t = 1..(N + 1)
      /\ t[N + 1] = e /\ \A n \in 1..N : t[n] = s[n]
  <2>1. IsSequence(t) /\ Len(t) = N + 1 /\ t[N + 1] = e /\ \A n \in 1..N : t[n] = s[n]
    BY <1>1, <1>2, OneLonger
  <2> QED
    BY <1>2, <2>1, OneLonger
<1>5. o \in Seq(1..N) /\ Opens(t)[N + 1] = OpensNext(t, N + 1, o)
  <2>1. N \in 0..N
    OBVIOUS
  <2> QED
    BY <1>1, <1>2, <1>3, <2>1, OpensFacts, OpensAppend
<1>6. \A m \in 1..(N + 1) : Opens(t)[m - 1] = Opens(s)[m - 1]
  <2>1. \A m \in 1..(N + 1) : m - 1 \in 0..N
    OBVIOUS
  <2> QED
    BY <1>1, <1>2, <2>1, OpensAppend
<1>7. ASSUME NEW m \in 1..(N + 1), NEW n PROVE HoldsIn(t, n, m) <=> HoldsIn(s, n, m)
  BY <1>6 DEF HoldsIn
<1>14. ASSUME NEW m \in 1..(N + 1), NEW n PROVE OpenAt(t, n, m) <=> OpenAt(s, n, m)
  BY <1>6 DEF OpenAt
<1>15. ASSUME NEW n PROVE OpenAt(t, n, N + 1) <=> n \in Range(o)
  <2>1. N + 1 \in 1..(N + 1) /\ (N + 1) - 1 = N
    OBVIOUS
  <2> QED
    BY <1>3, <1>6, <2>1 DEF OpenAt
<1>8. \A m \in 1..N : m \in 1..(N + 1)
  OBVIOUS
<1>9. ASSUME NEW n PROVE HoldsIn(t, n, N + 1) <=> o # <<>> /\ Last(o) = n
  <2>1. N + 1 \in 1..(N + 1) /\ (N + 1) - 1 = N
    OBVIOUS
  <2> QED
    BY <1>3, <1>6, <2>1 DEF HoldsIn
<1>10. ASSUME NEW n PROVE HasText(s, n) => HasText(t, n)
  BY <1>4, <1>7, <1>8 DEF HasText
<1>11. ASSUME NEW n PROVE HasChild(s, n) => HasChild(t, n)
  BY <1>4, <1>7, <1>8 DEF HasChild, IsElement
<1>12. ASSUME NEW n \in 1..N, MixedIn(s, n) PROVE MixedIn(t, n)
  <2>1. PICK m \in 1..N :
          /\ IsElement(s, m)
          /\ \/ HoldsIn(s, n, m) /\ (s[n].tag = "cell" \/ HasText(s, n))
             \/ OpenAt(s, n, m) /\ s[n].tag = "li" /\ s[m].tag \in Heading
    BY <1>4, <1>12 DEF MixedIn
  <2>2. /\ HoldsIn(t, n, m) <=> HoldsIn(s, n, m)
        /\ OpenAt(t, n, m) <=> OpenAt(s, n, m)
        /\ IsElement(t, m) /\ t[n] = s[n] /\ t[m] = s[m] /\ m \in DOMAIN t
    BY <1>4, <1>7, <1>8, <1>14, <2>1 DEF IsElement
  <2> QED
    BY <1>10, <2>1, <2>2 DEF MixedIn
<1>13. StraightIn(t) => StraightIn(s)
  BY <1>4, <1>8, <1>12 DEF StraightIn
<1> QED
  BY <1>1, <1>2, <1>3, <1>4, <1>5, <1>7, <1>8, <1>9, <1>10, <1>11, <1>13, <1>14, <1>15

\* How many items of lists are open.
ItemsIn(s, o) == Cardinality({k \in 1..Len(o) : s[o[k]].tag = "li"})

\* One element more.
LEMMA ItemsInAppend ==
  ASSUME NEW s, NEW X, NEW o \in Seq(X), NEW n \in X
  PROVE  /\ ItemsIn(s, o) \in Nat /\ ItemsIn(s, <<>>) = 0
         /\ ItemsIn(s, Append(o, n)) = ItemsIn(s, o) + (IF s[n].tag = "li" THEN 1 ELSE 0)
<1>1. PICK N \in Nat : N = Len(o)
  OBVIOUS
<1>2. PICK p : p = Append(o, n)
  OBVIOUS
<1>3. Len(p) = N + 1 /\ p[N + 1] = n /\ \A k \in 1..N : p[k] = o[k]
  BY <1>1, <1>2
<1>4. PICK A : A = {k \in 1..N : s[o[k]].tag = "li"}
  OBVIOUS
<1>5. IsFiniteSet(A) /\ Cardinality(A) \in Nat
  <2>1. IsFiniteSet(1..N)
    BY FS_Interval
  <2>2. A \subseteq 1..N
    BY <1>4
  <2> QED
    BY <2>1, <2>2, FS_Subset, FS_CardinalityType
<1>6. ItemsIn(s, o) = Cardinality(A)
  BY <1>1, <1>4 DEF ItemsIn
<1>7. ItemsIn(s, <<>>) = 0
  <2>1. {k \in 1..Len(<<>>) : s[<<>>[k]].tag = "li"} = {}
    OBVIOUS
  <2> QED
    BY <2>1, FS_EmptySet, Zenon DEF ItemsIn
<1>8. {k \in 1..Len(p) : s[p[k]].tag = "li"} = IF s[n].tag = "li" THEN A \cup {N + 1} ELSE A
  <2>1. ASSUME NEW k
        PROVE  k \in 1..(N + 1) /\ s[p[k]].tag = "li"
                 <=> k \in A \/ (k = N + 1 /\ s[n].tag = "li")
    <3>1. CASE k \in 1..N
      <4>1. k \in 1..(N + 1) /\ k # N + 1 /\ p[k] = o[k]
        BY <1>3, <3>1
      <4> QED
        BY <1>4, <3>1, <4>1
    <3>2. CASE k = N + 1
      <4>1. k \in 1..(N + 1) /\ p[k] = n /\ k \notin A
        BY <1>3, <1>4, <3>2
      <4> QED
        BY <3>2, <4>1
    <3>3. CASE k \notin 1..(N + 1)
      <4>1. k \notin A /\ k # N + 1
        BY <1>4, <3>3
      <4> QED
        BY <3>3, <4>1
    <3> QED
      BY <3>1, <3>2, <3>3
  <2> QED
    BY <1>3, <2>1
<1>9. N + 1 \notin A
  BY <1>4
<1>10. Cardinality(A \cup {N + 1}) = Cardinality(A) + 1
  BY <1>5, <1>9, FS_AddElement
<1>11. ItemsIn(s, p) = IF s[n].tag = "li" THEN Cardinality(A) + 1 ELSE Cardinality(A)
  BY <1>8, <1>10 DEF ItemsIn
<1>12. ItemsIn(s, p) = ItemsIn(s, o) + (IF s[n].tag = "li" THEN 1 ELSE 0)
  BY <1>5, <1>6, <1>11
<1> QED
  BY <1>2, <1>5, <1>6, <1>7, <1>12

\* The same elements of a longer source.
LEMMA ItemsInSame ==
  ASSUME NEW s, NEW t, NEW X, NEW o \in Seq(X), \A n \in X : t[n] = s[n]
  PROVE  ItemsIn(t, o) = ItemsIn(s, o)
<1>1. \A k \in 1..Len(o) : o[k] \in X
  OBVIOUS
<1>2. {k \in 1..Len(o) : t[o[k]].tag = "li"} = {k \in 1..Len(o) : s[o[k]].tag = "li"}
  BY <1>1
<1> QED
  BY <1>2, Zenon DEF ItemsIn

\* The innermost element, and what it stands in.
LEMMA StandingFacts ==
  ASSUME NEW s, NEW X, NEW o \in Seq(X), Standing(s, o), o # <<>>
  PROVE  /\ IsElement(s, Last(o)) /\ Innermost(s, o) = s[Last(o)].tag
         /\ Innermost(s, o) \in Inside(Innermost(s, Front(o)))
         /\ Innermost(s, Front(o)) \in Holders
         /\ Front(o) # <<>> => HoldsIn(s, Last(Front(o)), Last(o))
         /\ \A i \in 1..Len(Front(o)) : OpenAt(s, Front(o)[i], Last(o))
         /\ Innermost(s, Front(o)) = "body" => Front(o) = <<>>
         /\ Standing(s, Front(o))
<1>1. PICK f \in Seq(X) : f = Front(o)
  BY FrontFacts
<1>2. PICK N \in Nat : N = Len(f)
  OBVIOUS
<1>3. Len(o) = N + 1 /\ Last(o) = o[N + 1] /\ \A k \in 1..N : f[k] = o[k]
  BY <1>1, <1>2, FrontFacts
<1>4. N # 0 => f # <<>> /\ Last(f) = o[N] /\ Last(f) = f[N] /\ N \in 1..N
  BY <1>2, <1>3 DEF Last
<1>5. N = 0 => f = <<>>
  <2>1. \A g \in Seq(X) : Len(g) = 0 => g = <<>>
    OBVIOUS
  <2> QED
    BY <1>2, <2>1
<1>6. /\ IsElement(s, o[N + 1])
      /\ s[o[N + 1]].tag \in Inside(IF N + 1 = 1 THEN "body" ELSE s[o[(N + 1) - 1]].tag)
      /\ N + 1 > 1 => HoldsIn(s, o[(N + 1) - 1], o[N + 1])
      /\ \A i \in 1..((N + 1) - 1) : OpenAt(s, o[i], o[N + 1])
  <2>1. N + 1 \in 1..Len(o)
    BY <1>3
  <2> QED
    BY <2>1, Zenon DEF Standing
<1>14. ASSUME NEW i \in 1..N PROVE OpenAt(s, f[i], Last(o))
  <2>1. (N + 1) - 1 = N
    OBVIOUS
  <2> QED
    BY <1>3, <1>6, <2>1
<1>7. Innermost(s, o) = s[Last(o)].tag
  BY DEF Innermost
<1>8. Innermost(s, f) = IF N = 0 THEN "body" ELSE s[o[N]].tag
  BY <1>4, <1>5 DEF Innermost
<1>9. Innermost(s, o) \in Inside(Innermost(s, f))
  <2>1. N + 1 = 1 <=> N = 0
    OBVIOUS
  <2>2. (N + 1) - 1 = N
    OBVIOUS
  <2> QED
    BY <1>3, <1>6, <1>7, <1>8, <2>1, <2>2
<1>10. Innermost(s, f) \in Holders
  BY <1>9, InsideFacts
<1>11. f # <<>> => HoldsIn(s, Last(f), Last(o))
  <2>1. N # 0 => N + 1 > 1 /\ (N + 1) - 1 = N
    OBVIOUS
  <2> QED
    BY <1>3, <1>4, <1>5, <1>6, <2>1
<1>12. ASSUME N # 0 PROVE Innermost(s, f) # "body"
  <2>1. N \in 1..Len(o)
    BY <1>3, <1>12
  <2>2. PICK outer : s[o[N]].tag \in Inside(outer)
    BY <2>1 DEF Standing
  <2>3. s[o[N]].tag # "body"
    BY <2>2, InsideFacts
  <2> QED
    BY <1>8, <1>12, <2>3
<1>13. Standing(s, f)
  <2>1. ASSUME NEW k \in 1..Len(f)
        PROVE  /\ IsElement(s, f[k])
               /\ s[f[k]].tag \in Inside(IF k = 1 THEN "body" ELSE s[f[k - 1]].tag)
               /\ k > 1 => HoldsIn(s, f[k - 1], f[k])
               /\ \A i \in 1..(k - 1) : OpenAt(s, f[i], f[k])
    <3>1. k \in 1..Len(o) /\ f[k] = o[k]
      BY <1>2, <1>3
    <3>4. \A i \in 1..(k - 1) : f[i] = o[i]
      BY <1>2, <1>3
    <3>2. k # 1 => f[k - 1] = o[k - 1]
      BY <1>2, <1>3
    <3>3. k > 1 => k # 1
      OBVIOUS
    <3> QED
      BY <3>1, <3>2, <3>3, <3>4 DEF Standing
  <2> QED
    BY <2>1 DEF Standing
<1> QED
  BY <1>1, <1>2, <1>3, <1>5, <1>6, <1>7, <1>9, <1>10, <1>11, <1>12, <1>13, <1>14

\* Elements stand in a longer source where they stood, and one more in the innermost.
LEMMA StandingNext ==
  ASSUME NEW s, IsSequence(s), NEW e, Standing(s, Opens(s)[Len(s)])
  PROVE  LET t == Append(s, e)
             N == Len(s)
             o == Opens(s)[N]
         IN  /\ Standing(t, o) /\ Innermost(t, o) = Innermost(s, o)
             /\ IsElement(t, N + 1) /\ t[N + 1].tag \in Inside(Innermost(s, o)) =>
                  /\ Standing(t, Append(o, N + 1))
                  /\ Innermost(t, Append(o, N + 1)) = t[N + 1].tag
<1>10. PICK t : t = Append(s, e)
  OBVIOUS
<1>11. PICK N \in Nat : N = Len(s)
  BY OneLonger
<1>12. PICK o : o = Opens(s)[N]
  OBVIOUS
<1>13. /\ o \in Seq(1..N) /\ \A n \in 1..N : t[n] = s[n]
       /\ \A m \in 1..N : \A n : HoldsIn(t, n, m) <=> HoldsIn(s, n, m)
       /\ \A n : HoldsIn(t, n, N + 1) <=> o # <<>> /\ Last(o) = n
       /\ \A m \in 1..N : \A n : OpenAt(t, n, m) <=> OpenAt(s, n, m)
       /\ \A n : OpenAt(t, n, N + 1) <=> n \in Range(o)
  BY <1>10, <1>11, <1>12, EventFacts
<1>14. Standing(s, o) /\ (o # <<>> => HoldsIn(t, Last(o), N + 1))
  BY <1>11, <1>12, <1>13
<1>1. PICK L \in Nat : L = Len(o)
  BY <1>13
<1>2. \A k \in 1..L : o[k] \in 1..N /\ t[o[k]] = s[o[k]]
  BY <1>1, <1>13
<1>3. ASSUME NEW k \in 1..L
      PROVE  /\ IsElement(t, o[k])
             /\ t[o[k]].tag \in Inside(IF k = 1 THEN "body" ELSE t[o[k - 1]].tag)
             /\ k > 1 => HoldsIn(t, o[k - 1], o[k])
             /\ \A i \in 1..(k - 1) : OpenAt(t, o[i], o[k])
  <2>1. /\ IsElement(s, o[k])
        /\ s[o[k]].tag \in Inside(IF k = 1 THEN "body" ELSE s[o[k - 1]].tag)
        /\ k > 1 => HoldsIn(s, o[k - 1], o[k])
        /\ \A i \in 1..(k - 1) : OpenAt(s, o[i], o[k])
    BY <1>1, <1>14 DEF Standing
  <2>2. o[k] \in 1..N /\ t[o[k]] = s[o[k]]
    BY <1>2
  <2>3. k # 1 => t[o[k - 1]] = s[o[k - 1]]
    <3>1. k # 1 => k - 1 \in 1..L
      OBVIOUS
    <3> QED
      BY <1>2, <3>1
  <2>4. IsElement(t, o[k])
    BY <2>1, <2>2 DEF IsElement
  <2>5. k > 1 => HoldsIn(t, o[k - 1], o[k])
    BY <1>13, <2>1, <2>2
  <2>6. \A i \in 1..(k - 1) : OpenAt(t, o[i], o[k])
    BY <1>13, <2>1, <2>2
  <2> QED
    BY <2>1, <2>2, <2>3, <2>4, <2>5, <2>6
<1>4. Standing(t, o)
  BY <1>1, <1>3 DEF Standing
<1>5. o # <<>> => L \in 1..L /\ Last(o) = o[L]
  BY <1>1 DEF Last
<1>6. Innermost(t, o) = Innermost(s, o)
  BY <1>2, <1>5 DEF Innermost
<1>7. ASSUME IsElement(t, N + 1), t[N + 1].tag \in Inside(Innermost(s, o))
      PROVE  Standing(t, Append(o, N + 1)) /\ Innermost(t, Append(o, N + 1)) = t[N + 1].tag
  <2>1. PICK p : p = Append(o, N + 1)
    OBVIOUS
  <2>2. Len(p) = L + 1 /\ p[L + 1] = N + 1 /\ (\A k \in 1..L : p[k] = o[k]) /\ p # <<>>
    <3>1. PICK X : X = 1..(N + 1)
      OBVIOUS
    <3>2. \A k \in 1..L : o[k] \in 1..(N + 1)
      BY <1>2
    <3>3. o \in Seq(X) /\ N + 1 \in X
      BY <1>1, <1>13, <3>1, <3>2
    <3> QED
      BY <1>1, <2>1, <3>3
  <2>3. ASSUME NEW k \in 1..(L + 1)
        PROVE  /\ IsElement(t, p[k])
               /\ t[p[k]].tag \in Inside(IF k = 1 THEN "body" ELSE t[p[k - 1]].tag)
               /\ k > 1 => HoldsIn(t, p[k - 1], p[k])
               /\ \A i \in 1..(k - 1) : OpenAt(t, p[i], p[k])
    <3>1. CASE k \in 1..L
      <4>1. /\ p[k] = o[k] /\ (k # 1 => p[k - 1] = o[k - 1]) /\ (k > 1 => k # 1)
            /\ \A i \in 1..(k - 1) : p[i] = o[i]
        <5>1. (k # 1 => k - 1 \in 1..L) /\ \A i \in 1..(k - 1) : i \in 1..L
          BY <3>1
        <5> QED
          BY <2>2, <3>1, <5>1
      <4> QED
        BY <1>3, <3>1, <4>1
    <3>2. CASE k = L + 1
      <4>1. p[k] = N + 1 /\ k - 1 = L
        BY <2>2, <3>2
      <4>4. \A i \in 1..(k - 1) : OpenAt(t, p[i], p[k])
        <5>1. \A i \in 1..L : o[i] \in Range(o)
          <6>1. DOMAIN o = 1..L
            BY <1>1, <1>13
          <6> QED
            BY <6>1 DEF Range
        <5> QED
          BY <1>13, <2>2, <4>1, <5>1
      <4>2. CASE L = 0
        <5>1. o = <<>> /\ k = 1
          <6>1. \A g \in Seq(1..N) : Len(g) = 0 => g = <<>>
            OBVIOUS
          <6>2. o = <<>>
            BY <1>1, <1>13, <4>2, <6>1, Zenon
          <6> QED
            BY <3>2, <4>2, <6>2
        <5>2. Innermost(s, o) = "body"
          BY <5>1 DEF Innermost
        <5>3. ~(k > 1)
          BY <5>1
        <5> QED
          BY <1>7, <1>14, <4>1, <4>4, <5>1, <5>2, <5>3
      <4>3. CASE L # 0
        <5>1. o # <<>> /\ k # 1 /\ L \in 1..L
          BY <1>1, <1>13, <3>2, <4>3
        <5>2. p[k - 1] = Last(o)
          BY <1>5, <2>2, <4>1, <5>1
        <5>3. t[Last(o)].tag = Innermost(s, o)
          BY <1>6, <5>1 DEF Innermost
        <5> QED
          BY <1>7, <1>14, <4>1, <4>4, <5>1, <5>2, <5>3
      <4> QED
        BY <4>2, <4>3
    <3> QED
      BY <3>1, <3>2
  <2>4. Standing(t, p)
    BY <2>2, <2>3 DEF Standing
  <2>5. Innermost(t, p) = t[N + 1].tag
    BY <2>2 DEF Innermost, Last
  <2> QED
    BY <2>1, <2>4, <2>5
<1> QED
  BY <1>4, <1>6, <1>7, <1>10, <1>11, <1>12

\* In a straight source an element that holds one is no cell and has no text, and no
\* item has a heading in it.
LEMMA StraightFacts ==
  ASSUME NEW t, StraightIn(t), NEW n \in DOMAIN t, NEW m \in DOMAIN t,
         IsElement(t, m), t[n].is = "start"
  PROVE  /\ HoldsIn(t, n, m) => t[n].tag # "cell" /\ HasChild(t, n) /\ ~HasText(t, n)
         /\ OpenAt(t, n, m) /\ t[n].tag = "li" => t[m].tag \notin Heading
<1>1. ~MixedIn(t, n)
  BY DEF StraightIn
<1> QED
  BY <1>1 DEF MixedIn, HasChild

-----------------------------------------------------------------------------
(* What a page keeps of its words, event by event *)

\* What the registers have to do with the open elements, where nothing is lost.
Clean(s, o, h) ==
  /\ h.text # <<>> => /\ o # <<>> /\ HasText(s, Last(o))
                      /\ Innermost(s, o) \notin {"list", "table", "tr", "ignored"}
  /\ h.cell <=> Innermost(s, o) = "cell"
  /\ h.rows # <<>> => Innermost(s, o) \in {"table", "tr", "cell"}
  /\ h.row # <<>> => Innermost(s, o) \in {"tr", "cell"}
  /\ Innermost(s, o) = "li" /\ SaidBy(Last(h.items)) # <<>> => HasChild(s, Last(o))
  /\ Innermost(s, o) \in {"quote", "figcaption"} => h.capture \/ HasChild(s, Last(o))

\* What a parser that has read a source keeps of its words, with some elements open.
Keeps(s, o, h, words) ==
  /\ Standing(s, o) /\ HtmlShape(h) /\ Marks(h, Innermost(s, o))
  /\ Len(h.items) = ItemsIn(s, o)
  /\ h.cell => \E k \in 1..Len(o) : s[o[k]].tag = "cell"
  /\ h.capture => \E k \in 1..Len(o) : s[o[k]].tag \in {"pre", "block", "quote", "figcaption"}
  /\ Loses(Held(h), words)
  /\ StraightIn(s) => Clean(s, o, h) /\ Held(h) = words

\* A start tag.
LEMMA StartKeeps ==
  ASSUME NEW s, IsSequence(s), NEW e, NEW h, NEW words, Keeps(s, Opens(s)[Len(s)], h, words),
         e.is = "start", e.tag \in Inside(Innermost(s, Opens(s)[Len(s)]))
  PROVE  Keeps(Append(s, e), Opens(Append(s, e))[Len(s) + 1], StartTag(h, e.tag), words)
<1>1. PICK t : t = Append(s, e)
  OBVIOUS
<1>2. PICK N \in Nat : N = Len(s)
  BY OneLonger
<1>3. PICK o : o = Opens(s)[N]
  OBVIOUS
<1>4. PICK p : p = Opens(t)[N + 1]
  OBVIOUS
<1>5. PICK tag : tag = e.tag
  OBVIOUS
<1>6. PICK g : g = StartTag(h, tag)
  OBVIOUS
<1>7. PICK outer : outer = Innermost(s, o)
  OBVIOUS
<1>8. /\ o \in Seq(1..N) /\ DOMAIN t = 1..(N + 1) /\ t[N + 1] = e /\ \A n \in 1..N : t[n] = s[n]
      /\ p = OpensNext(t, N + 1, o)
      /\ \A m \in 1..N : \A n : HoldsIn(t, n, m) <=> HoldsIn(s, n, m)
      /\ \A n : HoldsIn(t, n, N + 1) <=> o # <<>> /\ Last(o) = n
  BY <1>1, <1>2, <1>3, <1>4, EventFacts
<1>9. /\ \A n : HasText(s, n) => HasText(t, n)
      /\ \A n : HasChild(s, n) => HasChild(t, n)
      /\ StraightIn(t) => StraightIn(s)
  BY <1>1, EventFacts
<1>10. Keeps(s, o, h, words) /\ tag \in Inside(outer) /\ e.is = "start"
  BY <1>2, <1>3, <1>5, <1>7
<1>11. /\ Standing(s, o) /\ HtmlShape(h) /\ Marks(h, outer)
       /\ Len(h.items) = ItemsIn(s, o)
       /\ h.cell => \E k \in 1..Len(o) : s[o[k]].tag = "cell"
       /\ h.capture => \E k \in 1..Len(o) : s[o[k]].tag \in {"pre", "block", "quote", "figcaption"}
       /\ Loses(Held(h), words)
       /\ StraightIn(s) => Clean(s, o, h) /\ Held(h) = words
  BY <1>7, <1>10 DEF Keeps
<1>12. outer \in Holders
  BY <1>10, InsideFacts
<1>13. Standing(t, o) /\ Innermost(t, o) = outer
  BY <1>1, <1>2, <1>3, <1>7, <1>11, StandingNext
<1>14. Len(o) \in Nat /\ \A k \in 1..Len(o) : o[k] \in 1..N
  BY <1>8
<1>15. o # <<>> => /\ Last(o) \in 1..N /\ Last(o) \in DOMAIN t
                   /\ t[Last(o)].is = "start" /\ t[Last(o)].tag = outer
  <2>1. o # <<>> => Last(o) \in 1..N
    BY <1>8, FrontFacts
  <2>2. o # <<>> => IsElement(t, Last(o)) /\ t[Last(o)].tag = outer
    BY <1>8, <1>13, StandingFacts
  <2> QED
    BY <1>8, <2>1, <2>2 DEF IsElement
<1>16. ItemsIn(t, o) = ItemsIn(s, o) /\ ItemsIn(s, o) \in Nat
  <2>1. ItemsIn(t, o) = ItemsIn(s, o)
    BY <1>8, ItemsInSame
  <2>2. PICK X : X = 1..(N + 1)
    OBVIOUS
  <2>3. o \in Seq(X) /\ N + 1 \in X
    BY <1>14, <1>8, <2>2
  <2> QED
    BY <2>1, <2>3, ItemsInAppend
<1>17. CASE tag \in Void
  <2>1. p = o
    <3>1. ~(t[N + 1].is = "start" /\ t[N + 1].tag \notin Void) /\ t[N + 1].is # "end"
      BY <1>5, <1>8, <1>10, <1>17
    <3> QED
      BY <1>8, <3>1 DEF OpensNext
  <2>2. outer = "li" => h.items # <<>>
    <3>1. ASSUME outer = "li" PROVE ItemsIn(s, o) > 0
      <4>1. o # <<>>
        BY <1>7, <3>1 DEF Innermost
      <4>2. PICK X : X = 1..N
        OBVIOUS
      <4>3. o \in Seq(X) /\ Front(o) \in Seq(X) /\ o = Append(Front(o), Last(o)) /\ Last(o) \in X
        BY <1>8, <4>1, <4>2, FrontFacts
      <4>4. ItemsIn(s, Front(o)) \in Nat
        BY <4>3, ItemsInAppend
      <4>5. s[Last(o)].tag = "li"
        BY <1>7, <3>1, <4>1 DEF Innermost
      <4>6. PICK f \in Seq(X) : f = Front(o)
        BY <4>3
      <4>7. ItemsIn(s, Append(f, Last(o))) = ItemsIn(s, f) + 1
        BY <4>3, <4>5, ItemsInAppend
      <4>8. ItemsIn(s, o) = ItemsIn(s, f) + 1 /\ ItemsIn(s, f) \in Nat
        BY <4>3, <4>4, <4>6, <4>7, Zenon
      <4> QED
        BY <4>8
    <3> QED
      BY <1>11, <3>1
  <2>3. /\ HtmlShape(g) /\ Marks(g, outer) /\ Held(g) = Held(h)
        /\ Len(g.items) = Len(h.items) /\ g.cell = h.cell /\ g.capture = h.capture
        /\ g.rows = h.rows /\ g.row = h.row /\ g.text = h.text
        /\ outer = "li" => SaidBy(Last(g.items)) = SaidBy(Last(h.items))
    BY <1>6, <1>10, <1>11, <1>12, <1>17, <2>2, StartOfVoid
  <2>4. /\ g.cell => \E k \in 1..Len(o) : t[o[k]].tag = "cell"
        /\ g.capture => \E k \in 1..Len(o) : t[o[k]].tag \in {"pre", "block", "quote", "figcaption"}
    BY <1>8, <1>11, <1>14, <2>3
  <2>5. StraightIn(t) => Clean(t, o, g)
    <3>1. StraightIn(t) => Clean(s, o, h)
      BY <1>9, <1>11
    <3> QED
      BY <1>7, <1>9, <1>13, <2>3, <3>1 DEF Clean
  <2>6. Keeps(t, o, g, words)
    BY <1>9, <1>11, <1>13, <1>16, <2>3, <2>4, <2>5 DEF Keeps
  <2> QED
    BY <1>1, <1>2, <1>4, <1>5, <1>6, <2>1, <2>6
<1>18. CASE tag \notin Void
  <2>1. IsElement(t, N + 1) /\ t[N + 1].tag = tag
    BY <1>5, <1>8, <1>10, <1>18 DEF IsElement
  <2>2. p = Append(o, N + 1)
    BY <1>8, <2>1 DEF OpensNext, IsElement
  <2>3. Standing(t, p) /\ Innermost(t, p) = tag
    <3>2. t[N + 1].tag \in Inside(Innermost(s, o))
      BY <1>7, <1>10, <2>1
    <3>3. Standing(t, Append(o, N + 1)) /\ Innermost(t, Append(o, N + 1)) = t[N + 1].tag
      BY <1>1, <1>2, <1>3, <1>11, <2>1, <3>2, StandingNext
    <3> QED
      BY <2>1, <2>2, <3>3
  <2>4. StartMarks(g, h, tag)
    BY <1>6, <1>10, <1>11, <1>12, <1>18, TagFacts
  <2>5. Len(p) = Len(o) + 1 /\ p[Len(o) + 1] = N + 1 /\ (\A k \in 1..Len(o) : p[k] = o[k])
        /\ p # <<>> /\ Last(p) = N + 1
    <3>1. PICK X : X = 1..(N + 1)
      OBVIOUS
    <3>2. o \in Seq(X) /\ N + 1 \in X
      BY <1>8, <1>14, <3>1
    <3>3. Len(p) = Len(o) + 1 /\ p[Len(o) + 1] = N + 1 /\ (\A k \in 1..Len(o) : p[k] = o[k])
          /\ p # <<>>
      BY <2>2, <3>2
    <3> QED
      BY <1>14, <3>3 DEF Last
  <2>6. Len(g.items) = ItemsIn(t, p)
    <3>1. PICK X : X = 1..(N + 1)
      OBVIOUS
    <3>2. o \in Seq(X) /\ N + 1 \in X
      BY <1>8, <1>14, <3>1
    <3>3. ItemsIn(t, p) = ItemsIn(t, o) + (IF t[N + 1].tag = "li" THEN 1 ELSE 0)
      BY <2>2, <3>2, ItemsInAppend
    <3> QED
      BY <1>11, <1>16, <2>1, <2>4, <3>3 DEF StartMarks
  <2>7. g.cell => \E k \in 1..Len(p) : t[p[k]].tag = "cell"
    <3>1. g.cell <=> h.cell \/ tag = "cell"
      BY <2>4 DEF StartMarks
    <3>2. CASE tag = "cell"
      <4>1. Len(o) + 1 \in 1..Len(p) /\ t[p[Len(o) + 1]].tag = "cell"
        BY <1>14, <2>1, <2>5, <3>2
      <4> QED
        BY <4>1
    <3>3. CASE h.cell
      <4>1. PICK k \in 1..Len(o) : s[o[k]].tag = "cell"
        BY <1>11, <3>3
      <4>2. k \in 1..Len(p) /\ t[p[k]].tag = "cell"
        BY <1>8, <1>14, <2>5, <4>1
      <4> QED
        BY <4>2
    <3> QED
      BY <3>1, <3>2, <3>3
  <2>11. g.capture => \E k \in 1..Len(p) : t[p[k]].tag \in {"pre", "block", "quote", "figcaption"}
    <3>1. g.capture <=> h.capture \/ tag \in {"pre", "block", "quote", "figcaption"}
      BY <2>4 DEF StartMarks
    <3>2. CASE tag \in {"pre", "block", "quote", "figcaption"}
      <4>1. Len(o) + 1 \in 1..Len(p) /\ t[p[Len(o) + 1]].tag = tag
        BY <1>14, <2>1, <2>5
      <4> QED
        BY <3>2, <4>1
    <3>3. CASE h.capture
      <4>1. PICK k \in 1..Len(o) : s[o[k]].tag \in {"pre", "block", "quote", "figcaption"}
        BY <1>11, <3>3
      <4>2. k \in 1..Len(p) /\ t[p[k]].tag = s[o[k]].tag
        BY <1>8, <1>14, <2>5
      <4> QED
        BY <4>1, <4>2
    <3> QED
      BY <3>1, <3>2, <3>3
  <2>8. Loses(Held(g), words) /\ HtmlShape(g) /\ Marks(g, tag)
    BY <1>11, <2>4, LosesOrder DEF StartMarks
  <2>9. ASSUME StraightIn(t) PROVE Clean(t, p, g) /\ Held(g) = words
    <3>1. Clean(s, o, h) /\ Held(h) = words
      BY <1>9, <1>11, <2>9
    <3>2. o # <<>> => outer # "cell" /\ ~HasText(t, Last(o))
      <4>1. N + 1 \in DOMAIN t
        BY <1>8
      <4>2. o # <<>> => HoldsIn(t, Last(o), N + 1)
        BY <1>8
      <4> QED
        BY <1>15, <2>1, <2>9, <4>1, <4>2, StraightFacts
    <3>3. o = <<>> => outer = "body"
      BY <1>7 DEF Innermost
    <3>4. outer # "cell"
      BY <3>2, <3>3
    <3>5. h.text = <<>>
      BY <1>9, <3>1, <3>2 DEF Clean
    <3>6. tag = "table" => h.rows = <<>>
      <4>1. tag = "table" => outer \in {"body", "li", "cell", "quote", "figcaption"}
        BY <1>10, InsideFacts
      <4> QED
        BY <1>7, <3>1, <3>4, <4>1 DEF Clean
    <3>7. tag = "tr" => h.row = <<>>
      <4>1. tag = "tr" => outer = "table"
        BY <1>10, InsideFacts
      <4> QED
        BY <1>7, <3>1, <4>1 DEF Clean
    <3>8. Held(g) = Held(h) /\ g.text = <<>>
      BY <2>4, <3>5, <3>6, <3>7 DEF StartMarks
    <3>9. g.cell <=> tag = "cell"
      BY <1>7, <2>4, <3>1, <3>4 DEF StartMarks, Clean
    <3>10. g.rows # <<>> => tag \in {"table", "tr", "cell"}
      <4>1. h.rows # <<>> => outer \in {"table", "tr", "cell"}
        BY <1>7, <3>1 DEF Clean
      <4>2. outer = "table" => tag = "tr"
        BY <1>10, <1>12, InsideFacts
      <4>3. outer = "tr" => tag = "cell"
        BY <1>10, <1>12, InsideFacts
      <4> QED
        BY <2>4, <3>4, <4>1, <4>2, <4>3 DEF StartMarks
    <3>11. g.row # <<>> => tag \in {"tr", "cell"}
      <4>1. h.row # <<>> => outer \in {"tr", "cell"}
        BY <1>7, <3>1 DEF Clean
      <4>2. outer = "tr" => tag = "cell"
        BY <1>10, <1>12, InsideFacts
      <4> QED
        BY <2>4, <3>4, <4>1, <4>2 DEF StartMarks
    <3>12. tag = "li" => SaidBy(Last(g.items)) = <<>>
      BY <2>4, SaidByNone DEF StartMarks
    <3>13. tag \in {"quote", "figcaption"} => g.capture
      BY <2>4 DEF StartMarks
    <3> QED
      BY <2>3, <3>1, <3>8, <3>9, <3>10, <3>11, <3>12, <3>13 DEF Clean
  <2>10. Keeps(t, p, g, words)
    BY <2>3, <2>6, <2>7, <2>8, <2>9, <2>11 DEF Keeps
  <2> QED
    BY <1>1, <1>2, <1>4, <1>5, <1>6, <2>10
<1> QED
  BY <1>17, <1>18

\* An end tag.
LEMMA EndKeeps ==
  ASSUME NEW s, IsSequence(s), NEW e, NEW h, NEW words, Keeps(s, Opens(s)[Len(s)], h, words),
         e.is = "end", Opens(s)[Len(s)] # <<>>
  PROVE  Keeps(Append(s, e), Opens(Append(s, e))[Len(s) + 1],
               EndTag(h, Innermost(s, Opens(s)[Len(s)])), words)
<1>1. PICK t : t = Append(s, e)
  OBVIOUS
<1>2. PICK N \in Nat : N = Len(s)
  BY OneLonger
<1>3. PICK o : o = Opens(s)[N]
  OBVIOUS
<1>4. PICK tag : tag = Innermost(s, o)
  OBVIOUS
<1>5. PICK g : g = EndTag(h, tag)
  OBVIOUS
<1>6. /\ o \in Seq(1..N) /\ DOMAIN s = 1..N /\ DOMAIN t = 1..(N + 1)
      /\ t[N + 1] = e /\ \A n \in 1..N : t[n] = s[n]
      /\ Opens(t)[N + 1] = OpensNext(t, N + 1, o)
  BY <1>1, <1>2, <1>3, EventFacts
<1>7. /\ \A n : HasText(s, n) => HasText(t, n)
      /\ \A n : HasChild(s, n) => HasChild(t, n)
      /\ StraightIn(t) => StraightIn(s)
  BY <1>1, EventFacts
<1>8. Keeps(s, o, h, words) /\ o # <<>> /\ e.is = "end"
  BY <1>2, <1>3
<1>9. /\ Standing(s, o) /\ HtmlShape(h) /\ Marks(h, tag)
      /\ Len(h.items) = ItemsIn(s, o)
      /\ h.cell => \E k \in 1..Len(o) : s[o[k]].tag = "cell"
      /\ h.capture => \E k \in 1..Len(o) : s[o[k]].tag \in {"pre", "block", "quote", "figcaption"}
      /\ Loses(Held(h), words)
      /\ StraightIn(s) => Clean(s, o, h) /\ Held(h) = words
  BY <1>4, <1>8 DEF Keeps
<1>10. PICK X : X = 1..N
  OBVIOUS
<1>11. PICK f \in Seq(X) : f = Front(o)
  BY <1>6, <1>8, <1>10, FrontFacts
<1>12. PICK m \in X : m = Last(o)
  BY <1>6, <1>8, <1>10, FrontFacts
<1>13. o = Append(f, m) /\ o \in Seq(X)
  BY <1>6, <1>8, <1>10, <1>11, <1>12, FrontFacts
<1>14. PICK L \in Nat : L = Len(f)
  BY <1>11
<1>15. Len(o) = L + 1 /\ o[L + 1] = m /\ (\A k \in 1..L : o[k] = f[k])
       /\ \A k \in 1..L : f[k] \in 1..N
  <2>1. Len(o) = L + 1 /\ o[L + 1] = m /\ \A k \in 1..L : o[k] = f[k]
    BY <1>11, <1>12, <1>13, <1>14
  <2>2. \A k \in 1..L : f[k] \in X
    BY <1>11, <1>14
  <2> QED
    BY <1>10, <2>1, <2>2
<1>16. Opens(t)[N + 1] = f
  BY <1>6, <1>8, <1>11 DEF OpensNext
<1>17. PICK outer : outer = Innermost(s, f)
  OBVIOUS
<1>18. /\ IsElement(s, m) /\ tag = s[m].tag /\ tag \in Inside(outer) /\ outer \in Holders
       /\ f # <<>> => HoldsIn(s, Last(f), m)
       /\ \A i \in 1..L : OpenAt(s, f[i], m)
       /\ outer = "body" => f = <<>>
       /\ Standing(s, f)
  <2>1. /\ IsElement(s, m) /\ tag = s[m].tag /\ tag \in Inside(outer) /\ outer \in Holders
        /\ f # <<>> => HoldsIn(s, Last(f), m)
        /\ outer = "body" => f = <<>>
        /\ Standing(s, f)
    BY <1>4, <1>8, <1>9, <1>11, <1>12, <1>13, <1>17, StandingFacts
  <2>2. \A i \in 1..Len(Front(o)) : OpenAt(s, Front(o)[i], Last(o))
    BY <1>8, <1>9, <1>13, StandingFacts
  <2>3. \A i \in 1..L : OpenAt(s, f[i], m)
    BY <1>11, <1>12, <1>14, <2>2, Zenon
  <2> QED
    BY <2>1, <2>3
<1>19. tag \notin Void
  BY <1>18 DEF IsElement
<1>20. ItemsIn(s, o) = ItemsIn(s, f) + (IF tag = "li" THEN 1 ELSE 0) /\ ItemsIn(s, f) \in Nat
  <2>1. tag = s[m].tag
    BY <1>18
  <2> QED
    BY <1>11, <1>12, <1>13, <2>1, ItemsInAppend
<1>21. tag = "li" => h.items # <<>>
  BY <1>9, <1>20
<1>22. EndMarks(g, h, tag, outer)
  BY <1>5, <1>9, <1>18, <1>19, <1>21, TagFacts
<1>23. /\ HtmlShape(g) /\ Marks(g, outer) /\ Loses(Held(g), Held(h))
       /\ Len(h.items) = Len(g.items) + (IF tag = "li" THEN 1 ELSE 0)
       /\ g.cell <=> h.cell /\ tag # "cell"
       /\ g.capture <=> h.capture /\ tag \notin {"pre", "block", "quote", "figcaption"}
  BY <1>22 DEF EndMarks
<1>24. Standing(t, f) /\ Innermost(t, f) = outer
  <2>1. ASSUME NEW k \in 1..L
        PROVE  /\ IsElement(t, f[k])
               /\ t[f[k]].tag \in Inside(IF k = 1 THEN "body" ELSE t[f[k - 1]].tag)
               /\ k > 1 => HoldsIn(t, f[k - 1], f[k])
               /\ \A i \in 1..(k - 1) : OpenAt(t, f[i], f[k])
    <3>1. /\ IsElement(s, f[k])
          /\ s[f[k]].tag \in Inside(IF k = 1 THEN "body" ELSE s[f[k - 1]].tag)
          /\ k > 1 => HoldsIn(s, f[k - 1], f[k])
          /\ \A i \in 1..(k - 1) : OpenAt(s, f[i], f[k])
      BY <1>14, <1>18 DEF Standing
    <3>2. f[k] \in 1..N /\ t[f[k]] = s[f[k]]
      BY <1>6, <1>15
    <3>3. k # 1 => t[f[k - 1]] = s[f[k - 1]]
      <4>1. k # 1 => k - 1 \in 1..L
        OBVIOUS
      <4> QED
        BY <1>6, <1>15, <4>1
    <3>4. \A n : /\ HoldsIn(t, n, f[k]) <=> HoldsIn(s, n, f[k])
                 /\ OpenAt(t, n, f[k]) <=> OpenAt(s, n, f[k])
      BY <1>1, <1>2, <3>2, EventFacts
    <3> QED
      BY <3>1, <3>2, <3>3, <3>4 DEF IsElement
  <2>2. Standing(t, f)
    BY <1>14, <2>1 DEF Standing
  <2>3. f # <<>> => Last(f) \in 1..N
    BY <1>10, <1>11, FrontFacts
  <2>4. Innermost(t, f) = outer
    BY <1>6, <1>17, <2>3 DEF Innermost
  <2> QED
    BY <2>2, <2>4
<1>25. Len(g.items) = ItemsIn(t, f)
  <2>1. ItemsIn(t, f) = ItemsIn(s, f)
    <3>1. \A n \in X : t[n] = s[n]
      BY <1>6, <1>10
    <3> QED
      BY <3>1, ItemsInSame
  <2>2. Len(g.items) \in Nat
    BY <1>23 DEF HtmlShape, OpenItems
  <2>3. PICK n : n = ItemsIn(s, f)
    OBVIOUS
  <2>4. PICK k : k = (IF tag = "li" THEN 1 ELSE 0)
    OBVIOUS
  <2>5. Len(g.items) + k = n + k /\ n \in Nat /\ k \in Nat
    BY <1>9, <1>20, <1>23, <2>3, <2>4
  <2> QED
    BY <2>1, <2>2, <2>3, <2>5
<1>26. g.cell => \E k \in 1..Len(f) : t[f[k]].tag = "cell"
  <2>1. SUFFICES ASSUME g.cell PROVE \E k \in 1..Len(f) : t[f[k]].tag = "cell"
    OBVIOUS
  <2>2. h.cell /\ tag # "cell"
    BY <1>23, <2>1
  <2>3. PICK k \in 1..(L + 1) : s[o[k]].tag = "cell"
    BY <1>9, <1>15, <2>2
  <2>4. k # L + 1
    BY <1>15, <1>18, <2>2, <2>3
  <2>5. k \in 1..L
    BY <2>4
  <2>6. t[f[k]].tag = "cell"
    BY <1>6, <1>15, <2>3, <2>5
  <2> QED
    BY <1>14, <2>5, <2>6
<1>30. g.capture => \E k \in 1..Len(f) : t[f[k]].tag \in {"pre", "block", "quote", "figcaption"}
  <2>1. SUFFICES ASSUME g.capture
                 PROVE  \E k \in 1..Len(f) : t[f[k]].tag \in {"pre", "block", "quote", "figcaption"}
    OBVIOUS
  <2>2. h.capture /\ tag \notin {"pre", "block", "quote", "figcaption"}
    BY <1>23, <2>1
  <2>3. PICK k \in 1..(L + 1) : s[o[k]].tag \in {"pre", "block", "quote", "figcaption"}
    BY <1>9, <1>15, <2>2
  <2>4. k # L + 1
    BY <1>15, <1>18, <2>2, <2>3
  <2>5. k \in 1..L
    BY <2>4
  <2>6. t[f[k]].tag = s[o[k]].tag
    BY <1>6, <1>15, <2>5
  <2> QED
    BY <1>14, <2>3, <2>5, <2>6
<1>27. Loses(Held(g), words)
  BY <1>9, <1>23, LosesOrder
<1>28. ASSUME StraightIn(t) PROVE Clean(t, f, g) /\ Held(g) = words
  <2>1. StraightIn(s) /\ Clean(s, o, h) /\ Held(h) = words
    BY <1>7, <1>9, <1>28
  <2>2. /\ h.text # <<>> => HasText(s, m) /\ tag \notin {"list", "table", "tr", "ignored"}
        /\ h.cell <=> tag = "cell"
        /\ h.rows # <<>> => tag \in {"table", "tr", "cell"}
        /\ h.row # <<>> => tag \in {"tr", "cell"}
        /\ tag = "li" /\ SaidBy(Last(h.items)) # <<>> => HasChild(s, m)
    BY <1>4, <1>12, <2>1 DEF Clean
  <2>3. f # <<>> => outer # "cell" /\ HasChild(t, Last(f))
    <3>1. SUFFICES ASSUME f # <<>> PROVE outer # "cell" /\ HasChild(t, Last(f))
      OBVIOUS
    <3>2. PICK n \in X : n = Last(f)
      BY <1>11, <3>1, FrontFacts
    <3>3. IsElement(s, n) /\ s[n].tag = outer
      BY <1>11, <1>17, <1>18, <3>1, <3>2, StandingFacts
    <3>4. n \in DOMAIN s /\ m \in DOMAIN s /\ HoldsIn(s, n, m) /\ IsElement(s, m) /\ s[n].is = "start"
      BY <1>6, <1>10, <1>18, <3>1, <3>2, <3>3 DEF IsElement
    <3>5. s[n].tag # "cell" /\ HasChild(s, n)
      BY <2>1, <3>4, StraightFacts
    <3> QED
      BY <1>7, <1>18, <3>2, <3>3, <3>5
  <2>4. f = <<>> => outer = "body"
    BY <1>17 DEF Innermost
  <2>5. g.text = <<>>
    BY <1>22, <2>2 DEF EndMarks
  <2>6. ~g.cell /\ outer # "cell"
    BY <1>23, <2>2, <2>3, <2>4
  <2>7. g.rows # <<>> => outer \in {"table", "tr", "cell"}
    <3>1. (tag = "tr" => outer = "table") /\ (tag = "cell" => outer = "tr")
      BY <1>18, InsideFacts
    <3> QED
      BY <1>22, <2>2, <3>1 DEF EndMarks
  <2>8. g.row # <<>> => outer \in {"tr", "cell"}
    <3>1. tag = "cell" => outer = "tr"
      BY <1>18, InsideFacts
    <3> QED
      BY <1>22, <2>2, <3>1 DEF EndMarks
  <2>9. outer \in {"li", "quote", "figcaption"} => HasChild(t, Last(f))
    BY <2>3, <2>4
  <2>10. Clean(t, f, g)
    BY <1>24, <2>5, <2>6, <2>7, <2>8, <2>9 DEF Clean
  <2>11. tag \in Heading => h.items = <<>>
    <3>1. SUFFICES ASSUME tag \in Heading PROVE h.items = <<>>
      OBVIOUS
    <3>2. tag # "li"
      BY <3>1 DEF Heading
    <3>3. ASSUME NEW k \in 1..L PROVE s[f[k]].tag # "li"
      <4>1. OpenAt(s, f[k], m) /\ f[k] \in DOMAIN s /\ m \in DOMAIN s
        BY <1>6, <1>10, <1>15, <1>18
      <4>2. IsElement(s, f[k])
        BY <1>14, <1>18 DEF Standing
      <4>3. s[m].tag \in Heading
        BY <1>18, <3>1
      <4> QED
        BY <1>18, <2>1, <4>1, <4>2, <4>3, StraightFacts DEF IsElement
    <3>4. ItemsIn(s, f) = 0
      <4>1. {k \in 1..Len(f) : s[f[k]].tag = "li"} = {}
        BY <1>14, <3>3
      <4> QED
        BY <4>1, FS_EmptySet, Zenon DEF ItemsIn
    <3>5. Len(h.items) = 0
      BY <1>9, <1>20, <3>2, <3>4
    <3> QED
      BY <1>9, <3>5 DEF HtmlShape, OpenItems
  <2>12. tag = "li" => h.text = <<>> \/ SaidBy(Last(h.items)) = <<>>
    <3>1. SUFFICES ASSUME tag = "li", HasText(s, m), HasChild(s, m) PROVE FALSE
      BY <2>2
    <3>2. PICK k \in DOMAIN s : HoldsIn(s, m, k) /\ IsElement(s, k)
      BY <3>1 DEF HasChild
    <3>3. m \in DOMAIN s /\ s[m].is = "start" /\ s[m].tag = "li"
      BY <1>6, <1>10, <1>18, <3>1 DEF IsElement
    <3>4. ~HasText(s, m)
      BY <2>1, <3>2, <3>3, StraightFacts
    <3> QED
      BY <3>1, <3>4
  <2>13. Held(g) = Held(h)
    BY <1>22, <2>2, <2>11, <2>12 DEF EndMarks
  <2> QED
    BY <2>1, <2>10, <2>13
<1>29. Keeps(t, f, g, words)
  BY <1>23, <1>24, <1>25, <1>26, <1>27, <1>28, <1>30 DEF Keeps
<1> QED
  BY <1>1, <1>2, <1>3, <1>4, <1>5, <1>16, <1>29

\* A text, which is one of the words where it does not stand outside of all elements, in
\* the title or in what is ignored.
LEMMA DataKeeps ==
  ASSUME NEW s, IsSequence(s), NEW e, NEW h, NEW words \in Seq(Nat), NEW more,
         Keeps(s, Opens(s)[Len(s)], h, words), e.is = "data",
         Innermost(s, Opens(s)[Len(s)]) \notin {"list", "table", "tr"},
         more = IF Innermost(s, Opens(s)[Len(s)]) \in {"body", "title", "ignored"} THEN words
                ELSE words ++ <<Len(s) + 1>>
  PROVE  Keeps(Append(s, e), Opens(Append(s, e))[Len(s) + 1], TextData(h, Len(s) + 1), more)
<1>1. PICK t : t = Append(s, e)
  OBVIOUS
<1>2. PICK N \in Nat : N = Len(s)
  BY OneLonger
<1>3. PICK o : o = Opens(s)[N]
  OBVIOUS
<1>4. PICK inner : inner = Innermost(s, o)
  OBVIOUS
<1>5. PICK g : g = TextData(h, N + 1)
  OBVIOUS
<1>6. /\ o \in Seq(1..N) /\ DOMAIN s = 1..N /\ DOMAIN t = 1..(N + 1)
      /\ t[N + 1] = e /\ \A n \in 1..N : t[n] = s[n]
      /\ Opens(t)[N + 1] = OpensNext(t, N + 1, o)
      /\ \A n : HoldsIn(t, n, N + 1) <=> o # <<>> /\ Last(o) = n
  BY <1>1, <1>2, <1>3, EventFacts
<1>7. /\ \A n : HasText(s, n) => HasText(t, n)
      /\ \A n : HasChild(s, n) => HasChild(t, n)
      /\ StraightIn(t) => StraightIn(s)
  BY <1>1, EventFacts
<1>8. /\ Keeps(s, o, h, words) /\ e.is = "data" /\ inner \notin {"list", "table", "tr"}
      /\ more = IF inner \in {"body", "title", "ignored"} THEN words ELSE words ++ <<N + 1>>
  BY <1>2, <1>3, <1>4
<1>9. /\ Standing(s, o) /\ HtmlShape(h) /\ Marks(h, inner)
      /\ Len(h.items) = ItemsIn(s, o)
      /\ h.cell => \E k \in 1..Len(o) : s[o[k]].tag = "cell"
      /\ h.capture => \E k \in 1..Len(o) : s[o[k]].tag \in {"pre", "block", "quote", "figcaption"}
      /\ Loses(Held(h), words)
      /\ StraightIn(s) => Clean(s, o, h) /\ Held(h) = words
  BY <1>4, <1>8 DEF Keeps
<1>10. Opens(t)[N + 1] = o
  BY <1>6, <1>8 DEF OpensNext
<1>11. Standing(t, o) /\ Innermost(t, o) = inner
  BY <1>1, <1>2, <1>3, <1>4, <1>9, StandingNext
<1>12. inner \in {"body", "title", "ignored", "pre", "block", "quote", "figcaption", "h1", "h2", "li",
                  "cell"}
       /\ (inner = "body" <=> o = <<>>)
  <2>1. CASE o = <<>>
    BY <1>4, <2>1 DEF Innermost
  <2>2. CASE o # <<>>
    <3>0. PICK outer : outer = Innermost(s, Front(o))
      OBVIOUS
    <3>1. IsElement(s, Last(o)) /\ inner = s[Last(o)].tag /\ inner \in Inside(outer) /\ outer \in Holders
      BY <1>4, <1>6, <1>9, <2>2, <3>0, StandingFacts
    <3>2. inner \notin Void
      BY <3>1 DEF IsElement
    <3>3. inner \in {"h1", "h2", "title", "meta", "pre", "figcaption", "ignored", "quote",
                     "block", "list", "table", "li", "tr", "cell", "img"}
      BY <3>1, InsideFacts
    <3> QED
      BY <1>8, <2>2, <3>2, <3>3 DEF Void
  <2> QED
    BY <2>1, <2>2
<1>13. inner = "li" => h.items # <<>>
  <2>1. SUFFICES ASSUME inner = "li" PROVE ItemsIn(s, o) # 0
    BY <1>9
  <2>2. o # <<>>
    BY <1>12, <2>1
  <2>3. PICK X : X = 1..N
    OBVIOUS
  <2>4. o \in Seq(X)
    BY <1>6, <2>3
  <2>5. PICK f \in Seq(X) : f = Front(o)
    BY <2>4, FrontFacts
  <2>6. PICK m \in X : m = Last(o)
    BY <2>2, <2>4, FrontFacts
  <2>7. o = Append(f, m)
    BY <2>2, <2>4, <2>5, <2>6, FrontFacts
  <2>8. s[m].tag = "li"
    BY <1>4, <2>1, <2>2, <2>6 DEF Innermost
  <2>9. ItemsIn(s, o) = ItemsIn(s, f) + 1 /\ ItemsIn(s, f) \in Nat
    BY <2>7, <2>8, ItemsInAppend
  <2> QED
    BY <2>9
<1>14. PICK read \in BOOLEAN : read <=> h.skip = 0 /\ Captures(h)
  BY Zenon
<1>15. PICK one \in Seq(Nat) : one = <<N + 1>>
  <2>1. PICK word \in Nat : word = N + 1
    OBVIOUS
  <2>2. <<word>> \in Seq(Nat)
    OBVIOUS
  <2> QED
    BY <2>1, <2>2
<1>16. /\ HtmlShape(g) /\ Marks(g, inner) /\ g.cell = h.cell /\ g.items = h.items
       /\ g.rows = h.rows /\ g.row = h.row /\ g.capture = h.capture
       /\ ~read => g = h
       /\ read /\ inner # "title" => Held(g) = Held(h) ++ one
       /\ read /\ inner = "title" => Held(g) = Held(h)
  <2>1. N + 1 \in Nat
    OBVIOUS
  <2> QED
    BY <1>5, <1>9, <1>14, <1>15, <2>1, DataFacts
<1>17. inner \in {"body", "ignored"} => ~read
  <2>1. CASE inner = "ignored"
    <3>1. h.skip = 1
      BY <1>9, <2>1 DEF Marks
    <3> QED
      BY <1>14, <3>1
  <2>2. CASE inner = "body"
    <3>1. o = <<>> /\ Len(o) = 0
      BY <1>12, <2>2
    <3>2. ~h.cell /\ ~h.capture
      BY <1>9, <3>1
    <3>3. ItemsIn(s, o) = 0
      <4>1. ItemsIn(s, <<>>) = 0
        <5>1. <<>> \in Seq(Nat) /\ 0 \in Nat
          OBVIOUS
        <5> QED
          BY <5>1, ItemsInAppend
      <4> QED
        BY <3>1, <4>1
    <3>4. h.items = <<>>
      BY <1>9, <3>3 DEF HtmlShape, OpenItems
    <3>5. ~h.inTitle /\ ~(h.level > 0)
      BY <1>9, <2>2 DEF Marks, Heading
    <3> QED
      BY <1>14, <3>2, <3>4, <3>5 DEF Captures
  <2> QED
    BY <2>1, <2>2
<1>18. /\ inner \in {"pre", "block", "h1", "h2", "li"} => read
       /\ inner = "cell" /\ h.cell => read
       /\ inner \in {"quote", "figcaption"} /\ h.capture => read
  <2>1. inner # "ignored" => h.skip = 0
    BY <1>9 DEF Marks
  <2>2. inner \in {"pre", "block"} => h.capture
    BY <1>9 DEF Marks
  <2>3. inner \in {"h1", "h2"} => h.level > 0
    BY <1>9 DEF Marks, Heading
  <2> QED
    BY <1>13, <1>14, <2>1, <2>2, <2>3 DEF Captures
<1>19. Held(h) \in Seq(Nat)
  BY <1>9, HeldFacts
<1>20. Loses(Held(g), more)
  <2>1. CASE inner \in {"body", "title", "ignored"}
    BY <1>8, <1>9, <1>16, <1>17, <2>1
  <2>2. CASE inner \notin {"body", "title", "ignored"}
    <3>1. more = words ++ one
      BY <1>8, <1>15, <2>2
    <3>2. PICK held \in Seq(Nat) : held = Held(h)
      BY <1>19
    <3>3. Loses(held ++ one, words ++ one) /\ Loses(held, words ++ one)
      <4>1. Loses(held, words)
        BY <1>9, <3>2
      <4> QED
        BY <4>1, LosesPart, LosesOrder
    <3> QED
      BY <1>16, <2>2, <3>1, <3>2, <3>3
  <2> QED
    BY <2>1, <2>2
<1>21. ASSUME StraightIn(t) PROVE Clean(t, o, g) /\ Held(g) = more
  <2>1. Clean(s, o, h) /\ Held(h) = words
    BY <1>7, <1>9, <1>21
  <2>2. /\ h.text # <<>> => o # <<>> /\ inner \notin {"list", "table", "tr", "ignored"}
        /\ h.cell <=> inner = "cell"
        /\ h.rows # <<>> => inner \in {"table", "tr", "cell"}
        /\ h.row # <<>> => inner \in {"tr", "cell"}
        /\ inner = "li" /\ SaidBy(Last(h.items)) # <<>> => HasChild(s, Last(o))
        /\ inner \in {"quote", "figcaption"} => h.capture \/ HasChild(s, Last(o))
    BY <1>4, <2>1 DEF Clean
  <2>3. o # <<>> => HasText(t, Last(o))
    <3>1. N + 1 \in DOMAIN t
      BY <1>6
    <3> QED
      BY <1>6, <1>8, <3>1 DEF HasText
  <2>7. o # <<>> => ~HasChild(t, Last(o))
    <3>1. SUFFICES ASSUME o # <<>>, HasChild(t, Last(o)) PROVE FALSE
      OBVIOUS
    <3>2. PICK m \in DOMAIN t : HoldsIn(t, Last(o), m) /\ IsElement(t, m)
      BY <3>1 DEF HasChild
    <3>3. Last(o) \in 1..N
      BY <1>6, <3>1, FrontFacts
    <3>4. IsElement(t, Last(o))
      BY <1>6, <1>11, <3>1, StandingFacts
    <3>5. Last(o) \in DOMAIN t /\ t[Last(o)].is = "start"
      BY <1>6, <3>3, <3>4 DEF IsElement
    <3>6. HasText(t, Last(o))
      BY <2>3, <3>1
    <3> QED
      BY <1>21, <3>2, <3>5, <3>6, StraightFacts
  <2>8. inner \in {"quote", "figcaption"} => h.capture
    BY <1>7, <1>12, <2>2, <2>7
  <2>4. g.text # <<>> => o # <<>> /\ inner \notin {"list", "table", "tr", "ignored"}
    BY <1>8, <1>12, <1>16, <1>17, <2>2
  <2>5. Clean(t, o, g)
    BY <1>7, <1>11, <1>16, <2>2, <2>3, <2>4 DEF Clean
  <2>6. Held(g) = more
    BY <1>8, <1>12, <1>15, <1>16, <1>17, <1>18, <2>1, <2>2, <2>8
  <2> QED
    BY <2>5, <2>6
<1>22. Len(g.items) = ItemsIn(t, o)
  <2>1. ItemsIn(t, o) = ItemsIn(s, o)
    BY <1>6, ItemsInSame
  <2> QED
    BY <1>9, <1>16, <2>1
<1>23. /\ g.cell => \E k \in 1..Len(o) : t[o[k]].tag = "cell"
       /\ g.capture => \E k \in 1..Len(o) : t[o[k]].tag \in {"pre", "block", "quote", "figcaption"}
  <2>1. \A k \in 1..Len(o) : o[k] \in 1..N
    BY <1>6
  <2> QED
    BY <1>6, <1>9, <1>16, <2>1
<1>24. Keeps(t, o, g, more)
  BY <1>11, <1>16, <1>20, <1>21, <1>22, <1>23 DEF Keeps
<1> QED
  BY <1>1, <1>2, <1>5, <1>10, <1>24

\* A text stands in the title or in what is ignored only if that is the innermost element.
LEMMA AroundFacts ==
  ASSUME NEW s, NEW X, NEW o \in Seq(X), Standing(s, o)
  PROVE  {s[n].tag : n \in Range(o)} \cap {"title", "ignored"} = {}
           <=> Innermost(s, o) \notin {"title", "ignored"}
<1>1. PICK L \in Nat : L = Len(o)
  OBVIOUS
<1>2. Range(o) = {o[k] : k \in 1..L}
  <2>1. DOMAIN o = 1..L
    BY <1>1
  <2> QED
    BY <2>1 DEF Range
<1>3. CASE o = <<>>
  <2>1. 1..L = {}
    BY <1>1, <1>3
  <2>2. Innermost(s, o) = "body"
    BY <1>3 DEF Innermost
  <2> QED
    BY <1>2, <2>1, <2>2
<1>4. CASE o # <<>>
  <2>1. L \in 1..L /\ Last(o) = o[L] /\ Innermost(s, o) = s[o[L]].tag
    BY <1>1, <1>4 DEF Last, Innermost
  <2>2. ASSUME NEW k \in 1..L, s[o[k]].tag \in {"title", "ignored"} PROVE k = L
    <3>1. SUFFICES ASSUME k # L PROVE FALSE
      OBVIOUS
    <3>2. k + 1 \in 1..Len(o) /\ k + 1 # 1 /\ (k + 1) - 1 = k
      BY <1>1, <3>1
    <3>3. s[o[k + 1]].tag \in Inside(s[o[k]].tag)
      BY <3>2, Zenon DEF Standing
    <3>4. s[o[k]].tag \in Holders
      BY <3>3, InsideFacts
    <3> QED
      BY <2>2, <3>4 DEF Holders
  <2> QED
    BY <1>2, <2>1, <2>2
<1> QED
  BY <1>3, <1>4

\* A parser that has read nothing holds nothing, and no element is open.
LEMMA HtmlStartKeeps == Keeps(<<>>, <<>>, HtmlStart, <<>>)
<1>1. PICK h : h = HtmlStart
  OBVIOUS
<1>2. /\ DOMAIN h = Registers /\ h.tree = EmptyTree /\ h.skip = 0 /\ h.text = <<>>
      /\ h.capture = FALSE /\ h.inTitle = FALSE /\ h.level = 0 /\ h.lists = <<>> /\ h.items = <<>>
      /\ h.rows = <<>> /\ h.row = <<>> /\ h.cell = FALSE
  BY <1>1 DEF HtmlStart, Registers
<1>3. Said(h.tree) = <<>> /\ Tells(h.tree, Said(h.tree))
  <2>1. Said(h.tree) = <<>>
    BY <1>2, EmptyTreeTells DEF Tells
  <2> QED
    BY <1>2, <2>1, EmptyTreeTells
<1>4. <<>> \in Seq(Nat) /\ <<>> \in Seq(Seq(Nat)) /\ <<>> \in Seq(Seq(Seq(Nat)))
      /\ <<>> \in Lists /\ <<>> \in OpenItems /\ Len(<<>>) = 0
  BY DEF Lists, OpenItems
<1>5. HtmlShape(h)
  <2>1. h.rows \in Seq(Seq(Seq(Nat))) /\ h.row \in Seq(Seq(Nat)) /\ h.text \in Seq(Nat)
        /\ h.lists \in Lists /\ h.items \in OpenItems
    BY <1>2, <1>4, Zenon
  <2>2. h.capture \in BOOLEAN /\ h.inTitle \in BOOLEAN /\ h.cell \in BOOLEAN
    BY <1>2, Zenon
  <2>3. h.skip \in Nat /\ h.level \in Nat
    <3>1. h.skip = 0 /\ h.level = 0
      BY <1>2, Zenon
    <3> QED
      BY <3>1
  <2> QED
    BY <1>2, <1>3, <2>1, <2>2, <2>3, Zenon DEF HtmlShape
<1>6. Innermost(<<>>, <<>>) = "body"
  BY DEF Innermost
<1>7. Marks(h, "body")
  BY <1>2, <1>4 DEF Marks, Heading
<1>8. ItemsIn(<<>>, <<>>) = 0
  BY <1>4, ItemsInAppend
<1>9. Held(h) = <<>>
  <2>1. Contents(h.lists, h.items, Len(h.lists)) = <<>>
    <3>1. Len(h.lists) = 0 /\ h.lists \in Lists /\ h.items \in OpenItems
      BY <1>2, <1>4
    <3> QED
      BY <3>1, ContentsFacts
  <2>2. <<>> ++ <<>> = <<>>
    BY <1>4, Joins
  <2>3. Written(h) = <<>>
    BY <1>3, <2>1, <2>2 DEF Written
  <2>4. RowsSay(h) = <<>> /\ RowSays(h) = <<>> /\ TextSays(h) = <<>>
    BY <1>2, FlattenEmpty DEF RowsSay, RowSays, TextSays
  <2> QED
    BY <1>4, <2>3, <2>4, HoldingAlone DEF Held
<1>10. Standing(<<>>, <<>>)
  BY DEF Standing
<1>11. Loses(<<>>, <<>>)
  BY <1>4, LosesOrder
<1>12. Clean(<<>>, <<>>, h)
  BY <1>2, <1>6 DEF Clean
<1> QED
  BY <1>1, <1>2, <1>4, <1>5, <1>6, <1>7, <1>8, <1>9, <1>10, <1>11, <1>12 DEF Keeps

\* At the end of the page no element is open, and the tree holds the words.
LEMMA HtmlEndKeeps ==
  ASSUME NEW s, NEW h, NEW words, Keeps(s, <<>>, h, words)
  PROVE  /\ Loses(Said(HtmlEnd(h).tree), words)
         /\ StraightIn(s) => Said(HtmlEnd(h).tree) = words
<1>1. Innermost(s, <<>>) = "body"
  BY DEF Innermost
<1>2. /\ HtmlShape(h) /\ Marks(h, "body") /\ Len(h.items) = ItemsIn(s, <<>>)
      /\ Loses(Held(h), words)
      /\ StraightIn(s) => Clean(s, <<>>, h) /\ Held(h) = words
  BY <1>1 DEF Keeps
<1>3. PICK said \in Seq(Nat) : said = Said(h.tree)
  BY <1>2, HeldFacts
<1>4. Said(HtmlEnd(h).tree) = said
  <2>1. HtmlEnd(h).tree = Rooted(h.tree)
    BY <1>2 DEF HtmlEnd, HtmlShape, Registers
  <2>2. Tells(h.tree, said)
    BY <1>2, <1>3 DEF HtmlShape
  <2>3. Tells(Rooted(h.tree), said)
    BY <2>2, WithCurrentTells
  <2> QED
    BY <2>1, <2>3 DEF Tells
<1>5. Written(h) = said
  <2>1. ItemsIn(s, <<>>) = 0
    <3>1. <<>> \in Seq(Nat) /\ 0 \in Nat
      OBVIOUS
    <3> QED
      BY <3>1, ItemsInAppend
  <2>2. Len(h.lists) = 0
    BY <1>2, <2>1 DEF Marks
  <2>3. h.lists \in Lists /\ h.items \in OpenItems
    BY <1>2 DEF HtmlShape
  <2>4. Contents(h.lists, h.items, Len(h.lists)) = <<>>
    BY <2>2, <2>3, ContentsFacts
  <2>5. said ++ <<>> = said
    BY Joins
  <2> QED
    BY <1>3, <2>4, <2>5 DEF Written
<1>6. PICK r \in Seq(Nat) : r = RowsSay(h)
  BY <1>2, HeldFacts
<1>7. PICK q \in Seq(Nat) : q = RowSays(h)
  BY <1>2, HeldFacts
<1>8. PICK text \in Seq(Nat) : text = TextSays(h)
  BY <1>2, HeldFacts
<1>9. Held(h) = Holding(said, r, q, text)
  BY <1>5, <1>6, <1>7, <1>8 DEF Held
<1>10. Loses(said, words)
  <2>1. PICK rest : rest = r ++ (q ++ text)
    OBVIOUS
  <2>2. q ++ text \in Seq(Nat)
    BY Joins
  <2>3. rest \in Seq(Nat)
    BY <2>1, <2>2, Joins
  <2>4. Loses(rest, rest)
    BY <2>3, LosesOrder
  <2>5. Loses(said, said ++ rest)
    BY <2>4, LosesPart
  <2>6. Loses(said, Held(h))
    BY <1>9, <2>1, <2>5 DEF Holding
  <2> QED
    BY <1>2, <2>6, LosesOrder
<1>11. ASSUME StraightIn(s) PROVE said = words
  <2>1. h.text = <<>> /\ h.rows = <<>> /\ h.row = <<>>
    BY <1>1, <1>2, <1>11 DEF Clean
  <2>2. r = <<>> /\ q = <<>> /\ text = <<>>
    BY <1>6, <1>7, <1>8, <2>1, FlattenEmpty DEF RowsSay, RowSays, TextSays
  <2>3. Held(h) = said
    BY <1>9, <2>2, HoldingAlone
  <2> QED
    BY <1>2, <1>11, <2>3
<1> QED
  BY <1>4, <1>10, <1>11

-----------------------------------------------------------------------------
(* WordsKept *)

\* A reader tells the words of the source, some of which are still to be written.
Telling ==
  /\ format \in {"markdown", "text", "notebook"} => TellsLines(reader, Spoken)
  /\ format = "text" => ~reader.fenced
  /\ format = "notebook" /\ ~InMarkdownCell => reader.para = <<>> /\ reader.code = <<>>
  /\ format = "docx" => TellsList(reader, Spoken)
  /\ format = "pdf" => TellsPages(reader, Spoken)
  /\ format = "html" => Keeps(source, Opens(source)[Len(source)], reader, Spoken)

WordsInv ==
  /\ format \in Formats /\ IsSequence(source)
  /\ ~done => Telling
  /\ done => /\ Loses(Said(reader.tree), Spoken)
             /\ Straight => Said(reader.tree) = Spoken

\* A source that has been given no event says nothing.
LEMMA WordsInitially == Init => WordsInv
<1> SUFFICES ASSUME Init PROVE WordsInv
  OBVIOUS
<1>1. format \in Formats /\ source = <<>> /\ reader = Start[format] /\ done = FALSE
  BY DEF Init
<1>2. IsSequence(source) /\ Len(source) = 0
  BY <1>1 DEF IsSequence
<1>3. Spoken = <<>>
  <2>1. Spoken \in Seq(Nat) /\ Range(Spoken) \subseteq 1..Len(source)
    BY <1>2, SpokenFacts
  <2>2. Range(Spoken) = {}
    BY <1>2, <2>1
  <2>3. PICK s \in Seq(Nat) : s = Spoken
    BY <2>1
  <2>4. DOMAIN s = {}
    BY <2>2, <2>3 DEF Range
  <2> QED
    BY <2>3, <2>4
<1>4. <<>> \in Seq(Nat) /\ <<>> \o (<<>> \o <<>>) = <<>>
  OBVIOUS
<1>5. CASE format \in {"markdown", "text", "notebook"}
  <2>1. /\ {"tree", "para", "code", "fenced"} \subseteq DOMAIN reader
        /\ reader.para = <<>> /\ reader.code = <<>> /\ reader.fenced = FALSE
        /\ reader.tree = IF format = "text" THEN WithCurrent(EmptyTree) ELSE EmptyTree
    BY <1>1, <1>5 DEF Start, Reading, TextStart, NotebookStart
  <2>2. Tells(reader.tree, <<>>)
    BY <2>1, EmptyTreeTells, WithCurrentTells
  <2>3. TellsLines(reader, Spoken)
    BY <1>3, <1>4, <2>1, <2>2 DEF TellsLines
  <2> QED
    BY <1>1, <1>2, <1>5, <2>1, <2>3 DEF WordsInv, Telling
<1>6. CASE format = "docx"
  <2>1. /\ {"tree", "list", "num", "title"} \subseteq DOMAIN reader /\ reader.list = <<>>
        /\ reader.tree = EmptyTree
    BY <1>1, <1>6 DEF Start, DocxStart
  <2>2. TellsList(reader, Spoken)
    BY <1>3, <2>1, EmptyTreeTells, ListTold
  <2> QED
    BY <1>1, <1>2, <1>6, <2>2 DEF WordsInv, Telling
<1>7. CASE format = "pdf"
  <2>1. /\ {"tree", "page", "seen", "written", "images", "unread"} \subseteq DOMAIN reader
        /\ Tells(reader.tree, <<>>)
    BY <1>1, <1>7, EmptyTreeTells, WithCurrentTells DEF Start, PdfStart
  <2> QED
    BY <1>1, <1>2, <1>3, <1>7, <2>1 DEF WordsInv, Telling, TellsPages
<1>8. CASE format = "html"
  <2>1. reader = HtmlStart
    BY <1>1, <1>8 DEF Start
  <2>2. Opens(source)[Len(source)] = <<>>
    BY <1>2, OpensFacts
  <2> QED
    BY <1>1, <1>2, <1>3, <1>8, <2>1, <2>2, HtmlStartKeeps DEF WordsInv, Telling
<1> QED
  BY <1>1, <1>5, <1>6, <1>7, <1>8 DEF Formats

\* The open elements, and whether a page is straight, of the source that is read.
LEMMA Views ==
  /\ Open = Opens(source)
  /\ InnerTag = Innermost(source, Opens(source)[Len(source)])
  /\ Straight <=> (format = "html" => StraightIn(source))
<1>1. Open = Opens(source)
  BY DEF Open, Opens
<1>2. InnerTag = Innermost(source, Opens(source)[Len(source)])
  BY <1>1, Zenon DEF InnerTag, Innermost
<1>3. ASSUME NEW n, NEW m PROVE Holds(n, m) <=> HoldsIn(source, n, m)
  BY <1>1, Zenon DEF Holds, HoldsIn
<1>4. ASSUME NEW n PROVE Mixed(n) <=> MixedIn(source, n)
  <2>1. HoldsText(n) <=> HasText(source, n)
    BY <1>3 DEF HoldsText, HasText
  <2>2. ASSUME NEW m PROVE n \in Range(Open[m - 1]) <=> OpenAt(source, n, m)
    BY <1>1, Zenon DEF OpenAt
  <2> QED
    BY <1>3, <2>1, <2>2, Zenon DEF Mixed, MixedIn, IsElement
<1>5. Straight <=> (format = "html" => StraightIn(source))
  BY <1>4, Zenon DEF Straight, StraightIn
<1> QED
  BY <1>1, <1>2, <1>5

\* They are the same of the same source.
LEMMA SpokenSame ==
  ASSUME UNCHANGED <<format, source>>
  PROVE  Spoken' = Spoken /\ (Straight' <=> Straight) /\ (InMarkdownCell' <=> InMarkdownCell)
<1>1. Open' = Open
  BY Zenon DEF Open
<1>2. \A n : Speaks(n)' <=> Speaks(n)
  BY <1>1 DEF Speaks, Around
<1>3. {n \in DOMAIN source : Speaks(n)}' = {n \in DOMAIN source : Speaks(n)}
  BY <1>2
<1>4. Spoken' = Spoken
  BY <1>3, Zenon DEF Spoken
<1>5. Straight' <=> Straight
  <2>1. \A n, m : Holds(n, m)' <=> Holds(n, m)
    BY <1>1 DEF Holds
  <2>2. \A n : HoldsText(n)' <=> HoldsText(n)
    BY <2>1 DEF HoldsText
  <2>3. \A n : Mixed(n)' <=> Mixed(n)
    BY <1>1, <2>1, <2>2, Zenon DEF Mixed
  <2> QED
    BY <2>3 DEF Straight
<1>6. InMarkdownCell' <=> InMarkdownCell
  BY DEF InMarkdownCell
<1> QED
  BY <1>4, <1>5, <1>6

\* An event is read: it is the last of the source, and a word if it says one.
LEMMA ReadFacts ==
  ASSUME WordsInv, NEW f, NEW e, Reads(f, e), NEW word, word = Word
  PROVE  /\ format = f /\ format' = f /\ Telling
         /\ IsSequence(source) /\ source' = Append(source, e) /\ source'[word] = e
         /\ Len(source) \in Nat /\ word = Len(source) + 1 /\ word \in Nat /\ Len(source') = word
         /\ InMarkdownCell' <=> e.is \in {"text", "blank", "spaces", "fence", "heading"}
         /\ Spoken \in Seq(Nat)
         /\ Spoken' = IF Speaks(word)' THEN Append(Spoken, word) ELSE Spoken
         /\ Telling' => WordsInv'
<1>1. /\ ~done /\ format = f /\ source' = Append(source, e) /\ format' = format /\ done' = done
  BY DEF Reads
<1>2. IsSequence(source) /\ format \in Formats /\ Telling
  BY <1>1 DEF WordsInv
<1>3. word = Len(source) + 1
  BY DEF Word
<1>4. PICK t : t = Append(source, e)
  OBVIOUS
<1>5. IsSequence(t) /\ Len(source) \in Nat /\ Len(t) = Len(source) + 1 /\ t[Len(source) + 1] = e
      /\ DOMAIN t = 1..Len(t)
  <2>1. IsSequence(t) /\ Len(source) \in Nat /\ Len(t) = Len(source) + 1 /\ t[Len(source) + 1] = e
    BY <1>2, <1>4, OneLonger
  <2> QED
    BY <2>1, OneLonger
<1>6. word \in Nat /\ t # <<>> /\ Last(t) = e
  <2>1. t # <<>>
    BY <1>5
  <2> QED
    BY <1>3, <1>5, <2>1 DEF Last
<1>7. InMarkdownCell' <=> e.is \in {"text", "blank", "spaces", "fence", "heading"}
  BY <1>1, <1>4, <1>6 DEF InMarkdownCell
<1>8. Spoken \in Seq(Nat)
  BY <1>2, SpokenFacts
<1>9. Spoken' = IF Speaks(word)' THEN Append(Spoken, word) ELSE Spoken
  BY <1>1, <1>2, <1>3, SpokenNext
<1>10. ASSUME Telling' PROVE WordsInv'
  BY <1>1, <1>2, <1>4, <1>5, <1>10 DEF WordsInv
<1> QED
  BY <1>1, <1>2, <1>3, <1>4, <1>5, <1>6, <1>7, <1>8, <1>9, <1>10

\* What a line is.
LEMMA LineFacts ==
  ASSUME NEW line \in Lines
  PROVE  /\ line.is \in {"text", "blank", "spaces", "fence", "heading"}
         /\ line \in PlainLines => line.is \in {"text", "blank", "spaces"}
  BY DEF Lines, PlainLines, Line

\* The formats that are read line by line.
LEMMA LinesStep ==
  ASSUME WordsInv, ReadMarkdown \/ ReadText \/ ReadCellLine
  PROVE  WordsInv'
<1>1. CASE ReadMarkdown
  <2>1. PICK line \in Lines : Reads("markdown", line) /\ reader' = MarkdownLine(reader, line, Word)
    BY <1>1 DEF ReadMarkdown
  <2>2. PICK word : word = Word
    OBVIOUS
  <2>3. /\ format = "markdown" /\ format' = "markdown" /\ Telling /\ source'[word] = line
        /\ word \in Nat
        /\ Spoken' = IF Speaks(word)' THEN Append(Spoken, word) ELSE Spoken
        /\ Telling' => WordsInv'
    BY <2>1, <2>2, ReadFacts
  <2>4. Speaks(word)' <=> line.is \in {"text", "heading"}
    BY <2>3, LineFacts DEF Speaks, Outputs
  <2>5. TellsLines(reader, Spoken)
    BY <2>3 DEF Telling
  <2>6. TellsLines(reader', Spoken')
    BY <2>1, <2>2, <2>3, <2>4, <2>5, MarkdownLineTells
  <2> QED
    BY <2>3, <2>6 DEF Telling
<1>2. CASE ReadText
  <2>1. PICK line \in PlainLines : Reads("text", line) /\ reader' = TextLine(reader, line, Word)
    BY <1>2 DEF ReadText
  <2>2. PICK word : word = Word
    OBVIOUS
  <2>3. /\ format = "text" /\ format' = "text" /\ Telling /\ source'[word] = line
        /\ word \in Nat
        /\ Spoken' = IF Speaks(word)' THEN Append(Spoken, word) ELSE Spoken
        /\ Telling' => WordsInv'
    BY <2>1, <2>2, ReadFacts
  <2>4. Speaks(word)' <=> line.is = "text"
    <3>1. line \in Lines
      BY DEF Lines
    <3> QED
      BY <2>3, <3>1, LineFacts DEF Speaks, Outputs
  <2>5. TellsLines(reader, Spoken) /\ ~reader.fenced
    BY <2>3 DEF Telling
  <2>6. TellsLines(reader', Spoken') /\ ~reader'.fenced
    BY <2>1, <2>2, <2>3, <2>4, <2>5, TextLineTells
  <2> QED
    BY <2>3, <2>6 DEF Telling
<1>3. CASE ReadCellLine
  <2>1. PICK line \in Lines : Reads("notebook", line) /\ reader' = MarkdownLine(reader, line, Word)
    BY <1>3 DEF ReadCellLine
  <2>2. PICK word : word = Word
    OBVIOUS
  <2>3. /\ format = "notebook" /\ format' = "notebook" /\ Telling /\ source'[word] = line
        /\ word \in Nat
        /\ InMarkdownCell' <=> line.is \in {"text", "blank", "spaces", "fence", "heading"}
        /\ Spoken' = IF Speaks(word)' THEN Append(Spoken, word) ELSE Spoken
        /\ Telling' => WordsInv'
    BY <2>1, <2>2, ReadFacts
  <2>4. Speaks(word)' <=> line.is \in {"text", "heading"}
    BY <2>3, LineFacts DEF Speaks, Outputs
  <2>5. TellsLines(reader, Spoken)
    BY <2>3 DEF Telling
  <2>6. TellsLines(reader', Spoken')
    BY <2>1, <2>2, <2>3, <2>4, <2>5, MarkdownLineTells
  <2>7. InMarkdownCell'
    BY <2>3, LineFacts
  <2> QED
    BY <2>3, <2>6, <2>7 DEF Telling
<1> QED
  BY <1>1, <1>2, <1>3

\* The cells of a notebook, and what code cells put out.
LEMMA CellsStep ==
  ASSUME WordsInv, ReadCellEnd \/ ReadCodeCell \/ ReadOutput
  PROVE  WordsInv'
<1>1. CASE ReadCellEnd
  <2>1. Reads("notebook", Line("end")) /\ reader' = MarkdownCell(reader)
    BY <1>1 DEF ReadCellEnd
  <2>2. PICK word : word = Word
    OBVIOUS
  <2>3. PICK e : e = Line("end")
    OBVIOUS
  <2>4. /\ format = "notebook" /\ format' = "notebook" /\ Telling /\ source'[word] = e
        /\ word \in Nat
        /\ Spoken' = IF Speaks(word)' THEN Append(Spoken, word) ELSE Spoken
        /\ Telling' => WordsInv'
    BY <2>1, <2>2, <2>3, ReadFacts
  <2>5. ~Speaks(word)'
    BY <2>3, <2>4 DEF Speaks, Outputs, Line
  <2>6. TellsLines(reader, Spoken)
    BY <2>4 DEF Telling
  <2>7. TellsLines(reader', Spoken') /\ reader'.para = <<>> /\ reader'.code = <<>>
    <3>1. "nothing" \in Outputs
      BY DEF Outputs
    <3> QED
      BY <2>1, <2>4, <2>5, <2>6, <3>1, NotebookTells
  <2> QED
    BY <2>4, <2>7 DEF Telling
<1>2. CASE ReadCodeCell
  <2>1. Reads("notebook", Line("cell")) /\ reader' = CodeCell(reader, Word)
    BY <1>2 DEF ReadCodeCell
  <2>2. PICK word : word = Word
    OBVIOUS
  <2>3. PICK e : e = Line("cell")
    OBVIOUS
  <2>4. /\ format = "notebook" /\ format' = "notebook" /\ Telling /\ source'[word] = e
        /\ word \in Nat
        /\ Spoken' = IF Speaks(word)' THEN Append(Spoken, word) ELSE Spoken
        /\ Telling' => WordsInv'
    BY <2>1, <2>2, <2>3, ReadFacts
  <2>5. Speaks(word)'
    BY <2>3, <2>4 DEF Speaks, Outputs, Line
  <2>6. TellsLines(reader, Spoken)
    BY <2>4 DEF Telling
  <2>7. TellsLines(reader', Spoken') /\ reader'.para = <<>> /\ reader'.code = <<>>
    <3>1. "nothing" \in Outputs
      BY DEF Outputs
    <3> QED
      BY <2>1, <2>2, <2>4, <2>5, <2>6, <3>1, NotebookTells
  <2> QED
    BY <2>4, <2>7 DEF Telling
<1>3. CASE ReadOutput
  <2>1. PICK output \in Outputs :
          /\ Reads("notebook", Line(output)) /\ ~InMarkdownCell
          /\ reader' = CellOutput(reader, output, Word)
    BY <1>3 DEF ReadOutput
  <2>2. PICK word : word = Word
    OBVIOUS
  <2>3. PICK e : e = Line(output)
    OBVIOUS
  <2>4. /\ format = "notebook" /\ format' = "notebook" /\ Telling /\ source'[word] = e
        /\ word \in Nat
        /\ Spoken' = IF Speaks(word)' THEN Append(Spoken, word) ELSE Spoken
        /\ Telling' => WordsInv'
    BY <2>1, <2>2, <2>3, ReadFacts
  <2>5. Speaks(word)' <=> output # "nothing"
    BY <2>3, <2>4 DEF Speaks, Outputs, Line
  <2>6. TellsLines(reader, Spoken) /\ reader.para = <<>> /\ reader.code = <<>>
    BY <2>1, <2>4 DEF Telling
  <2>7. TellsLines(reader', Spoken') /\ reader'.para = <<>> /\ reader'.code = <<>>
    BY <2>1, <2>2, <2>4, <2>5, <2>6, NotebookTells
  <2> QED
    BY <2>4, <2>7 DEF Telling
<1> QED
  BY <1>1, <1>2, <1>3

\* Paragraphs and tables of a .docx, pages and blocks of a PDF.
LEMMA BlocksStep ==
  ASSUME WordsInv, ReadParagraph \/ ReadTable \/ ReadPage \/ ReadBlock
  PROVE  WordsInv'
<1>1. CASE ReadParagraph
  <2>1. PICK p \in Paragraphs : Reads("docx", p) /\ reader' = DocxParagraph(reader, p, Word)
    BY <1>1 DEF ReadParagraph
  <2>2. PICK word : word = Word
    OBVIOUS
  <2>3. /\ format = "docx" /\ format' = "docx" /\ Telling /\ source'[word] = p
        /\ word \in Nat
        /\ Spoken' = IF Speaks(word)' THEN Append(Spoken, word) ELSE Spoken
        /\ Telling' => WordsInv'
    BY <2>1, <2>2, ReadFacts
  <2>4. Speaks(word)' <=> p.text /\ (p.style # "title" \/ p.num # 0)
    <3>1. p.is = "paragraph"
      BY DEF Paragraphs
    <3> QED
      BY <2>3, <3>1 DEF Speaks
  <2>5. TellsList(reader, Spoken)
    BY <2>3 DEF Telling
  <2>6. TellsList(reader', Spoken')
    BY <2>1, <2>2, <2>3, <2>4, <2>5, DocxParagraphTells
  <2> QED
    BY <2>3, <2>6 DEF Telling
<1>2. CASE ReadTable
  <2>1. PICK rows \in Grids :
          /\ Reads("docx", [is |-> "table", rows |-> rows])
          /\ reader' = DocxTable(reader, rows, Word)
    BY <1>2 DEF ReadTable
  <2>2. PICK word : word = Word
    OBVIOUS
  <2>3. PICK e : e = [is |-> "table", rows |-> rows]
    OBVIOUS
  <2>4. /\ format = "docx" /\ format' = "docx" /\ Telling /\ source'[word] = e
        /\ word \in Nat
        /\ Spoken' = IF Speaks(word)' THEN Append(Spoken, word) ELSE Spoken
        /\ Telling' => WordsInv'
    BY <2>1, <2>2, <2>3, ReadFacts
  <2>5. Speaks(word)'
    BY <2>3, <2>4 DEF Speaks
  <2>6. TellsList(reader, Spoken)
    BY <2>4 DEF Telling
  <2>7. TellsList(reader', Spoken')
    BY <2>1, <2>2, <2>4, <2>5, <2>6, DocxTells
  <2> QED
    BY <2>4, <2>7 DEF Telling
<1>3. CASE ReadPage
  <2>1. PICK images \in BOOLEAN :
          /\ Reads("pdf", [is |-> "page", images |-> images])
          /\ reader' = NextPage(reader, images)
    BY <1>3 DEF ReadPage
  <2>2. PICK word : word = Word
    OBVIOUS
  <2>3. PICK e : e = [is |-> "page", images |-> images]
    OBVIOUS
  <2>4. /\ format = "pdf" /\ format' = "pdf" /\ Telling /\ source'[word] = e
        /\ word \in Nat
        /\ Spoken' = IF Speaks(word)' THEN Append(Spoken, word) ELSE Spoken
        /\ Telling' => WordsInv'
    BY <2>1, <2>2, <2>3, ReadFacts
  <2>5. ~Speaks(word)'
    BY <2>3, <2>4 DEF Speaks
  <2>6. TellsPages(reader, Spoken)
    BY <2>4 DEF Telling
  <2>7. TellsPages(reader', Spoken')
    BY <2>1, <2>4, <2>5, <2>6, PdfTells
  <2> QED
    BY <2>4, <2>7 DEF Telling
<1>4. CASE ReadBlock
  <2>1. PICK block \in PageBlocks : Reads("pdf", block) /\ reader' = PdfBlock(reader, block, Word)
    BY <1>4 DEF ReadBlock
  <2>2. PICK word : word = Word
    OBVIOUS
  <2>3. /\ format = "pdf" /\ format' = "pdf" /\ Telling /\ source'[word] = block
        /\ word \in Nat
        /\ Spoken' = IF Speaks(word)' THEN Append(Spoken, word) ELSE Spoken
        /\ Telling' => WordsInv'
    BY <2>1, <2>2, ReadFacts
  <2>4. Speaks(word)' <=> PdfKind(block) \in {"code", "paragraph"}
    <3>1. block.is = "block"
      BY DEF PageBlocks
    <3> QED
      BY <2>3, <3>1 DEF Speaks
  <2>5. TellsPages(reader, Spoken)
    BY <2>3 DEF Telling
  <2>6. TellsPages(reader', Spoken')
    BY <2>1, <2>2, <2>3, <2>4, <2>5, PdfTells
  <2> QED
    BY <2>3, <2>6 DEF Telling
<1> QED
  BY <1>1, <1>2, <1>3, <1>4

\* Tags and texts of a page of HTML.
LEMMA TagsStep ==
  ASSUME WordsInv, ReadStartTag \/ ReadEndTag
  PROVE  WordsInv'
<1>1. CASE ReadStartTag
  <2>1. PICK tag \in Inside(InnerTag) :
          /\ Reads("html", [is |-> "start", tag |-> tag])
          /\ reader' = StartTag(reader, tag)
    BY <1>1 DEF ReadStartTag
  <2>2. PICK word : word = Word
    OBVIOUS
  <2>3. PICK e : e = [is |-> "start", tag |-> tag]
    OBVIOUS
  <2>4. /\ format = "html" /\ format' = "html" /\ Telling /\ source'[word] = e
        /\ IsSequence(source) /\ source' = Append(source, e)
        /\ word = Len(source) + 1 /\ Len(source') = word
        /\ Spoken' = IF Speaks(word)' THEN Append(Spoken, word) ELSE Spoken
        /\ Telling' => WordsInv'
    BY <2>1, <2>2, <2>3, ReadFacts
  <2>5. ~Speaks(word)'
    BY <2>3, <2>4 DEF Speaks
  <2>6. Keeps(source, Opens(source)[Len(source)], reader, Spoken)
    BY <2>4 DEF Telling
  <2>7. e.is = "start" /\ e.tag = tag /\ e.tag \in Inside(Innermost(source, Opens(source)[Len(source)]))
    BY <2>3, Views
  <2>8. Keeps(Append(source, e), Opens(Append(source, e))[Len(source) + 1], StartTag(reader, e.tag),
              Spoken)
    BY <2>4, <2>6, <2>7, StartKeeps
  <2>9. Keeps(source', Opens(source')[Len(source')], reader', Spoken')
    BY <2>1, <2>4, <2>5, <2>7, <2>8
  <2> QED
    BY <2>4, <2>9 DEF Telling
<1>2. CASE ReadEndTag
  <2>1. /\ Open[Len(source)] # <<>> /\ Reads("html", [is |-> "end", tag |-> InnerTag])
        /\ reader' = EndTag(reader, InnerTag)
    BY <1>2 DEF ReadEndTag
  <2>2. PICK word : word = Word
    OBVIOUS
  <2>3. PICK e : e = [is |-> "end", tag |-> InnerTag]
    OBVIOUS
  <2>4. /\ format = "html" /\ format' = "html" /\ Telling /\ source'[word] = e
        /\ IsSequence(source) /\ source' = Append(source, e)
        /\ word = Len(source) + 1 /\ Len(source') = word
        /\ Spoken' = IF Speaks(word)' THEN Append(Spoken, word) ELSE Spoken
        /\ Telling' => WordsInv'
    BY <2>1, <2>2, <2>3, ReadFacts
  <2>5. ~Speaks(word)'
    BY <2>3, <2>4 DEF Speaks
  <2>6. Keeps(source, Opens(source)[Len(source)], reader, Spoken)
    BY <2>4 DEF Telling
  <2>7. e.is = "end" /\ Opens(source)[Len(source)] # <<>>
        /\ InnerTag = Innermost(source, Opens(source)[Len(source)])
    BY <2>1, <2>3, Views
  <2>8. Keeps(Append(source, e), Opens(Append(source, e))[Len(source) + 1],
              EndTag(reader, Innermost(source, Opens(source)[Len(source)])), Spoken)
    BY <2>4, <2>6, <2>7, EndKeeps
  <2>9. Keeps(source', Opens(source')[Len(source')], reader', Spoken')
    BY <2>1, <2>4, <2>5, <2>7, <2>8
  <2> QED
    BY <2>4, <2>9 DEF Telling
<1> QED
  BY <1>1, <1>2

\* A text is a word, but outside of all elements, in the title and in what is ignored.
LEMMA DataStep ==
  ASSUME WordsInv, ReadData
  PROVE  WordsInv'
<1>1. /\ InnerTag \notin {"list", "table", "tr"} /\ Reads("html", [is |-> "data", tag |-> InnerTag])
      /\ reader' = TextData(reader, Word)
  BY DEF ReadData
<1>2. PICK word : word = Word
  OBVIOUS
<1>3. PICK e : e = [is |-> "data", tag |-> InnerTag]
  OBVIOUS
<1>4. /\ format = "html" /\ format' = "html" /\ Telling /\ source'[word] = e
      /\ IsSequence(source) /\ source' = Append(source, e) /\ word \in Nat
      /\ Len(source) \in Nat /\ word = Len(source) + 1 /\ Len(source') = word
      /\ Spoken \in Seq(Nat)
      /\ Spoken' = IF Speaks(word)' THEN Append(Spoken, word) ELSE Spoken
      /\ Telling' => WordsInv'
  BY <1>1, <1>2, <1>3, ReadFacts
<1>5. Keeps(source, Opens(source)[Len(source)], reader, Spoken)
  BY <1>4 DEF Telling
<1>6. PICK o : o = Opens(source)[Len(source)]
  OBVIOUS
<1>7. PICK inner : inner = Innermost(source, o)
  OBVIOUS
<1>8. e.is = "data" /\ e.tag = inner /\ inner \notin {"list", "table", "tr"}
  BY <1>1, <1>3, <1>6, <1>7, Views
<1>9. Speaks(word)' <=> inner \notin {"body", "title", "ignored"}
  <2>1. o \in Seq(1..Len(source)) /\ Opens(source')[word] = o
    <3>1. o \in Seq(1..Len(source)) /\ Opens(source')[word] = OpensNext(source', word, o)
      BY <1>4, <1>6, EventFacts
    <3> QED
      BY <1>4, <1>8, <3>1 DEF OpensNext
  <2>2. Standing(source', o) /\ Innermost(source', o) = inner
    <3>1. Standing(source, Opens(source)[Len(source)])
      BY <1>5 DEF Keeps
    <3> QED
      BY <1>4, <1>6, <1>7, <3>1, StandingNext
  <2>3. Open' = Opens(source')
    BY DEF Open, Opens
  <2>4. Around(word)' = {source'[n].tag : n \in Range(o)}
    BY <2>1, <2>3 DEF Around
  <2>5. Around(word)' \cap {"title", "ignored"} = {} <=> inner \notin {"title", "ignored"}
    BY <2>1, <2>2, <2>4, AroundFacts
  <2> QED
    BY <1>4, <1>8, <2>5 DEF Speaks
<1>10. PICK more : more = IF inner \in {"body", "title", "ignored"} THEN Spoken
                          ELSE Spoken ++ <<Len(source) + 1>>
  OBVIOUS
<1>11. Keeps(Append(source, e), Opens(Append(source, e))[Len(source) + 1],
             TextData(reader, Len(source) + 1), more)
  BY <1>4, <1>5, <1>6, <1>7, <1>8, <1>10, DataKeeps
<1>12. Spoken' = more
  <2>1. Append(Spoken, word) = Spoken ++ <<word>>
    <3>1. PICK s \in Seq(Nat) : s = Spoken
      BY <1>4
    <3>2. PICK t : t = Append(s, word)
      OBVIOUS
    <3>3. <<word>> \in Seq(Nat)
      BY <1>4
    <3>4. t = s ++ <<word>>
      BY <1>4, <3>2, <3>3 DEF ++
    <3> QED
      BY <3>1, <3>2, <3>4
  <2> QED
    BY <1>4, <1>9, <1>10, <2>1
<1>13. Keeps(source', Opens(source')[Len(source')], reader', Spoken')
  BY <1>1, <1>2, <1>4, <1>11, <1>12
<1> QED
  BY <1>4, <1>13 DEF Telling

\* The source ends.
LEMMA EndStep ==
  ASSUME WordsInv, End
  PROVE  WordsInv'
<1>1. /\ ~done /\ done' /\ reader' = Ended /\ UNCHANGED <<format, source>>
      /\ format = "html" => Open[Len(source)] = <<>>
  BY DEF End
<1>2. Spoken' = Spoken /\ (Straight' <=> Straight)
  BY <1>1, SpokenSame
<1>3. Telling /\ format \in Formats /\ IsSequence(source)
  BY <1>1 DEF WordsInv
<1>4. Spoken \in Seq(Nat) /\ Loses(Spoken, Spoken)
  BY <1>3, SpokenFacts, LosesOrder
<1>5. Loses(Said(reader'.tree), Spoken) /\ (Straight => Said(reader'.tree) = Spoken)
  <2>1. CASE format \in {"markdown", "text", "notebook"}
    <3>1. PICK r : r = MarkdownEnd(reader)
      OBVIOUS
    <3>2. TellsLines(reader, Spoken)
      BY <1>3, <2>1 DEF Telling
    <3>3. Tells(r.tree, Spoken) /\ "tree" \in DOMAIN r
      BY <3>1, <3>2, EndTells DEF TellsLines
    <3>4. reader' = [r EXCEPT !.tree = Rooted(r.tree)]
      BY <1>1, <2>1, <3>1 DEF Ended
    <3>5. reader'.tree = Rooted(r.tree)
      BY <3>3, <3>4
    <3>6. Said(reader'.tree) = Spoken
      BY <3>3, <3>5, WithCurrentTells DEF Tells
    <3> QED
      BY <1>4, <3>6
  <2>2. CASE format = "docx"
    <3>1. TellsList(reader, Spoken) /\ reader' = DocxEnd(reader)
      BY <1>1, <1>3, <2>2 DEF Telling, Ended
    <3>2. Said(reader'.tree) = Spoken
      <4>1. 0 \in Nat
        OBVIOUS
      <4> QED
        BY <3>1, <4>1, DocxTells DEF Tells
    <3> QED
      BY <1>4, <3>2
  <2>3. CASE format = "pdf"
    <3>1. TellsPages(reader, Spoken) /\ reader' = PdfEnd(reader)
      BY <1>1, <1>3, <2>3 DEF Telling, Ended
    <3>2. Said(reader'.tree) = Spoken
      <4>1. 0 \in Nat
        OBVIOUS
      <4>2. TellsPages(PdfEnd(reader), Spoken)
        BY <3>1, <4>1, PdfTells
      <4> QED
        BY <3>1, <4>2 DEF TellsPages, Tells
    <3> QED
      BY <1>4, <3>2
  <2>4. CASE format = "html"
    <3>1. Keeps(source, Opens(source)[Len(source)], reader, Spoken) /\ reader' = HtmlEnd(reader)
      BY <1>1, <1>3, <2>4 DEF Telling, Ended
    <3>2. Opens(source)[Len(source)] = <<>> /\ (Straight => StraightIn(source))
      BY <1>1, <2>4, Views
    <3> QED
      BY <3>1, <3>2, HtmlEndKeeps
  <2> QED
    BY <1>3, <2>1, <2>2, <2>3, <2>4 DEF Formats
<1> QED
  BY <1>1, <1>2, <1>3, <1>5 DEF WordsInv

\* WordsKept: no adapter says a text twice or one that its source does not say; and all of
\* them are said, in the order of the source, but for pages with mixed elements.
THEOREM SourcesKeepWords == Spec => []WordsKept
<1>1. WordsInv /\ [Next]_(vars) => WordsInv'
  <2>1. ASSUME WordsInv, UNCHANGED vars PROVE WordsInv'
    <3>1. UNCHANGED <<format, source, reader, done>>
      BY <2>1 DEF vars
    <3>2. Spoken' = Spoken /\ (Straight' <=> Straight) /\ (InMarkdownCell' <=> InMarkdownCell)
      BY <3>1, SpokenSame
    <3> QED
      BY <2>1, <3>1, <3>2 DEF WordsInv, Telling
  <2>2. ASSUME WordsInv, Next PROVE WordsInv'
    BY <2>2, LinesStep, CellsStep, BlocksStep, TagsStep, DataStep, EndStep DEF Next
  <2> QED
    BY <2>1, <2>2
<1>2. WordsInv => WordsKept
  <2> SUFFICES ASSUME WordsInv, done PROVE WordsKept
    BY DEF WordsKept
  <2>1. Loses(Said(Tree), Spoken) /\ (Straight => Said(Tree) = Spoken)
    BY DEF WordsInv, Tree
  <2>2. IsInjective(Spoken)
    BY SpokenFacts DEF WordsInv
  <2> QED
    BY <2>1, <2>2 DEF WordsKept, Loses
<1> QED
  BY <1>1, <1>2, WordsInitially, PTL DEF Spec
=============================================================================
