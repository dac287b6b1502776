------------------------- MODULE CircleQueueProofs -------------------------
(***************************************************************************)
(* For every ring size, message size and number of messages, CircleQueue   *)
(* keeps its type, never overwrites a node that is still queued, never     *)
(* takes a full ring for an empty one, and is a FIFO.                      *)
(***************************************************************************)
EXTENDS CircleQueue, SequenceTheorems, TLAPS

\* Where queued node i follows: the first one head, the others one another.
Before(i) == IF i = popped + 1 THEN head ELSE End(i - 1)

\* Queued nodes lie in the ring, each right behind what is before it, or at
\* offset 0 when it did not fit there; tail is behind the last of them.
Chain ==
  /\ \A i \in Live :
       /\ End(i) <= ValidSize
       /\ \/ posted[i].at = Before(i)
          \/ /\ posted[i].at = 0
             /\ Before(i) + NodeLen(posted[i].size) > ValidSize
  /\ tail = Before(Len(posted) + 1)

\* The nodes in the ring do not overlap.  With head beyond tail some are at
\* the far end of the ring and the later ones at its near end.
Layout ==
  /\ \A i \in Live : \/ head <= posted[i].at
                     \/ head > tail /\ End(i) <= tail
  /\ head <= tail => \A i \in Live : End(i) <= tail
  /\ \A i, j \in Live : i < j =>
       \/ End(i) <= posted[j].at
       \/ head > tail /\ head <= posted[i].at /\ End(j) <= tail
  /\ \A i, j \in Live : i < j /\ head > tail /\ End(i) <= tail => End(j) <= tail

\* The place the writer chose is still free whatever the reader released.
Claim ==
  Busy =>
    /\ pSize \in Sizes
    /\ \/ /\ pAt = tail
          /\ tail + NodeLen(pSize) <= ValidSize
          /\ head <= tail \/ tail + NodeLen(pSize) < head
       \/ /\ pAt = 0
          /\ tail + NodeLen(pSize) > ValidSize
          /\ NodeLen(pSize) < head
          /\ head <= tail

IsMarker(at) ==
  at + HeadLen <= ValidSize => \A k \in 0 .. HeadLen - 1 : mem[at + k] = Zero

\* Every queued node is whole in memory, with its marker.
Contents ==
  /\ \A i \in Live : Holds(posted[i].at, i, posted[i].size,
                           NodeLen(posted[i].size))
  /\ \A i \in Live : head > tail /\ posted[i].at # Before(i)
                       => IsMarker(Before(i))
  /\ pPc = "publish" =>
       /\ Holds(pAt, Len(posted) + 1, pSize, NodeLen(pSize))
       /\ pAt # tail => IsMarker(tail)

\* What the reader has found is the first queued node.
Found ==
  /\ cPc \in {"length", "message"} => popped < Len(posted)
  /\ cPc = "length" => cTail # 0
  /\ cPc = "message" => /\ cAt = posted[popped + 1].at
                        /\ cSize = posted[popped + 1].size

\* What the two threads know of the ring and keep in it; it says nothing of the
\* nodes that are gone, however they went.
Ring == TypeOK /\ Chain /\ Layout /\ EqualOnlyWhenEmpty /\ Claim /\ Contents
          /\ Found

\* Every released node was taken before, and nothing else was.
Reader ==
  /\ cPc = "pop" => popped < Len(posted)
  /\ Len(taken) = popped + (IF cPc = "pop" THEN 1 ELSE 0)
  /\ \A i \in 1 .. Len(taken) : taken[i] = <<i, posted[i].size>>

IInv == Ring /\ Reader

----------------------------------------------------------------------------
(* Facts about the parameters and the histories.                           *)

\* A node is longer than its length word.
LEMMA NodeLenFacts ==
  \A s \in Sizes : s \in Nat /\ s > 0 /\ NodeLen(s) \in Nat /\ NodeLen(s) > HeadLen
  BY HeadLenAssumption, SizesAssumption DEF NodeLen

\* Published nodes have a place and a length, and End is a number.
LEMMA NodeFacts ==
  ASSUME TypeOK
  PROVE  /\ Len(posted) \in Nat
         /\ \A i \in 1 .. Len(posted) :
              /\ posted[i].at \in 0 .. ValidSize
              /\ posted[i].size \in Sizes
              /\ End(i) = posted[i].at + NodeLen(posted[i].size)
         /\ \A i \in 0 .. Len(posted) : End(i) \in Nat
<1>1. Len(posted) \in Nat
  BY DEF TypeOK
<1>2. ASSUME NEW i \in 1 .. Len(posted)
      PROVE  /\ posted[i].at \in 0 .. ValidSize
             /\ posted[i].size \in Sizes
             /\ End(i) = posted[i].at + NodeLen(posted[i].size)
  <2>1. posted \in Seq([at : 0 .. ValidSize, size : Sizes])
    BY DEF TypeOK
  <2>2. posted[i] \in [at : 0 .. ValidSize, size : Sizes]
    BY <2>1, <1>2, ElementOfSeq
  <2>3. i # 0
    BY <1>1, <1>2
  <2>4. QED
    BY <2>2, <2>3 DEF End
<1>3. ASSUME NEW i \in 0 .. Len(posted)
      PROVE  End(i) \in Nat
  <2>1. CASE i = 0
    BY <2>1 DEF End
  <2>2. CASE i # 0
    BY <2>2, <1>1, <1>2, NodeLenFacts, ValidSizeAssumption
  <2>3. QED
    BY <2>1, <2>2
<1>4. QED
  BY <1>1, <1>2, <1>3

\* The first queued node is at head, or at offset 0 because it did not fit
\* at head, and then a marker says so if there is room for one.
LEMMA FirstQueued ==
  ASSUME Ring, popped < Len(posted)
  PROVE  LET f == popped + 1
             n == NodeLen(posted[f].size)
         IN  /\ f \in Live
             /\ head # tail /\ tail # 0
             /\ End(f) = posted[f].at + n
             /\ \/ posted[f].at = head /\ head + n <= ValidSize
                \/ /\ posted[f].at = 0 /\ head # 0 /\ head > tail
                   /\ head + n > ValidSize
                   /\ n <= tail
                   /\ IsMarker(head)
<1> DEFINE f == popped + 1
           n == NodeLen(posted[f].size)
<1>1. /\ popped \in Nat /\ Len(posted) \in Nat
      /\ f \in 1 .. Len(posted) /\ f \in Live /\ f - 1 = popped
  BY NodeFacts DEF Ring, TypeOK, Live
<1>2. head # tail /\ tail # 0
  <2>1. head # tail
    BY <1>1 DEF Ring, EqualOnlyWhenEmpty
  <2>2. TypeOK /\ Len(posted) \in 1 .. Len(posted) /\ tail = End(Len(posted))
    BY <1>1 DEF Ring, Chain, Before
  <2>3. tail # 0
    BY <2>2, NodeFacts, NodeLenFacts, HeadLenAssumption, ValidSizeAssumption
  <2>4. QED
    BY <2>1, <2>3
<1>3. /\ posted[f].at \in 0 .. ValidSize
      /\ End(f) = posted[f].at + n
      /\ n \in Nat /\ n > HeadLen
      /\ End(f) <= ValidSize
      /\ head \in Nat /\ tail \in Nat
  <2>1. TypeOK /\ head \in Nat /\ tail \in Nat
    BY ValidSizeAssumption DEF Ring, TypeOK
  <2>2. /\ posted[f].at \in 0 .. ValidSize
        /\ posted[f].size \in Sizes
        /\ End(f) = posted[f].at + n
    BY <1>1, <2>1, NodeFacts
  <2>3. n \in Nat /\ n > HeadLen
    BY <2>2, NodeLenFacts
  <2>4. End(f) <= ValidSize
    BY <1>1 DEF Ring, Chain
  <2>5. QED
    BY <2>1, <2>2, <2>3, <2>4
<1>4. \/ posted[f].at = head
      \/ posted[f].at = 0 /\ head + n > ValidSize
  BY <1>1 DEF Ring, Chain, Before
<1>5. CASE posted[f].at = head
  BY <1>1, <1>2, <1>3, <1>5
<1>6. CASE posted[f].at # head
  <2>1. posted[f].at = 0 /\ head + n > ValidSize /\ head # 0
    BY <1>4, <1>6
  <2>2. head > tail /\ End(f) <= tail
    BY <2>1, <1>1, <1>3 DEF Ring, Layout
  <2>3. IsMarker(head)
    BY <2>2, <1>1, <1>6 DEF Ring, Contents, Before
  <2>4. QED
    BY <2>1, <2>2, <2>3, <1>1, <1>2, <1>3
<1>7. QED
  BY <1>5, <1>6

\* get finds the first queued node, and its message is whole.
LEMMA GetFinds ==
  ASSUME Ring, popped < Len(posted)
  PROVE  LET f == popped + 1 IN
         /\ FirstNode(head) = posted[f].at
         /\ \A t \in Nat \ {0} : FirstLength(head, t) = posted[f].size
         /\ posted[f].size \in Sizes
         /\ MessageAt(posted[f].at, posted[f].size) = <<f, posted[f].size>>
<1> DEFINE f == popped + 1
           a == posted[f].at
           s == posted[f].size
<1>1. /\ f \in Live /\ f \in Nat /\ f > 0
      /\ f \in 1 .. Len(posted)
  BY FirstQueued, NodeFacts DEF Ring, TypeOK, Live
<1>2. /\ s \in Sizes /\ s \in Nat /\ s > 0
      /\ a \in Nat
      /\ NodeLen(s) \in Nat /\ NodeLen(s) > HeadLen
      /\ HeadLen \in Nat /\ HeadLen > 0
      /\ head \in Nat
  <2>1. TypeOK /\ head \in Nat
    BY ValidSizeAssumption DEF Ring, TypeOK
  <2>2. s \in Sizes /\ a \in 0 .. ValidSize
    BY <1>1, <2>1, NodeFacts
  <2>3. QED
    BY <2>1, <2>2, NodeLenFacts, HeadLenAssumption, ValidSizeAssumption
<1>3. \A k \in 0 .. NodeLen(s) - 1 : mem[a + k] = <<f, s, k>>
  BY <1>1 DEF Ring, Contents, Holds
<1>4. mem[a] = <<f, s, 0>>
  <2>1. 0 \in 0 .. NodeLen(s) - 1 /\ a + 0 = a
    BY <1>2
  <2>2. QED
    BY <2>1, <1>3
<1>5. LengthAt(a) = s
  <2>1. 0 \in 0 .. HeadLen - 1 /\ a + 0 = a /\ mem[a] # Zero
    BY <1>1, <1>2, <1>4 DEF Zero
  <2>2. ~ \A k \in 0 .. HeadLen - 1 : mem[a + k] = Zero
    BY <2>1
  <2>3. mem[a][1] = f /\ mem[a][2] = s
    BY <1>4
  <2>4. Holds(a, mem[a][1], mem[a][2], HeadLen)
    <3>1. \A k \in 0 .. HeadLen - 1 : k \in 0 .. NodeLen(s) - 1
      BY <1>2
    <3>2. Holds(a, f, s, HeadLen)
      BY <3>1, <1>3 DEF Holds
    <3>3. QED
      BY <3>2, <2>3
  <2>5. QED
    BY <2>2, <2>3, <2>4, <1>1 DEF LengthAt
<1>6. FirstNode(head) = a
  <2>1. CASE a = head
    BY <2>1, <1>2, <1>5, FirstQueued, ValidSizeAssumption DEF FirstNode
  <2>2. CASE a # head
    <3>1. a = 0 /\ IsMarker(head)
      BY <2>2, FirstQueued
    <3>2. head + HeadLen <= ValidSize => LengthAt(head) = 0
      BY <3>1 DEF IsMarker, LengthAt
    <3>3. QED
      BY <3>1, <3>2 DEF FirstNode
  <2>3. QED
    BY <2>1, <2>2
<1>7. \A t \in Nat \ {0} : FirstLength(head, t) = s
  BY <1>5, <1>6 DEF FirstLength
<1>8. MessageAt(a, s) = <<f, s>>
  BY <1>3, <1>4 DEF MessageAt, Holds
<1>9. QED
  BY <1>2, <1>6, <1>7, <1>8

\* A node that is not right behind what is before it is one that wrapped
\* round, and the place of its marker is ahead of the reader.
LEMMA Wrapped ==
  ASSUME Ring, NEW i \in Live, posted[i].at # Before(i)
  PROVE  head > tail /\ head <= Before(i)
<1>1. TypeOK /\ head \in Nat /\ tail \in Nat
  BY ValidSizeAssumption DEF Ring, TypeOK
<1>2. /\ popped \in Nat /\ Len(posted) \in Nat
      /\ i \in 1 .. Len(posted) /\ i \in Nat /\ popped < i
  BY <1>1, NodeFacts DEF TypeOK, Live
<1>3. posted[i].at = 0
  BY DEF Ring, Chain
<1>4. CASE i = popped + 1
  <2>1. Before(i) = head /\ head # 0
    BY <1>3, <1>4 DEF Before
  <2>2. \/ head <= 0
        \/ head > tail
    BY <1>3 DEF Ring, Layout
  <2>3. QED
    BY <1>1, <2>1, <2>2
<1>5. CASE i # popped + 1
  <2>1. /\ i - 1 \in Live /\ i - 1 \in 1 .. Len(posted) /\ i - 1 < i
        /\ Before(i) = End(i - 1)
    BY <1>2, <1>5 DEF Live, Before
  <2>2. /\ posted[i - 1].at \in Nat
        /\ End(i - 1) > posted[i - 1].at
    BY <1>1, <2>1, NodeFacts, NodeLenFacts, HeadLenAssumption,
       ValidSizeAssumption
  <2>3. \/ End(i - 1) <= posted[i].at
        \/ head > tail /\ head <= posted[i - 1].at
    BY <2>1 DEF Ring, Layout
  <2>4. QED
    BY <1>1, <1>3, <2>1, <2>2, <2>3, NodeFacts
<1>6. QED
  BY <1>4, <1>5

\* The writer's place is free.
LEMMA PlaceIsFree ==
  ASSUME Ring
  PROVE  NoOverwrite
<1> SUFFICES ASSUME Busy, NEW i \in Live
             PROVE  \/ pAt + NodeLen(pSize) <= posted[i].at
                    \/ End(i) <= pAt
  BY DEF NoOverwrite
<1>1. TypeOK /\ head \in Nat /\ tail \in Nat /\ pSize \in Sizes
  BY ValidSizeAssumption DEF Ring, TypeOK, Claim
<1>2. i \in 1 .. Len(posted)
  BY <1>1, NodeFacts DEF TypeOK, Live
<1>3. posted[i].at \in Nat /\ End(i) \in Nat /\ NodeLen(pSize) \in Nat
  BY <1>1, <1>2, NodeFacts, NodeLenFacts, ValidSizeAssumption
<1>4. /\ \/ head <= posted[i].at
         \/ head > tail /\ End(i) <= tail
      /\ head <= tail => End(i) <= tail
  BY DEF Ring, Layout
<1>5. \/ /\ pAt = tail
         /\ head <= tail \/ tail + NodeLen(pSize) < head
      \/ /\ pAt = 0
         /\ NodeLen(pSize) < head
         /\ head <= tail
  BY DEF Ring, Claim
<1>6. QED
  BY <1>1, <1>3, <1>4, <1>5

----------------------------------------------------------------------------
(* One lemma per action.                                                   *)

\* append2 chooses a place that is free, and changes nothing else.
LEMMA StartAppendKeeps ==
  ASSUME Ring, NEW s \in Sizes, StartAppend(s)
  PROVE  Ring'
<1> USE DEF StartAppend, consumerVars
<1>1. head \in Nat /\ tail \in Nat /\ head <= ValidSize /\ ValidSize \in Nat
  BY ValidSizeAssumption DEF Ring, TypeOK
<1>2. NodeLen(s) \in Nat /\ NodeLen(s) > 0
  BY NodeLenFacts, HeadLenAssumption
<1>3. TypeOK'
  BY <1>1 DEF Ring, TypeOK
<1>4. Claim'
  <2>1. pSize' = s /\ UNCHANGED <<head, tail>> /\ NodeLen(s)' = NodeLen(s)
    BY DEF NodeLen
  <2>2. CASE Wraps(head, tail, s)
    BY <2>1, <2>2, <1>1, <1>2 DEF Claim, Fits, Wraps
  <2>3. CASE ~ Wraps(head, tail, s)
    BY <2>1, <2>3, <1>1, <1>2 DEF Claim, Fits, Wraps
  <2>4. QED
    BY <2>2, <2>3
<1>5. Contents'
  BY DEF Ring, Contents, Holds, IsMarker, Live, Before, End, NodeLen
<1>6. (Chain /\ Layout /\ EqualOnlyWhenEmpty /\ Found)'
  BY DEF Ring, Chain, Layout, EqualOnlyWhenEmpty, Found, Live, Before, End, NodeLen
<1>7. QED
  BY <1>3, <1>4, <1>5, <1>6 DEF Ring

\* The memcpy of a node and its marker only touch bytes of no queued node.
LEMMA WriteNodeKeeps ==
  ASSUME Ring, WriteNode
  PROVE  Ring'
<1> DEFINE n == NodeLen(pSize)
           place == pAt .. pAt + n - 1
           marker == tail .. tail + HeadLen - 1
<1>1. /\ TypeOK
      /\ head \in Nat /\ tail \in Nat /\ pAt \in Nat
      /\ ValidSize \in Nat /\ head <= ValidSize
      /\ HeadLen \in Nat /\ HeadLen > 0
      /\ Len(posted) \in Nat
  BY ValidSizeAssumption, HeadLenAssumption, NodeFacts DEF Ring, TypeOK
<1>2. Busy /\ pSize \in Sizes
  BY DEF Ring, Claim, Busy, WriteNode
<1>3. n \in Nat /\ n > HeadLen
  BY <1>2, NodeLenFacts
<1>4. \/ /\ pAt = tail
         /\ tail + n <= ValidSize
         /\ head <= tail \/ tail + n < head
      \/ /\ pAt = 0
         /\ tail + n > ValidSize
         /\ n < head
         /\ head <= tail
  BY <1>2 DEF Ring, Claim
<1>5. DOMAIN mem = 0 .. ValidSize - 1
  BY <1>1 DEF TypeOK
<1>6. /\ UNCHANGED <<head, tail, pAt, pSize, cPc, cTail, cAt, cSize, posted,
                     popped, taken>>
      /\ pPc' = "publish"
  BY DEF WriteNode, consumerVars
<1>7. mem' = [b \in 0 .. ValidSize - 1 |->
               IF b \in place THEN <<Len(posted) + 1, pSize, b - pAt>>
               ELSE IF pAt # tail /\ tail + HeadLen <= ValidSize /\ b \in marker
                    THEN Zero ELSE mem[b]]
  BY <1>5 DEF WriteNode
<1> DEFINE Node(b) == <<Len(posted) + 1, pSize, b - pAt>>
<1>13. \A b \in 0 .. ValidSize - 1 :
         /\ b \in place => mem'[b] = Node(b)
         /\ b \notin place /\ pAt # tail /\ tail + HeadLen <= ValidSize
              /\ b \in marker => mem'[b] = Zero
         /\ b \notin place /\ (pAt = tail \/ b \notin marker)
              => mem'[b] = mem[b]
  BY <1>7
<1>8. TypeOK'
  <2>1. ASSUME NEW b \in 0 .. ValidSize - 1
        PROVE  mem'[b] \in Byte
    <3>1. mem[b] \in Byte
      BY <1>1 DEF TypeOK
    <3>2. CASE b \in place
      <4>1. b - pAt \in Nat /\ Len(posted) + 1 \in Nat
        BY <1>1, <1>3, <3>2
      <4>2. mem'[b] = <<Len(posted) + 1, pSize, b - pAt>>
        BY <1>7, <3>2
      <4>3. QED
        BY <4>1, <4>2, <1>2 DEF Byte
    <3>3. CASE b \notin place
      <4>1. Zero \in Byte
        BY DEF Zero, Byte
      <4>2. QED
        BY <4>1, <3>1, <3>3, <1>7
    <3>4. QED
      BY <3>2, <3>3
  <2>2. mem' \in [0 .. ValidSize - 1 -> Byte]
    BY <2>1, <1>7
  <2>3. QED
    BY <2>2, <1>6, <1>1 DEF TypeOK
<1>9. Contents'
  <2>1. ASSUME NEW i \in Live, NEW k \in 0 .. NodeLen(posted[i].size) - 1
        PROVE  mem'[posted[i].at + k] = mem[posted[i].at + k]
    <3>1. i \in 1 .. Len(posted)
      BY <1>1 DEF TypeOK, Live
    <3>2. /\ posted[i].at \in Nat /\ NodeLen(posted[i].size) \in Nat
          /\ End(i) = posted[i].at + NodeLen(posted[i].size)
          /\ End(i) <= ValidSize
      BY <1>1, <3>1, NodeFacts, NodeLenFacts DEF Ring, Chain
    <3>3. \/ pAt + n <= posted[i].at
          \/ End(i) <= pAt
      BY <1>2, PlaceIsFree DEF NoOverwrite
    <3>4. head <= tail => End(i) <= tail
      BY DEF Ring, Layout
    <3>5. /\ posted[i].at + k \in 0 .. ValidSize - 1
          /\ posted[i].at + k \notin place
          /\ pAt # tail => posted[i].at + k \notin marker
      <4> DEFINE b == posted[i].at + k
      <4>1. b \in Nat /\ posted[i].at <= b /\ b < End(i)
        BY <2>1, <3>2
      <4> HIDE DEF b
      <4>2. b \in 0 .. ValidSize - 1
        BY <4>1, <3>2, <1>1
      <4>3. b \notin place
        BY <4>1, <3>2, <3>3, <1>1, <1>3
      <4>4. pAt # tail => b \notin marker
        BY <4>1, <3>2, <3>4, <1>1, <1>4
      <4>5. QED
        BY <4>2, <4>3, <4>4 DEF b
    <3>6. QED
      BY <3>5, <1>13
  <2>2. ASSUME NEW i \in Live, head > tail, posted[i].at # Before(i)
        PROVE  IsMarker(Before(i))'
    <3>1. head <= Before(i)
      BY <2>2, Wrapped
    <3>2. i - 1 \in 0 .. Len(posted)
      BY <1>1 DEF TypeOK, Live
    <3>3. Before(i) \in Nat /\ Before(i)' = Before(i)
      BY <1>1, <1>6, <3>2, NodeFacts DEF Before, End, NodeLen
    <3>4. SUFFICES ASSUME Before(i) + HeadLen <= ValidSize,
                          NEW k \in 0 .. HeadLen - 1
                   PROVE  mem'[Before(i) + k] = Zero
      BY <3>3 DEF IsMarker
    <3>5. mem[Before(i) + k] = Zero
      BY <2>2, <3>4 DEF Ring, Contents, IsMarker
    <3>6. /\ Before(i) + k \in 0 .. ValidSize - 1
          /\ Before(i) + k \notin place
          /\ pAt = tail
      BY <1>1, <1>3, <1>4, <2>2, <3>1, <3>3, <3>4
    <3>7. QED
      BY <3>5, <3>6, <1>7
  <2>3. Holds(pAt, Len(posted) + 1, pSize, n)'
    <3>1. SUFFICES ASSUME NEW k \in 0 .. n - 1
                   PROVE  mem'[pAt + k] = <<Len(posted) + 1, pSize, k>>
      BY <1>6 DEF Holds, NodeLen
    <3>2. /\ pAt + k \in 0 .. ValidSize - 1
          /\ pAt + k \in place
          /\ pAt + k - pAt = k
      BY <1>1, <1>3, <1>4, <3>1
    <3>3. mem'[pAt + k] = Node(pAt + k)
      BY <3>2, <1>13
    <3>4. k \in Nat /\ pAt + k - pAt = k
      BY <1>1, <1>3, <3>1
    <3>5. Node(pAt + k) = <<Len(posted) + 1, pSize, k>>
      BY <1>1, <3>4
    <3>6. QED
      BY <3>3, <3>5
  <2>4. ASSUME pAt # tail
        PROVE  IsMarker(tail)'
    <3>1. SUFFICES ASSUME tail + HeadLen <= ValidSize,
                          NEW k \in 0 .. HeadLen - 1
                   PROVE  mem'[tail + k] = Zero
      BY <1>6 DEF IsMarker
    <3>2. /\ tail + k \in 0 .. ValidSize - 1
          /\ tail + k \notin place
          /\ tail + k \in marker
      BY <1>1, <1>3, <1>4, <2>4, <3>1
    <3>3. QED
      BY <3>1, <3>2, <2>4, <1>7
  <2>5. \A i \in Live : Holds(posted[i].at, i, posted[i].size,
                             NodeLen(posted[i].size))'
    BY <2>1, <1>6 DEF Ring, Contents, Holds, NodeLen
  <2>6. Live' = Live /\ \A i \in Live : Before(i)' = Before(i)
    BY <1>6 DEF Live, Before, End, NodeLen
  <2>7. QED
    BY <2>2, <2>3, <2>4, <2>5, <2>6, <1>6 DEF Contents
<1>10. (Chain /\ Layout /\ EqualOnlyWhenEmpty /\ Found)'
  BY <1>6 DEF Ring, Chain, Layout, EqualOnlyWhenEmpty, Found, Live, Before, End,
              NodeLen
<1>11. Claim'
  BY <1>2, <1>6 DEF Ring, Claim, Busy
<1>12. QED
  BY <1>8, <1>9, <1>10, <1>11 DEF Ring

\* set_tail makes the node the last of the queue: it lies behind the others, it
\* overlaps none of them, and it is whole.
LEMMA PublishKeeps ==
  ASSUME Ring, Publish
  PROVE  Ring'
<1>0. PICK N \in Nat : N = Len(posted)
  BY NodeFacts DEF Ring
<1> DEFINE n == NodeLen(pSize)
           t == pAt + n
           r == [at |-> pAt, size |-> pSize]
<1>1. /\ TypeOK
      /\ head \in Nat /\ tail \in Nat /\ pAt \in Nat
      /\ ValidSize \in Nat /\ head <= ValidSize
      /\ popped \in Nat /\ N \in Nat /\ popped <= N
  BY <1>0, ValidSizeAssumption, NodeFacts DEF Ring, TypeOK
<1>2. Busy /\ pSize \in Sizes /\ n \in Nat /\ n > 0 /\ t \in Nat
  BY <1>1, NodeLenFacts, HeadLenAssumption DEF Ring, Claim, Busy, Publish
<1>3. \/ /\ pAt = tail
         /\ t <= ValidSize
         /\ head <= tail \/ t < head
      \/ /\ pAt = 0
         /\ tail + n > ValidSize
         /\ n < head
         /\ head <= tail
  BY <1>2 DEF Ring, Claim
<1>4. /\ UNCHANGED <<head, mem, pAt, pSize, cPc, cTail, cAt, cSize, popped,
                     taken>>
      /\ pPc' = "idle" /\ tail' = t /\ posted' = Append(posted, r)
  BY DEF Publish, consumerVars
<1>5. /\ posted' \in Seq([at : 0 .. ValidSize, size : Sizes])
      /\ Len(posted') = N + 1
      /\ \A i \in 1 .. N : posted'[i] = posted[i]
      /\ posted'[N + 1] = r
  <2>1. /\ posted \in Seq([at : 0 .. ValidSize, size : Sizes])
        /\ pAt \in 0 .. ValidSize
    BY <1>1 DEF TypeOK
  <2>2. r \in [at : 0 .. ValidSize, size : Sizes]
    BY <2>1, <1>2
  <2>3. QED
    BY <2>1, <2>2, <1>0, <1>4, AppendProperties
<1>6. /\ r.at = pAt /\ r.size = pSize
      /\ t \in 0 .. ValidSize /\ t # 0
  BY <1>1, <1>2, <1>3
<1>7. TypeOK'
  BY <1>1, <1>2, <1>4, <1>5, <1>6 DEF TypeOK
<1>8. /\ \A i \in 0 .. N : End(i)' = End(i)
      /\ End(N + 1)' = t
  <2>1. \A i \in 0 .. N : End(i)' = End(i)
    BY <1>1, <1>5 DEF End, NodeLen
  <2>2. N + 1 # 0 /\ posted'[N + 1].at = pAt /\ posted'[N + 1].size = pSize
    BY <1>1, <1>5, <1>6
  <2>3. End(N + 1)' = t
    BY <2>2 DEF End, NodeLen
  <2>4. QED
    BY <2>1, <2>3
<1>9. Live' = Live \cup {N + 1} /\ \A i \in Live : i \in 1 .. N /\ i - 1 \in 0 .. N
  BY <1>0, <1>1, <1>4, <1>5 DEF Live
<1>10. \A i \in 1 .. N :
         /\ posted[i].at \in Nat /\ End(i) \in Nat
         /\ posted[i].at < End(i)
         /\ posted[i].size \in Sizes
  BY <1>0, <1>1, NodeFacts, NodeLenFacts, HeadLenAssumption, ValidSizeAssumption
<1>24. /\ \A i \in Live : Before(i)' = Before(i)
       /\ Before(N + 1)' = tail
  <2>1. \A i \in Live : Before(i)' = Before(i)
    BY <1>4, <1>8, <1>9 DEF Before
  <2>2. tail = Before(N + 1)
    BY <1>0 DEF Ring, Chain
  <2>3. Before(N + 1)' = Before(N + 1)
    <3>1. N + 1 - 1 = N /\ N \in 0 .. N
      BY <1>1
    <3>2. QED
      BY <3>1, <1>4, <1>8 DEF Before
  <2>4. QED
    BY <2>1, <2>2, <2>3
<1>11. Chain'
  <2>1. ASSUME NEW i \in Live
        PROVE  /\ End(i)' <= ValidSize
               /\ \/ posted'[i].at = Before(i)'
                  \/ /\ posted'[i].at = 0
                     /\ Before(i)' + NodeLen(posted'[i].size) > ValidSize
    <3>1. i \in 1 .. N /\ i \in 0 .. N
      BY <1>1, <1>9
    <3>2. End(i)' = End(i) /\ Before(i)' = Before(i) /\ posted'[i] = posted[i]
      BY <3>1, <1>5, <1>8, <1>24
    <3>3. QED
      BY <3>2 DEF Ring, Chain
  <2>2. /\ End(N + 1)' <= ValidSize
        /\ \/ posted'[N + 1].at = Before(N + 1)'
           \/ /\ posted'[N + 1].at = 0
              /\ Before(N + 1)' + NodeLen(posted'[N + 1].size) > ValidSize
    BY <1>1, <1>2, <1>3, <1>5, <1>6, <1>8, <1>24
  <2>3. tail' = Before(Len(posted) + 1)'
    <3>1. N + 1 + 1 # popped + 1 /\ N + 1 + 1 - 1 = N + 1
      BY <1>1
    <3>2. QED
      BY <3>1, <1>4, <1>5, <1>8 DEF Before
  <2>4. QED
    BY <2>1, <2>2, <2>3, <1>9 DEF Chain, NodeLen
<1>12. /\ \A i \in Live : \/ head <= posted[i].at
                          \/ head > tail /\ End(i) <= tail
       /\ head <= tail => \A i \in Live : End(i) <= tail
       /\ \A i, j \in Live : i < j =>
            \/ End(i) <= posted[j].at
            \/ head > tail /\ head <= posted[i].at /\ End(j) <= tail
       /\ \A i, j \in Live : i < j /\ head > tail /\ End(i) <= tail
                             => End(j) <= tail
  BY DEF Ring, Layout
<1>13. /\ \A i \in Live : End(i)' = End(i) /\ posted'[i] = posted[i] /\ i < N + 1
       /\ End(N + 1)' = t /\ posted'[N + 1].at = pAt
  BY <1>1, <1>5, <1>6, <1>8, <1>9
<1>14. \A i \in Live' : \/ head <= posted'[i].at
                        \/ head > t /\ End(i)' <= t
  <2>1. ASSUME NEW i \in Live
        PROVE  \/ head <= posted'[i].at
               \/ head > t /\ End(i)' <= t
    BY <1>1, <1>2, <1>3, <1>9, <1>10, <1>12, <1>13
  <2>2. \/ head <= posted'[N + 1].at
        \/ head > t /\ End(N + 1)' <= t
    BY <1>1, <1>2, <1>3, <1>13
  <2>3. QED
    BY <2>1, <2>2, <1>9
<1>15. head <= t => \A i \in Live' : End(i)' <= t
  <2>1. ASSUME head <= t, NEW i \in Live
        PROVE  End(i)' <= t
    BY <2>1, <1>1, <1>2, <1>3, <1>9, <1>10, <1>12, <1>13
  <2>2. QED
    BY <2>1, <1>2, <1>9, <1>13
<1>16. \A i, j \in Live' : i < j =>
         \/ End(i)' <= posted'[j].at
         \/ head > t /\ head <= posted'[i].at /\ End(j)' <= t
  <2>1. ASSUME NEW i \in Live, NEW j \in Live, i < j
        PROVE  \/ End(i) <= posted[j].at
               \/ head > t /\ head <= posted[i].at /\ End(j) <= t
    BY <2>1, <1>1, <1>2, <1>3, <1>9, <1>10, <1>12
  <2>2. ASSUME NEW i \in Live
        PROVE  \/ End(i) <= pAt
               \/ head > t /\ head <= posted[i].at /\ t <= t
    BY <1>1, <1>2, <1>3, <1>9, <1>10, <1>12
  <2>3. \A i \in Live : ~ (N + 1 < i)
    BY <1>1, <1>9
  <2>4. ~ (N + 1 < N + 1)
    BY <1>1
  <2>5. QED
    BY <2>1, <2>2, <2>3, <2>4, <1>9, <1>13
<1>17. \A i, j \in Live' : i < j /\ head > t /\ End(i)' <= t => End(j)' <= t
  <2>1. ASSUME NEW i \in Live, NEW j \in Live, i < j, head > t, End(i) <= t
        PROVE  End(j) <= t
    <3>1. /\ posted[i].at \in Nat /\ End(i) \in Nat /\ posted[i].at < End(i)
          /\ End(j) \in Nat
      BY <1>9, <1>10
    <3>2. head > tail /\ End(i) <= tail
      BY <2>1, <3>1, <1>1, <1>2, <1>12
    <3>3. End(j) <= tail
      BY <2>1, <3>2, <1>12
    <3>4. QED
      BY <3>1, <3>2, <3>3, <1>1, <1>2, <1>3
  <2>2. \A i \in Live : ~ (N + 1 < i)
    BY <1>1, <1>9
  <2>3. QED
    BY <2>1, <2>2, <1>2, <1>9, <1>13
<1>18. Layout'
  BY <1>4, <1>14, <1>15, <1>16, <1>17 DEF Layout
<1>19. EqualOnlyWhenEmpty'
  BY <1>0, <1>1, <1>2, <1>3, <1>4, <1>5 DEF Ring, EqualOnlyWhenEmpty
<1>20. Claim'
  BY <1>4 DEF Claim, Busy
<1>21. Contents'
  <2>1. ASSUME NEW i \in Live
        PROVE  Holds(posted[i].at, i, posted[i].size,
                     NodeLen(posted[i].size))'
    BY <1>4, <1>13 DEF Ring, Contents, Holds, NodeLen
  <2>2. Holds(pAt, N + 1, pSize, n) /\ (pAt # tail => IsMarker(tail))
    BY <1>0 DEF Ring, Contents, Publish
  <2>3. ASSUME NEW i \in Live, posted[i].at # Before(i)
        PROVE  IsMarker(Before(i))
    BY <2>3, Wrapped DEF Ring, Contents
  <2>6. /\ \A i \in Live' : Holds(posted[i].at, i, posted[i].size,
                                  NodeLen(posted[i].size))'
    <3>1. Holds(posted[N + 1].at, N + 1, posted[N + 1].size,
                NodeLen(posted[N + 1].size))'
      BY <2>2, <1>4, <1>5, <1>6 DEF Holds, NodeLen
    <3>2. QED
      BY <3>1, <2>1, <1>9
  <2>7. \A i \in Live' : posted'[i].at # Before(i)' => IsMarker(Before(i))'
    <3>1. ASSUME NEW i \in Live, posted'[i].at # Before(i)'
          PROVE  IsMarker(Before(i))'
      BY <3>1, <2>3, <1>4, <1>13, <1>24 DEF IsMarker
    <3>2. ASSUME posted'[N + 1].at # Before(N + 1)'
          PROVE  IsMarker(Before(N + 1))'
      BY <3>2, <2>2, <1>4, <1>13, <1>24 DEF IsMarker
    <3>3. QED
      BY <3>1, <3>2, <1>9
  <2>8. QED
    BY <2>6, <2>7, <1>4 DEF Contents
<1>22. Found'
  <2>1. popped < N => popped + 1 \in 1 .. N /\ popped < N + 1
    BY <1>1
  <2>2. QED
    BY <2>1, <1>0, <1>4, <1>5 DEF Ring, Found
<1>23. QED
  BY <1>7, <1>11, <1>18, <1>19, <1>20, <1>21, <1>22 DEF Ring

\* The reader does not disturb the ring as long as it releases nothing.
LEMMA RingFrame ==
  ASSUME Ring, UNCHANGED <<head, tail, mem, pPc, pAt, pSize, posted, popped>>
  PROVE  (Chain /\ Layout /\ EqualOnlyWhenEmpty /\ Claim /\ Contents)'
<1>1. /\ Live' = Live
      /\ \A i : End(i)' = End(i)
      /\ \A i : Before(i)' = Before(i)
  BY DEF Live, Before, End, NodeLen
<1>2. Chain'
  BY <1>1 DEF Ring, Chain, NodeLen
<1>3. (Layout /\ EqualOnlyWhenEmpty /\ Claim)'
  BY <1>1 DEF Ring, Layout, EqualOnlyWhenEmpty, Claim, Busy, NodeLen
<1>4. Contents'
  BY <1>1 DEF Ring, Contents, Holds, IsMarker, NodeLen
<1>5. QED
  BY <1>2, <1>3, <1>4

\* get_boundary changes only what the reader has read.
LEMMA GetBoundaryKeeps ==
  ASSUME Ring, GetBoundary
  PROVE  Ring'
<1> USE DEF GetBoundary, producerVars
<1>1. TypeOK /\ popped \in Nat /\ Len(posted) \in Nat /\ popped <= Len(posted)
  BY NodeFacts DEF Ring, TypeOK
<1>2. popped < Len(posted)
  BY <1>1 DEF Ring, EqualOnlyWhenEmpty
<1>3. tail # 0
  BY <1>2, FirstQueued
<1>4. TypeOK'
  BY <1>1 DEF TypeOK
<1>5. Found'
  BY <1>2, <1>3 DEF Found
<1>6. (Chain /\ Layout /\ EqualOnlyWhenEmpty /\ Claim /\ Contents)'
  BY RingFrame
<1>7. QED
  BY <1>4, <1>5, <1>6 DEF Ring

\* get finds the first queued node and its length, so it never recovers.
LEMMA GetLengthKeeps ==
  ASSUME Ring, GetLength
  PROVE  Ring' /\ UNCHANGED popped
<1>1. TypeOK /\ popped < Len(posted) /\ cTail \in Nat \ {0}
  BY ValidSizeAssumption DEF Ring, TypeOK, Found, GetLength
<1>2. /\ FirstNode(head) = posted[popped + 1].at
      /\ FirstLength(head, cTail) = posted[popped + 1].size
      /\ posted[popped + 1].size \in Sizes
  BY <1>1, GetFinds
<1>3. FirstLength(head, cTail) # 0
  BY <1>2, SizesAssumption
<1>4. /\ cAt' = posted[popped + 1].at
      /\ cSize' = posted[popped + 1].size
      /\ cPc' = "message"
      /\ UNCHANGED <<head, tail, mem, pPc, pAt, pSize, cTail, posted, popped,
                     taken>>
  BY <1>2, <1>3 DEF GetLength, producerVars
<1>5. TypeOK'
  <2>1. popped + 1 \in 1 .. Len(posted)
    BY <1>1, NodeFacts DEF TypeOK
  <2>2. posted[popped + 1].at \in 0 .. ValidSize
    BY <2>1, <1>1, NodeFacts
  <2>3. QED
    BY <2>2, <1>1, <1>2, <1>4 DEF TypeOK
<1>6. Found'
  BY <1>1, <1>4 DEF Found
<1>7. (Chain /\ Layout /\ EqualOnlyWhenEmpty /\ Claim /\ Contents)'
  BY <1>4, RingFrame
<1>8. QED
  BY <1>4, <1>5, <1>6, <1>7 DEF Ring

\* What the reader takes is the first queued message.
LEMMA TakeMessageKeeps ==
  ASSUME Ring, TakeMessage
  PROVE  /\ Ring'
         /\ popped < Len(posted)
         /\ taken' = Append(taken, <<popped + 1, posted[popped + 1].size>>)
<1>1. /\ TypeOK /\ popped < Len(posted)
      /\ cAt = posted[popped + 1].at
      /\ cSize = posted[popped + 1].size
  BY DEF Ring, Found, TakeMessage
<1>2. /\ cSize \in Sizes
      /\ MessageAt(cAt, cSize) = <<popped + 1, cSize>>
  BY <1>1, GetFinds
<1>3. cSize # Garbage /\ cSize \in Nat
  BY <1>2, SizesAssumption DEF Garbage
<1>4. /\ taken' = Append(taken, <<popped + 1, cSize>>)
      /\ cPc' = "pop"
      /\ UNCHANGED <<head, tail, mem, pPc, pAt, pSize, cTail, cAt, cSize, posted,
                     popped>>
  BY <1>2, <1>3 DEF TakeMessage, producerVars
<1>5. <<popped + 1, cSize>> \in Nat \X Nat
  <2>1. Len(posted) \in Nat
    BY <1>1, NodeFacts
  <2>2. popped \in Nat
    BY <2>1, <1>1 DEF TypeOK
  <2>3. QED
    BY <2>2, <1>3
<1>6. taken' \in Seq(Nat \X Nat)
  BY <1>1, <1>4, <1>5, AppendProperties DEF TypeOK
<1>7. TypeOK'
  BY <1>1, <1>4, <1>6 DEF TypeOK
<1>8. (Chain /\ Layout /\ EqualOnlyWhenEmpty /\ Claim /\ Contents /\ Found)'
  BY <1>4, RingFrame DEF Ring, Found
<1>9. QED
  BY <1>1, <1>4, <1>7, <1>8 DEF Ring

\* pop releases the first queued node, and only that one.
LEMMA PopNode ==
  ASSUME Ring, Pop, popped < Len(posted)
  PROVE  Ring' /\ popped' = popped + 1 /\ UNCHANGED <<posted, taken>>
<1>0. PICK f \in Nat : f = popped + 1
  BY NodeFacts DEF Ring, TypeOK
<1>1. PICK N \in Nat : N = Len(posted)
  BY NodeFacts DEF Ring
<1> DEFINE n == NodeLen(posted[f].size)
<1>2. /\ TypeOK /\ head \in Nat /\ tail \in Nat /\ popped \in Nat
      /\ f \in 1 .. N /\ popped < N
      /\ ValidSize \in Nat /\ head <= ValidSize
  BY <1>0, <1>1, ValidSizeAssumption DEF Ring, TypeOK
<1>3. /\ f \in Live
      /\ head # tail /\ tail # 0
      /\ End(f) = posted[f].at + n
      /\ \/ posted[f].at = head /\ head + n <= ValidSize
         \/ /\ posted[f].at = 0 /\ head # 0 /\ head > tail
            /\ head + n > ValidSize
            /\ n <= tail
  BY <1>0, <1>1, <1>2, FirstQueued
<1>4. FirstLength(head, tail) = posted[f].size /\ posted[f].size \in Sizes
  BY <1>0, <1>1, <1>2, <1>3, GetFinds
<1>5. n \in Nat /\ n > 0
  BY <1>4, NodeLenFacts, HeadLenAssumption
<1>6. FirstLength(head, tail) # 0
  BY <1>4, SizesAssumption
<1>7. /\ head' = End(f) /\ popped' = f /\ cPc' = "idle"
      /\ UNCHANGED <<tail, mem, pPc, pAt, pSize, cTail, cAt, cSize, posted, taken>>
  <2>1. head' = (IF head + n > ValidSize THEN 0 ELSE head) + n
    BY <1>3, <1>4, <1>6 DEF Pop
  <2>2. head' = End(f)
    BY <2>1, <1>2, <1>3, <1>5
  <2>3. popped' = f
    BY <1>0, <1>3, <1>6 DEF Pop
  <2>4. QED
    BY <2>2, <2>3, <1>3, <1>6 DEF Pop, producerVars
<1>8. \A i \in 1 .. N :
         /\ posted[i].at \in Nat /\ End(i) \in Nat
         /\ posted[i].at < End(i)
  <2>1. SUFFICES ASSUME NEW i \in 1 .. N
                 PROVE  /\ posted[i].at \in Nat /\ End(i) \in Nat
                        /\ posted[i].at < End(i)
    OBVIOUS
  <2>2. /\ posted[i].at \in 0 .. ValidSize /\ posted[i].size \in Sizes
        /\ End(i) = posted[i].at + NodeLen(posted[i].size)
    BY <1>1, <1>2, NodeFacts
  <2>3. NodeLen(posted[i].size) \in Nat /\ NodeLen(posted[i].size) > 0
    BY <2>2, NodeLenFacts, HeadLenAssumption
  <2>4. QED
    BY <2>2, <2>3, <1>2
<1>9. Live' = Live \ {f} /\ \A i \in Live : i \in 1 .. N /\ (i # f => f < i)
  BY <1>0, <1>1, <1>2, <1>7 DEF Live
<1>10. /\ \A i \in Live : \/ head <= posted[i].at
                          \/ head > tail /\ End(i) <= tail
       /\ head <= tail => \A i \in Live : End(i) <= tail
       /\ \A i, j \in Live : i < j =>
            \/ End(i) <= posted[j].at
            \/ head > tail /\ head <= posted[i].at /\ End(j) <= tail
       /\ \A i, j \in Live : i < j /\ head > tail /\ End(i) <= tail
                             => End(j) <= tail
  BY DEF Ring, Layout
\* Where head goes: on, staying on its side of tail, or round to the near end.
<1>11. \/ head <= tail /\ posted[f].at = head /\ End(f) <= tail
       \/ head > tail /\ posted[f].at = head /\ End(f) > head
       \/ head > tail /\ posted[f].at = 0 /\ End(f) <= tail
  BY <1>2, <1>3, <1>5, <1>10
<1>12. TypeOK'
  <2>1. End(f) \in 0 .. ValidSize
    BY <1>1, <1>2, <1>3, <1>8 DEF Ring, Chain
  <2>2. f \in 0 .. Len(posted)
    BY <1>1, <1>2
  <2>3. QED
    BY <2>1, <2>2, <1>2, <1>7 DEF TypeOK
<1>22. \A i \in Live : i # f => Before(i)' = Before(i)
  <2>1. \A i : End(i)' = End(i)
    BY <1>7 DEF End, NodeLen
  <2>2. ASSUME NEW i \in Live, i # f
        PROVE  Before(i)' = Before(i)
    <3>1. Before(i) = End(i - 1) /\ i \in Nat
      BY <2>2, <1>0, <1>1, <1>9 DEF Before
    <3>2. CASE i = f + 1
      BY <3>1, <3>2, <2>1, <1>0, <1>7 DEF Before
    <3>3. CASE i # f + 1
      BY <3>1, <3>3, <2>1, <1>7 DEF Before
    <3>4. QED
      BY <3>2, <3>3
  <2>3. QED
    BY <2>2
<1>13. Chain'
  <2>1. \A i : End(i)' = End(i)
    BY <1>7 DEF End, NodeLen
  <2>2. tail = Before(Len(posted) + 1)'
    <3>1. tail = End(N)
      BY <1>0, <1>1, <1>2 DEF Ring, Chain, Before
    <3>2. CASE f = N
      BY <3>1, <3>2, <1>0, <1>1, <1>7 DEF Before
    <3>3. CASE f # N
      BY <3>1, <3>3, <2>1, <1>0, <1>1, <1>7 DEF Before
    <3>4. QED
      BY <3>2, <3>3
  <2>3. \A i \in Live' : i \in Live /\ i # f
    BY <1>9
  <2>4. QED
    BY <2>1, <2>2, <2>3, <1>7, <1>22 DEF Ring, Chain, NodeLen
<1>14. ASSUME NEW i \in Live, f < i
       PROVE  /\ \/ End(f) <= posted[i].at
                 \/ End(f) > tail /\ End(i) <= tail
              /\ End(f) <= tail => End(i) <= tail
  <2>1. /\ \/ End(f) <= posted[i].at
           \/ head > tail /\ head <= posted[f].at /\ End(i) <= tail
        /\ head > tail /\ End(f) <= tail => End(i) <= tail
        /\ head <= tail => End(i) <= tail
    BY <1>3, <1>10, <1>14
  <2>2. End(f) \in Nat /\ End(i) \in Nat /\ posted[i].at \in Nat
    BY <1>2, <1>8, <1>9, <1>14
  <2>3. QED
    BY <2>1, <2>2, <1>2, <1>11
<1>15. ASSUME NEW i \in Live, NEW j \in Live, f < i, f < j, i < j
       PROVE  /\ \/ End(i) <= posted[j].at
                 \/ End(f) > tail /\ End(f) <= posted[i].at /\ End(j) <= tail
              /\ End(f) > tail /\ End(i) <= tail => End(j) <= tail
  <2>1. /\ \/ End(i) <= posted[j].at
           \/ head > tail /\ head <= posted[i].at /\ End(j) <= tail
        /\ head > tail /\ End(i) <= tail => End(j) <= tail
    BY <1>10, <1>15
  <2>2. /\ \/ End(f) <= posted[i].at
           \/ End(f) > tail /\ End(i) <= tail
        /\ End(f) <= tail => End(i) <= tail
    BY <1>14, <1>15
  <2>3. /\ End(i) \in Nat /\ posted[i].at \in Nat /\ posted[i].at < End(i)
        /\ End(j) \in Nat /\ posted[j].at \in Nat /\ End(f) \in Nat
    BY <1>2, <1>8, <1>9, <1>15
  <2>4. QED
    BY <2>1, <2>2, <2>3, <1>2, <1>11
<1>16. Layout'
  <2>1. /\ \A i : End(i)' = End(i)
        /\ \A i \in Live' : i \in Live /\ f < i
    BY <1>7, <1>9 DEF End, NodeLen
  <2>2. QED
    BY <2>1, <1>7, <1>14, <1>15 DEF Layout
<1>17. EqualOnlyWhenEmpty'
  <2>1. CASE f = N
    <3>1. tail = End(N)
      BY <1>0, <1>1, <1>2 DEF Ring, Chain, Before
    <3>2. QED
      BY <3>1, <2>1, <1>1, <1>7 DEF EqualOnlyWhenEmpty
  <2>2. CASE f # N
    <3>1. N \in Live /\ f < N /\ tail = End(N)
      BY <2>2, <1>0, <1>1, <1>2 DEF Ring, Chain, Before, Live
    <3>2. posted[N].at \in Nat /\ posted[N].at < End(N) /\ End(f) \in Nat
      BY <3>1, <1>2, <1>8, <1>9
    <3>3. End(f) # tail
      BY <3>1, <3>2, <1>2, <1>14
    <3>4. QED
      BY <2>2, <3>3, <1>1, <1>7 DEF EqualOnlyWhenEmpty
  <2>3. QED
    BY <2>1, <2>2
<1>18. Claim'
  <2>1. SUFFICES ASSUME Busy
                 PROVE  /\ pSize \in Sizes
                        /\ \/ /\ pAt = tail
                              /\ tail + NodeLen(pSize) <= ValidSize
                              /\ \/ End(f) <= tail
                                 \/ tail + NodeLen(pSize) < End(f)
                           \/ /\ pAt = 0
                              /\ tail + NodeLen(pSize) > ValidSize
                              /\ NodeLen(pSize) < End(f)
                              /\ End(f) <= tail
    BY <1>7 DEF Claim, Busy, NodeLen
  <2>2. /\ pSize \in Sizes
        /\ \/ /\ pAt = tail
              /\ tail + NodeLen(pSize) <= ValidSize
              /\ head <= tail \/ tail + NodeLen(pSize) < head
           \/ /\ pAt = 0
              /\ tail + NodeLen(pSize) > ValidSize
              /\ NodeLen(pSize) < head
              /\ head <= tail
    BY <2>1 DEF Ring, Claim
  <2>3. NodeLen(pSize) \in Nat /\ End(f) \in Nat
    BY <2>2, <1>2, <1>8, NodeLenFacts
  <2>4. QED
    BY <2>2, <2>3, <1>2, <1>3, <1>5, <1>11
<1>19. Contents'
  <2>1. \A i \in Live' : i \in Live /\ Before(i)' = Before(i)
    BY <1>9, <1>22
  <2>2. ASSUME NEW i \in Live, posted[i].at # Before(i)
        PROVE  IsMarker(Before(i))
    BY <2>2, Wrapped DEF Ring, Contents
  <2>3. QED
    BY <2>1, <2>2, <1>7 DEF Ring, Contents, Holds, IsMarker, NodeLen
<1>20. Found'
  BY <1>7 DEF Found
<1>21. QED
  BY <1>0, <1>7, <1>12, <1>13, <1>16, <1>17, <1>18, <1>19, <1>20 DEF Ring

\* pop leaves an empty ring alone.
LEMMA PopNothing ==
  ASSUME Ring, Pop, popped = Len(posted)
  PROVE  Ring' /\ UNCHANGED <<posted, popped, taken>>
<1>1. /\ cPc' = "idle"
      /\ UNCHANGED <<head, tail, mem, pPc, pAt, pSize, cTail, cAt, cSize, posted,
                     popped, taken>>
  BY DEF Ring, EqualOnlyWhenEmpty, Pop, producerVars
<1>2. TypeOK'
  BY <1>1 DEF Ring, TypeOK
<1>3. (Chain /\ Layout /\ EqualOnlyWhenEmpty /\ Claim /\ Contents /\ Found)'
  BY <1>1, RingFrame DEF Ring, Found
<1>4. QED
  BY <1>1, <1>2, <1>3 DEF Ring

\* Every step of either thread keeps the ring.
LEMMA RingStep ==
  ASSUME Ring, Next
  PROVE  Ring'
<1>1. popped \in Nat /\ Len(posted) \in Nat /\ popped <= Len(posted)
  BY NodeFacts DEF Ring, TypeOK
<1>2. CASE Pop
  BY <1>1, <1>2, PopNode, PopNothing
<1>3. QED
  BY <1>2, StartAppendKeeps, WriteNodeKeeps, PublishKeeps, GetBoundaryKeeps,
     GetLengthKeeps, TakeMessageKeeps DEF Next, Producer, Consumer

\* So does a step that changes nothing.
LEMMA RingStutter ==
  ASSUME Ring, UNCHANGED vars
  PROVE  Ring'
<1>1. UNCHANGED <<head, tail, mem, pPc, pAt, pSize, cPc, cTail, cAt, cSize,
                  posted, popped, taken>>
  BY DEF vars, producerVars, consumerVars
<1>2. TypeOK'
  BY <1>1 DEF Ring, TypeOK
<1>3. (Chain /\ Layout /\ EqualOnlyWhenEmpty /\ Claim /\ Contents /\ Found)'
  BY <1>1, RingFrame DEF Ring, Found
<1>4. QED
  BY <1>2, <1>3 DEF Ring

----------------------------------------------------------------------------
(* The theorems.                                                           *)

\* The ring is as it should be when the queue has been initialized.
LEMMA InitRing == Init => Ring
<1> SUFFICES ASSUME Init
             PROVE  Ring
  OBVIOUS
<1> USE DEF Init
<1>1. Len(posted) = 0 /\ Live = {} /\ posted \in Seq([at : 0 .. ValidSize, size : Sizes])
        /\ taken \in Seq(Nat \X Nat)
  BY DEF Live
<1>2. TypeOK
  BY <1>1, ValidSizeAssumption DEF TypeOK, Byte, Unwritten
<1>3. Chain /\ Layout /\ EqualOnlyWhenEmpty
  BY <1>1 DEF Chain, Layout, EqualOnlyWhenEmpty, Before
<1>4. Claim /\ Contents /\ Found
  BY <1>1 DEF Claim, Busy, Contents, Found
<1>5. QED
  BY <1>2, <1>3, <1>4 DEF Ring

\* Nothing has been taken from it.
LEMMA InitEstablishes == Init => IInv
<1>1. Init => Reader
  BY DEF Init, Reader
<1>2. QED
  BY <1>1, InitRing DEF IInv

\* The message taken is the one that is released next.
LEMMA ReaderTakes ==
  ASSUME IInv, TakeMessage
  PROVE  Reader' /\ Len(taken) = popped
<1>1. /\ popped < Len(posted)
      /\ taken' = Append(taken, <<popped + 1, posted[popped + 1].size>>)
  BY TakeMessageKeeps DEF IInv
<1>2. cPc' = "pop" /\ UNCHANGED <<posted, popped>> /\ Len(taken) = popped
  <2>1. popped \in Nat
    BY NodeFacts DEF IInv, Ring, TypeOK
  <2>2. QED
    BY <2>1 DEF IInv, Reader, TakeMessage
<1>3. popped \in Nat /\ taken \in Seq(Nat \X Nat) /\ posted[popped + 1].size \in Nat
  <2>1. TypeOK /\ Len(posted) \in Nat
    BY NodeFacts DEF IInv, Ring
  <2>2. popped \in Nat /\ popped + 1 \in 1 .. Len(posted)
    BY <1>1, <2>1 DEF TypeOK
  <2>3. QED
    BY <2>1, <2>2, NodeFacts, NodeLenFacts DEF TypeOK
<1>4. /\ Len(taken') = popped + 1
      /\ \A i \in 1 .. popped : taken'[i] = taken[i]
      /\ taken'[popped + 1] = <<popped + 1, posted[popped + 1].size>>
  BY <1>1, <1>2, <1>3, AppendProperties
<1>5. \A i \in 1 .. popped + 1 : i = popped + 1 \/ i \in 1 .. popped
  BY <1>3
<1>6. QED
  BY <1>1, <1>2, <1>4, <1>5 DEF IInv, Reader

\* Every step of the writer or of the reader keeps the inductive invariant.
LEMMA StepKeeps == IInv /\ [Next]_vars => IInv'
<1> SUFFICES ASSUME IInv, [Next]_vars
             PROVE  IInv'
  OBVIOUS
<1>1. Ring /\ Reader /\ Ring'
  BY RingStep, RingStutter DEF IInv
<1>2. PICK N \in Nat : N = Len(posted)
  BY <1>1, NodeFacts DEF Ring
<1>3. popped \in Nat /\ popped <= N
  BY <1>1, <1>2 DEF Ring, TypeOK
<1>4. \A i \in 1 .. Len(taken) : i \in 1 .. N
  BY <1>1, <1>2, <1>3 DEF Reader
<1>5. CASE Publish
  <2>1. /\ posted \in Seq([at : 0 .. ValidSize, size : Sizes])
        /\ [at |-> pAt, size |-> pSize] \in [at : 0 .. ValidSize, size : Sizes]
    BY <1>1, <1>5 DEF Ring, TypeOK, Claim, Busy, Publish
  <2>2. Len(posted') = N + 1 /\ \A i \in 1 .. N : posted'[i] = posted[i]
    BY <2>1, <1>2, <1>5, AppendProperties DEF Publish
  <2>3. UNCHANGED <<cPc, popped, taken>>
    BY <1>5 DEF Publish, consumerVars
  <2>4. Reader'
    BY <2>2, <2>3, <1>1, <1>2, <1>3, <1>4 DEF Reader
  <2>5. QED
    BY <2>4, <1>1 DEF IInv
<1>6. CASE TakeMessage
  BY <1>1, <1>6, ReaderTakes DEF IInv
<1>7. CASE Pop
  <2>1. popped < Len(posted) /\ cPc = "pop" /\ cPc' = "idle"
    BY <1>1, <1>7 DEF Reader, Pop, Recover
  <2>2. popped' = popped + 1 /\ UNCHANGED <<posted, taken>>
    BY <2>1, <1>1, <1>7, PopNode
  <2>3. Reader'
    BY <2>1, <2>2, <1>1, <1>3 DEF Reader
  <2>4. QED
    BY <2>3, <1>1 DEF IInv
<1>8. CASE GetBoundary \/ GetLength
  <2>1. cPc # "pop" /\ cPc' # "pop" /\ UNCHANGED <<posted, popped, taken>>
    BY <1>1, <1>8, GetLengthKeeps DEF GetBoundary, GetLength, Recover
  <2>2. QED
    BY <2>1, <1>1 DEF Reader, IInv
<1>9. CASE (\E s \in Sizes : StartAppend(s)) \/ WriteNode \/ UNCHANGED vars
  <2>1. UNCHANGED <<cPc, posted, popped, taken>>
    BY <1>9 DEF StartAppend, WriteNode, vars, consumerVars
  <2>2. QED
    BY <2>1, <1>1 DEF Reader, IInv
<1>10. QED
  BY <1>5, <1>6, <1>7, <1>8, <1>9 DEF Next, Producer, Consumer

\* The inductive invariant holds in every reachable state.
THEOREM Invariance == Spec => []IInv
<1>1. QED
  BY InitEstablishes, StepKeeps, PTL DEF Spec

\* Every variable of the queue stays in its range: head and tail never leave
\* the ring, and the reader never finds a length word that is no length.
THEOREM TypeCorrect == Spec => []TypeOK
<1>1. IInv => TypeOK
  BY DEF IInv, Ring
<1>2. QED
  BY <1>1, Invariance, PTL

\* The lock-free claim of circle_queue.h: append never writes a byte of a
\* node the reader has not released.
THEOREM NeverOverwrites == Spec => []NoOverwrite
<1>1. IInv => NoOverwrite
  BY PlaceIsFree DEF IInv
<1>2. QED
  BY <1>1, Invariance, PTL

\* The comment on CCircleQueue::empty: head = tail only when nothing is queued.
THEOREM FullIsNotEmpty == Spec => []EqualOnlyWhenEmpty
<1>1. IInv => EqualOnlyWhenEmpty
  BY DEF IInv, Ring
<1>2. QED
  BY <1>1, Invariance, PTL

\* An empty queue takes any node of at most half the ring, wherever the two
\* words stopped: append2 cannot refuse such a message for ever.
THEOREM EmptyTakesAnyHalf == Spec => []EmptyTakesHalf
<1>1. IInv => EmptyTakesHalf
  <2> SUFFICES ASSUME IInv, popped = Len(posted), NEW s \in Sizes,
                      2 * NodeLen(s) <= ValidSize
               PROVE  Fits(head, tail, s)
    BY DEF EmptyTakesHalf
  <2>1. head = tail /\ head \in Nat /\ head <= ValidSize /\ ValidSize \in Nat
    BY ValidSizeAssumption DEF IInv, Ring, EqualOnlyWhenEmpty, TypeOK
  <2>2. NodeLen(s) \in Nat
    BY NodeLenFacts
  <2>3. QED
    BY <2>1, <2>2 DEF Fits, Wraps
<1>2. QED
  BY <1>1, Invariance, PTL

\* CCircleQueue implements the abstract FIFO: messages are taken whole, in the
\* order append accepted them, none twice and none skipped.
THEOREM Implements == Spec => ImplementsFifo
<1> DEFINE sentNow == [i \in 1 .. Len(posted) |-> <<i, posted[i].size>>]
<1>1. Init => Queue!Init
  <2> SUFFICES ASSUME Init
               PROVE  sentNow = <<>> /\ taken = <<>>
    BY DEF Queue!Init
  <2>1. Len(posted) = 0
    BY DEF Init
  <2>2. QED
    BY <2>1 DEF Init
<1>2. IInv /\ [Next]_vars => [Queue!Next]_(Queue!fifoVars)
  <2> SUFFICES ASSUME IInv, [Next]_vars
               PROVE  [Queue!Next]_(Queue!fifoVars)
    OBVIOUS
  <2> USE DEF Queue!fifoVars
  <2>1. CASE Publish
    <3>1. PICK N \in Nat : N = Len(posted)
      BY NodeFacts DEF IInv, Ring
    <3>2. /\ posted \in Seq([at : 0 .. ValidSize, size : Sizes])
          /\ pAt \in 0 .. ValidSize
          /\ pSize \in Sizes
      BY <2>1 DEF IInv, Ring, TypeOK, Claim, Busy, Publish
    <3>3. [at |-> pAt, size |-> pSize] \in [at : 0 .. ValidSize, size : Sizes]
      BY <3>2
    <3>4. /\ posted' = Append(posted, [at |-> pAt, size |-> pSize])
          /\ taken' = taken
      BY <2>1 DEF Publish
    <3>5. /\ Len(posted') = N + 1
          /\ \A i \in 1 .. N : posted'[i] = posted[i]
          /\ posted'[N + 1].size = pSize
      BY <3>1, <3>2, <3>3, <3>4, AppendProperties
    <3>6. sentNow \in Seq(Nat \X Sizes) /\ Len(sentNow) = N
      <4>1. \A i \in 1 .. N : <<i, posted[i].size>> \in Nat \X Sizes
        BY <3>1, NodeFacts DEF IInv, Ring
      <4>2. QED
        BY <4>1, <3>1, IsASeq
    <3>7. [i \in 1 .. Len(posted') |-> <<i, posted'[i].size>>]
            = Append(sentNow, <<Len(sentNow) + 1, pSize>>)
      BY <3>1, <3>5, <3>6
    <3>8. QED
      BY <3>2, <3>4, <3>7 DEF Queue!Next, Queue!Send
  <2>2. CASE TakeMessage
    <3>1. /\ Len(taken) = popped /\ popped < Len(posted)
          /\ taken' = Append(taken, <<popped + 1, posted[popped + 1].size>>)
          /\ posted' = posted
      BY <2>2, TakeMessageKeeps, ReaderTakes DEF IInv, TakeMessage
    <3>2. popped \in Nat /\ Len(posted) \in Nat
      BY NodeFacts DEF IInv, Ring, TypeOK
    <3>3. /\ Len(sentNow) = Len(posted)
          /\ sentNow[popped + 1] = <<popped + 1, posted[popped + 1].size>>
      BY <3>1, <3>2
    <3>4. QED
      BY <3>1, <3>2, <3>3 DEF Queue!Next, Queue!Receive
  <2>3. CASE UNCHANGED <<posted, taken>>
    BY <2>3
  <2>4. QED
    BY <2>1, <2>2, <2>3 DEF Next, Producer, Consumer, StartAppend, WriteNode,
       GetBoundary, GetLength, Pop, vars
<1>3. QED
  BY <1>1, <1>2, Invariance, PTL DEF Spec, ImplementsFifo, Queue!SafeSpec
=============================================================================
