------------------------- MODULE ClearedQueueProofs -------------------------
(***************************************************************************)
(* The send queue with a reader that clears it: for every size of the ring *)
(* and of the messages, and any number of clears, the order of what is     *)
(* taken survives every clear that no append overlaps, and a clear costs   *)
(* at most one message appended after it.                                  *)
(***************************************************************************)
EXTENDS ClearedQueue, CircleQueueProofs, FiniteSetTheorems

\* Between the two stores of a clear only the types are left of the ring: the
\* writer is outside append, the reader inside clear.
RingOrClear ==
  /\ TypeOK
  /\ IF clearing THEN pPc = "idle" /\ cPc \in {"idle", "pop"} /\ head = 0
                 ELSE Ring

\* What was taken is whole and in order, and gone from the ring but for the node
\* that pop is about to release, if no clear has released it before.
InStep ==
  /\ \A i \in 1 .. Len(taken) :
       /\ taken[i][1] > 0
       /\ \/ taken[i][1] <= popped
          \/ taken[i][1] = popped + 1 /\ cPc = "pop" /\ popped < Len(posted)
  /\ \A i, j \in 1 .. Len(taken) : i < j => taken[i][1] < taken[j][1]

\* The message that the next pop will skip, if a clear took away the one that
\* was to be released.
Owed == IF cPc = "pop" /\ popped + 1 \notin TakenIds THEN 1 ELSE 0

\* Each clear was paid for by one message at most.
Paid ==
  /\ clears \in Nat /\ IsFiniteSet(skipped)
  /\ Cardinality(skipped) + Owed <= clears

ClearInv == ~ raced => RingOrClear /\ InStep /\ Paid

----------------------------------------------------------------------------
\* One place is owed or none.
LEMMA OwedFacts == Owed \in {0, 1}
  BY DEF Owed

\* As long as nothing changes of what was taken, posted and released, neither
\* does what is said of it.
LEMMA HistoryFrame ==
  ASSUME InStep, Paid, UNCHANGED <<cPc, popped, posted, taken, clears, skipped>>
  PROVE  InStep' /\ Paid'
<1>1. Owed' = Owed
  BY DEF Owed, TakenIds
<1>2. QED
  BY <1>1 DEF InStep, Paid

\* The first store of a clear that no append overlaps.
LEMMA ClearHeadKeeps ==
  ASSUME ClearInv, ClearHead, ~ raced'
  PROVE  ClearInv'
<1>1. ~ raced /\ ~ Busy /\ RingOrClear /\ InStep /\ Paid
  BY DEF ClearInv, ClearHead
<1>2. /\ clearing' /\ head' = 0 /\ cPc \in {"idle", "pop"}
      /\ UNCHANGED <<tail, mem, pPc, pAt, pSize, cPc, cTail, cAt, cSize, posted,
                     popped, taken, clears, skipped>>
  BY DEF ClearHead, producerVars, consumerVars
<1>3. pPc = "idle" /\ TypeOK
  BY <1>1 DEF RingOrClear, TypeOK, Busy
<1>4. TypeOK'
  BY <1>2, <1>3, ValidSizeAssumption DEF TypeOK
<1>5. InStep' /\ Paid'
  BY <1>1, <1>2, HistoryFrame
<1>6. QED
  BY <1>2, <1>3, <1>4, <1>5 DEF ClearInv, RingOrClear

\* The second store leaves an empty ring, and owes one message at most.
LEMMA ClearTailKeeps ==
  ASSUME ClearInv, ClearTail, ~ raced'
  PROVE  ClearInv'
<1>1. ~ raced /\ clearing /\ RingOrClear /\ InStep /\ Paid
  BY DEF ClearInv, ClearTail
<1>2. /\ TypeOK /\ pPc = "idle" /\ cPc \in {"idle", "pop"} /\ head = 0
      /\ Len(posted) \in Nat /\ popped \in Nat /\ popped <= Len(posted)
  <2>1. TypeOK /\ pPc = "idle" /\ cPc \in {"idle", "pop"} /\ head = 0
    BY <1>1 DEF RingOrClear
  <2>2. QED
    BY <2>1, NodeFacts DEF TypeOK
<1>3. /\ ~ clearing' /\ tail' = 0 /\ popped' = Len(posted) /\ clears' = clears + 1
      /\ UNCHANGED <<head, mem, pPc, pAt, pSize, cPc, cTail, cAt, cSize, posted,
                     taken, skipped>>
  BY DEF ClearTail, producerVars, consumerVars
<1>4. TypeOK'
  <2>1. 0 \in 0 .. ValidSize /\ Len(posted) \in 0 .. Len(posted)
    BY <1>2, ValidSizeAssumption
  <2>2. QED
    BY <2>1, <1>2, <1>3 DEF TypeOK
<1>5. Ring'
  <2>1. Live' = {} /\ (popped = Len(posted))' /\ (head = tail)'
    BY <1>2, <1>3 DEF Live
  <2>2. (Chain /\ Layout /\ EqualOnlyWhenEmpty)'
    BY <2>1 DEF Chain, Before, Layout, EqualOnlyWhenEmpty
  <2>3. (Claim /\ Contents /\ Found)'
    BY <2>1, <1>2, <1>3 DEF Claim, Busy, Contents, Found
  <2>4. QED
    BY <2>2, <2>3, <1>4 DEF Ring
<1>6. InStep'
  <2>1. ASSUME NEW i \in 1 .. Len(taken)
        PROVE  taken[i][1] > 0 /\ taken[i][1] <= Len(posted)
    <3>1. taken[i][1] \in Nat
      BY <1>2, ElementOfSeq DEF TypeOK
    <3>2. QED
      BY <3>1, <1>1, <1>2 DEF InStep
  <2>2. QED
    BY <2>1, <1>1, <1>3 DEF InStep
<1>7. Paid'
  <2>1. Cardinality(skipped) \in Nat
    BY <1>1, FS_CardinalityType DEF Paid
  <2>2. Owed \in {0, 1} /\ Owed' \in {0, 1}
    BY OwedFacts DEF Owed
  <2>3. QED
    BY <2>1, <2>2, <1>1, <1>3 DEF Paid
<1>8. QED
  BY <1>3, <1>4, <1>5, <1>6, <1>7 DEF ClearInv, RingOrClear

\* An append that overlaps no clear is a step of the ring.
LEMMA AppendKeeps ==
  ASSUME ClearInv, Append2, ~ raced'
  PROVE  ClearInv'
<1>1. ~ raced /\ ~ clearing /\ Ring /\ InStep /\ Paid
  BY DEF ClearInv, Append2, RingOrClear
<1>2. Ring' /\ ~ clearing' /\ UNCHANGED <<clears, skipped>>
  BY <1>1, RingStep DEF Append2, Next
<1>3. UNCHANGED <<cPc, popped, taken>> /\ Len(posted) <= Len(posted')
  <2>1. UNCHANGED <<cPc, popped, taken>>
    BY DEF Append2, Producer, StartAppend, WriteNode, Publish, consumerVars
  <2>2. Len(posted) \in Nat /\ posted \in Seq([at : 0 .. ValidSize, size : Sizes])
    BY <1>1, NodeFacts DEF Ring, TypeOK
  <2>3. CASE Publish
    <3>1. [at |-> pAt, size |-> pSize] \in [at : 0 .. ValidSize, size : Sizes]
      BY <2>3, <1>1 DEF Ring, TypeOK, Claim, Busy, Publish
    <3>2. QED
      BY <3>1, <2>1, <2>2, <2>3, AppendProperties DEF Publish
  <2>4. CASE UNCHANGED posted
    BY <2>1, <2>2, <2>4
  <2>5. QED
    BY <2>1, <2>3, <2>4 DEF Append2, Producer, StartAppend, WriteNode
<1>4. popped \in Nat /\ Len(posted) \in Nat /\ Len(posted') \in Nat
  <2>1. TypeOK /\ TypeOK'
    BY <1>1, <1>2 DEF Ring
  <2>2. posted \in Seq([at : 0 .. ValidSize, size : Sizes])
    BY <2>1 DEF TypeOK
  <2>3. posted' \in Seq([at : 0 .. ValidSize, size : Sizes])
    BY <2>1 DEF TypeOK
  <2>4. QED
    BY <2>1, <2>2, <2>3, LenProperties DEF TypeOK
<1>5. InStep'
  BY <1>1, <1>3, <1>4 DEF InStep
<1>6. Paid'
  BY <1>1, <1>2, <1>3 DEF Paid, Owed, TakenIds
<1>7. QED
  BY <1>2, <1>5, <1>6 DEF ClearInv, RingOrClear, Ring

\* A peek takes the first queued message, which is behind all that was taken.
LEMMA PeekKeeps ==
  ASSUME ClearInv, Peek, ~ raced'
  PROVE  ClearInv'
<1>1. ~ raced /\ ~ clearing /\ Ring /\ InStep /\ Paid
  BY DEF ClearInv, Peek, RingOrClear, clearVars
<1>2. Ring' /\ ~ clearing' /\ UNCHANGED <<clears, skipped>>
  BY <1>1, RingStep DEF Peek, Next, Consumer, clearVars
<1>3. TypeOK /\ popped \in Nat /\ Len(posted) \in Nat
  <2>1. TypeOK
    BY <1>1 DEF Ring
  <2>2. QED
    BY <2>1, NodeFacts DEF TypeOK
<1>4. Cardinality(skipped) \in Nat
  BY <1>1, FS_CardinalityType DEF Paid
<1>5. CASE GetBoundary \/ GetLength
  <2>1. cPc # "pop" /\ cPc' # "pop" /\ UNCHANGED <<posted, popped, taken>>
    BY <1>1, <1>5, GetLengthKeeps DEF GetBoundary, GetLength, Recover
  <2>2. InStep' /\ Owed = 0 /\ Owed' = 0
    BY <2>1, <1>1 DEF InStep, Owed
  <2>3. QED
    BY <2>2, <1>1, <1>2 DEF ClearInv, RingOrClear, Ring, Paid
<1>6. CASE TakeMessage
  <2>1. /\ popped < Len(posted)
        /\ taken' = Append(taken, <<popped + 1, posted[popped + 1].size>>)
    BY <1>1, <1>6, TakeMessageKeeps
  <2>2. cPc = "message" /\ cPc' = "pop" /\ UNCHANGED <<posted, popped>>
    BY <1>6 DEF TakeMessage
  <2>3. PICK n \in Nat : n = Len(taken)
    BY <1>3, LenProperties DEF TypeOK
  <2>4. /\ Len(taken') = n + 1
        /\ \A i \in 1 .. n : taken'[i] = taken[i]
        /\ taken'[n + 1][1] = popped + 1
    <3>1. posted[popped + 1].size \in Nat
      <4>1. popped + 1 \in 1 .. Len(posted)
        BY <2>1, <1>3
      <4>2. QED
        BY <4>1, <1>3, NodeFacts, NodeLenFacts
    <3>2. <<popped + 1, posted[popped + 1].size>> \in Nat \X Nat
      BY <3>1, <1>3
    <3>3. QED
      BY <3>2, <2>1, <2>3, <1>3, AppendProperties DEF TypeOK
  <2>5. \A i \in 1 .. n : taken[i][1] \in Nat /\ 0 < taken[i][1] /\ taken[i][1] <= popped
    <3>1. ASSUME NEW i \in 1 .. n
          PROVE  taken[i][1] \in Nat
      BY <2>3, <1>3, ElementOfSeq DEF TypeOK
    <3>2. QED
      BY <3>1, <2>2, <2>3, <1>1, <1>3 DEF InStep
  <2>6. \A i \in 1 .. n + 1 : i = n + 1 \/ i \in 1 .. n
    BY <2>3
  <2>7. \A i, j \in 1 .. n + 1 : i < j => taken'[i][1] < taken'[j][1]
    <3>1. ASSUME NEW i \in 1 .. n + 1, NEW j \in 1 .. n + 1, i < j
          PROVE  taken'[i][1] < taken'[j][1]
      <4>1. i \in 1 .. n
        BY <3>1, <2>3
      <4>2. CASE j = n + 1
        BY <4>1, <4>2, <2>4, <2>5, <1>3
      <4>3. CASE j # n + 1
        BY <4>1, <4>3, <3>1, <2>3, <2>4, <2>6, <1>1 DEF InStep
      <4>4. QED
        BY <4>2, <4>3
    <3>2. QED
      BY <3>1
  <2>8. InStep'
    BY <2>1, <2>2, <2>4, <2>5, <2>6, <2>7, <1>3 DEF InStep
  <2>9. Owed' = 0
    <3>1. n + 1 \in 1 .. Len(taken')
      BY <2>3, <2>4
    <3>2. popped + 1 \in TakenIds'
      BY <3>1, <2>4 DEF TakenIds
    <3>3. QED
      BY <3>2, <2>2 DEF Owed
  <2>10. Owed = 0
    BY <2>2 DEF Owed
  <2>11. QED
    BY <2>8, <2>9, <2>10, <1>1, <1>2 DEF ClearInv, RingOrClear, Ring, Paid
<1>7. QED
  BY <1>5, <1>6 DEF Peek

\* pop releases the first node there is: the one that was taken, or, if a clear
\* has taken that one away, one that then counts as skipped.
LEMMA RemoveKeeps ==
  ASSUME ClearInv, Remove, ~ raced'
  PROVE  ClearInv'
<1>1. ~ raced /\ ~ clearing /\ Ring /\ InStep /\ Paid
  BY DEF ClearInv, Remove, RingOrClear
<1>2. Ring' /\ ~ clearing' /\ UNCHANGED clears
  BY <1>1, RingStep DEF Remove, Next, Consumer
<1>3. cPc = "pop" /\ cPc' = "idle" /\ Owed' = 0
  BY DEF Remove, Pop, Recover, Owed
<1>4. /\ TypeOK /\ popped \in Nat /\ Len(posted) \in Nat
      /\ popped <= Len(posted)
  <2>1. TypeOK
    BY <1>1 DEF Ring
  <2>2. QED
    BY <2>1, NodeFacts DEF TypeOK
<1>5. Cardinality(skipped) \in Nat /\ IsFiniteSet(skipped)
  BY <1>1, FS_CardinalityType DEF Paid
<1>6. \A i \in 1 .. Len(taken) : taken[i][1] \in Nat
  BY <1>4, ElementOfSeq DEF TypeOK
<1>7. CASE popped = Len(posted)
  <2>1. UNCHANGED <<posted, popped, taken>>
    BY <1>1, <1>7, PopNothing DEF Remove
  <2>2. InStep'
    BY <2>1, <1>1, <1>4, <1>6, <1>7 DEF InStep
  <2>3. popped' # popped + 1
    BY <2>1, <1>4
  <2>4. Paid'
    BY <2>3, <1>1, <1>2, <1>3, <1>5, OwedFacts DEF Paid, Remove
  <2>5. QED
    BY <2>2, <2>4, <1>2 DEF ClearInv, RingOrClear, Ring
<1>8. CASE popped < Len(posted)
  <2>1. popped' = popped + 1 /\ UNCHANGED <<posted, taken>>
    BY <1>1, <1>8, PopNode DEF Remove
  <2>2. InStep'
    BY <2>1, <1>1, <1>4, <1>6 DEF InStep
  <2>3. Paid'
    <3>1. CASE popped + 1 \in TakenIds
      <4>1. skipped' = skipped
        BY <3>1, <2>1 DEF Remove, TakenIds
      <4>2. QED
        BY <4>1, <1>1, <1>2, <1>3, <1>5, OwedFacts DEF Paid
    <3>2. CASE popped + 1 \notin TakenIds
      <4>1. skipped' = skipped \cup {popped + 1} /\ Owed = 1
        BY <3>2, <2>1, <1>3 DEF Remove, TakenIds, Owed
      <4>2. /\ IsFiniteSet(skipped')
            /\ Cardinality(skipped') <= Cardinality(skipped) + 1
        BY <4>1, <1>5, FS_AddElement
      <4>3. Cardinality(skipped') \in Nat
        BY <4>2, FS_CardinalityType
      <4>4. QED
        BY <4>1, <4>2, <4>3, <1>1, <1>2, <1>3, <1>5 DEF Paid
    <3>3. QED
      BY <3>1, <3>2
  <2>4. QED
    BY <2>2, <2>3, <1>2 DEF ClearInv, RingOrClear, Ring
<1>9. QED
  BY <1>4, <1>7, <1>8

----------------------------------------------------------------------------
\* The queue starts empty, and nothing was cleared.
LEMMA InitClear == ClearInit => ClearInv
<1> SUFFICES ASSUME ClearInit
             PROVE  ClearInv
  OBVIOUS
<1>1. Ring /\ TypeOK
  BY InitRing DEF ClearInit, Ring
<1>2. InStep /\ Owed = 0
  BY DEF ClearInit, Init, InStep, Owed
<1>3. Cardinality(skipped) = 0 /\ IsFiniteSet(skipped)
  BY FS_EmptySet DEF ClearInit
<1>4. QED
  BY <1>1, <1>2, <1>3 DEF ClearInit, ClearInv, RingOrClear, Paid

\* Every step keeps the invariant as long as no append overlaps a clear.
LEMMA ClearStep == ClearInv /\ [ClearNext]_allVars => ClearInv'
<1> SUFFICES ASSUME ClearInv, [ClearNext]_allVars
             PROVE  ClearInv'
  OBVIOUS
<1>1. CASE raced'
  BY <1>1 DEF ClearInv
<1>2. CASE ClearNext /\ ~ raced'
  BY <1>2, AppendKeeps, PeekKeeps, RemoveKeeps, ClearHeadKeeps, ClearTailKeeps
  DEF ClearNext
<1>3. CASE UNCHANGED allVars /\ ~ raced'
  <2>1. UNCHANGED vars /\ UNCHANGED <<clearing, clears, raced, skipped>>
    BY <1>3 DEF allVars, clearVars
  <2>2. /\ UNCHANGED <<pPc, cPc, head, popped, posted, taken>>
        /\ RingOrClear /\ InStep /\ Paid
    BY <2>1, <1>3 DEF ClearInv, vars, producerVars, consumerVars
  <2>3. TypeOK'
    BY <2>1, <2>2 DEF RingOrClear, TypeOK, vars, producerVars, consumerVars
  <2>4. RingOrClear'
    BY <2>1, <2>2, <2>3, RingStutter DEF RingOrClear
  <2>5. QED
    BY <2>1, <2>2, <2>4, HistoryFrame DEF ClearInv
<1>4. QED
  BY <1>1, <1>2, <1>3

\* The inductive invariant holds for every value of the constants.
THEOREM ClearInvariance == ClearSpec => []ClearInv
<1>1. QED
  BY InitClear, ClearStep, PTL DEF ClearSpec

\* What circle_queue.h says of one reading and one writing thread holds for the
\* send queue in every run in which no append overlaps a clear.
THEOREM OrderSurvives == ClearSpec => []InOrderUnlessRaced
<1>1. ClearInv => InOrderUnlessRaced
  <2> SUFFICES ASSUME ClearInv, ~ raced
               PROVE  InOrder /\ (~ clearing => (head = tail <=> popped = Len(posted)))
    BY DEF InOrderUnlessRaced
  <2>1. InOrder
    BY DEF ClearInv, InStep, InOrder, Torn
  <2>2. ~ clearing => EqualOnlyWhenEmpty
    BY DEF ClearInv, RingOrClear, Ring
  <2>3. QED
    BY <2>1, <2>2 DEF EqualOnlyWhenEmpty
<1>2. QED
  BY <1>1, ClearInvariance, PTL

\* The pop that follows a clear removes one message that was never sent, not more,
\* whatever was appended meanwhile.
THEOREM SkipsAtMostOne == ClearSpec => []ClearSkipsAtMostOne
<1>1. ClearInv => ClearSkipsAtMostOne
  <2> SUFFICES ASSUME ClearInv, ~ raced
               PROVE  Cardinality(skipped) <= clears
    BY DEF ClearSkipsAtMostOne
  <2>1. Paid /\ Cardinality(skipped) \in Nat
    BY FS_CardinalityType DEF ClearInv, Paid
  <2>2. QED
    BY <2>1, OwedFacts DEF Paid
<1>2. QED
  BY <1>1, ClearInvariance, PTL
=============================================================================
