--------------------------- MODULE ScrapQueueProofs ---------------------------
(***************************************************************************)
(* For every size of the ring, of its length words, of the reserved part   *)
(* and of the messages, ScrapQueue keeps its type and its reserved bytes   *)
(* free, copies past the end of the ring only if the reader passed it, and *)
(* until then hands over the messages that were appended, whole and in     *)
(* order.                                                                  *)
(***************************************************************************)
EXTENDS ScrapQueue, TLAPS

\* How far it is from offset a on, round the ring, to offset b.
Ahead(a, b) == IF a <= b THEN b - a ELSE b - a + Size

\* The free bytes that the writer counted are still free.
Room ==
  /\ pPc # "idle" => pSize \in Sizes /\ Len(posted) < MaxPosts
  /\ pPc \in {"write", "publish"} => HeadLen + pSize + Reserved <= Raw(head, tail)

\* The bytes that the reader counted are still queued.
Credit ==
  /\ cPc # "idle" => cCode <= Ahead(head, tail)
  /\ cPc \in {"copy", "release"} => cLen \in Sizes /\ HeadLen + cLen <= cCode

\* The head has not passed the tail since the writer read it.
Passed == pPc \in {"check", "write"} => Ahead(pHead, head) <= Ahead(pHead, tail)

IInv == TypeOK /\ ReservedIsFree /\ InsideUnlessPassed /\ Room /\ Credit /\ Passed

----------------------------------------------------------------------------
(* Facts about offsets and sizes.                                          *)

\* The parameters are numbers, and there is a ring.
LEMMA Numbers ==
  /\ HeadLen \in Nat /\ HeadLen > 0 /\ Reserved \in Nat /\ Reserved > 0
  /\ Size \in Nat /\ Size > 0 /\ Reserved <= Size
  /\ Word \in Nat /\ Size < Word
  /\ MaxPosts \in Nat
  /\ \A s \in Sizes : s \in Nat /\ s > 0
  BY SizeAssumption, InputAssumption

\* A remainder is an offset.
LEMMA InRing ==
  ASSUME NEW n \in Int
  PROVE  n % Size \in 0 .. Size - 1
  BY Numbers

\* Going round once at most.
LEMMA Round ==
  ASSUME NEW a \in 0 .. Size - 1, NEW b \in 0 .. Size
  PROVE  (a + b) % Size = IF a + b < Size THEN a + b ELSE a + b - Size
<1>1. CASE a + b < Size
  BY <1>1, Numbers
<1>2. CASE a + b >= Size
  <2>1. a + b \in Size .. 2 * Size - 1
    BY <1>2, Numbers
  <2>2. (a + b) % Size = a + b - Size
    BY <2>1, Numbers
  <2>3. QED
    BY <2>2, <1>2, Numbers
<1>3. QED
  BY <1>1, <1>2, Numbers

\* As long as the reserved bytes are free, get_freesize and get_codesize say
\* what their names promise.
LEMMA SizesAreRight ==
  ASSUME NEW h \in 0 .. Size - 1, NEW t \in 0 .. Size - 1, Raw(h, t) >= Reserved
  PROVE  /\ Raw(h, t) \in 0 .. Size /\ Ahead(h, t) \in 0 .. Size - 1
         /\ FreeSize(h, t) = Raw(h, t) - Reserved
         /\ CodeSize(h, t) = Ahead(h, t)
<1>1. Raw(h, t) \in 0 .. Size /\ Ahead(h, t) \in 0 .. Size - 1
  BY Numbers DEF Raw, Ahead
<1>2. ASSUME NEW n \in 0 .. Size
      PROVE  (n + Word) % Word = n
  BY Numbers
<1>3. FreeSize(h, t) = Raw(h, t) - Reserved
  <2>1. Raw(h, t) - Reserved \in 0 .. Size
    BY <1>1, Numbers
  <2>2. QED
    BY <2>1, <1>2 DEF FreeSize
<1>4. CodeSize(h, t) = Ahead(h, t)
  <2> DEFINE n == Size - FreeSize(h, t)
  <2>1. n = Size - Raw(h, t) + Reserved /\ n \in 0 .. Size
    BY <1>1, <1>3, Numbers
  <2>2. (Size - FreeSize(h, t) + Word) % Word = n
    BY <2>1, <1>2
  <2>3. CodeSize(h, t) = IF n > Reserved THEN n - Reserved ELSE 0
    BY <2>2 DEF CodeSize
  <2>4. Ahead(h, t) = Size - Raw(h, t)
    BY Numbers DEF Raw, Ahead
  <2>5. QED
    BY <2>1, <2>3, <2>4, <1>1, Numbers
<1>5. QED
  BY <1>1, <1>3, <1>4

\* A length word that was written is the length of a message.
LEMMA LengthIsKnown ==
  ASSUME TypeOK
  PROVE  /\ LengthAt(head) \in Sizes \cup {Garbage}
         /\ mem[head][1] \in Nat
<1>1. mem[head] \in (0 .. MaxPosts) \X (Sizes \cup {0}) \X (0 .. Size - 1)
  BY DEF TypeOK
<1>2. mem[head][1] \in 0 .. MaxPosts /\ mem[head][2] \in Sizes \cup {0}
  BY <1>1
<1>3. QED
  BY <1>2, Numbers DEF LengthAt, Garbage

----------------------------------------------------------------------------
(* Each action keeps the invariant.                                        *)

LEMMA InitEstablishes == Init => IInv
<1> SUFFICES ASSUME Init PROVE IInv
  OBVIOUS
<1>1. TypeOK
  <2>1. Unwritten \in (0 .. MaxPosts) \X (Sizes \cup {0}) \X (0 .. Size - 1)
    BY Numbers DEF Unwritten
  <2>2. posted \in Seq(Sizes) /\ taken \in Seq(Nat \X Nat)
    BY DEF Init
  <2>3. /\ 0 \in 0 .. Size - 1 /\ 0 \in 0 .. Size
        /\ 0 \in Sizes \cup {0} /\ 0 \in Buffers \cup {0}
        /\ 0 \in Sizes \cup {Garbage}
    BY Numbers DEF Garbage
  <2>4. QED
    BY <2>1, <2>2, <2>3 DEF Init, TypeOK
<1>2. ReservedIsFree /\ InsideUnlessPassed /\ Room /\ Credit /\ Passed
  BY Numbers DEF Init, ReservedIsFree, InsideUnlessPassed, Room, Credit, Passed, Raw
<1>3. QED
  BY <1>1, <1>2 DEF IInv

LEMMA StartAppendKeeps ==
  ASSUME IInv, NEW s \in Sizes, StartAppend(s)
  PROVE  IInv'
<1> USE DEF IInv, StartAppend, readerVars
<1>1. TypeOK'
  BY DEF TypeOK
<1>2. ReservedIsFree' /\ InsideUnlessPassed'
  BY DEF ReservedIsFree, InsideUnlessPassed, Raw
<1>3. Room'
  BY DEF Room
<1>4. Credit'
  BY DEF Credit, Ahead
<1>5. Passed'
  BY Numbers DEF Passed, Ahead, TypeOK
<1>6. QED
  BY <1>1, <1>2, <1>3, <1>4, <1>5

LEMMA CheckFreeKeeps ==
  ASSUME IInv, CheckFree
  PROVE  IInv'
<1> USE DEF IInv, CheckFree, readerVars
<1>1. TypeOK'
  BY DEF TypeOK
<1>2. ReservedIsFree' /\ InsideUnlessPassed'
  BY DEF ReservedIsFree, InsideUnlessPassed, Raw
<1>3. Room'
  <2>1. /\ FreeSize(head, tail) = Raw(head, tail) - Reserved
        /\ Raw(head, tail) \in 0 .. Size
    BY SizesAreRight DEF TypeOK, ReservedIsFree
  <2>2. pSize \in Nat
    BY Numbers DEF Room
  <2>3. pPc' \in {"write", "publish"}
          => HeadLen + pSize + Reserved <= Raw(head, tail)
    BY <2>1, <2>2, Numbers
  <2>4. QED
    BY <2>3 DEF Room, Raw
<1>4. Credit' /\ Passed'
  BY DEF Credit, Passed, Ahead
<1>5. QED
  BY <1>1, <1>2, <1>3, <1>4

\* The one copy leaves the ring only if the head was beyond the tail when it was
\* first read, and is not any more.
LEMMA WriteNodeKeeps ==
  ASSUME IInv, WriteNode
  PROVE  IInv'
<1> USE DEF IInv, WriteNode, readerVars
<1> DEFINE b == (tail + HeadLen) % Size
<1>1. /\ head \in 0 .. Size - 1 /\ tail \in 0 .. Size - 1 /\ pHead \in 0 .. Size - 1
      /\ pSize \in Sizes /\ pSize \in Nat /\ pSize > 0
      /\ Raw(head, tail) \in 0 .. Size
      /\ HeadLen + pSize + Reserved <= Raw(head, tail)
  BY SizesAreRight, Numbers DEF TypeOK, Room, ReservedIsFree
<1>2. b = IF tail + HeadLen < Size THEN tail + HeadLen ELSE tail + HeadLen - Size
  <2>1. HeadLen \in 0 .. Size
    BY <1>1, Numbers
  <2>2. QED
    BY <1>1, <2>1, Round
<1>3. TypeOK'
  <2>1. mem' \in [0 .. Size - 1 ->
                    (0 .. MaxPosts) \X (Sizes \cup {0}) \X (0 .. Size - 1)]
    <3>1. ASSUME NEW o \in 0 .. Size - 1
          PROVE  (o - tail + Size) % Size \in 0 .. Size - 1
      <4>1. o - tail + Size \in Int
        BY <1>1, Numbers
      <4>2. QED
        BY <4>1, InRing
    <3>2. Len(posted) + 1 \in 0 .. MaxPosts
      <4>1. Len(posted) \in Nat
        BY DEF TypeOK
      <4>2. QED
        BY <4>1, Numbers DEF Room
    <3>3. QED
      BY <3>1, <3>2, <1>1 DEF TypeOK
  <2>2. QED
    BY <2>1 DEF TypeOK
<1>4. outside' => pHead > tail /\ head <= tail
  <2> SUFFICES ASSUME ~ Split, b + pSize > Size
               PROVE  pHead > tail /\ head <= tail
    BY DEF Body
  <2>1. pHead > b
    BY <1>1, <1>2, Numbers DEF Split, Body
  <2>2. Ahead(pHead, head) <= Ahead(pHead, tail)
    BY DEF Passed
  <2>3. head <= tail
    BY <1>1, <1>2, <2>1, <2>2, Numbers DEF Raw, Ahead
  <2>4. pHead > tail
    BY <1>1, <1>2, <2>1, <2>2, <2>3, Numbers DEF Raw, Ahead
  <2>5. QED
    BY <2>3, <2>4
<1>5. InsideUnlessPassed'
  BY <1>4 DEF InsideUnlessPassed
<1>6. ReservedIsFree' /\ Room' /\ Credit' /\ Passed'
  BY DEF ReservedIsFree, Room, Credit, Passed, Raw, Ahead
<1>7. QED
  BY <1>3, <1>5, <1>6

LEMMA PublishKeeps ==
  ASSUME IInv, Publish
  PROVE  IInv'
<1> USE DEF IInv, Publish, readerVars
<1>1. /\ head \in 0 .. Size - 1 /\ tail \in 0 .. Size - 1
      /\ pSize \in Sizes /\ pSize \in Nat /\ pSize > 0
      /\ Raw(head, tail) \in 0 .. Size
      /\ HeadLen + pSize + Reserved <= Raw(head, tail)
  BY SizesAreRight, Numbers DEF TypeOK, Room, ReservedIsFree
<1>2. tail' = IF tail + (HeadLen + pSize) < Size THEN tail + (HeadLen + pSize)
              ELSE tail + (HeadLen + pSize) - Size
  <2>1. HeadLen + pSize \in 0 .. Size /\ tail + HeadLen + pSize = tail + (HeadLen + pSize)
    BY <1>1, Numbers
  <2>2. QED
    BY <2>1, <1>1, Round
<1>3. TypeOK'
  <2>1. tail' \in 0 .. Size - 1
    BY <1>1, <1>2, Numbers
  <2>2. posted' \in Seq(Sizes)
    BY <1>1 DEF TypeOK
  <2>3. QED
    BY <2>1, <2>2 DEF TypeOK
<1>4. ReservedIsFree' /\ Ahead(head, tail)' >= Ahead(head, tail)
  BY <1>1, <1>2, Numbers DEF ReservedIsFree, Raw, Ahead
<1>5. Credit'
  <2>1. cCode \in Nat /\ Ahead(head, tail) \in Int /\ Ahead(head, tail)' \in Int
    BY <1>1, <1>2, Numbers DEF TypeOK, Ahead
  <2>2. QED
    BY <2>1, <1>4 DEF Credit
<1>6. InsideUnlessPassed' /\ Room' /\ Passed'
  BY DEF InsideUnlessPassed, Room, Passed
<1>7. QED
  BY <1>3, <1>4, <1>5, <1>6

LEMMA StartPopKeeps ==
  ASSUME IInv, NEW buffer \in Buffers, StartPop(buffer)
  PROVE  IInv'
<1> USE DEF IInv, StartPop, writerVars
<1>1. cCode' = Ahead(head, tail) /\ cCode' \in 0 .. Size
  <2>1. head \in 0 .. Size - 1 /\ tail \in 0 .. Size - 1
    BY DEF TypeOK
  <2>2. /\ CodeSize(head, tail) = Ahead(head, tail)
        /\ Ahead(head, tail) \in 0 .. Size - 1
    BY <2>1, SizesAreRight DEF ReservedIsFree
  <2>3. QED
    BY <2>2, Numbers
<1>2. TypeOK'
  BY <1>1 DEF TypeOK
<1>3. Credit'
  BY <1>1, Numbers DEF Credit, Ahead
<1>4. ReservedIsFree' /\ InsideUnlessPassed' /\ Room' /\ Passed'
  BY DEF ReservedIsFree, InsideUnlessPassed, Room, Passed, Raw, Ahead
<1>5. QED
  BY <1>2, <1>3, <1>4

\* Releasing a node that is queued takes nothing from the writer.
LEMMA ReleaseFrees ==
  ASSUME IInv, NEW len \in Sizes, HeadLen + len <= Ahead(head, tail),
         head' = Behind(head, len), UNCHANGED <<tail, pPc, pSize, pHead, posted>>
  PROVE  head' \in 0 .. Size - 1 /\ ReservedIsFree' /\ Room' /\ Passed'
<1>1. /\ head \in 0 .. Size - 1 /\ tail \in 0 .. Size - 1 /\ pHead \in 0 .. Size - 1
      /\ len \in Nat /\ len > 0
  BY Numbers DEF IInv, TypeOK
<1>2. head' = IF head + (HeadLen + len) < Size THEN head + (HeadLen + len)
              ELSE head + (HeadLen + len) - Size
  <2>1. HeadLen + len \in 0 .. Size /\ head + HeadLen + len = head + (HeadLen + len)
    BY <1>1, Numbers DEF Ahead
  <2>2. QED
    BY <2>1, <1>1, Round DEF Behind
<1>3. head' \in 0 .. Size - 1
  BY <1>1, <1>2, Numbers DEF Ahead
<1>4. Raw(head', tail) >= Raw(head, tail)
  BY <1>1, <1>2, Numbers DEF Raw, Ahead
<1>5. ReservedIsFree' /\ Room'
  <2>1. Raw(head, tail) \in Int /\ Raw(head', tail) \in Int
    BY <1>1, <1>3, Numbers DEF Raw
  <2>2. Raw(head, tail)' = Raw(head', tail)
    BY DEF Raw
  <2>3. ReservedIsFree'
    BY <2>1, <2>2, <1>4, Numbers DEF IInv, ReservedIsFree
  <2>4. pPc' \in {"write", "publish"}
          => HeadLen + pSize + Reserved <= Raw(head', tail)
    BY <2>1, <1>4, Numbers DEF IInv, Room
  <2>5. QED
    BY <2>2, <2>3, <2>4 DEF IInv, Room
<1>6. Passed'
  BY <1>1, <1>2, Numbers DEF IInv, Passed, Ahead
<1>7. QED
  BY <1>3, <1>5, <1>6

LEMMA ReadLengthKeeps ==
  ASSUME IInv, ReadLength
  PROVE  IInv'
<1> DEFINE len == LengthAt(head)
<1> USE DEF IInv, ReadLength, writerVars
<1>1. /\ len \in Sizes \cup {Garbage} /\ mem[head][1] \in Nat
      /\ len \in Nat /\ cTail' = tail /\ cLen' = len
      /\ head \in 0 .. Size - 1 /\ tail \in 0 .. Size - 1
  <2>1. /\ len \in Sizes \cup {Garbage} /\ mem[head][1] \in Nat
        /\ cTail' = tail /\ cLen' = len
    BY LengthIsKnown
  <2>2. len \in Nat
    BY <2>1, Numbers DEF Garbage
  <2>3. QED
    BY <2>1, <2>2 DEF TypeOK
<1>2. InsideUnlessPassed'
  BY DEF InsideUnlessPassed
<1>3. CASE Corrupt(len)
  <2>1. head' = 0 /\ tail' = 0 /\ cPc' = "idle" /\ taken' = taken
    BY <1>3
  <2>2. TypeOK'
    <3>1. /\ UNCHANGED <<mem, writerVars, cBuffer, cCode, outside, posted>>
          /\ head' \in 0 .. Size - 1 /\ tail' \in 0 .. Size - 1
          /\ cTail' \in 0 .. Size - 1 /\ cLen' \in Sizes \cup {Garbage}
      BY <2>1, <1>1, Numbers
    <3> HIDE DEF ReadLength, len
    <3>2. QED
      BY <2>1, <3>1 DEF TypeOK
  <2>3. Raw(head, tail)' = Size /\ Raw(head, tail) \in 0 .. Size
    BY <2>1, <1>1, SizesAreRight DEF Raw, ReservedIsFree
  <2>4. ReservedIsFree'
    BY <2>3, Numbers DEF ReservedIsFree
  <2>5. pPc \in {"write", "publish"} => HeadLen + pSize + Reserved <= Size
    BY <2>3, Numbers DEF Room
  <2>6. Room'
    BY <2>3, <2>5 DEF Room
  <2>7. Credit' /\ Passed'
    BY <2>1, Numbers DEF Credit, Passed, Ahead, TypeOK
  <2>8. QED
    BY <2>2, <2>4, <2>6, <2>7, <1>2
<1>4. CASE ~ Corrupt(len)
  <2>1. len \in Sizes /\ HeadLen + len <= cCode
    <3>1. cCode \in Nat /\ HeadLen \in Nat
      BY Numbers DEF TypeOK
    <3>2. ~ (len <= 0) /\ ~ (len > cCode - HeadLen)
      BY <1>4 DEF Corrupt
    <3>3. len # Garbage
      BY <3>2 DEF Garbage
    <3>4. QED
      BY <3>1, <3>2, <3>3, <1>1
  <2>2. cCode <= Ahead(head, tail) /\ cCode \in Nat /\ Ahead(head, tail) \in Int
    BY <1>1, Numbers DEF Credit, Ahead, TypeOK
  <2>3. CASE cBuffer < len
    <3>1. /\ head' = Behind(head, len) /\ tail' = tail /\ cPc' = "idle"
          /\ taken' = Append(taken, <<mem[head][1], len>>)
      BY <2>3, <1>4
    <3>2. HeadLen + len <= Ahead(head, tail)
      BY <2>1, <2>2, <1>1, Numbers
    <3>3. head' \in 0 .. Size - 1 /\ ReservedIsFree' /\ Room' /\ Passed'
      BY <3>1, <3>2, <2>1, ReleaseFrees
    <3>4. TypeOK'
      <4>1. taken' \in Seq(Nat \X Nat)
        BY <3>1, <1>1 DEF TypeOK
      <4>2. QED
        BY <3>1, <3>3, <4>1, <1>1 DEF TypeOK
    <3>5. Credit'
      BY <3>1 DEF Credit
    <3>6. QED
      BY <3>3, <3>4, <3>5, <1>2
  <2>4. CASE ~ (cBuffer < len)
    <3>1. UNCHANGED <<head, tail, taken>> /\ cPc' = "copy"
      BY <2>4, <1>4
    <3>2. TypeOK'
      BY <3>1, <1>1 DEF TypeOK
    <3>3. Credit'
      BY <3>1, <2>1, <2>2, <1>1 DEF Credit, Ahead
    <3>4. ReservedIsFree' /\ Room' /\ Passed'
      BY <3>1 DEF ReservedIsFree, Room, Passed, Raw, Ahead
    <3>5. QED
      BY <3>2, <3>3, <3>4, <1>2
  <2>5. QED
    BY <2>3, <2>4
<1>5. QED
  BY <1>3, <1>4

LEMMA CopyKeeps ==
  ASSUME IInv, Copy
  PROVE  IInv'
<1> USE DEF IInv, Copy, writerVars
<1>1. TypeOK'
  <2>1. mem[head][1] \in Nat /\ cLen \in Nat
    BY LengthIsKnown, Numbers DEF Credit
  <2>2. taken' \in Seq(Nat \X Nat)
    BY <2>1 DEF TypeOK, Torn
  <2>3. QED
    BY <2>2 DEF TypeOK
<1>2. ReservedIsFree' /\ InsideUnlessPassed' /\ Room' /\ Credit' /\ Passed'
  BY DEF ReservedIsFree, InsideUnlessPassed, Room, Credit, Passed, Raw, Ahead
<1>3. QED
  BY <1>1, <1>2

LEMMA ReleaseKeeps ==
  ASSUME IInv, Release
  PROVE  IInv'
<1> USE DEF IInv, Release, writerVars
<1>1. cLen \in Sizes /\ HeadLen + cLen <= Ahead(head, tail)
  <2>1. /\ cLen \in Sizes /\ HeadLen + cLen <= cCode /\ cCode <= Ahead(head, tail)
        /\ cCode \in Nat /\ head \in 0 .. Size - 1 /\ tail \in 0 .. Size - 1
    BY DEF Credit, TypeOK
  <2>2. cLen \in Nat /\ Ahead(head, tail) \in Int
    BY <2>1, Numbers DEF Ahead
  <2>3. QED
    BY <2>1, <2>2, Numbers
<1>2. head' \in 0 .. Size - 1 /\ ReservedIsFree' /\ Room' /\ Passed'
  BY <1>1, ReleaseFrees
<1>3. TypeOK'
  BY <1>2 DEF TypeOK
<1>4. InsideUnlessPassed' /\ Credit'
  BY DEF InsideUnlessPassed, Credit
<1>5. QED
  BY <1>2, <1>3, <1>4

----------------------------------------------------------------------------
(* The theorems.                                                           *)

LEMMA StepKeeps == IInv /\ [Next]_vars => IInv'
<1> SUFFICES ASSUME IInv, [Next]_vars PROVE IInv'
  OBVIOUS
<1>1. ASSUME NEW s \in Sizes, StartAppend(s) PROVE IInv'
  BY <1>1, StartAppendKeeps
<1>2. CASE CheckFree
  BY <1>2, CheckFreeKeeps
<1>3. CASE WriteNode
  BY <1>3, WriteNodeKeeps
<1>4. CASE Publish
  BY <1>4, PublishKeeps
<1>5. ASSUME NEW buffer \in Buffers, StartPop(buffer) PROVE IInv'
  BY <1>5, StartPopKeeps
<1>6. CASE ReadLength
  BY <1>6, ReadLengthKeeps
<1>7. CASE Copy
  BY <1>7, CopyKeeps
<1>8. CASE Release
  BY <1>8, ReleaseKeeps
<1>9. CASE UNCHANGED vars
  BY <1>9 DEF vars, writerVars, readerVars, IInv, TypeOK, ReservedIsFree,
              InsideUnlessPassed, Room, Credit, Passed, Raw, Ahead
<1>10. QED
  BY <1>1, <1>2, <1>3, <1>4, <1>5, <1>6, <1>7, <1>8, <1>9
     DEF Next, Writer, Reader

\* The inductive invariant of append1 and pop1, with no lock between them.
THEOREM Invariance == Spec => []IInv
<1>1. Init => IInv
  BY InitEstablishes
<1>2. IInv /\ [Next]_vars => IInv'
  BY StepKeeps
<1>3. QED
  BY <1>1, <1>2, PTL DEF Spec

\* The offsets stay in the ring, and the counts of get_freesize and get_codesize
\* in their ranges.
THEOREM TypeCorrect == Spec => []TypeOK
<1>1. IInv => TypeOK
  BY DEF IInv
<1>2. QED
  BY <1>1, Invariance, PTL

\* The reserved bytes stay free: head = tail means empty, and get_freesize never
\* wraps, whatever the reader does between its two looks at the head.
THEOREM ReservedStaysFree == Spec => []ReservedIsFree
<1>1. IInv => ReservedIsFree
  BY DEF IInv
<1>2. QED
  BY <1>1, Invariance, PTL

\* A copy of append1 leaves the ring only when the reader passed its end between
\* the two looks at the head.
THEOREM CopiesInside == Spec => []InsideUnlessPassed
<1>1. IInv => InsideUnlessPassed
  BY DEF IInv
<1>2. QED
  BY <1>1, Invariance, PTL

----------------------------------------------------------------------------
(* What the ring holds.  e[i] is how many bytes the first i nodes have:    *)
(* what lies between the head and the tail are the nodes that were not     *)
(* released, one behind the other, wherever the ring ends.                 *)

\* How many nodes were released.
Gone == IF cPc = "release" THEN Len(taken) - 1 ELSE Len(taken)

\* What left the ring are the nodes that were published, in order.
InOrder ==
  /\ Len(taken) <= Len(posted)
  /\ \A i \in 1 .. Len(taken) : taken[i] = <<i, posted[i]>>
  /\ cPc = "release" => Len(taken) > 0

Ends(e) ==
  /\ e[0] = 0
  /\ \A i \in 1 .. Len(posted) : e[i] = e[i - 1] + (HeadLen + posted[i])
  /\ \A i \in 0 .. Len(posted) : e[i] <= e[Len(posted)]

\* Which byte of all nodes offset b has, or will have before the head gets there.
Place(e, b) == e[Gone] + Ahead(head, b)

\* The node i of length s is whole, with its first byte in place p.
Whole(e, i, s, p) ==
  \A b \in 0 .. Size - 1 :
    p <= Place(e, b) /\ Place(e, b) < p + (HeadLen + s)
      => mem[b] = <<i, s, Place(e, b) - p>>

\* The nodes that were not released are whole, up to the tail, and so is the one
\* that will be published next.
Stored(e) ==
  /\ Ends(e)
  /\ e[Len(posted)] = Place(e, tail)
  /\ \A i \in Gone + 1 .. Len(posted) : Whole(e, i, posted[i], e[i - 1])
  /\ pPc = "publish" /\ ~ outside
       => Whole(e, Len(posted) + 1, pSize, e[Len(posted)])

\* The reader is at the first node that was not released.
Reading ==
  /\ cPc # "idle" => Gone < Len(posted)
  /\ cPc = "read" => HeadLen + posted[Gone + 1] <= cCode
  /\ cPc \in {"copy", "release"} => cLen = posted[Gone + 1]
  /\ cPc = "copy" => HeadLen + cLen <= Ahead(head, cTail)

Nodes == \E e \in [0 .. Len(posted) -> Nat] : Stored(e)

FullInv == IInv /\ InOrder /\ Reading /\ Nodes

----------------------------------------------------------------------------
(* Distances.                                                              *)

\* The offset n further on is n ahead.
LEMMA FurtherOn ==
  ASSUME NEW a \in 0 .. Size - 1, NEW n \in 0 .. Size - 1
  PROVE  (a + n) % Size \in 0 .. Size - 1 /\ Ahead(a, (a + n) % Size) = n
<1>1. (a + n) % Size = IF a + n < Size THEN a + n ELSE a + n - Size
  BY Round, Numbers
<1>2. QED
  BY <1>1, Numbers DEF Ahead

\* From there everything is nearer by n, or once round.
LEMMA FromThere ==
  ASSUME NEW a \in 0 .. Size - 1, NEW n \in 0 .. Size - 1, NEW b \in 0 .. Size - 1
  PROVE  Ahead((a + n) % Size, b) =
           IF n <= Ahead(a, b) THEN Ahead(a, b) - n ELSE Ahead(a, b) - n + Size
<1>1. (a + n) % Size = IF a + n < Size THEN a + n ELSE a + n - Size
  BY Round, Numbers
<1>2. QED
  BY <1>1, Numbers DEF Ahead

\* Two ways to go are one.
LEMMA TwoSteps ==
  ASSUME NEW a \in 0 .. Size - 1, NEW m \in 0 .. Size - 1, NEW n \in 0 .. Size - 1,
         m + n < Size
  PROVE  (((a + m) % Size) + n) % Size = (a + (m + n)) % Size
<1>1. (a + m) % Size = IF a + m < Size THEN a + m ELSE a + m - Size
  BY Round, Numbers
<1>2. PICK c \in 0 .. Size - 1 : c = (a + m) % Size
  BY FurtherOn
<1>3. (c + n) % Size = IF c + n < Size THEN c + n ELSE c + n - Size
  BY Round, Numbers
<1>4. m + n \in 0 .. Size
  BY Numbers
<1>5. (a + (m + n)) % Size = IF a + (m + n) < Size THEN a + (m + n)
                             ELSE a + (m + n) - Size
  BY <1>4, Round
<1>6. QED
  BY <1>1, <1>2, <1>3, <1>5, Numbers

\* Distances and the free bytes are numbers.
LEMMA AheadType ==
  ASSUME NEW a \in 0 .. Size - 1, NEW b \in 0 .. Size - 1
  PROVE  /\ Ahead(a, b) \in 0 .. Size - 1
         /\ Raw(a, b) = Size - Ahead(a, b)
         /\ (Ahead(a, b) = 0 <=> a = b)
         /\ (b - a + Size) % Size = Ahead(a, b)
<1>1. /\ Ahead(a, b) \in 0 .. Size - 1
      /\ Raw(a, b) = Size - Ahead(a, b)
      /\ (Ahead(a, b) = 0 <=> a = b)
  BY Numbers DEF Ahead, Raw
<1>2. (b - a + Size) % Size = Ahead(a, b)
  <2>1. CASE a <= b
    <3>1. PICK n \in 0 .. Size - 1 : n = b - a
      BY <2>1, Numbers
    <3>2. (n + Size) % Size = n
      BY Round, Numbers
    <3>3. QED
      BY <2>1, <3>1, <3>2 DEF Ahead
  <2>2. CASE ~ (a <= b)
    <3>1. PICK n \in 0 .. Size - 1 : n = b - a + Size
      BY <2>2, Numbers
    <3>2. (n + 0) % Size = n /\ n + 0 = n
      BY Round, Numbers
    <3>3. QED
      BY <2>2, <3>1, <3>2 DEF Ahead
  <2>3. QED
    BY <2>1, <2>2
<1>3. QED
  BY <1>1, <1>2

\* The types that the lemmas below need.
LEMMA Facts ==
  ASSUME IInv, InOrder
  PROVE  /\ head \in 0 .. Size - 1 /\ tail \in 0 .. Size - 1
         /\ Len(posted) \in Nat /\ Len(taken) \in Nat /\ Gone \in 0 .. Len(posted)
         /\ \A i \in 1 .. Len(posted) :
              posted[i] \in Sizes /\ posted[i] \in Nat /\ posted[i] > 0
<1>1. /\ head \in 0 .. Size - 1 /\ tail \in 0 .. Size - 1
      /\ posted \in Seq(Sizes) /\ taken \in Seq(Nat \X Nat)
  BY DEF IInv, TypeOK
<1>2. Len(posted) \in Nat /\ Len(taken) \in Nat
  BY <1>1
<1>3. Gone \in 0 .. Len(posted)
  BY <1>2 DEF Gone, InOrder
<1>4. \A i \in 1 .. Len(posted) : posted[i] \in Sizes
  BY <1>1
<1>5. QED
  BY <1>1, <1>2, <1>3, <1>4, Numbers

----------------------------------------------------------------------------
(* What the reader finds.                                                  *)

\* The first node that was not released is at the head.
LEMMA FirstNode ==
  ASSUME IInv, InOrder, NEW e \in [0 .. Len(posted) -> Nat], Stored(e),
         Gone < Len(posted)
  PROVE  /\ HeadLen + posted[Gone + 1] <= Ahead(head, tail)
         /\ \A j \in 0 .. HeadLen + posted[Gone + 1] - 1 :
              mem[(head + j) % Size] = <<Gone + 1, posted[Gone + 1], j>>
<1>1. PICK g \in Nat, N \in Nat : g = Gone /\ N = Len(posted)
  BY Facts
<1>2. /\ head \in 0 .. Size - 1 /\ tail \in 0 .. Size - 1 /\ g + 1 \in 1 .. N
      /\ g \in 0 .. N /\ g + 1 \in 0 .. N /\ N \in 0 .. N
      /\ posted[g + 1] \in Nat /\ posted[g + 1] > 0
  BY <1>1, Facts
<1>3. PICK s \in Nat : s = posted[g + 1]
  BY <1>2
<1>4. PICK x \in Nat, y \in Nat, z \in Nat : x = e[g] /\ y = e[g + 1] /\ z = e[N]
  BY <1>1, <1>2
<1>5. y = x + (HeadLen + s) /\ y <= z /\ z = x + Ahead(head, tail)
  <2>1. (g + 1) - 1 = g
    OBVIOUS
  <2>2. y = x + (HeadLen + s)
    BY <1>1, <1>2, <1>3, <1>4, <2>1 DEF Stored, Ends
  <2>3. y <= z /\ z = x + Ahead(head, tail)
    BY <1>1, <1>2, <1>4 DEF Stored, Ends, Place
  <2>4. QED
    BY <2>2, <2>3
<1>6. Ahead(head, tail) \in 0 .. Size - 1
  BY <1>2, AheadType
<1>7. HeadLen + s <= Ahead(head, tail)
  BY <1>5, <1>6, Numbers
<1>8. Whole(e, g + 1, s, x)
  <2>1. g + 1 \in Gone + 1 .. Len(posted) /\ (g + 1) - 1 = g
    BY <1>1, <1>2
  <2>2. Whole(e, g + 1, posted[g + 1], e[(g + 1) - 1])
    BY <2>1 DEF Stored
  <2>3. QED
    BY <2>1, <2>2, <1>3, <1>4
<1>9. ASSUME NEW j \in 0 .. HeadLen + s - 1
      PROVE  mem[(head + j) % Size] = <<g + 1, s, j>>
  <2>1. j \in 0 .. Size - 1 /\ j < HeadLen + s
    BY <1>6, <1>7, Numbers
  <2>2. PICK b \in 0 .. Size - 1 : b = (head + j) % Size /\ Ahead(head, b) = j
    BY <1>2, <2>1, FurtherOn
  <2>3. Place(e, b) = x + j
    BY <1>1, <1>4, <2>2 DEF Place
  <2>4. x <= x + j /\ x + j < x + (HeadLen + s) /\ (x + j) - x = j
    BY <2>1, Numbers
  <2>5. mem[b] = <<g + 1, s, Place(e, b) - x>>
    BY <1>8, <2>3, <2>4 DEF Whole
  <2>6. QED
    BY <2>2, <2>3, <2>4, <2>5
<1>10. QED
  BY <1>1, <1>3, <1>7, <1>9

\* So the length word that pop1 reads is its length.
LEMMA ReadsFirst ==
  ASSUME IInv, InOrder, NEW e \in [0 .. Len(posted) -> Nat], Stored(e),
         Gone < Len(posted)
  PROVE  LengthAt(head) = posted[Gone + 1] /\ mem[head][1] = Gone + 1
<1>1. PICK s \in Nat : s = posted[Gone + 1]
  <2>1. Gone + 1 \in 1 .. Len(posted)
    BY Facts
  <2>2. QED
    BY <2>1, Facts
<1>2. \A j \in 0 .. HeadLen + s - 1 : mem[(head + j) % Size] = <<Gone + 1, s, j>>
  BY <1>1, FirstNode
<1>3. mem[head] = <<Gone + 1, s, 0>>
  <2>1. head \in 0 .. Size - 1 /\ head + 0 = head /\ 0 \in 0 .. Size
    BY Facts, Numbers
  <2>2. (head + 0) % Size = head
    BY <2>1, Round
  <2>3. 0 \in 0 .. HeadLen + s - 1
    BY <1>1, Numbers
  <2>4. QED
    BY <1>2, <2>2, <2>3
<1>4. mem[head][1] = Gone + 1 /\ mem[head][2] = s
  BY <1>3
<1>5. Holds(head, Gone + 1, s, 0, HeadLen)
  <2>1. ASSUME NEW j \in 0 .. HeadLen - 1
        PROVE  mem[(head + j) % Size] = <<Gone + 1, s, 0 + j>>
    <3>1. j \in 0 .. HeadLen + s - 1 /\ 0 + j = j
      BY <1>1, Numbers
    <3>2. QED
      BY <1>2, <3>1
  <2>2. QED
    BY <2>1 DEF Holds
<1>6. QED
  BY <1>1, <1>4, <1>5 DEF LengthAt

----------------------------------------------------------------------------
(* Each action keeps what the ring holds.                                  *)

LEMMA InitFull == Init => FullInv
<1> SUFFICES ASSUME Init PROVE FullInv
  OBVIOUS
<1>1. /\ IInv /\ head = 0 /\ tail = 0 /\ pPc = "idle" /\ cPc = "idle"
      /\ posted = <<>> /\ taken = <<>>
  BY InitEstablishes DEF Init
<1>2. Len(posted) = 0 /\ Len(taken) = 0
  BY <1>1
<1>3. InOrder /\ Reading /\ Gone = 0
  BY <1>1, <1>2 DEF InOrder, Reading, Gone
<1>4. PICK e \in [0 .. Len(posted) -> Nat] : e = [i \in 0 .. Len(posted) |-> 0]
  OBVIOUS
<1>5. e[0] = 0
  BY <1>2, <1>4
<1>6. Stored(e)
  <2>1. Ends(e)
    BY <1>2, <1>5 DEF Ends
  <2>2. e[Len(posted)] = Place(e, tail)
    BY <1>1, <1>2, <1>3, <1>5 DEF Place, Ahead
  <2>3. QED
    BY <1>1, <1>2, <1>3, <2>1, <2>2 DEF Stored
<1>7. QED
  BY <1>1, <1>3, <1>4, <1>6 DEF FullInv, Nodes

\* A step that moves neither offset nor a byte, and publishes nothing.
LEMMA StoredFrame ==
  ASSUME UNCHANGED <<head, tail, mem, posted>>, Gone' = Gone, Nodes,
         pPc' # "publish" \/ UNCHANGED <<pPc, pSize, outside>>
  PROVE  Nodes'
<1>1. PICK e \in [0 .. Len(posted) -> Nat] : Stored(e)
  BY DEF Nodes
<1>2. \A b : Place(e, b)' = Place(e, b)
  BY DEF Place, Ahead
<1>3. \A i, s, p : Whole(e, i, s, p)' <=> Whole(e, i, s, p)
  BY <1>2 DEF Whole
<1>4. Stored(e)'
  <2>1. Ends(e)'
    BY <1>1 DEF Stored, Ends
  <2>2. (e[Len(posted)] = Place(e, tail))'
    BY <1>1 DEF Stored, Place, Ahead
  <2>3. (\A i \in Gone + 1 .. Len(posted) : Whole(e, i, posted[i], e[i - 1]))'
    BY <1>1, <1>2 DEF Stored, Whole
  <2>4. (pPc = "publish" /\ ~ outside
          => Whole(e, Len(posted) + 1, pSize, e[Len(posted)]))'
    BY <1>1, <1>2 DEF Stored, Whole
  <2>5. QED
    BY <2>1, <2>2, <2>3, <2>4 DEF Stored
<1>5. QED
  BY <1>1, <1>4 DEF Nodes

\* Seen from the tail, what is queued lies behind the free bytes.
LEMMA FromTail ==
  ASSUME NEW h \in 0 .. Size - 1, NEW t \in 0 .. Size - 1, NEW b \in 0 .. Size - 1
  PROVE  Ahead(t, b) = IF Ahead(h, t) <= Ahead(h, b) THEN Ahead(h, b) - Ahead(h, t)
                       ELSE Ahead(h, b) - Ahead(h, t) + Size
  BY Numbers DEF Ahead

\* The message is copied whole, unless the copy leaves the ring.
LEMMA CopiedWhole ==
  ASSUME IInv, InOrder, pPc = "write", Split \/ ~ (Body + pSize > Size),
         NEW b \in 0 .. Size - 1, Ahead(tail, b) < HeadLen + pSize
  PROVE  Split \/ Ahead(tail, b) < HeadLen \/ b >= Body
<1>1. SUFFICES ASSUME ~ Split, ~ (Ahead(tail, b) < HeadLen), ~ (b >= Body)
               PROVE  FALSE
  OBVIOUS
<1>2. /\ head \in 0 .. Size - 1 /\ tail \in 0 .. Size - 1
      /\ pSize \in Nat /\ HeadLen + pSize + Reserved <= Raw(head, tail)
  BY Facts, Numbers DEF IInv, Room
<1>3. Raw(head, tail) \in 0 .. Size
  BY <1>2, Numbers DEF Raw
<1>4. HeadLen \in 0 .. Size - 1
  BY <1>2, <1>3, Numbers
<1>5. PICK c \in 0 .. Size - 1 : c = Body /\ Ahead(tail, c) = HeadLen
  BY <1>2, <1>4, FurtherOn DEF Body
<1>6. Ahead(tail, b) \in 0 .. Size - 1 /\ Ahead(c, b) = Ahead(tail, b) - HeadLen
  <2>1. Ahead(tail, b) \in 0 .. Size - 1
    BY <1>2, AheadType
  <2>2. Ahead(tail, c) <= Ahead(tail, b)
    BY <1>1, <1>4, <1>5, <2>1
  <2>3. QED
    BY <1>2, <1>5, <2>1, <2>2, FromTail
<1>7. Ahead(c, b) = b - c + Size
  BY <1>1, <1>5 DEF Ahead
<1>8. c + pSize <= Size
  BY <1>1, <1>2, <1>5, Numbers
<1>9. QED
  BY <1>2, <1>4, <1>5, <1>6, <1>7, <1>8, Numbers

LEMMA WriteNodeFull ==
  ASSUME IInv, InOrder, NEW e \in [0 .. Len(posted) -> Nat], Stored(e), WriteNode
  PROVE  Stored(e)'
<1>1. PICK g \in Nat, N \in Nat, n \in Nat :
        g = Gone /\ N = Len(posted) /\ n = HeadLen + pSize
  <2>1. HeadLen + pSize \in Nat
    BY Numbers DEF WriteNode, IInv, Room
  <2>2. QED
    BY <2>1, Facts
<1>2. /\ head \in 0 .. Size - 1 /\ tail \in 0 .. Size - 1 /\ g \in 0 .. N
      /\ pSize \in Nat /\ n + Reserved <= Raw(head, tail)
      /\ Ahead(head, tail) \in 0 .. Size - 1
      /\ Raw(head, tail) = Size - Ahead(head, tail)
  <2>1. /\ head \in 0 .. Size - 1 /\ tail \in 0 .. Size - 1 /\ g \in 0 .. N
        /\ pSize \in Nat /\ n + Reserved <= Raw(head, tail)
    BY <1>1, Facts, Numbers DEF WriteNode, IInv, Room
  <2>2. QED
    BY <2>1, AheadType
<1>3. /\ UNCHANGED <<head, tail, posted, taken, cPc, pSize>> /\ Gone' = g
      /\ pPc = "write" /\ outside' = (~ Split /\ Body + pSize > Size)
      /\ mem' = [b \in 0 .. Size - 1 |->
                   IF /\ (b - tail + Size) % Size < HeadLen + pSize
                      /\ Split \/ (b - tail + Size) % Size < HeadLen \/ b >= Body
                   THEN <<N + 1, pSize, (b - tail + Size) % Size>> ELSE mem[b]]
  BY <1>1 DEF WriteNode, readerVars, Gone
<1>4. PICK x \in Nat, z \in Nat : x = e[g] /\ z = e[N]
  BY <1>1, <1>2
<1>5. z = x + Ahead(head, tail)
  BY <1>1, <1>4 DEF Stored, Place
<1>6. \A b : Place(e, b)' = Place(e, b) /\ Place(e, b) = x + Ahead(head, b)
  BY <1>1, <1>3, <1>4 DEF Place, Ahead
<1>7. ASSUME NEW b \in 0 .. Size - 1
      PROVE  /\ Ahead(head, b) \in 0 .. Size - 1 /\ Ahead(tail, b) \in 0 .. Size - 1
             /\ (b - tail + Size) % Size = Ahead(tail, b)
             /\ Ahead(tail, b) = IF Ahead(head, tail) <= Ahead(head, b)
                                 THEN Ahead(head, b) - Ahead(head, tail)
                                 ELSE Ahead(head, b) - Ahead(head, tail) + Size
  BY <1>2, AheadType, FromTail
<1>8. ASSUME NEW i \in g + 1 .. N
      PROVE  Whole(e, i, posted[i], e[i - 1])'
  <2>1. i \in 1 .. N /\ i \in 0 .. N /\ i - 1 \in 0 .. N
    BY <1>2
  <2>2. PICK p \in Nat, s \in Nat : p = e[i - 1] /\ s = posted[i]
    BY <1>1, <2>1, Facts
  <2>3. p + (HeadLen + s) <= z
    BY <1>1, <1>4, <2>1, <2>2 DEF Stored, Ends
  <2>4. Whole(e, i, s, p)
    BY <1>1, <2>2 DEF Stored
  <2>5. ASSUME NEW b \in 0 .. Size - 1, p <= Place(e, b), Place(e, b) < p + (HeadLen + s)
        PROVE  mem'[b] = <<i, s, Place(e, b) - p>>
    <3>1. PICK q \in 0 .. Size - 1, r \in 0 .. Size - 1, a \in 0 .. Size - 1 :
            q = Ahead(head, b) /\ r = Ahead(tail, b) /\ a = Ahead(head, tail)
      BY <1>2, <1>7
    <3>2. /\ Place(e, b) = x + q /\ z = x + a
          /\ r = IF a <= q THEN q - a ELSE q - a + Size
      BY <3>1, <1>5, <1>6, <1>7
    <3>3. ~ (a <= q)
      BY <2>5, <2>3, <3>2, Numbers
    <3>4. ~ (r < n)
      <4>1. n <= Size - a
        BY <3>1, <1>2, Numbers
      <4>2. r = q - a + Size
        BY <3>2, <3>3
      <4>3. QED
        BY <3>1, <4>1, <4>2, Numbers
    <3>5. mem'[b] = mem[b]
      BY <3>1, <3>4, <1>1, <1>3, <1>7
    <3>6. QED
      BY <3>5, <2>4, <2>5 DEF Whole
  <2>6. posted'[i] = s
    BY <1>3, <2>2
  <2>7. QED
    BY <2>2, <2>5, <2>6, <1>6 DEF Whole
<1>9. ASSUME ~ outside'
      PROVE  Whole(e, N + 1, pSize, z)'
  <2>1. Split \/ ~ (Body + pSize > Size)
    BY <1>3, <1>9
  <2>2. ASSUME NEW b \in 0 .. Size - 1, z <= Place(e, b),
               Place(e, b) < z + (HeadLen + pSize)
        PROVE  mem'[b] = <<N + 1, pSize, Place(e, b) - z>>
    <3>1. PICK q \in 0 .. Size - 1, r \in 0 .. Size - 1, a \in 0 .. Size - 1 :
            q = Ahead(head, b) /\ r = Ahead(tail, b) /\ a = Ahead(head, tail)
      BY <1>2, <1>7
    <3>2. /\ Place(e, b) = x + q /\ z = x + a
          /\ r = IF a <= q THEN q - a ELSE q - a + Size
      BY <3>1, <1>5, <1>6, <1>7
    <3>3. r = Place(e, b) - z /\ r < HeadLen + pSize
      BY <2>2, <3>2, <1>2, Numbers
    <3>4. Split \/ Ahead(tail, b) < HeadLen \/ b >= Body
      BY <2>1, <3>1, <3>3, <1>3, CopiedWhole
    <3>5. mem'[b] = <<N + 1, pSize, Ahead(tail, b)>>
      BY <3>1, <3>3, <3>4, <1>3, <1>7
    <3>6. QED
      BY <3>1, <3>3, <3>5
  <2>3. QED
    BY <2>2, <1>3, <1>6 DEF Whole
<1>10. Ends(e)' /\ (e[Len(posted)] = Place(e, tail))'
  BY <1>3, <1>6 DEF Stored, Ends, Place
<1>11. QED
  BY <1>1, <1>3, <1>4, <1>8, <1>9, <1>10 DEF Stored

LEMMA PublishFull ==
  ASSUME FullInv, Publish
  PROVE  InOrder' /\ Reading' /\ Nodes'
<1> USE DEF FullInv
<1>1. PICK g \in Nat, N \in Nat, n \in Nat :
        g = Gone /\ N = Len(posted) /\ n = HeadLen + pSize
  <2>1. HeadLen + pSize \in Nat
    BY Numbers DEF Publish, IInv, Room
  <2>2. QED
    BY <2>1, Facts
<1>2. /\ head \in 0 .. Size - 1 /\ tail \in 0 .. Size - 1 /\ g \in 0 .. N
      /\ pSize \in Sizes /\ pSize \in Nat /\ n + Reserved <= Raw(head, tail)
      /\ Ahead(head, tail) \in 0 .. Size - 1
      /\ Raw(head, tail) = Size - Ahead(head, tail)
  <2>1. /\ head \in 0 .. Size - 1 /\ tail \in 0 .. Size - 1 /\ g \in 0 .. N
        /\ pSize \in Sizes /\ pSize \in Nat /\ n + Reserved <= Raw(head, tail)
    BY <1>1, Facts, Numbers DEF Publish, IInv, Room
  <2>2. QED
    BY <2>1, AheadType
<1>3. /\ UNCHANGED <<head, mem, taken, cPc, cTail, cCode, cLen>> /\ Gone' = g
      /\ pPc = "publish" /\ pPc' = "idle" /\ ~ outside
      /\ tail' = (tail + HeadLen + pSize) % Size
      /\ posted' = Append(posted, pSize)
  BY <1>1 DEF Publish, readerVars, Gone
<1>4. /\ Len(posted') = N + 1 /\ posted'[N + 1] = pSize
      /\ \A i \in 1 .. N : posted'[i] = posted[i]
  <2>1. posted \in Seq(Sizes)
    BY DEF IInv, TypeOK
  <2>2. QED
    BY <2>1, <1>1, <1>2, <1>3
<1>5. InOrder'
  <2>1. Len(taken) <= N /\ Len(taken) \in Nat
    BY <1>1, Facts DEF InOrder
  <2>2. \A i \in 1 .. Len(taken) : taken[i] = <<i, posted'[i]>>
    BY <2>1, <1>4 DEF InOrder
  <2>3. QED
    BY <2>1, <2>2, <1>3, <1>4 DEF InOrder
<1>6. Reading'
  <2>1. cPc # "idle" => g + 1 \in 1 .. N
    BY <1>1, <1>2 DEF Reading
  <2>2. cPc # "idle" => posted'[g + 1] = posted[g + 1]
    BY <2>1, <1>4
  <2>3. cPc # "idle" => g < N + 1
    BY <1>2
  <2>4. (cPc = "copy" => HeadLen + cLen <= Ahead(head, cTail))'
    BY <1>3 DEF Reading, Ahead
  <2>5. QED
    BY <2>2, <2>3, <2>4, <1>1, <1>3, <1>4 DEF Reading
<1>7. PICK e \in [0 .. N -> Nat] : Stored(e)
  BY <1>1 DEF Nodes
<1>8. PICK z \in Nat : z = e[N]
  BY <1>7
<1>9. PICK f \in [0 .. N + 1 -> Nat] :
        /\ f[N + 1] = z + n
        /\ \A i \in 0 .. N : f[i] = e[i]
  <2> DEFINE f == [i \in 0 .. N + 1 |-> IF i = N + 1 THEN z + n ELSE e[i]]
  <2>1. f \in [0 .. N + 1 -> Nat]
    BY <1>7
  <2>2. f[N + 1] = z + n /\ \A i \in 0 .. N : f[i] = e[i]
    OBVIOUS
  <2> HIDE DEF f
  <2>3. QED
    BY <2>1, <2>2
<1>10. Ends(f)'
  <2>1. f[0] = 0
    BY <1>7, <1>9 DEF Stored, Ends
  <2>2. ASSUME NEW i \in 1 .. N + 1
        PROVE  f[i] = f[i - 1] + (HeadLen + posted'[i])
    <3>1. i - 1 \in 0 .. N
      OBVIOUS
    <3>2. CASE i = N + 1
      BY <3>1, <3>2, <1>1, <1>4, <1>8, <1>9
    <3>3. CASE i # N + 1
      <4>1. i \in 1 .. N /\ i \in 0 .. N
        BY <3>3
      <4>2. e[i] = e[i - 1] + (HeadLen + posted[i])
        BY <4>1, <1>1, <1>7 DEF Stored, Ends
      <4>3. QED
        BY <3>1, <4>1, <4>2, <1>4, <1>9
    <3>4. QED
      BY <3>2, <3>3
  <2>3. ASSUME NEW i \in 0 .. N + 1
        PROVE  f[i] <= f[N + 1]
    <3>1. CASE i = N + 1
      BY <3>1
    <3>2. CASE i # N + 1
      <4>1. i \in 0 .. N
        BY <3>2
      <4>2. e[i] <= z /\ e[i] \in Nat
        BY <4>1, <1>1, <1>7, <1>8 DEF Stored, Ends
      <4>3. QED
        BY <4>1, <4>2, <1>9
    <3>3. QED
      BY <3>1, <3>2
  <2>4. QED
    BY <2>1, <2>2, <2>3, <1>4 DEF Ends
<1>11. \A b : Place(f, b)' = Place(e, b)
  BY <1>1, <1>2, <1>3, <1>9 DEF Place, Ahead
<1>12. (f[Len(posted)] = Place(f, tail))'
  <2>1. n < Size /\ n \in 0 .. Size - 1 /\ tail + HeadLen + pSize = tail + n
    BY <1>1, <1>2, Numbers
  <2>2. PICK t \in 0 .. Size - 1 : t = tail' /\ Ahead(tail, t) = n
    BY <1>2, <1>3, <2>1, FurtherOn
  <2>3. PICK q \in 0 .. Size - 1, a \in 0 .. Size - 1 :
          q = Ahead(head, t) /\ a = Ahead(head, tail)
    BY <1>2, <2>2, AheadType
  <2>4. Ahead(head, t) = Ahead(head, tail) + n
    <3>1. Ahead(tail, t) = IF Ahead(head, tail) <= Ahead(head, t)
                           THEN Ahead(head, t) - Ahead(head, tail)
                           ELSE Ahead(head, t) - Ahead(head, tail) + Size
      BY <1>2, <2>2, FromTail
    <3>2. n = IF a <= q THEN q - a ELSE q - a + Size
      BY <3>1, <2>2, <2>3
    <3>3. a + n < Size
      BY <2>3, <1>2, Numbers
    <3>4. QED
      BY <3>2, <3>3, <2>3, Numbers
  <2>5. z = e[g] + Ahead(head, tail) /\ e[g] \in Nat
    BY <1>1, <1>2, <1>7, <1>8 DEF Stored, Place
  <2>6. Place(e, t) = z + n
    BY <2>4, <2>5, <1>1, <1>2 DEF Place
  <2>7. QED
    BY <2>2, <2>6, <1>4, <1>9, <1>11
<1>13. ASSUME NEW i \in g + 1 .. N + 1
       PROVE  Whole(f, i, posted[i], f[i - 1])'
  <2>1. CASE i = N + 1
    <3>1. Whole(e, N + 1, pSize, z)
      BY <1>1, <1>3, <1>7, <1>8 DEF Stored
    <3>2. i - 1 \in 0 .. N /\ f[i - 1] = z /\ posted'[i] = pSize
      BY <2>1, <1>4, <1>8, <1>9
    <3>3. QED
      BY <2>1, <3>1, <3>2, <1>3, <1>11 DEF Whole
  <2>2. CASE i # N + 1
    <3>1. i \in g + 1 .. N /\ i \in 1 .. N /\ i - 1 \in 0 .. N
      BY <2>2, <1>2
    <3>2. Whole(e, i, posted[i], e[i - 1])
      BY <3>1, <1>1, <1>7 DEF Stored
    <3>3. f[i - 1] = e[i - 1] /\ posted'[i] = posted[i]
      BY <3>1, <1>4, <1>9
    <3>4. QED
      BY <3>2, <3>3, <1>3, <1>11 DEF Whole
  <2>3. QED
    BY <2>1, <2>2
<1>14. Stored(f)'
  BY <1>3, <1>4, <1>10, <1>12, <1>13 DEF Stored
<1>15. Nodes'
  BY <1>4, <1>9, <1>14 DEF Nodes
<1>16. QED
  BY <1>5, <1>6, <1>15

\* When the head moves past the first node, the others are where they were.
LEMMA NodeReleased ==
  ASSUME IInv, InOrder, NEW e \in [0 .. Len(posted) -> Nat], Stored(e),
         Gone < Len(posted), Gone' = Gone + 1,
         head' = Behind(head, posted[Gone + 1]),
         UNCHANGED <<tail, mem, posted, pPc, pSize, outside>>
  PROVE  Stored(e)'
<1>1. PICK g \in Nat, N \in Nat, a \in 0 .. Size - 1 :
        g = Gone /\ N = Len(posted) /\ a = Ahead(head, tail)
  BY Facts, AheadType
<1>2. /\ head \in 0 .. Size - 1 /\ tail \in 0 .. Size - 1 /\ g + 1 \in 1 .. N
      /\ g \in 0 .. N /\ g + 1 \in 0 .. N
      /\ posted[g + 1] \in Nat /\ posted[g + 1] > 0
  BY <1>1, Facts
<1>3. PICK s \in Nat, n \in Nat : s = posted[g + 1] /\ n = HeadLen + s
  BY <1>2, Numbers
<1>4. n <= a /\ n \in 0 .. Size - 1
  <2>1. n <= a
    BY <1>1, <1>3, FirstNode
  <2>2. QED
    BY <2>1, <1>1, <1>3, Numbers
<1>5. PICK x \in Nat, y \in Nat, z \in Nat : x = e[g] /\ y = e[g + 1] /\ z = e[N]
  BY <1>1, <1>2
<1>6. y = x + n /\ z = x + a
  <2>1. (g + 1) - 1 = g
    OBVIOUS
  <2>2. y = x + n
    BY <1>1, <1>2, <1>3, <1>5, <2>1 DEF Stored, Ends
  <2>3. z = x + a
    BY <1>1, <1>2, <1>5 DEF Stored, Place
  <2>4. QED
    BY <2>2, <2>3
<1>7. head' = (head + n) % Size
  <2>1. head + HeadLen + s = head + n
    BY <1>2, <1>3, Numbers
  <2>2. QED
    BY <2>1, <1>1, <1>3 DEF Behind
<1>8. ASSUME NEW b \in 0 .. Size - 1
      PROVE  /\ Place(e, b) \in x .. x + Size - 1
             /\ Place(e, b)' = IF n <= Ahead(head, b) THEN Place(e, b)
                               ELSE Place(e, b) + Size
  <2>1. PICK q \in 0 .. Size - 1 : q = Ahead(head, b)
    BY <1>2, AheadType
  <2>2. Ahead(head', b) = IF n <= q THEN q - n ELSE q - n + Size
    <3>1. Ahead((head + n) % Size, b) = IF n <= Ahead(head, b) THEN Ahead(head, b) - n
                                        ELSE Ahead(head, b) - n + Size
      BY <1>2, <1>4, FromThere
    <3>2. QED
      BY <3>1, <2>1, <1>7
  <2>3. Place(e, b) = x + q
    BY <2>1, <1>1, <1>5 DEF Place
  <2>4. Place(e, b)' = y + Ahead(head', b)
    BY <1>1, <1>5 DEF Place, Ahead
  <2>5. QED
    BY <2>1, <2>2, <2>3, <2>4, <1>6, Numbers
<1>9. ASSUME NEW i, NEW t \in Nat, NEW p \in Nat, Whole(e, i, t, p),
             p + (HeadLen + t) <= x + Size
      PROVE  Whole(e, i, t, p)'
  <2>1. ASSUME NEW b \in 0 .. Size - 1, p <= Place(e, b)',
               Place(e, b)' < p + (HeadLen + t)
        PROVE  Place(e, b)' = Place(e, b) /\ mem[b] = <<i, t, Place(e, b) - p>>
    <3>1. PICK v \in x .. x + Size - 1 : v = Place(e, b)
      BY <1>8
    <3>2. Place(e, b)' = v \/ Place(e, b)' = v + Size
      BY <3>1, <1>8
    <3>3. Place(e, b)' = v
      BY <2>1, <3>1, <3>2, <1>9, Numbers
    <3>4. p <= v /\ v < p + (HeadLen + t)
      BY <2>1, <3>3
    <3>5. QED
      BY <3>1, <3>3, <3>4, <1>9 DEF Whole
  <2>2. mem' = mem
    OBVIOUS
  <2>3. QED
    BY <2>1, <2>2 DEF Whole
<1>10. ASSUME NEW i \in (g + 1) + 1 .. N
       PROVE  Whole(e, i, posted[i], e[i - 1])'
  <2>1. i \in g + 1 .. N /\ i \in 1 .. N /\ i - 1 \in 0 .. N /\ i \in 0 .. N
    BY <1>2
  <2>2. PICK t \in Nat, p \in Nat : t = posted[i] /\ p = e[i - 1]
    BY <2>1, <1>1, Facts
  <2>3. Whole(e, i, t, p)
    BY <2>1, <2>2, <1>1 DEF Stored
  <2>4. p + (HeadLen + t) <= z
    BY <2>1, <2>2, <1>1, <1>5 DEF Stored, Ends
  <2>5. p + (HeadLen + t) <= x + Size
    <3>1. z <= x + Size /\ x + Size \in Nat
      BY <1>6, Numbers
    <3>2. p + (HeadLen + t) \in Nat
      BY <2>2, Numbers
    <3>3. QED
      BY <2>4, <3>1, <3>2, <1>5
  <2>6. Whole(e, i, t, p)'
    BY <2>2, <2>3, <2>5, <1>9
  <2>7. posted' = posted
    OBVIOUS
  <2>8. QED
    BY <2>2, <2>6, <2>7 DEF Whole
<1>11. ASSUME pPc = "publish", ~ outside
       PROVE  Whole(e, N + 1, pSize, z)'
  <2>1. pSize \in Nat /\ HeadLen + pSize + Reserved <= Raw(head, tail)
    BY <1>11, Numbers DEF IInv, Room
  <2>2. HeadLen + pSize + Reserved <= Size - a
    <3>1. Raw(head, tail) = Size - Ahead(head, tail)
      BY <1>2, AheadType
    <3>2. QED
      BY <2>1, <3>1, <1>1
  <2>3. z + (HeadLen + pSize) <= x + Size
    <3>1. HeadLen + pSize <= Size - a
      BY <2>1, <2>2, <1>1, Numbers
    <3>2. QED
      BY <3>1, <2>1, <1>6, Numbers
  <2>4. Whole(e, N + 1, pSize, z)
    BY <1>1, <1>5, <1>11 DEF Stored
  <2>5. PICK t \in Nat : t = pSize
    BY <2>1
  <2>6. Whole(e, N + 1, t, z)'
    BY <2>3, <2>4, <2>5, <1>9
  <2>7. pSize' = pSize
    OBVIOUS
  <2>8. QED
    BY <2>5, <2>6, <2>7 DEF Whole
<1>12. Ends(e)'
  BY DEF Stored, Ends
<1>13. (e[Len(posted)] = Place(e, tail))'
  <2>1. Place(e, tail) = z
    BY <1>1, <1>5 DEF Stored
  <2>2. PICK b \in 0 .. Size - 1 : b = tail
    BY <1>2
  <2>3. Place(e, b)' = Place(e, b)
    BY <2>2, <1>1, <1>4, <1>8
  <2>4. tail' = b
    BY <2>2
  <2>5. QED
    BY <2>1, <2>2, <2>3, <2>4, <1>1, <1>5 DEF Place
<1>14. QED
  BY <1>1, <1>5, <1>10, <1>11, <1>12, <1>13 DEF Stored

LEMMA StartPopFull ==
  ASSUME FullInv, NEW buffer \in Buffers, StartPop(buffer)
  PROVE  InOrder' /\ Reading' /\ Nodes'
<1> USE DEF FullInv
<1>1. /\ UNCHANGED <<head, tail, mem, posted, taken, pPc, pSize, outside>>
      /\ cPc = "idle" /\ cPc' = "read" /\ cCode' = CodeSize(head, tail)
      /\ head # tail
  BY DEF StartPop, writerVars
<1>2. Gone' = Gone /\ Gone \in Nat /\ Len(posted) \in Nat /\ Gone <= Len(posted)
  BY <1>1, Facts DEF Gone
<1>3. PICK e \in [0 .. Len(posted) -> Nat] : Stored(e)
  BY DEF Nodes
<1>4. /\ CodeSize(head, tail) = Ahead(head, tail)
      /\ Ahead(head, tail) \in 0 .. Size - 1 /\ Ahead(head, tail) # 0
  BY <1>1, Facts, SizesAreRight, AheadType DEF IInv, ReservedIsFree
<1>5. Gone < Len(posted)
  <2>1. e[Len(posted)] = e[Gone] + Ahead(head, tail) /\ e[Gone] \in Nat
    BY <1>2, <1>3 DEF Stored, Place
  <2>2. e[Len(posted)] # e[Gone]
    BY <2>1, <1>4
  <2>3. QED
    BY <2>2, <1>2
<1>6. HeadLen + posted[Gone + 1] <= Ahead(head, tail)
  BY <1>3, <1>5, FirstNode
<1>7. Reading'
  BY <1>1, <1>2, <1>4, <1>5, <1>6 DEF Reading
<1>8. InOrder'
  BY <1>1 DEF InOrder
<1>9. Nodes'
  BY <1>1, <1>2, StoredFrame
<1>10. QED
  BY <1>7, <1>8, <1>9

\* What the reader takes next.
LEMMA NextTaken ==
  ASSUME IInv, InOrder, Len(taken) < Len(posted), UNCHANGED posted,
         taken' = Append(taken, <<Len(taken) + 1, posted[Len(taken) + 1]>>),
         cPc # "release"
  PROVE  InOrder' /\ Len(taken') = Len(taken) + 1
<1>1. PICK m \in Nat : m = Len(taken) /\ m < Len(posted) /\ Len(posted) \in Nat
  BY Facts
<1>2. taken \in Seq(Nat \X Nat) /\ posted[m + 1] \in Nat
  <2>1. m + 1 \in 1 .. Len(posted)
    BY <1>1
  <2>2. QED
    BY <2>1, Facts DEF IInv, TypeOK
<1>3. <<m + 1, posted[m + 1]>> \in Nat \X Nat
  BY <1>1, <1>2
<1>4. /\ Len(taken') = m + 1 /\ taken'[m + 1] = <<m + 1, posted[m + 1]>>
      /\ \A i \in 1 .. m : taken'[i] = taken[i]
  BY <1>1, <1>2, <1>3
<1>5. \A i \in 1 .. m + 1 : taken'[i] = <<i, posted[i]>>
  BY <1>1, <1>4 DEF InOrder
<1>6. QED
  BY <1>1, <1>4, <1>5 DEF InOrder

LEMMA ReadLengthFull ==
  ASSUME FullInv, ReadLength
  PROVE  /\ InOrder' /\ Reading' /\ Nodes' /\ posted' = posted
         /\ \/ taken' = taken
            \/ /\ Len(taken) < Len(posted)
               /\ taken' = Append(taken, <<Len(taken) + 1, posted[Len(taken) + 1]>>)
<1> USE DEF FullInv
<1>1. PICK g \in Nat, s \in Nat :
        /\ g = Gone /\ g = Len(taken) /\ g < Len(posted) /\ s = posted[g + 1] /\ s > 0
        /\ HeadLen + s <= cCode /\ Len(posted) \in Nat
  <2>1. cPc = "read"
    BY DEF ReadLength
  <2>2. Gone \in Nat /\ Gone = Len(taken) /\ Gone < Len(posted) /\ Len(posted) \in Nat
    BY <2>1, Facts DEF Gone, Reading
  <2>3. Gone + 1 \in 1 .. Len(posted)
    BY <2>2
  <2>4. posted[Gone + 1] \in Nat /\ posted[Gone + 1] > 0
    BY <2>3, Facts
  <2>5. HeadLen + posted[Gone + 1] <= cCode
    BY <2>1 DEF Reading
  <2>6. QED
    BY <2>2, <2>4, <2>5
<1>2. PICK e \in [0 .. Len(posted) -> Nat] : Stored(e)
  BY DEF Nodes
<1>3. LengthAt(head) = s /\ mem[head][1] = g + 1
  BY <1>1, <1>2, ReadsFirst
<1>4. ~ Corrupt(s)
  <2>1. cCode \in Nat
    BY DEF IInv, TypeOK
  <2>2. QED
    BY <2>1, <1>1, Numbers DEF Corrupt
<1>5. /\ UNCHANGED <<mem, posted, pPc, pSize, outside, tail>> /\ cPc = "read"
      /\ cTail' = tail /\ cLen' = s
      /\ \/ /\ cPc' = "idle" /\ head' = Behind(head, s)
            /\ taken' = Append(taken, <<g + 1, s>>)
         \/ cPc' = "copy" /\ UNCHANGED <<head, taken>>
  BY <1>3, <1>4 DEF ReadLength, writerVars
<1>6. CASE cPc' = "idle" /\ head' = Behind(head, s) /\ taken' = Append(taken, <<g + 1, s>>)
  <2>1. taken' = Append(taken, <<Len(taken) + 1, posted[Len(taken) + 1]>>)
    BY <1>1, <1>6
  <2>2. InOrder' /\ Len(taken') = g + 1
    BY <2>1, <1>1, <1>5, NextTaken
  <2>3. Gone' = g + 1
    BY <2>2, <1>6 DEF Gone
  <2>4. Stored(e)'
    BY <2>3, <1>1, <1>2, <1>5, <1>6, NodeReleased
  <2>5. Nodes'
    BY <2>4, <1>2, <1>5 DEF Nodes
  <2>6. Reading'
    BY <1>6 DEF Reading
  <2>7. QED
    BY <2>1, <2>2, <2>5, <2>6, <1>1, <1>5
<1>7. CASE cPc' = "copy" /\ UNCHANGED <<head, taken>>
  <2>1. Gone' = g /\ InOrder'
    BY <1>1, <1>5, <1>7 DEF Gone, InOrder
  <2>2. Nodes'
    BY <2>1, <1>1, <1>5, <1>7, StoredFrame
  <2>3. HeadLen + s <= Ahead(head, tail)
    BY <1>1, <1>2, FirstNode
  <2>4. Ahead(head, cTail)' = Ahead(head, tail)
    BY <1>5, <1>7 DEF Ahead
  <2>5. Reading'
    BY <2>1, <2>3, <2>4, <1>1, <1>5, <1>7 DEF Reading
  <2>6. QED
    BY <2>1, <2>2, <2>5, <1>5, <1>7
<1>8. QED
  BY <1>5, <1>6, <1>7

LEMMA CopyFull ==
  ASSUME FullInv, Copy
  PROVE  /\ InOrder' /\ Reading' /\ Nodes' /\ posted' = posted
         /\ Len(taken) < Len(posted)
         /\ taken' = Append(taken, <<Len(taken) + 1, posted[Len(taken) + 1]>>)
<1> USE DEF FullInv
<1>1. PICK g \in Nat, s \in Nat :
        /\ g = Gone /\ g = Len(taken) /\ g < Len(posted) /\ s = posted[g + 1] /\ s > 0
        /\ cLen = s /\ HeadLen + s <= Ahead(head, cTail) /\ Len(posted) \in Nat
  <2>1. cPc = "copy"
    BY DEF Copy
  <2>2. Gone \in Nat /\ Gone = Len(taken) /\ Gone < Len(posted) /\ Len(posted) \in Nat
    BY <2>1, Facts DEF Gone, Reading
  <2>3. Gone + 1 \in 1 .. Len(posted)
    BY <2>2
  <2>4. posted[Gone + 1] \in Nat /\ posted[Gone + 1] > 0
    BY <2>3, Facts
  <2>5. QED
    BY <2>1, <2>2, <2>4 DEF Reading
<1>2. PICK e \in [0 .. Len(posted) -> Nat] : Stored(e)
  BY DEF Nodes
<1>3. mem[head][1] = g + 1
  BY <1>1, <1>2, ReadsFirst
<1>4. head \in 0 .. Size - 1 /\ cTail \in 0 .. Size - 1
  BY DEF IInv, TypeOK
<1>5. PICK q \in 0 .. Size - 1 : q = Ahead(head, cTail) /\ HeadLen + s <= q
  BY <1>1, <1>4, AheadType
<1>6. HeadLen \in 0 .. Size - 1
  BY <1>5, Numbers
<1>7. PICK at \in 0 .. Size - 1 : at = (head + HeadLen) % Size /\ Ahead(head, at) = HeadLen
  BY <1>4, <1>6, FurtherOn
<1>8. at + cLen <= Size \/ cTail <= at
  <2>1. Ahead(at, cTail) = q - HeadLen
    BY <1>4, <1>5, <1>6, <1>7, FromTail, Numbers
  <2>2. s <= q - HeadLen
    BY <1>5, Numbers
  <2>3. CASE at <= cTail
    <3>1. q - HeadLen = cTail - at
      BY <2>1, <2>3 DEF Ahead
    <3>2. QED
      BY <2>2, <3>1, <1>1, <1>4, <1>7, Numbers
  <2>4. CASE ~ (at <= cTail)
    BY <2>4, <1>4, <1>7
  <2>5. QED
    BY <2>3, <2>4
<1>9. Holds(at, g + 1, s, HeadLen, s)
  <2>1. ASSUME NEW j \in 0 .. s - 1
        PROVE  mem[(at + j) % Size] = <<g + 1, s, HeadLen + j>>
    <3>1. HeadLen + j \in 0 .. HeadLen + s - 1 /\ j \in 0 .. Size - 1 /\ HeadLen + j < Size
      BY <1>5, Numbers
    <3>2. (at + j) % Size = (head + (HeadLen + j)) % Size
      BY <3>1, <1>4, <1>6, <1>7, TwoSteps
    <3>3. mem[(head + (HeadLen + j)) % Size] = <<g + 1, s, HeadLen + j>>
      BY <3>1, <1>1, <1>2, FirstNode
    <3>4. QED
      BY <3>2, <3>3
  <2>2. QED
    BY <2>1 DEF Holds
<1>10. taken' = Append(taken, <<g + 1, s>>)
  BY <1>1, <1>3, <1>7, <1>8, <1>9 DEF Copy
<1>11. /\ UNCHANGED <<head, tail, mem, posted, pPc, pSize, outside, cCode, cTail, cLen>>
       /\ cPc = "copy" /\ cPc' = "release"
  BY DEF Copy, writerVars
<1>12. InOrder' /\ Len(taken') = g + 1
  <2>1. taken' = Append(taken, <<Len(taken) + 1, posted[Len(taken) + 1]>>)
    BY <1>1, <1>10
  <2>2. QED
    BY <2>1, <1>1, <1>11, NextTaken
<1>13. Gone' = g
  BY <1>11, <1>12 DEF Gone
<1>14. Nodes'
  BY <1>1, <1>11, <1>13, StoredFrame
<1>15. Reading'
  BY <1>1, <1>11, <1>13 DEF Reading
<1>16. QED
  BY <1>1, <1>10, <1>11, <1>12, <1>14, <1>15

LEMMA ReleaseFull ==
  ASSUME FullInv, Release
  PROVE  InOrder' /\ Reading' /\ Nodes'
<1> USE DEF FullInv
<1>1. /\ UNCHANGED <<tail, mem, posted, taken, pPc, pSize, outside>>
      /\ cPc = "release" /\ cPc' = "idle" /\ head' = Behind(head, cLen)
  BY DEF Release, writerVars
<1>2. Gone < Len(posted) /\ cLen = posted[Gone + 1]
  BY <1>1 DEF Reading
<1>3. Gone' = Gone + 1
  BY <1>1, Facts DEF Gone
<1>4. PICK e \in [0 .. Len(posted) -> Nat] : Stored(e)
  BY DEF Nodes
<1>5. Stored(e)'
  BY <1>1, <1>2, <1>3, <1>4, NodeReleased
<1>6. Nodes'
  BY <1>1, <1>4, <1>5 DEF Nodes
<1>7. InOrder' /\ Reading'
  BY <1>1 DEF InOrder, Reading
<1>8. QED
  BY <1>6, <1>7

\* Steps of the writer that publish nothing leave the reader's side alone.
LEMMA WriterFrame ==
  ASSUME InOrder, Reading, UNCHANGED <<head, posted, taken, readerVars>>
  PROVE  InOrder' /\ Reading'
<1>1. Gone' = Gone
  BY DEF Gone, readerVars
<1>2. QED
  BY <1>1 DEF InOrder, Reading, Ahead, readerVars

LEMMA FullStep == FullInv /\ [Next]_vars => FullInv'
<1> SUFFICES ASSUME FullInv, [Next]_vars PROVE FullInv'
  OBVIOUS
<1>1. IInv' /\ IInv /\ InOrder /\ Reading /\ Nodes
  BY StepKeeps DEF FullInv
<1>2. ASSUME UNCHANGED <<head, tail, mem, posted, taken, readerVars>>,
             pPc' # "publish" \/ UNCHANGED <<pPc, pSize, outside>>
      PROVE  FullInv'
  <2>1. Gone' = Gone
    BY <1>2 DEF Gone, readerVars
  <2>2. Nodes'
    BY <2>1, <1>1, <1>2, StoredFrame
  <2>3. QED
    BY <2>2, <1>1, <1>2, WriterFrame DEF FullInv
<1>3. ASSUME NEW s \in Sizes, StartAppend(s) PROVE FullInv'
  BY <1>2, <1>3 DEF StartAppend
<1>4. CASE CheckFree
  BY <1>2, <1>4 DEF CheckFree
<1>5. CASE WriteNode
  <2>1. PICK e \in [0 .. Len(posted) -> Nat] : Stored(e)
    BY <1>1 DEF Nodes
  <2>2. Stored(e)'
    BY <2>1, <1>1, <1>5, WriteNodeFull
  <2>3. InOrder' /\ Reading' /\ posted' = posted
    BY <1>1, <1>5, WriterFrame DEF WriteNode
  <2>4. QED
    BY <2>1, <2>2, <2>3, <1>1 DEF FullInv, Nodes
<1>6. CASE Publish
  BY <1>1, <1>6, PublishFull DEF FullInv
<1>7. ASSUME NEW buffer \in Buffers, StartPop(buffer) PROVE FullInv'
  BY <1>1, <1>7, StartPopFull DEF FullInv
<1>8. CASE ReadLength
  BY <1>1, <1>8, ReadLengthFull DEF FullInv
<1>9. CASE Copy
  BY <1>1, <1>9, CopyFull DEF FullInv
<1>10. CASE Release
  BY <1>1, <1>10, ReleaseFull DEF FullInv
<1>11. CASE UNCHANGED vars
  BY <1>2, <1>11 DEF vars, writerVars
<1>12. QED
  BY <1>3, <1>4, <1>5, <1>6, <1>7, <1>8, <1>9, <1>10, <1>11 DEF Next, Writer, Reader

\* The inductive invariant of what the ring holds: the nodes that were not
\* released are whole and lie one behind the other from the head to the tail.
THEOREM FullInvariance == Spec => []FullInv
<1>1. Init => FullInv
  BY InitFull
<1>2. QED
  BY <1>1, FullStep, PTL DEF Spec

\* Every step of the two threads is a step of the abstract queue or changes
\* neither of its histories: append1 and pop1 hand over whole messages, one by
\* one and in order, wherever the end of the ring cuts them, and none is found
\* corrupt.
THEOREM Implements == Spec => ImplementsFifo
<1> DEFINE sentNow == [i \in 1 .. Len(posted) |-> <<i, posted[i]>>]
<1>1. Init => Queue!Init
  <2> SUFFICES ASSUME Init
               PROVE  sentNow = <<>> /\ taken = <<>>
    BY DEF Queue!Init
  <2>1. Len(posted) = 0
    BY DEF Init
  <2>2. QED
    BY <2>1 DEF Init
<1>2. FullInv /\ [Next]_vars => [Queue!Next]_(Queue!fifoVars)
  <2> SUFFICES ASSUME FullInv, [Next]_vars
               PROVE  [Queue!Next]_(Queue!fifoVars)
    OBVIOUS
  <2> USE DEF Queue!fifoVars
  <2>1. IInv /\ InOrder
    BY DEF FullInv
  <2>2. PICK N \in Nat : N = Len(posted)
    BY <2>1, Facts
  <2>3. Len(sentNow) = N /\ sentNow \in Seq(Nat \X Sizes)
    <3>1. \A i \in 1 .. N : <<i, posted[i]>> \in Nat \X Sizes
      BY <2>1, <2>2, Facts
    <3>2. sentNow \in [1 .. N -> Nat \X Sizes]
      BY <3>1, <2>2
    <3>3. QED
      BY <3>2, <2>2
  <2>4. CASE Publish
    <3>1. posted \in Seq(Sizes) /\ pSize \in Sizes
      BY <2>1, <2>4 DEF IInv, TypeOK, Room, Publish
    <3>2. posted' = Append(posted, pSize) /\ taken' = taken
      BY <2>4 DEF Publish
    <3>3. /\ Len(posted') = N + 1 /\ posted'[N + 1] = pSize
          /\ \A i \in 1 .. N : posted'[i] = posted[i]
      BY <3>1, <3>2, <2>2
    <3>4. [i \in 1 .. Len(posted') |-> <<i, posted'[i]>>]
            = Append(sentNow, <<Len(sentNow) + 1, pSize>>)
      BY <2>2, <2>3, <3>3
    <3>5. QED
      BY <3>1, <3>2, <3>4 DEF Queue!Next, Queue!Send
  <2>5. ASSUME Len(taken) < Len(posted), posted' = posted,
               taken' = Append(taken, <<Len(taken) + 1, posted[Len(taken) + 1]>>)
        PROVE  Queue!Next
    <3>1. Len(taken) \in Nat /\ Len(taken) + 1 \in 1 .. N
      BY <2>1, <2>2, <2>5, Facts
    <3>2. sentNow[Len(taken) + 1] = <<Len(taken) + 1, posted[Len(taken) + 1]>>
      BY <3>1, <2>2
    <3>3. QED
      BY <3>1, <3>2, <2>2, <2>3, <2>5 DEF Queue!Next, Queue!Receive
  <2>6. CASE ReadLength
    BY <2>5, <2>6, ReadLengthFull
  <2>7. CASE Copy
    BY <2>5, <2>7, CopyFull
  <2>8. CASE UNCHANGED <<posted, taken>>
    BY <2>8
  <2>9. QED
    BY <2>4, <2>6, <2>7, <2>8 DEF Next, Writer, Reader, StartAppend, CheckFree,
       WriteNode, StartPop, Release, vars
<1>3. QED
  BY <1>1, <1>2, FullInvariance, PTL DEF Spec, ImplementsFifo, Queue!SafeSpec
==============================================================================
