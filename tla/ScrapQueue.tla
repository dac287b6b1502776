------------------------------ MODULE ScrapQueue ------------------------------
(***************************************************************************)
(* CCircleQueue in its other mode: bIgnoreScrap and bReserve both false,   *)
(* so append is append1 and pop is pop1.  A node may straddle the end of   *)
(* the ring; the two offsets are moved modulo the size, and reserved_length*)
(* bytes are kept free so that head = tail means empty.  No queue of the   *)
(* program is installed in this mode.                                      *)
(*                                                                         *)
(* As in CircleQueue one thread appends and one pops with no lock.  Both   *)
(* read the two offsets more than once: append1 chooses between one copy   *)
(* and two by the head it read first, and whether there is room at all by  *)
(* the head get_freesize reads later.  A copy that leaves the ring corrupts*)
(* other memory, and the model stops there.                                *)
(***************************************************************************)
EXTENDS Integers, Sequences

CONSTANTS Size,           \* m_iSize
          HeadLen,        \* sizeof(int32_t): bytes of the length word
          Reserved,       \* reserved_length
          Word,           \* an unsigned integer holds 0 .. Word - 1
          Sizes,          \* lengths of the messages that are appended
          Buffers,        \* lengths of the buffers pop1 is called with
          MaxPosts        \* bound: number of messages ever appended

ASSUME SizeAssumption ==
  /\ HeadLen \in Nat \ {0} /\ Reserved \in Nat \ {0}
  /\ Size \in Nat /\ Word \in Nat /\ Reserved <= Size /\ Size < Word
ASSUME InputAssumption ==
  Sizes \subseteq Nat \ {0} /\ Buffers \subseteq Nat \ {0} /\ MaxPosts \in Nat

VARIABLES
  head, tail,                     \* m_iHead, m_iTail
  mem,                            \* the ring: which byte of which node
  pPc, pSize, pHead,              \* append1: step, message, first head read
  cPc, cBuffer, cCode, cTail, cLen,  \* pop1: step, buffer, sizes, tail read
  outside,                        \* history: a copy left the ring
  posted,                         \* history: lengths of published messages
  taken                           \* history: what left the ring, in order

writerVars == <<pPc, pSize, pHead>>
readerVars == <<cPc, cBuffer, cCode, cTail, cLen>>
vars == <<head, tail, mem, writerVars, readerVars, outside, posted, taken>>

----------------------------------------------------------------------------
(* Sizes and bytes.  <<i, s, k>> is byte k of the i-th node, whose message *)
(* has length s.                                                           *)

Unwritten == <<0, 0, 0>>
Garbage   == 0
Torn      == <<0, 0>>

\* The bytes that are in no node.
Raw(h, t) == IF h = t THEN Size ELSE IF h > t THEN h - t ELSE h + Size - t

\* Mutant: nothing is reserved.
FreeToTheBrim(h, t) == Raw(h, t)

\* get_freesize, on an unsigned integer: the test for < 0 never holds.
FreeSize(h, t) == (Raw(h, t) - Reserved + Word) % Word

\* get_codesize.
CodeSize(h, t) ==
  LET n == (Size - FreeSize(h, t) + Word) % Word IN
  IF n > Reserved THEN n - Reserved ELSE 0

\* Whether the len bytes from at on, round the ring, are those of node i from
\* byte k on.
Holds(at, i, s, k, len) ==
  \A j \in 0 .. len - 1 : mem[(at + j) % Size] = <<i, s, k + j>>

\* The length word at offset at.
LengthAt(at) ==
  IF Holds(at, mem[at][1], mem[at][2], 0, HeadLen) THEN mem[at][2] ELSE Garbage

----------------------------------------------------------------------------
(* The writer: append1.                                                    *)

\* full, then get_boundary.
StartAppend(s) ==
  /\ ~ outside
  /\ pPc = "idle"
  /\ Len(posted) < MaxPosts
  /\ FreeSize(head, tail) > 0
  /\ pPc' = "check"
  /\ pSize' = s
  /\ pHead' = head
  /\ UNCHANGED <<head, tail, mem, readerVars, outside, posted, taken>>

\* get_freesize reads the head again.
CheckFree ==
  /\ ~ outside
  /\ pPc = "check"
  /\ pPc' = IF HeadLen + pSize <= FreeSize(head, tail) THEN "write" ELSE "idle"
  /\ UNCHANGED <<head, tail, mem, pSize, pHead, readerVars, outside, posted,
                 taken>>

\* Where the message goes, behind its length word.
Body == (tail + HeadLen) % Size

\* Mutant: the message is never split.
NeverSplit == FALSE

Split == pHead <= Body /\ pSize > Size - Body

\* The length word byte by byte, the message in one copy or two.
WriteNode ==
  /\ ~ outside
  /\ pPc = "write"
  /\ pPc' = "publish"
  /\ outside' = (~ Split /\ Body + pSize > Size)
  /\ mem' = [b \in 0 .. Size - 1 |->
               LET k == (b - tail + Size) % Size IN
               IF k < HeadLen + pSize /\ (Split \/ k < HeadLen \/ b >= Body)
               THEN <<Len(posted) + 1, pSize, k>> ELSE mem[b]]
  /\ UNCHANGED <<head, tail, pSize, pHead, readerVars, posted, taken>>

\* set_tail, with the writer's own tail: that is the shared one as long as the
\* reader does not find the queue corrupt, which LeavesUnlessOutside rules out.
Publish ==
  /\ ~ outside
  /\ pPc = "publish"
  /\ pPc' = "idle"
  /\ tail' = (tail + HeadLen + pSize) % Size
  /\ posted' = Append(posted, pSize)
  /\ UNCHANGED <<head, mem, pSize, pHead, readerVars, outside, taken>>

----------------------------------------------------------------------------
(* The reader: pop1.                                                       *)

\* empty, then get_codesize.
StartPop(buffer) ==
  /\ ~ outside
  /\ cPc = "idle"
  /\ head # tail
  /\ cPc' = "read"
  /\ cBuffer' = buffer
  /\ cCode' = CodeSize(head, tail)
  /\ UNCHANGED <<head, tail, mem, writerVars, cTail, cLen, outside, posted, taken>>

\* Mutant: the last message in the queue counts as corrupt.
CorruptLast(len) == cCode < HeadLen \/ len <= 0 \/ len >= cCode - HeadLen

\* A length word that cannot be right empties the queue.
Corrupt(len) == cCode < HeadLen \/ len <= 0 \/ len > cCode - HeadLen

\* Mutants: the length word is not skipped; the offset is not taken round.
BehindNoHead(at, len) == (at + len) % Size
BehindNoWrap(at, len) == at + HeadLen + len

\* The offset behind the node at offset at.
Behind(at, len) == (at + HeadLen + len) % Size

\* get_boundary, the length word, and the tests on it: a message that is too
\* long for the buffer is skipped.
ReadLength ==
  /\ ~ outside
  /\ cPc = "read"
  /\ LET len == LengthAt(head) IN
       /\ cTail' = tail
       /\ cLen' = len
       /\ IF Corrupt(len)
          THEN head' = 0 /\ tail' = 0 /\ cPc' = "idle" /\ UNCHANGED taken
          ELSE IF cBuffer < len
          THEN /\ head' = Behind(head, len)
               /\ taken' = Append(taken, <<mem[head][1], len>>)
               /\ cPc' = "idle"
               /\ UNCHANGED tail
          ELSE cPc' = "copy" /\ UNCHANGED <<head, tail, taken>>
  /\ UNCHANGED <<mem, writerVars, cBuffer, cCode, outside, posted>>

\* The copy, in one part or two.
Copy ==
  /\ ~ outside
  /\ cPc = "copy"
  /\ cPc' = "release"
  /\ LET at == (head + HeadLen) % Size
         whole == at + cLen <= Size \/ cTail <= at
         id == mem[head][1]
     IN  taken' = Append(taken, IF whole /\ Holds(at, id, cLen, HeadLen, cLen)
                                THEN <<id, cLen>> ELSE Torn)
  /\ UNCHANGED <<head, tail, mem, writerVars, cBuffer, cCode, cTail, cLen,
                 outside, posted>>

\* set_head.
Release ==
  /\ ~ outside
  /\ cPc = "release"
  /\ cPc' = "idle"
  /\ head' = Behind(head, cLen)
  /\ UNCHANGED <<tail, mem, writerVars, cBuffer, cCode, cTail, cLen, outside,
                 posted, taken>>

----------------------------------------------------------------------------
Init ==
  /\ head = 0 /\ tail = 0
  /\ mem = [b \in 0 .. Size - 1 |-> Unwritten]
  /\ pPc = "idle" /\ pSize = 0 /\ pHead = 0
  /\ cPc = "idle" /\ cBuffer = 0 /\ cCode = 0 /\ cTail = 0 /\ cLen = 0
  /\ outside = FALSE /\ posted = <<>> /\ taken = <<>>

Writer == (\E s \in Sizes : StartAppend(s)) \/ CheckFree \/ WriteNode \/ Publish

Reader == (\E buffer \in Buffers : StartPop(buffer)) \/ ReadLength \/ Copy \/ Release

Next == Writer \/ Reader

Spec == Init /\ [][Next]_vars

\* A reader that polls for ever, and appends that run to their end.
FairSpec == Spec /\ WF_vars(Reader) /\ WF_vars(CheckFree \/ WriteNode \/ Publish)

----------------------------------------------------------------------------
(* Properties.                                                             *)

\* Every variable stays in its range.
TypeOK ==
  /\ head \in 0 .. Size - 1 /\ tail \in 0 .. Size - 1
  /\ mem \in [0 .. Size - 1 ->
                (0 .. MaxPosts) \X (Sizes \cup {0}) \X (0 .. Size - 1)]
  /\ pPc \in {"idle", "check", "write", "publish"}
  /\ pSize \in Sizes \cup {0} /\ pHead \in 0 .. Size - 1
  /\ cPc \in {"idle", "read", "copy", "release"}
  /\ cBuffer \in Buffers \cup {0} /\ cCode \in 0 .. Size
  /\ cTail \in 0 .. Size - 1 /\ cLen \in Sizes \cup {Garbage}
  /\ outside \in BOOLEAN
  /\ posted \in Seq(Sizes) /\ taken \in Seq(Nat \X Nat)

\* The reserved bytes stay free whatever the other thread does between two
\* reads: so head = tail means empty (the comment on empty), and the subtraction
\* of get_freesize never goes below zero.
ReservedIsFree == Raw(head, tail) >= Reserved

\* append1 copies past the end of the ring only when the reader passed the end
\* between the two reads of the head.
InsideUnlessPassed == outside => pHead > tail /\ head <= tail

\* Up to such a copy the queue is a FIFO of whole messages; those that are too
\* long for the caller's buffer leave it as well.
Queue == INSTANCE Fifo WITH
  Payload  <- Sizes,
  sent     <- [i \in 1 .. Len(posted) |-> <<i, posted[i]>>],
  received <- taken

ImplementsFifo == Queue!SafeSpec

\* Everything appended leaves the queue: no message is found corrupt, and none
\* stays behind one that is too long for the buffer.
LeavesUnlessOutside ==
  \A n \in 1 .. MaxPosts :
    (Len(posted) >= n) ~> (Len(taken) >= n \/ outside)
===============================================================================
