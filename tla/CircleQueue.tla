---------------------------- MODULE CircleQueue ----------------------------
(***************************************************************************)
(* CCircleQueue (messagequeue/circle_queue.cpp) in the mode every queue of *)
(* the program is installed in: bReserve and bIgnoreScrap both true.  The  *)
(* ring holds nodes: a length word of HeadLen bytes, then the message.  A  *)
(* node never straddles the end of the ring: one that does not fit there   *)
(* goes to offset 0, and a zero length word (the marker) tells the reader  *)
(* so when there is room for one.                                          *)
(*                                                                         *)
(* One thread appends and one thread peeks and pops, with no lock; the     *)
(* two only share the words head and tail and the bytes.  A step is what a *)
(* thread does between two accesses to a word the other thread writes.     *)
(***************************************************************************)
EXTENDS Integers, Sequences

CONSTANTS ValidSize,      \* m_iSize - m_iReserve: bytes in the ring
          HeadLen,        \* m_ciNodeHeadLen: bytes of the length word
          Sizes,          \* lengths of the messages that are appended
          MaxPosts        \* bound: number of messages ever appended

ASSUME HeadLenAssumption   == HeadLen \in Nat \ {0}
ASSUME ValidSizeAssumption == ValidSize \in Nat /\ HeadLen <= ValidSize
ASSUME SizesAssumption     == Sizes \subseteq Nat \ {0}
ASSUME MaxPostsAssumption  == MaxPosts \in Nat

VARIABLES
  head, tail,             \* the two words in the reserved bytes
  mem,                    \* the ring: which byte of which node each holds
  pPc, pAt, pSize,        \* writer: step of append2, place and message length
  cPc, cTail, cAt, cSize, \* reader: step of get/pop, tail read, node found
  posted,                 \* history: [at, size] of each published node
  popped,                 \* history: how many nodes the reader has released
  taken                   \* history: what the reader got from each node

producerVars == <<pPc, pAt, pSize>>
consumerVars == <<cPc, cTail, cAt, cSize>>
vars == <<head, tail, mem, producerVars, consumerVars, posted, popped, taken>>

----------------------------------------------------------------------------
(* Bytes.  <<i, s, k>> is byte k of the i-th node, whose message has       *)
(* length s; a marker is made of zero bytes.                               *)

Zero      == <<0, 0, 0>>
Unwritten == <<0, 0, 1>>
Garbage   == -1           \* the value of a word that is no node's length word
Torn      == <<0, 0>>     \* what the reader gets from bytes of several nodes

\* Mutant: the length word is left out of the length of the node.
NodeLenNoHead(s) == s

NodeLen(s) == HeadLen + s

Holds(at, i, s, len) == \A k \in 0 .. len - 1 : mem[at + k] = <<i, s, k>>

\* The length word stored at offset at.
LengthAt(at) ==
  IF \A k \in 0 .. HeadLen - 1 : mem[at + k] = Zero THEN 0
  ELSE IF mem[at][1] > 0 /\ Holds(at, mem[at][1], mem[at][2], HeadLen)
       THEN mem[at][2]
       ELSE Garbage

\* The message of length s found at offset at.
MessageAt(at, s) ==
  IF Holds(at, mem[at][1], s, NodeLen(s)) THEN <<mem[at][1], s>> ELSE Torn

----------------------------------------------------------------------------
(* The writer: append -> append2.                                          *)

\* With head beyond tail the free bytes are tail..head-1 and must not all be
\* used, as head = tail means empty; otherwise they are tail..ValidSize-1,
\* and 0..head-1 when the node does not fit there.
Wraps(h, t, s) == h <= t /\ t + NodeLen(s) > ValidSize

\* Mutants: the last free byte is used; the start of the ring is taken to be
\* free; a node is never put there.
FitsToTheBrim(h, t, s) == \/ h > t /\ t + NodeLen(s) <= h
                          \/ h <= t /\ t + NodeLen(s) <= ValidSize
                          \/ Wraps(h, t, s) /\ NodeLen(s) <= h
FitsUnchecked(h, t, s) == h <= t \/ t + NodeLen(s) < h
FitsNoWrap(h, t, s)    == \/ h > t /\ t + NodeLen(s) < h
                          \/ h <= t /\ t + NodeLen(s) <= ValidSize

Fits(h, t, s) == \/ h > t /\ t + NodeLen(s) < h
                 \/ h <= t /\ t + NodeLen(s) <= ValidSize
                 \/ Wraps(h, t, s) /\ NodeLen(s) < h

\* append2 up to the first write: get_boundary and the choice of a place.
StartAppend(s) ==
  /\ pPc = "idle"
  /\ Len(posted) < MaxPosts
  /\ Fits(head, tail, s)
  /\ pPc' = "write"
  /\ pSize' = s
  /\ pAt' = IF Wraps(head, tail, s) THEN 0 ELSE tail
  /\ UNCHANGED <<head, tail, mem, consumerVars, posted, popped, taken>>

\* The bytes of the node, and the marker when there is room for one.
WriteNode ==
  /\ pPc = "write"
  /\ pPc' = "publish"
  /\ mem' = [b \in DOMAIN mem |->
               IF b \in pAt .. pAt + NodeLen(pSize) - 1
               THEN <<Len(posted) + 1, pSize, b - pAt>>
               ELSE IF /\ pAt # tail
                       /\ tail + HeadLen <= ValidSize
                       /\ b \in tail .. tail + HeadLen - 1
                    THEN Zero ELSE mem[b]]
  /\ UNCHANGED <<head, tail, pAt, pSize, consumerVars, posted, popped, taken>>

\* set_tail: from here on the reader may see the node.
Publish ==
  /\ pPc = "publish"
  /\ pPc' = "idle"
  /\ tail' = pAt + NodeLen(pSize)
  /\ posted' = Append(posted, [at |-> pAt, size |-> pSize])
  /\ UNCHANGED <<head, mem, pAt, pSize, consumerVars, popped, taken>>

----------------------------------------------------------------------------
(* The reader: get, the use of the message, pop.  CMessageQueue's peeks    *)
(* are this sequence: PM_COPY copies the message out, PM_NOREMOVE uses it  *)
(* in place and removes it later.                                          *)

\* Mutant: the reader does not know of the marker.
FirstNodeNoMarker(h) == IF h + HeadLen <= ValidSize THEN h ELSE 0

\* Where get looks for the first node, given the head it read.
FirstNode(h) ==
  IF h + HeadLen <= ValidSize /\ LengthAt(h) # 0 THEN h ELSE 0

\* The length get finds: zero is the error it recovers from.
FirstLength(h, t) ==
  IF h + HeadLen <= ValidSize /\ LengthAt(h) = 0 /\ t = 0
  THEN 0 ELSE LengthAt(FirstNode(h))

\* initialize: both words back to zero, which drops what was queued.
Recover == /\ head' = 0
           /\ tail' = 0
           /\ popped' = Len(posted)
           /\ cPc' = "idle"

\* get: get_boundary finds the queue not empty.
GetBoundary ==
  /\ cPc = "idle"
  /\ head # tail
  /\ cPc' = "length"
  /\ cTail' = tail
  /\ UNCHANGED <<head, tail, mem, producerVars, cAt, cSize, posted, popped,
                 taken>>

\* get: the length word.
GetLength ==
  /\ cPc = "length"
  /\ cAt' = FirstNode(head)
  /\ cSize' = FirstLength(head, cTail)
  /\ IF cSize' = 0
     THEN Recover
     ELSE cPc' = "message" /\ UNCHANGED <<head, tail, popped>>
  /\ UNCHANGED <<mem, producerVars, cTail, posted, taken>>

\* The caller reads the message; a garbage length has no message.
TakeMessage ==
  /\ cPc = "message"
  /\ cPc' = "pop"
  /\ taken' = Append(taken, IF cSize = Garbage THEN Torn
                            ELSE MessageAt(cAt, cSize))
  /\ UNCHANGED <<head, tail, mem, producerVars, cTail, cAt, cSize, posted,
                 popped>>

\* pop: get once more, then move head past the node.
Pop ==
  /\ cPc = "pop"
  /\ LET s == FirstLength(head, tail) IN
       IF head = tail THEN cPc' = "idle" /\ UNCHANGED <<head, tail, popped>>
       ELSE IF s = 0 THEN Recover
       ELSE /\ head' = (IF head + NodeLen(s) > ValidSize THEN 0 ELSE head)
                       + NodeLen(s)
            /\ popped' = popped + 1
            /\ cPc' = "idle"
            /\ UNCHANGED tail
  /\ UNCHANGED <<mem, producerVars, cTail, cAt, cSize, posted, taken>>

----------------------------------------------------------------------------
Init ==
  /\ head = 0 /\ tail = 0
  /\ mem = [b \in 0 .. ValidSize - 1 |-> Unwritten]
  /\ pPc = "idle" /\ pAt = 0 /\ pSize = 0
  /\ cPc = "idle" /\ cTail = 0 /\ cAt = 0 /\ cSize = 0
  /\ posted = <<>> /\ popped = 0 /\ taken = <<>>

Producer == (\E s \in Sizes : StartAppend(s)) \/ WriteNode \/ Publish

Consumer == GetBoundary \/ GetLength \/ TakeMessage \/ Pop

Next == Producer \/ Consumer

Spec == Init /\ [][Next]_vars

\* The net thread and the frame callback both poll their queue for ever, and
\* an append that has started runs to its end.
FairSpec == Spec /\ WF_vars(Consumer) /\ WF_vars(WriteNode \/ Publish)

----------------------------------------------------------------------------
(* Properties.                                                             *)

Byte == Nat \X (Sizes \cup {0}) \X Nat

\* Every variable stays in its range; the words stay inside the ring.
TypeOK ==
  /\ head \in 0 .. ValidSize
  /\ tail \in 0 .. ValidSize
  /\ mem \in [0 .. ValidSize - 1 -> Byte]
  /\ pPc \in {"idle", "write", "publish"}
  /\ pAt \in 0 .. ValidSize
  /\ pSize \in Sizes \cup {0}
  /\ cPc \in {"idle", "length", "message", "pop"}
  /\ cTail \in 0 .. ValidSize
  /\ cAt \in 0 .. ValidSize
  /\ cSize \in Sizes \cup {0}
  /\ posted \in Seq([at : 0 .. ValidSize, size : Sizes])
  /\ popped \in 0 .. Len(posted)
  /\ taken \in Seq(Nat \X Nat)

Live == popped + 1 .. Len(posted)

End(i) == IF i = 0 THEN 0 ELSE posted[i].at + NodeLen(posted[i].size)

Busy == pPc \in {"write", "publish"}

\* The bytes the writer is about to write, or has written and not published,
\* are bytes of no node the reader has still to release: the reader never
\* reads a byte while it changes, although there is no lock (the comment on
\* append in circle_queue.h).
NoOverwrite ==
  Busy => \A i \in Live : \/ pAt + NodeLen(pSize) <= posted[i].at
                          \/ End(i) <= pAt

\* head equals tail exactly when everything published has been released: a
\* full ring is never taken for an empty one (the comment on empty).
EqualOnlyWhenEmpty == (head = tail) <=> (popped = Len(posted))

\* An empty queue takes any node of at most half the ring wherever head and
\* tail stopped, so no such message can be refused for ever.
EmptyTakesHalf ==
  popped = Len(posted) =>
    \A s \in Sizes : 2 * NodeLen(s) <= ValidSize => Fits(head, tail, s)

\* The queue is a FIFO of whole messages that loses none of those it took.
Queue == INSTANCE Fifo WITH
  Payload  <- Sizes,
  sent     <- [i \in 1 .. Len(posted) |-> <<i, posted[i].size>>],
  received <- taken

ImplementsFifo == Queue!SafeSpec
DeliversAll == Queue!Spec
=============================================================================
