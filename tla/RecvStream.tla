----------------------------- MODULE RecvStream -----------------------------
(***************************************************************************)
(* PostRecvMessageFrom (socket/SocketManager.cpp): how the net thread cuts *)
(* the byte streams of its connections into packets and posts them to the  *)
(* receive queue.  There is one receive buffer, with one offset where the  *)
(* next read goes, for all connections: an incomplete packet waits at its  *)
(* start.  The main thread takes packets from the queue at the same time.  *)
(* The peers follow the protocol: each stream is a sequence of messages    *)
(* that start with their length, none longer than the buffer.              *)
(***************************************************************************)
EXTENDS Naturals, Sequences, FiniteSets

CONSTANTS Conns,          \* connection indices
          Lens,           \* lengths of the messages of a stream
          HeadLen,           \* bytes of the length word
          BufLen,         \* m_iRecvBufferLen
          QCap,           \* packets the receive queue has room for
          Garbage,        \* values a word can have that is no length word
          MaxBreaks,      \* bound: new streams of a connection
          MaxPosts        \* bound: packets the main thread makes room for

ASSUME HeadAssumption == HeadLen \in Nat \ {0}
ASSUME LensAssumption ==
  Lens \in Seq(Nat) /\ \A m \in DOMAIN Lens : HeadLen < Lens[m] /\ Lens[m] <= BufLen
ASSUME BoundsAssumption ==
  /\ BufLen \in Nat /\ QCap \in Nat /\ MaxBreaks \in Nat /\ MaxPosts \in Nat
  /\ Garbage \subseteq Nat /\ Garbage # {} /\ Conns \subseteq Nat

VARIABLES
  pc,                     \* "idle", or "parse": in the inner loop
  cur,                    \* connection the call is for
  buf, offset,            \* m_pRecvBuffer and m_iRecvBufferOffset
  start, msgLen,          \* pStart as an index, msg_len
  epoch, read,            \* of a connection: which stream, bytes read of it
  waiting,                \* packets in the receive queue
  posted,                 \* history: every packet posted
  spoiled                 \* history: the buffer was used as it must not be

streamVars == <<epoch, read>>
vars == <<pc, cur, buf, offset, start, msgLen, streamVars, waiting, posted,
          spoiled>>

\* Byte k of stream e of connection c is <<c, e, k>>.
StreamEnd[m \in 0 .. Len(Lens)] ==
  IF m = 0 THEN 0 ELSE StreamEnd[m - 1] + Lens[m]

Message(c, e, m) == [k \in 1 .. Lens[m] |-> <<c, e, StreamEnd[m - 1] + k>>]

\* What _do_post_recved_buff leaves before the packet: 2 words over data.
Stamp == <<0, 0, 0>>
Stamped(b) == [i \in DOMAIN b |->
                 IF i <= start /\ start < i + 2 * HeadLen THEN Stamp ELSE b[i]]

\* Bytes from pStart to pEnd.
CurLen == Len(buf) - start

\* parseBufferLen: the values the length word at pStart may have.
Words ==
  LET b == buf[start + 1]
      S == {m \in DOMAIN Lens : \A k \in 1 .. HeadLen :
              buf[start + k] = <<b[1], b[2], StreamEnd[m - 1] + k>>}
  IN  IF S = {} THEN Garbage ELSE {Lens[m] : m \in S}

\* Mutant: the length is parsed once for all packets of a read.
PacketLensOnce ==
  IF CurLen > HeadLen /\ start = 0
  THEN {IF w > BufLen THEN CurLen ELSE w : w \in Words}
  ELSE {msgLen}

\* msg_len for the packet at pStart.  It needs more than the length word to be
\* parsed; otherwise msg_len keeps the value it has.
PacketLens ==
  IF CurLen > HeadLen
  THEN {IF w > BufLen THEN CurLen ELSE w : w \in Words}
  ELSE {msgLen}

----------------------------------------------------------------------------
\* Mutant: the room the buffer has when no packet waits in it.
RoomWhole == BufLen

\* Bytes the buffer has room for.
Room == BufLen - offset

\* The read: at most what the buffer has room for, and there is one in a call
\* (what the read did not fill is taken off len).  msg_len is not initialized:
\* it may hold what the last call left on the stack.
Recv(c) ==
  /\ pc = "idle"
  /\ \E n \in 1 .. Room, g \in Garbage \cup {msgLen} :
       /\ read[c] + n <= StreamEnd[Len(Lens)]
       /\ read' = [read EXCEPT ![c] = @ + n]
       /\ buf' = SubSeq(buf, 1, offset)
                   \o [k \in 1 .. n |-> <<c, epoch[c], read[c] + k>>]
       /\ msgLen' = g
       /\ spoiled' = \/ spoiled
                     \/ offset > 0 /\ buf[1] # <<c, epoch[c], buf[1][3]>>
                     \/ offset + n <= HeadLen /\ g <= offset + n
  /\ cur' = c
  /\ start' = 0
  /\ pc' = "parse"
  /\ UNCHANGED <<offset, epoch, waiting, posted>>

\* Mutant: a packet that ends where the bytes read end is taken for incomplete.
KeepRestWhole ==
  /\ pc = "parse"
  /\ \E len \in PacketLens : len >= CurLen /\ msgLen' = len
  /\ buf' = SubSeq(buf, start + 1, Len(buf))
  /\ offset' = CurLen
  /\ pc' = "idle" /\ start' = 0
  /\ UNCHANGED <<cur, streamVars, waiting, posted, spoiled>>

\* An incomplete packet moves to the start of the buffer.
KeepRest ==
  /\ pc = "parse"
  /\ \E len \in PacketLens : len > CurLen /\ msgLen' = len
  /\ buf' = SubSeq(buf, start + 1, Len(buf))
  /\ offset' = CurLen
  /\ pc' = "idle" /\ start' = 0
  /\ UNCHANGED <<cur, streamVars, waiting, posted, spoiled>>

\* A whole packet is posted; the loop ends when nothing is left.
PostPacket ==
  /\ pc = "parse"
  /\ waiting < QCap
  /\ \E len \in PacketLens :
       LET next == start + len IN
       /\ len <= CurLen
       /\ msgLen' = len
       /\ posted' = Append(posted, [conn |-> cur,
                                    bytes |-> SubSeq(buf, start + 1, next)])
       /\ IF next = Len(buf)
          THEN pc' = "idle" /\ start' = 0 /\ offset' = 0 /\ buf' = <<>>
          ELSE start' = next /\ buf' = Stamped(buf) /\ UNCHANGED <<pc, offset>>
  /\ waiting' = waiting + 1
  /\ UNCHANGED <<cur, streamVars, spoiled>>

\* The queue is full: the call returns as it stands, and the bytes up to the
\* old offset are still taken for the start of a packet.  Its room is counted in
\* packets here; the ring, which counts bytes, may refuse a large one earlier.
PostRefused ==
  /\ pc = "parse"
  /\ waiting = QCap
  /\ \E len \in PacketLens : len <= CurLen /\ msgLen' = len
  /\ buf' = SubSeq(Stamped(buf), 1, offset)
  /\ pc' = "idle" /\ start' = 0
  /\ spoiled' = TRUE
  /\ UNCHANGED <<cur, offset, streamVars, waiting, posted>>

\* The connection ends, and a new one under its index starts a new stream.
Break(c) ==
  /\ pc = "idle"
  /\ epoch[c] < MaxBreaks
  /\ epoch' = [epoch EXCEPT ![c] = @ + 1]
  /\ read' = [read EXCEPT ![c] = 0]
  /\ UNCHANGED <<pc, cur, buf, offset, start, msgLen, waiting, posted, spoiled>>

\* SocketManager::PeekMessage on the main thread.
Take ==
  /\ waiting > 0
  /\ Len(posted) < MaxPosts
  /\ waiting' = waiting - 1
  /\ UNCHANGED <<pc, cur, buf, offset, start, msgLen, streamVars, posted,
                 spoiled>>

Init ==
  /\ pc = "idle" /\ cur \in Conns
  /\ buf = <<>> /\ offset = 0 /\ start = 0 /\ msgLen = 0
  /\ epoch = [c \in Conns |-> 0] /\ read = [c \in Conns |-> 0]
  /\ waiting = 0 /\ posted = <<>> /\ spoiled = FALSE

Next == \/ \E c \in Conns : Recv(c) \/ Break(c)
        \/ KeepRest \/ PostPacket \/ PostRefused \/ Take

Spec == Init /\ [][Next]_vars

----------------------------------------------------------------------------
(* Properties.                                                             *)

\* Every variable stays in its range; the buffer is never written beyond its
\* end.
TypeOK ==
  /\ pc \in {"idle", "parse"} /\ cur \in Conns
  /\ Len(buf) <= BufLen /\ offset \in 0 .. BufLen /\ start \in 0 .. Len(buf)
  /\ msgLen \in Nat
  /\ epoch \in [Conns -> 0 .. MaxBreaks]
  /\ read \in [Conns -> 0 .. StreamEnd[Len(Lens)]]
  /\ waiting \in 0 .. QCap
  /\ \A i \in DOMAIN posted : posted[i].conn \in Conns
  /\ spoiled \in BOOLEAN

\* The packets posted for stream e of connection c, by their places.
Of(c, e) ==
  {i \in DOMAIN posted : /\ posted[i].conn = c
                         /\ posted[i].bytes # <<>> /\ posted[i].bytes[1][2] = e}

\* Which packet of its stream the one at place i is.
Nth(c, e, i) == Cardinality({j \in Of(c, e) : j <= i})

\* What the queue receives under an index are the messages its peer sent, each
\* whole, in order and none left out: what the comment in PostRecvMessageFrom
\* says of the split packets.
PacketsAreMessages ==
  \A c \in Conns : \A e \in 0 .. MaxBreaks : \A i \in Of(c, e) :
    /\ Nth(c, e, i) \in DOMAIN Lens
    /\ posted[i].bytes = Message(c, e, Nth(c, e, i))

\* It holds as long as no packet is left half read when another stream is
\* read, no post is refused, and no read stops inside a first length word
\* while msg_len happens to be small.
PacketsUnlessSpoiled ==
  ~ spoiled => /\ PacketsAreMessages
               /\ \A i \in DOMAIN posted : posted[i].bytes # <<>>

\* As long as it does, a call posts every message of which it has read the
\* last byte, and keeps the bytes of the one it has not read to the end.
NothingHeldBack ==
  pc = "idle" /\ ~ spoiled =>
    \A c \in Conns :
      LET n    == Cardinality(Of(c, epoch[c]))
          kept == IF offset > 0 /\ buf[1] = <<c, epoch[c], buf[1][3]>>
                  THEN offset ELSE 0
      IN  /\ read[c] = StreamEnd[n] + kept
          /\ n < Len(Lens) => read[c] < StreamEnd[n + 1]
=============================================================================
