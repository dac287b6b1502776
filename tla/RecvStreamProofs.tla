-------------------------- MODULE RecvStreamProofs --------------------------
(***************************************************************************)
(* For any messages, buffer, queue and number of connections and breaks:   *)
(* PostRecvMessageFrom never writes beyond the receive buffer, and until   *)
(* the buffer is used for two streams at once, a post is refused or a read *)
(* stops inside a first length word, what it posts of each stream are the  *)
(* stream's messages, and what it has read it has posted or kept.          *)
(***************************************************************************)
EXTENDS RecvStream, FiniteSetTheorems, WellFoundedInduction, TLAPS

Bytes == Nat \X Nat \X Nat

\* The buffer ends where the next read goes, or where the last one ended.
Typed ==
  /\ TypeOK /\ buf \in Seq(Bytes)
  /\ posted \in Seq([conn : Conns, bytes : Seq(Bytes)])
  /\ pc = "idle" => start = 0 /\ Len(buf) = offset
  /\ pc = "parse" => start < Len(buf) /\ offset < Len(buf)

\* How many packets of its present stream were posted for connection c.
Count(c) == Cardinality(Of(c, epoch[c]))

\* How many bytes of that stream wait in the buffer.
Held(c) ==
  IF pc = "parse" THEN IF c = cur THEN CurLen ELSE 0
  ELSE IF offset > 0 /\ buf[1] = <<c, epoch[c], buf[1][3]>> THEN offset ELSE 0

\* What was posted: of no stream that is still to come.
Past ==
  \A i \in DOMAIN posted :
    posted[i].bytes # <<>> /\ posted[i].bytes[1][2] <= epoch[posted[i].conn]

\* What was read was posted, as far as it was whole messages, or waits in the
\* buffer at its place.
Kept ==
  \A c \in Conns :
    /\ Count(c) \in 0 .. Len(Lens)
    /\ read[c] = StreamEnd[Count(c)] + Held(c)
    /\ \A k \in 1 .. Held(c) :
         buf[start + k] = <<c, epoch[c], StreamEnd[Count(c)] + k>>
    /\ pc = "idle" /\ Count(c) < Len(Lens) => Held(c) < Lens[Count(c) + 1]

\* What waits for the next call is of a stream that has begun.
Begun ==
  pc = "idle" /\ offset > 0 => buf[1][1] \in Conns /\ buf[1][2] <= epoch[buf[1][1]]

\* A length that is left in msg_len makes the start of a length word too short.
Short == pc = "parse" /\ CurLen <= HeadLen => msgLen > CurLen

\* What holds until the buffer is used as it must not be.
Sound == Past /\ PacketsAreMessages /\ Kept /\ Begun /\ Short

IInv == Typed /\ (~ spoiled => Sound)

----------------------------------------------------------------------------
(* Numbers.                                                                *)

\* A set of numbers that is not empty has a least one.
LEMMA LeastNumber ==
  ASSUME NEW S, S \subseteq Nat, S # {}
  PROVE  \E x \in S : \A y \in S : x <= y
<1> DEFINE R == {ss \in Nat \X Nat : ss[1] < ss[2]}
<1>1. IsWellFoundedOn(R, Nat)
  BY NatLessThanWellFounded DEF OpToRel
<1>2. PICK x \in S : \A y \in S : ~ (<<y, x>> \in R)
  <2> HIDE DEF R
  <2>1. QED
    BY <1>1, WFMin
<1>3. ASSUME NEW y \in S
      PROVE  x <= y
  <2>1. x \in Nat /\ y \in Nat
    OBVIOUS
  <2>2. y < x => <<y, x>> \in R
    BY <2>1
  <2>3. QED
    BY <1>2, <2>1, <2>2
<1>4. QED
  BY <1>3

\* What zero is in, and every number when the one before it is, holds all of them.
LEMMA CountingUp ==
  ASSUME NEW n \in Nat, NEW S, 0 \in S, \A k \in 1 .. n : k - 1 \in S => k \in S
  PROVE  0 .. n \subseteq S
<1> DEFINE Left == (0 .. n) \ S
<1>1. SUFFICES ASSUME Left # {}
               PROVE  FALSE
  OBVIOUS
<1>2. PICK k \in Left : \A j \in Left : k <= j
  <2>1. Left \subseteq Nat
    OBVIOUS
  <2> HIDE DEF Left
  <2>2. QED
    BY <1>1, <2>1, LeastNumber
<1>3. k \in 1 .. n
  BY <1>2
<1>4. k - 1 \in 0 .. n /\ ~ (k <= k - 1)
  BY <1>3
<1>5. k - 1 \in S
  BY <1>2, <1>4
<1>6. QED
  BY <1>2, <1>3, <1>5

----------------------------------------------------------------------------
(* Where the messages of a stream end.                                     *)

LEMMA Numbers ==
  /\ HeadLen \in Nat /\ HeadLen > 0 /\ BufLen \in Nat /\ QCap \in Nat
  /\ MaxBreaks \in Nat /\ Garbage \subseteq Nat /\ Conns \subseteq Nat
  /\ Len(Lens) \in Nat /\ DOMAIN Lens = 1 .. Len(Lens)
  /\ \A m \in 1 .. Len(Lens) :
       Lens[m] \in Nat /\ HeadLen < Lens[m] /\ Lens[m] <= BufLen
  BY HeadAssumption, LensAssumption, BoundsAssumption

\* The ends of the first n messages.
Ends(g, n) == g[0] = 0 /\ \A m \in 1 .. n : g[m] = g[m - 1] + Lens[m]

\* There are such numbers for any part of the stream.
LEMMA EndsExist ==
  \E g \in [0 .. Len(Lens) -> Nat] : Ends(g, Len(Lens))
<1> DEFINE N == Len(Lens)
           S == {n \in 0 .. N : \E g \in [0 .. n -> Nat] : Ends(g, n)}
<1>1. N \in Nat
  BY Numbers
<1>2. 0 \in S
  <2>1. [m \in 0 .. 0 |-> 0] \in [0 .. 0 -> Nat]
    OBVIOUS
  <2>2. Ends([m \in 0 .. 0 |-> 0], 0)
    BY DEF Ends
  <2>3. QED
    BY <1>1, <2>1, <2>2
<1>3. ASSUME NEW n \in 1 .. N, n - 1 \in S
      PROVE  n \in S
  <2>1. PICK g \in [0 .. n - 1 -> Nat] : Ends(g, n - 1)
    BY <1>3
  <2> DEFINE h == [m \in 0 .. n |-> IF m = n THEN g[n - 1] + Lens[n] ELSE g[m]]
  <2>2. h \in [0 .. n -> Nat]
    <3>1. g[n - 1] \in Nat /\ Lens[n] \in Nat
      BY <2>1, Numbers
    <3>2. QED
      BY <3>1
  <2>3. Ends(h, n)
    <3>1. h[0] = 0
      BY <2>1 DEF Ends
    <3>2. ASSUME NEW m \in 1 .. n
          PROVE  h[m] = h[m - 1] + Lens[m]
      <4>1. m \in 0 .. n /\ m - 1 \in 0 .. n /\ m - 1 # n
        OBVIOUS
      <4>2. h[m - 1] = g[m - 1]
        BY <4>1
      <4>3. CASE m = n
        BY <4>1, <4>2, <4>3
      <4>4. CASE m # n
        <5>1. m \in 1 .. n - 1 /\ h[m] = g[m]
          BY <4>1, <4>4
        <5>2. QED
          BY <5>1, <4>2, <2>1 DEF Ends
      <4>5. QED
        BY <4>3, <4>4
    <3>3. QED
      BY <3>1, <3>2 DEF Ends
  <2>4. QED
    BY <2>2, <2>3
<1>4. N \in S
  <2>1. N \in 0 .. N
    BY <1>1
  <2> HIDE DEF S, N
  <2>2. QED
    BY <1>1, <1>2, <1>3, <2>1, CountingUp
<1>5. QED
  BY <1>4

\* StreamEnd is what its definition says.
LEMMA StreamEnds ==
  /\ StreamEnd \in [0 .. Len(Lens) -> Nat]
  /\ StreamEnd[0] = 0
  /\ \A m \in 1 .. Len(Lens) : StreamEnd[m] = StreamEnd[m - 1] + Lens[m]
<1> DEFINE N == Len(Lens)
           IsEnd(f) == f = [m \in 0 .. N |-> IF m = 0 THEN 0 ELSE f[m - 1] + Lens[m]]
<1>1. PICK g \in [0 .. N -> Nat] : Ends(g, N)
  BY EndsExist
<1>2. IsEnd(g)
  BY <1>1 DEF Ends
<1>3. StreamEnd = CHOOSE f : IsEnd(f)
  BY DEF StreamEnd
<1>4. IsEnd(StreamEnd)
  <2> HIDE DEF IsEnd
  <2>1. QED
    BY <1>2, <1>3
<1>5. N \in Nat
  BY Numbers
<1>6. /\ StreamEnd[0] = 0
      /\ \A m \in 1 .. N : StreamEnd[m] = StreamEnd[m - 1] + Lens[m]
  BY <1>4, <1>5
<1>7. \A m \in 0 .. N : StreamEnd[m] \in Nat
  <2> DEFINE S == {m \in 0 .. N : StreamEnd[m] \in Nat}
  <2>1. 0 \in S
    BY <1>5, <1>6
  <2>2. ASSUME NEW m \in 1 .. N, m - 1 \in S
        PROVE  m \in S
    <3>1. Lens[m] \in Nat
      BY Numbers
    <3>2. QED
      BY <2>2, <3>1, <1>6
  <2>3. 0 .. N \subseteq S
    <3> HIDE DEF S, N
    <3>1. QED
      BY <1>5, <2>1, <2>2, CountingUp
  <2>4. QED
    BY <2>3
<1>8. QED
  BY <1>4, <1>6, <1>7

\* A later message ends later.
LEMMA EndsGrow ==
  ASSUME NEW a \in 0 .. Len(Lens), NEW b \in 0 .. Len(Lens), a < b
  PROVE  StreamEnd[a] < StreamEnd[b]
<1> DEFINE N == Len(Lens)
           S == {n \in 0 .. N : \A m \in 0 .. N : m < n => StreamEnd[m] < StreamEnd[n]}
<1>1. N \in Nat
  BY Numbers
<1>2. 0 \in S
  BY <1>1
<1>3. ASSUME NEW n \in 1 .. N, n - 1 \in S
      PROVE  n \in S
  <2>1. /\ StreamEnd[n] = StreamEnd[n - 1] + Lens[n]
        /\ Lens[n] \in Nat /\ Lens[n] > 0
        /\ \A m \in 0 .. N : StreamEnd[m] \in Nat
    <3>1. HeadLen \in Nat /\ Lens[n] \in Nat /\ HeadLen < Lens[n]
      BY Numbers
    <3>2. \A m \in 0 .. N : StreamEnd[m] \in Nat
      BY StreamEnds
    <3>3. StreamEnd[n] = StreamEnd[n - 1] + Lens[n]
      BY StreamEnds
    <3>4. QED
      BY <3>1, <3>2, <3>3
  <2>2. StreamEnd[n - 1] < StreamEnd[n]
    BY <2>1
  <2>3. ASSUME NEW m \in 0 .. N, m < n
        PROVE  StreamEnd[m] < StreamEnd[n]
    <3>1. m = n - 1 \/ StreamEnd[m] < StreamEnd[n - 1]
      BY <1>3, <2>3
    <3>2. QED
      BY <2>1, <2>2, <3>1
  <2>4. QED
    BY <2>3
<1>4. 0 .. N \subseteq S
  <2> HIDE DEF S, N
  <2>1. QED
    BY <1>1, <1>2, <1>3, CountingUp
<1>5. QED
  BY <1>4

----------------------------------------------------------------------------
(* Types.                                                                  *)

\* What a length word may say is a number.
LEMMA WordsAreNumbers ==
  ASSUME Typed, pc = "parse"
  PROVE  PacketLens \subseteq Nat
<1>1. CurLen \in Nat
  BY DEF Typed, TypeOK, CurLen
<1>2. Words \subseteq Nat
  BY Numbers DEF Words
<1>3. QED
  BY <1>1, <1>2 DEF PacketLens, Typed, TypeOK

\* The overwritten words are before the packet at pStart.
LEMMA StampedType ==
  ASSUME Typed
  PROVE  /\ Stamped(buf) \in Seq(Bytes) /\ Len(Stamped(buf)) = Len(buf)
         /\ \A i \in start + 1 .. Len(buf) : Stamped(buf)[i] = buf[i]
<1>1. buf \in Seq(Bytes) /\ start \in Nat /\ Stamp \in Bytes
  BY DEF Typed, TypeOK, Stamp, Bytes
<1>2. Stamped(buf) = [i \in 1 .. Len(buf) |->
                       IF i <= start /\ start < i + 2 * HeadLen THEN Stamp ELSE buf[i]]
  BY <1>1 DEF Stamped
<1>3. Stamped(buf) \in [1 .. Len(buf) -> Bytes]
  BY <1>1, <1>2
<1>4. Stamped(buf) \in Seq(Bytes) /\ Len(Stamped(buf)) = Len(buf)
  BY <1>1, <1>3
<1>5. ASSUME NEW i \in start + 1 .. Len(buf)
      PROVE  Stamped(buf)[i] = buf[i]
  BY <1>1, <1>2
<1>6. QED
  BY <1>4, <1>5

LEMMA InitTyped == Init => Typed
<1> SUFFICES ASSUME Init PROVE Typed
  OBVIOUS
<1>1. 0 \in 0 .. BufLen /\ 0 \in 0 .. MaxBreaks /\ 0 \in 0 .. QCap
      /\ 0 \in 0 .. StreamEnd[Len(Lens)]
  BY Numbers, StreamEnds
<1>2. /\ buf = <<>> /\ buf \in Seq(Bytes) /\ Len(buf) = 0
      /\ posted = <<>> /\ posted \in Seq([conn : Conns, bytes : Seq(Bytes)])
      /\ DOMAIN posted = {}
  BY DEF Init
<1>3. /\ epoch \in [Conns -> 0 .. MaxBreaks] /\ spoiled \in BOOLEAN
      /\ read \in [Conns -> 0 .. StreamEnd[Len(Lens)]]
  BY <1>1 DEF Init
<1>4. QED
  BY <1>1, <1>2, <1>3, Numbers DEF Init, Typed, TypeOK

LEMMA RecvTyped ==
  ASSUME Typed, NEW c \in Conns, Recv(c)
  PROVE  Typed'
<1>1. PICK n \in 1 .. Room, g \in Garbage \cup {msgLen} :
        /\ read[c] + n <= StreamEnd[Len(Lens)]
        /\ read' = [read EXCEPT ![c] = @ + n]
        /\ buf' = SubSeq(buf, 1, offset)
                    \o [k \in 1 .. n |-> <<c, epoch[c], read[c] + k>>]
        /\ msgLen' = g
        /\ spoiled' \in BOOLEAN
  BY DEF Recv
<1> DEFINE new == [k \in 1 .. n |-> <<c, epoch[c], read[c] + k>>]
<1>2. /\ offset \in 0 .. BufLen /\ Len(buf) = offset /\ buf \in Seq(Bytes)
      /\ c \in Nat /\ epoch[c] \in Nat /\ read[c] \in Nat /\ BufLen \in Nat
      /\ n \in Nat /\ n > 0 /\ offset + n <= BufLen
  <2>1. pc = "idle" /\ offset \in 0 .. BufLen /\ BufLen \in Nat
    BY Numbers DEF Recv, Typed, TypeOK
  <2>2. c \in Nat /\ epoch[c] \in Nat /\ read[c] \in Nat
    BY Numbers, StreamEnds DEF Typed, TypeOK
  <2>3. QED
    BY <2>1, <2>2 DEF Typed, Room
<1>3. SubSeq(buf, 1, offset) = buf
  BY <1>2
<1>4. new \in Seq(Bytes) /\ Len(new) = n
  <2>1. new \in [1 .. n -> Bytes]
    BY <1>2 DEF Bytes
  <2>2. QED
    BY <2>1, <1>2
<1>5. buf' \in Seq(Bytes) /\ Len(buf') = offset + n
  BY <1>1, <1>2, <1>3, <1>4
<1>6. read' \in [Conns -> 0 .. StreamEnd[Len(Lens)]] /\ msgLen' \in Nat
  <2>1. StreamEnd[Len(Lens)] \in Nat
    BY Numbers, StreamEnds
  <2>2. read \in [Conns -> 0 .. StreamEnd[Len(Lens)]] /\ msgLen \in Nat
    BY DEF Typed, TypeOK
  <2>3. QED
    BY <2>1, <2>2, <1>1, <1>2, Numbers
<1>7. /\ cur' = c /\ start' = 0 /\ pc' = "parse"
      /\ UNCHANGED <<offset, epoch, waiting, posted>>
  BY DEF Recv
<1>8. start' \in 0 .. Len(buf') /\ start' < Len(buf') /\ offset' < Len(buf')
      /\ Len(buf') <= BufLen
  BY <1>2, <1>5, <1>7
<1>9. QED
  BY <1>1, <1>5, <1>6, <1>7, <1>8 DEF Typed, TypeOK

LEMMA KeepRestTyped ==
  ASSUME Typed, KeepRest
  PROVE  Typed'
<1>1. PICK len \in PacketLens : msgLen' = len
  BY DEF KeepRest
<1>2. len \in Nat
  BY WordsAreNumbers DEF KeepRest
<1>3. /\ buf \in Seq(Bytes) /\ start \in 0 .. Len(buf) /\ Len(buf) <= BufLen
      /\ buf' = SubSeq(buf, start + 1, Len(buf)) /\ offset' = Len(buf) - start
      /\ BufLen \in Nat
  BY Numbers DEF KeepRest, Typed, TypeOK, CurLen
<1>4. /\ buf' \in Seq(Bytes) /\ Len(buf') = offset' /\ offset' \in 0 .. BufLen
      /\ Len(buf') <= BufLen
  BY <1>3
<1>5. /\ pc' = "idle" /\ start' = 0
      /\ UNCHANGED <<cur, streamVars, waiting, posted, spoiled>>
  BY DEF KeepRest
<1>6. QED
  BY <1>1, <1>2, <1>4, <1>5 DEF Typed, TypeOK, streamVars

LEMMA PostPacketTyped ==
  ASSUME Typed, PostPacket
  PROVE  Typed'
<1>1. PICK len \in PacketLens :
        /\ len <= CurLen
        /\ msgLen' = len
        /\ posted' = Append(posted, [conn |-> cur,
                                     bytes |-> SubSeq(buf, start + 1, start + len)])
        /\ IF start + len = Len(buf)
           THEN pc' = "idle" /\ start' = 0 /\ offset' = 0 /\ buf' = <<>>
           ELSE start' = start + len /\ buf' = Stamped(buf) /\ UNCHANGED <<pc, offset>>
  BY DEF PostPacket
<1>2. /\ len \in Nat /\ buf \in Seq(Bytes) /\ start \in 0 .. Len(buf)
      /\ Len(buf) <= BufLen /\ len <= Len(buf) - start /\ pc = "parse"
      /\ BufLen \in Nat /\ offset \in 0 .. BufLen /\ offset < Len(buf)
  BY <1>1, WordsAreNumbers, Numbers DEF PostPacket, Typed, TypeOK, CurLen
<1>3. SubSeq(buf, start + 1, start + len) \in Seq(Bytes)
  BY <1>2
<1>4. posted' \in Seq([conn : Conns, bytes : Seq(Bytes)])
  <2>1. cur \in Conns /\ posted \in Seq([conn : Conns, bytes : Seq(Bytes)])
    BY DEF Typed, TypeOK
  <2>2. QED
    BY <2>1, <1>1, <1>3
<1>5. /\ pc' \in {"idle", "parse"} /\ buf' \in Seq(Bytes) /\ Len(buf') <= BufLen
      /\ offset' \in 0 .. BufLen /\ start' \in 0 .. Len(buf')
      /\ pc' = "idle" => start' = 0 /\ Len(buf') = offset'
      /\ pc' = "parse" => start' < Len(buf') /\ offset' < Len(buf')
  <2>1. CASE start + len = Len(buf)
    BY <2>1, <1>1, <1>2
  <2>2. CASE start + len # Len(buf)
    BY <2>2, <1>1, <1>2, StampedType
  <2>3. QED
    BY <2>1, <2>2
<1>6. /\ waiting' \in 0 .. QCap /\ msgLen' \in Nat
      /\ UNCHANGED <<cur, streamVars, spoiled>>
  <2>1. waiting < QCap /\ waiting' = waiting + 1 /\ waiting \in 0 .. QCap
    BY DEF PostPacket, Typed, TypeOK
  <2>2. QED
    BY <2>1, <1>1, <1>2, Numbers DEF PostPacket
<1>7. \A i \in DOMAIN posted' : posted'[i].conn \in Conns
  <2>1. \A i \in 1 .. Len(posted') : posted'[i] \in [conn : Conns, bytes : Seq(Bytes)]
    <3> DEFINE P == [conn : Conns, bytes : Seq(Bytes)]
    <3>1. posted' \in Seq(P)
      BY <1>4
    <3> HIDE DEF P
    <3>2. \A i \in 1 .. Len(posted') : posted'[i] \in P
      BY <3>1
    <3>3. QED
      BY <3>2 DEF P
  <2>2. DOMAIN posted' = 1 .. Len(posted')
    BY <1>4
  <2>3. QED
    BY <2>1, <2>2
<1>8. QED
  BY <1>4, <1>5, <1>6, <1>7 DEF Typed, TypeOK, streamVars

LEMMA PostRefusedTyped ==
  ASSUME Typed, PostRefused
  PROVE  Typed'
<1>1. PICK len \in PacketLens : msgLen' = len
  BY DEF PostRefused
<1>2. len \in Nat
  BY WordsAreNumbers DEF PostRefused
<1>3. /\ buf \in Seq(Bytes) /\ offset \in 0 .. BufLen /\ offset < Len(buf)
      /\ buf' = SubSeq(Stamped(buf), 1, offset) /\ BufLen \in Nat
  BY Numbers DEF PostRefused, Typed, TypeOK
<1>4. buf' \in Seq(Bytes) /\ Len(buf') = offset /\ Len(buf') <= BufLen
  BY <1>3, StampedType
<1>5. /\ pc' = "idle" /\ start' = 0 /\ spoiled' = TRUE
      /\ UNCHANGED <<cur, offset, streamVars, waiting, posted>>
  BY DEF PostRefused
<1>6. QED
  BY <1>1, <1>2, <1>3, <1>4, <1>5 DEF Typed, TypeOK, streamVars

LEMMA BreakTyped ==
  ASSUME Typed, NEW c \in Conns, Break(c)
  PROVE  Typed'
<1>1. epoch' \in [Conns -> 0 .. MaxBreaks]
  BY Numbers DEF Break, Typed, TypeOK
<1>2. read' \in [Conns -> 0 .. StreamEnd[Len(Lens)]]
  <2>1. 0 \in 0 .. StreamEnd[Len(Lens)]
    BY Numbers, StreamEnds
  <2>2. QED
    BY <2>1 DEF Break, Typed, TypeOK
<1>3. UNCHANGED <<pc, cur, buf, offset, start, msgLen, waiting, posted, spoiled>>
  BY DEF Break
<1>4. QED
  BY <1>1, <1>2, <1>3 DEF Typed, TypeOK

LEMMA TakeTyped ==
  ASSUME Typed, Take
  PROVE  Typed'
<1>1. waiting' \in 0 .. QCap
  BY Numbers DEF Take, Typed, TypeOK
<1>2. QED
  BY <1>1 DEF Take, Typed, TypeOK, streamVars

LEMMA TypedStep == Typed /\ [Next]_vars => Typed'
<1> SUFFICES ASSUME Typed, [Next]_vars PROVE Typed'
  OBVIOUS
<1>1. CASE UNCHANGED vars
  BY <1>1 DEF vars, streamVars, Typed, TypeOK
<1>2. QED
  BY <1>1, RecvTyped, KeepRestTyped, PostPacketTyped, PostRefusedTyped, BreakTyped,
     TakeTyped DEF Next

\* Every variable stays in its range whatever the streams hold, and the receive
\* buffer is never written beyond its end.
THEOREM TypeCorrect == Spec => []TypeOK
<1>1. Typed => TypeOK
  BY DEF Typed
<1>2. QED
  BY <1>1, InitTyped, TypedStep, PTL DEF Spec

----------------------------------------------------------------------------
(* The packets of a stream.                                                *)

LEMMA Places ==
  ASSUME Typed
  PROVE  /\ Len(posted) \in Nat /\ DOMAIN posted = 1 .. Len(posted)
         /\ IsFiniteSet(DOMAIN posted)
  BY FS_Interval DEF Typed

\* They are finitely many.
LEMMA OfFinite ==
  ASSUME Typed, NEW c, NEW e
  PROVE  IsFiniteSet(Of(c, e)) /\ Cardinality(Of(c, e)) \in Nat
<1>1. Of(c, e) \subseteq DOMAIN posted
  BY DEF Of
<1>2. IsFiniteSet(Of(c, e))
  BY <1>1, Places, FS_Subset
<1>3. QED
  BY <1>2, FS_CardinalityType

\* What a call that is cutting packets knows of the next one: it is the first
\* message that was not posted, and its length is known when it is whole.
LEMMA NextMessage ==
  ASSUME Typed, Sound, pc = "parse"
  PROVE  /\ Count(cur) \in 0 .. Len(Lens) - 1
         /\ \A len \in PacketLens :
              IF len <= CurLen THEN len = Lens[Count(cur) + 1]
              ELSE CurLen < Lens[Count(cur) + 1]
<1> DEFINE n == Count(cur)
           b == buf[start + 1]
           S == {m \in DOMAIN Lens : \A k \in 1 .. HeadLen :
                   buf[start + k] = <<b[1], b[2], StreamEnd[m - 1] + k>>}
<1>1. /\ cur \in Conns /\ CurLen \in Nat /\ CurLen > 0 /\ start \in Nat
      /\ msgLen \in Nat
  BY DEF Typed, TypeOK, CurLen
<1>2. Held(cur) = CurLen
  BY DEF Held
<1>3. /\ n \in 0 .. Len(Lens) /\ read[cur] = StreamEnd[n] + CurLen
      /\ \A k \in 1 .. CurLen :
           buf[start + k] = <<cur, epoch[cur], StreamEnd[n] + k>>
  BY <1>1, <1>2 DEF Sound, Kept
<1>4. /\ StreamEnd[n] \in Nat /\ StreamEnd[Len(Lens)] \in Nat
      /\ read[cur] \in 0 .. StreamEnd[Len(Lens)]
  <2>1. Len(Lens) \in 0 .. Len(Lens)
    BY Numbers
  <2>2. StreamEnd[n] \in Nat /\ StreamEnd[Len(Lens)] \in Nat
    <3> HIDE DEF n
    <3>1. QED
      BY <1>3, <2>1, StreamEnds
  <2>3. QED
    BY <1>1, <2>2 DEF Typed, TypeOK
<1>5. n # Len(Lens)
  BY <1>1, <1>3, <1>4
<1>6. n \in 0 .. Len(Lens) - 1 /\ n + 1 \in 1 .. Len(Lens)
  BY <1>3, <1>5, Numbers
<1>7. Lens[n + 1] \in Nat /\ HeadLen < Lens[n + 1] /\ Lens[n + 1] <= BufLen
  BY <1>6, Numbers
<1>8. CASE CurLen > HeadLen
  <2>1. b = <<cur, epoch[cur], StreamEnd[n] + 1>>
    BY <1>1, <1>3
  <2>2. n + 1 \in S
    <3>1. \A k \in 1 .. HeadLen : k \in 1 .. CurLen
      BY <1>1, <1>8, Numbers
    <3>2. n + 1 - 1 = n
      BY <1>3
    <3>3. \A k \in 1 .. HeadLen :
            buf[start + k] = <<b[1], b[2], StreamEnd[n + 1 - 1] + k>>
      BY <1>3, <2>1, <3>1, <3>2
    <3>4. QED
      BY <3>3, <1>6, Numbers
  <2>3. ASSUME NEW m \in S
        PROVE  m = n + 1
    <3>1. m \in 1 .. Len(Lens) /\ m - 1 \in 0 .. Len(Lens)
      BY Numbers
    <3>2. buf[start + 1] = <<b[1], b[2], StreamEnd[m - 1] + 1>>
      BY Numbers
    <3>3. StreamEnd[m - 1] + 1 = StreamEnd[n] + 1
      BY <2>1, <3>2
    <3>4. StreamEnd[m - 1] = StreamEnd[n]
      BY <3>1, <3>3, <1>4, StreamEnds
    <3>5. ~ (m - 1 < n) /\ ~ (n < m - 1)
      BY <3>1, <3>4, <1>3, <1>4, EndsGrow
    <3>6. QED
      BY <3>1, <3>5, <1>3, Numbers
  <2>4. Words = {Lens[n + 1]}
    <3>1. S = {n + 1}
      BY <2>2, <2>3
    <3>2. Words = IF S = {} THEN Garbage ELSE {Lens[m] : m \in S}
      BY DEF Words
    <3> HIDE DEF S, n
    <3>3. QED
      BY <3>1, <3>2
  <2>5. PacketLens = {Lens[n + 1]}
    <3>1. PacketLens = {IF w > BufLen THEN CurLen ELSE w : w \in Words}
      BY <1>8 DEF PacketLens
    <3>2. ~ (Lens[n + 1] > BufLen)
      BY <1>7, Numbers
    <3> HIDE DEF n
    <3>3. QED
      BY <2>4, <3>1, <3>2
  <2>6. QED
    BY <1>1, <1>6, <1>7, <2>5
<1>9. CASE ~ (CurLen > HeadLen)
  <2>1. PacketLens = {msgLen} /\ msgLen > CurLen
    BY <1>1, <1>9, Numbers DEF PacketLens, Sound, Short
  <2>2. QED
    BY <1>1, <1>6, <1>7, <1>9, <2>1, Numbers
<1>10. QED
  BY <1>8, <1>9

LEMMA InitSound == Init => Sound
<1> SUFFICES ASSUME Init PROVE Sound
  OBVIOUS
<1>1. DOMAIN posted = {} /\ pc = "idle" /\ offset = 0 /\ ~ (offset > 0)
  BY DEF Init
<1>2. \A c, e : Of(c, e) = {}
  BY <1>1 DEF Of
<1>3. \A c : Count(c) = 0 /\ Held(c) = 0
  BY <1>1, <1>2, FS_EmptySet DEF Count, Held
<1>4. Kept
  <2>1. ASSUME NEW c \in Conns
        PROVE  /\ Count(c) \in 0 .. Len(Lens)
               /\ read[c] = StreamEnd[Count(c)] + Held(c)
               /\ 1 .. Held(c) = {}
               /\ Count(c) < Len(Lens) => Held(c) < Lens[Count(c) + 1]
    <3>1. Len(Lens) > 0 => Lens[1] \in Nat /\ HeadLen < Lens[1]
      BY Numbers
    <3>2. QED
      BY <1>3, <3>1, Numbers, StreamEnds DEF Init
  <2>2. QED
    BY <2>1 DEF Kept
<1>5. QED
  BY <1>1, <1>2, <1>4 DEF Sound, Past, PacketsAreMessages, Begun, Short

\* As long as nothing is posted and no stream begins, what was posted stays.
LEMMA PostedFrame ==
  ASSUME UNCHANGED <<posted, epoch>>
  PROVE  /\ (Past <=> Past') /\ (PacketsAreMessages <=> PacketsAreMessages')
         /\ \A c : Count(c)' = Count(c)
  BY DEF Past, PacketsAreMessages, Count, Of, Nth, Message

LEMMA RecvSound ==
  ASSUME Typed, Sound, NEW c \in Conns, Recv(c), ~ spoiled'
  PROVE  Sound'
<1>1. PICK n \in 1 .. Room, g \in Garbage \cup {msgLen} :
        /\ read' = [read EXCEPT ![c] = @ + n]
        /\ buf' = SubSeq(buf, 1, offset)
                    \o [k \in 1 .. n |-> <<c, epoch[c], read[c] + k>>]
        /\ msgLen' = g
        /\ ~ (offset > 0 /\ buf[1] # <<c, epoch[c], buf[1][3]>>)
        /\ ~ (offset + n <= HeadLen /\ g <= offset + n)
  BY DEF Recv
<1>2. /\ pc = "idle" /\ cur' = c /\ start' = 0 /\ pc' = "parse" /\ start = 0
      /\ UNCHANGED <<offset, epoch, waiting, posted>>
  BY DEF Recv, Typed
<1>3. /\ offset \in Nat /\ Len(buf) = offset /\ buf \in Seq(Bytes) /\ n \in Nat
      /\ n > 0 /\ g \in Nat
  BY <1>2, Numbers DEF Typed, TypeOK, Room
<1>4. Held(c) = offset
  BY <1>1, <1>2, <1>3 DEF Held
<1>5. \A d \in Conns : d # c => Held(d) = 0
  <2>1. offset > 0 => buf[1][1] = c
    BY <1>1
  <2>2. QED
    BY <2>1, <1>2 DEF Held
<1>6. /\ Count(c) \in 0 .. Len(Lens) /\ read[c] = StreamEnd[Count(c)] + offset
      /\ \A k \in 1 .. offset : buf[k] = <<c, epoch[c], StreamEnd[Count(c)] + k>>
      /\ StreamEnd[Count(c)] \in Nat
  <2>1. Count(c) \in 0 .. Len(Lens) /\ read[c] = StreamEnd[Count(c)] + offset
    BY <1>4 DEF Sound, Kept
  <2>2. \A k \in 1 .. offset : buf[start + k] = <<c, epoch[c], StreamEnd[Count(c)] + k>>
    BY <1>4 DEF Sound, Kept
  <2>3. \A k \in 1 .. offset : start + k = k
    BY <1>2
  <2>4. QED
    BY <2>1, <2>2, <2>3, StreamEnds
<1>7. /\ Len(buf') = offset + n
      /\ \A k \in 1 .. offset : buf'[k] = buf[k]
      /\ \A k \in 1 .. n : buf'[offset + k] = <<c, epoch[c], read[c] + k>>
  <2> DEFINE new == [k \in 1 .. n |-> <<c, epoch[c], read[c] + k>>]
  <2>1. SubSeq(buf, 1, offset) = buf
    BY <1>3
  <2>2. \A k \in 1 .. n : new[k] \in Nat \X Nat \X Nat
    <3>1. c \in Nat /\ epoch[c] \in Nat /\ read[c] \in Nat
      BY Numbers, StreamEnds DEF Typed, TypeOK
    <3>2. QED
      BY <3>1
  <2>3. new \in Seq(Bytes) /\ Len(new) = n
    BY <2>2, <1>3 DEF Bytes
  <2>4. /\ buf' = buf \o new /\ \A k \in 1 .. n : new[k] = <<c, epoch[c], read[c] + k>>
    BY <1>1, <2>1
  <2> HIDE DEF new
  <2>5. Len(buf \o new) = offset + n
    BY <1>3, <2>3
  <2>6. \A k \in 1 .. offset : (buf \o new)[k] = buf[k]
    BY <1>3, <2>3
  <2>7. \A k \in 1 .. n : (buf \o new)[offset + k] = new[k]
    BY <1>3, <2>3
  <2>8. QED
    BY <2>4, <2>5, <2>6, <2>7
<1>8. CurLen' = offset + n /\ Held(c)' = offset + n
      /\ \A d \in Conns : d # c => Held(d)' = 0
  BY <1>2, <1>3, <1>7 DEF CurLen, Held
<1>9. Kept'
  <2>1. ASSUME NEW d \in Conns
        PROVE  /\ Count(d) \in 0 .. Len(Lens)
               /\ read'[d] = StreamEnd[Count(d)] + Held(d)'
               /\ \A k \in 1 .. Held(d)' :
                    buf'[start' + k] = <<d, epoch[d], StreamEnd[Count(d)] + k>>
    <3>1. CASE d = c
      <4>1. read'[c] = StreamEnd[Count(c)] + (offset + n)
        <5>1. read'[c] = read[c] + n
          BY <1>1 DEF Typed, TypeOK
        <5>2. QED
          BY <5>1, <1>3, <1>6
      <4>2. ASSUME NEW k \in 1 .. offset + n
            PROVE  buf'[start' + k] = <<c, epoch[c], StreamEnd[Count(c)] + k>>
        <5>1. start' + k = k
          BY <1>2
        <5>2. CASE k <= offset
          BY <5>1, <5>2, <1>3, <1>6, <1>7
        <5>3. CASE k > offset
          <6>1. /\ k - offset \in 1 .. n /\ offset + (k - offset) = k
                /\ read[c] + (k - offset) = StreamEnd[Count(c)] + k
            BY <5>3, <1>3, <1>6
          <6>2. buf'[k] = <<c, epoch[c], read[c] + (k - offset)>>
            BY <6>1, <1>7
          <6>3. QED
            BY <5>1, <6>1, <6>2
        <5>4. QED
          BY <5>2, <5>3, <1>3
      <4>3. QED
        BY <3>1, <4>1, <4>2, <1>6, <1>8
    <3>2. CASE d # c
      <4>1. read'[d] = read[d] /\ Held(d) = 0 /\ Held(d)' = 0
        BY <3>2, <1>1, <1>5, <1>8 DEF Typed, TypeOK
      <4>2. QED
        BY <4>1 DEF Sound, Kept
    <3>3. QED
      BY <3>1, <3>2
  <2>2. \A d : Count(d)' = Count(d)
    BY <1>2, PostedFrame
  <2>3. QED
    BY <2>1, <2>2, <1>2 DEF Kept
<1>10. Short'
  BY <1>1, <1>3, <1>8 DEF Short
<1>11. Begun'
  BY <1>2 DEF Begun
<1>12. QED
  BY <1>2, <1>9, <1>10, <1>11, PostedFrame DEF Sound

LEMMA KeepRestSound ==
  ASSUME Typed, Sound, KeepRest
  PROVE  Sound'
<1> DEFINE n == Count(cur)
<1>1. /\ pc = "parse" /\ pc' = "idle" /\ start' = 0 /\ offset' = CurLen
      /\ buf' = SubSeq(buf, start + 1, Len(buf))
      /\ UNCHANGED <<cur, epoch, read, posted>>
  BY DEF KeepRest, streamVars
<1>2. /\ cur \in Conns /\ CurLen \in Nat /\ CurLen > 0 /\ start \in Nat
      /\ CurLen = Len(buf) - start /\ buf \in Seq(Bytes) /\ Len(buf) \in Nat
  BY <1>1 DEF Typed, TypeOK, CurLen
<1>3. n \in 0 .. Len(Lens) - 1 /\ CurLen < Lens[n + 1]
  <2>1. PICK len \in PacketLens : len > CurLen
    BY DEF KeepRest
  <2>2. len \in Nat
    BY <1>1, WordsAreNumbers
  <2>3. QED
    BY <1>1, <1>2, <2>1, <2>2, NextMessage
<1>4. Held(cur) = CurLen /\ \A d \in Conns : d # cur => Held(d) = 0
  BY <1>1 DEF Held
<1>5. /\ read[cur] = StreamEnd[n] + CurLen
      /\ \A k \in 1 .. CurLen :
           buf[start + k] = <<cur, epoch[cur], StreamEnd[n] + k>>
  BY <1>2, <1>4 DEF Sound, Kept
<1>6. \A k \in 1 .. CurLen : buf'[k] = <<cur, epoch[cur], StreamEnd[n] + k>>
  <2>1. \A k \in 1 .. CurLen : buf'[k] = buf[start + k]
    BY <1>1, <1>2
  <2>2. QED
    BY <1>5, <2>1
<1>7. buf'[1] = <<cur, epoch[cur], StreamEnd[n] + 1>>
  BY <1>2, <1>6
<1>8. Held(cur)' = CurLen /\ \A d \in Conns : d # cur => Held(d)' = 0
  BY <1>1, <1>2, <1>7 DEF Held
<1>9. \A d : Count(d)' = Count(d)
  BY <1>1, PostedFrame
<1>10. Kept'
  <2>1. ASSUME NEW d \in Conns
        PROVE  /\ Count(d) \in 0 .. Len(Lens)
               /\ read'[d] = StreamEnd[Count(d)] + Held(d)'
               /\ \A k \in 1 .. Held(d)' :
                    buf'[start' + k] = <<d, epoch[d], StreamEnd[Count(d)] + k>>
               /\ Count(d) < Len(Lens) => Held(d)' < Lens[Count(d) + 1]
    <3>1. CASE d = cur
      <4>1. \A k \in 1 .. CurLen : start' + k = k
        BY <1>1
      <4>2. QED
        BY <3>1, <4>1, <1>1, <1>3, <1>5, <1>6, <1>8 DEF Sound, Kept
    <3>2. CASE d # cur
      <4>1. Count(d) < Len(Lens) => Lens[Count(d) + 1] \in Nat /\ 0 < Lens[Count(d) + 1]
        <5>1. Count(d) \in 0 .. Len(Lens)
          BY DEF Sound, Kept
        <5>2. Count(d) < Len(Lens) => Count(d) + 1 \in 1 .. Len(Lens)
          BY <5>1, Numbers
        <5>3. QED
          BY <5>2, Numbers
      <4>2. QED
        BY <3>2, <4>1, <1>1, <1>4, <1>8 DEF Sound, Kept
    <3>3. QED
      BY <3>1, <3>2
  <2>2. QED
    BY <2>1, <1>1, <1>9 DEF Kept
<1>11. Begun'
  <2>1. epoch[cur] \in Nat
    BY <1>2 DEF Typed, TypeOK
  <2>2. QED
    BY <2>1, <1>1, <1>2, <1>7 DEF Begun
<1>12. Short'
  BY <1>1 DEF Short
<1>13. QED
  BY <1>1, <1>10, <1>11, <1>12, PostedFrame DEF Sound

\* A message that is appended is one more of its stream and of no other.
LEMMA OneMore ==
  ASSUME Typed, NEW p, posted' = Append(posted, p), p.bytes # <<>>
  PROVE  /\ \A c, e : Of(c, e)' = IF c = p.conn /\ e = p.bytes[1][2]
                               THEN Of(c, e) \cup {Len(posted) + 1} ELSE Of(c, e)
         /\ \A c, e : \A i \in DOMAIN posted : Nth(c, e, i)' = Nth(c, e, i)
         /\ \A c, e, i : i = Len(posted) + 1 => Nth(c, e, i)' = Cardinality(Of(c, e)')
         /\ \A i \in DOMAIN posted : posted'[i] = posted[i]
         /\ DOMAIN posted' = DOMAIN posted \cup {Len(posted) + 1}
         /\ posted'[Len(posted) + 1] = p
<1> DEFINE N == Len(posted)
<1>1. N \in Nat /\ DOMAIN posted = 1 .. N
  BY Places
<1>2. /\ DOMAIN posted' = 1 .. N + 1 /\ posted'[N + 1] = p
      /\ \A i \in 1 .. N : posted'[i] = posted[i]
  BY <1>1 DEF Typed
<1>3. 1 .. N + 1 = (1 .. N) \cup {N + 1} /\ N + 1 \notin 1 .. N
  BY <1>1
<1>4. ASSUME NEW c, NEW e
      PROVE  /\ Of(c, e)' = IF c = p.conn /\ e = p.bytes[1][2]
                            THEN Of(c, e) \cup {N + 1} ELSE Of(c, e)
             /\ Of(c, e) \subseteq 1 .. N
  <2> HIDE DEF N
  <2>1. QED
    BY <1>1, <1>2, <1>3 DEF Of
<1>5. ASSUME NEW c, NEW e, NEW i \in DOMAIN posted
      PROVE  Nth(c, e, i)' = Nth(c, e, i)
  <2>1. {j \in Of(c, e)' : j <= i} = {j \in Of(c, e) : j <= i}
    <3>1. i \in 1 .. N /\ ~ (N + 1 <= i)
      BY <1>1
    <3>2. QED
      BY <3>1, <1>4
  <2>2. QED
    BY <2>1 DEF Nth
<1>6. ASSUME NEW c, NEW e, NEW i, i = N + 1
      PROVE  Nth(c, e, i)' = Cardinality(Of(c, e)')
  <2>1. \A j \in Of(c, e)' : j <= i
    BY <1>1, <1>4, <1>6
  <2>2. {j \in Of(c, e)' : j <= i} = Of(c, e)'
    BY <2>1
  <2>3. QED
    BY <2>2 DEF Nth
<1>7. QED
  BY <1>1, <1>2, <1>3, <1>4, <1>5, <1>6

\* The bytes of the message behind the first n.
LEMMA NextBytes ==
  ASSUME NEW c, NEW e, NEW n \in Nat
  PROVE  Message(c, e, n + 1) = [k \in 1 .. Lens[n + 1] |-> <<c, e, StreamEnd[n] + k>>]
<1>1. n + 1 - 1 = n
  OBVIOUS
<1>2. Message(c, e, n + 1)
        = [k \in 1 .. Lens[n + 1] |-> <<c, e, StreamEnd[n + 1 - 1] + k>>]
  BY DEF Message
<1>3. QED
  BY <1>1, <1>2

LEMMA PostPacketSound ==
  ASSUME Typed, Sound, PostPacket
  PROVE  Sound'
<1>0. PICK n, e, L, p :
        /\ n = Count(cur) /\ e = epoch[cur] /\ L = Lens[n + 1]
        /\ p = [conn |-> cur, bytes |-> SubSeq(buf, start + 1, start + L)]
  OBVIOUS
<1>1. /\ pc = "parse" /\ UNCHANGED <<cur, epoch, read>>
      /\ n \in 0 .. Len(Lens) - 1 /\ L <= CurLen /\ msgLen' = L
      /\ posted' = Append(posted, p)
      /\ IF start + L = Len(buf)
         THEN pc' = "idle" /\ start' = 0 /\ offset' = 0 /\ buf' = <<>>
         ELSE start' = start + L /\ buf' = Stamped(buf) /\ UNCHANGED <<pc, offset>>
  <2>1. PICK len \in PacketLens :
          /\ len <= CurLen
          /\ msgLen' = len
          /\ posted' = Append(posted, [conn |-> cur,
                                       bytes |-> SubSeq(buf, start + 1, start + len)])
          /\ IF start + len = Len(buf)
             THEN pc' = "idle" /\ start' = 0 /\ offset' = 0 /\ buf' = <<>>
             ELSE start' = start + len /\ buf' = Stamped(buf) /\ UNCHANGED <<pc, offset>>
    BY DEF PostPacket
  <2>2. pc = "parse" /\ UNCHANGED <<cur, epoch, read>>
    BY DEF PostPacket, streamVars
  <2>3. n \in 0 .. Len(Lens) - 1 /\ len = L
    BY <1>0, <2>1, <2>2, NextMessage
  <2>4. QED
    BY <1>0, <2>1, <2>2, <2>3
<1>2. /\ cur \in Conns /\ e \in 0 .. MaxBreaks /\ e \in Nat /\ start \in Nat
      /\ CurLen = Len(buf) - start /\ CurLen \in Nat
      /\ buf \in Seq(Bytes) /\ Len(buf) \in Nat
  BY <1>0, <1>1, Numbers DEF Typed, TypeOK, CurLen
<1>3. /\ n \in Nat /\ n + 1 \in 1 .. Len(Lens) /\ L \in Nat /\ L > HeadLen /\ L > 0
      /\ StreamEnd[n] \in Nat /\ StreamEnd[n + 1] = StreamEnd[n] + L
  <2>1. n \in Nat /\ n + 1 \in 1 .. Len(Lens) /\ n \in 0 .. Len(Lens) /\ n + 1 - 1 = n
    BY <1>1, Numbers
  <2>2. L \in Nat /\ L > HeadLen /\ L > 0
    <3>1. L \in Nat /\ HeadLen < L /\ HeadLen \in Nat
      BY <1>0, <2>1, Numbers
    <3>2. QED
      BY <3>1
  <2>3. StreamEnd[n] \in Nat /\ StreamEnd[n + 1] = StreamEnd[n] + L
    <3>1. QED
      BY <1>0, <2>1, StreamEnds
  <2>4. QED
    BY <2>1, <2>2, <2>3
<1>4. Held(cur) = CurLen /\ \A d \in Conns : d # cur => Held(d) = 0
  BY <1>1 DEF Held
<1>5. /\ read[cur] = StreamEnd[n] + CurLen
      /\ \A k \in 1 .. CurLen : buf[start + k] = <<cur, e, StreamEnd[n] + k>>
  BY <1>0, <1>2, <1>4 DEF Sound, Kept
<1>6. p.conn = cur /\ p.bytes = Message(cur, e, n + 1)
  <2>1. n + 1 - 1 = n
    BY <1>3
  <2>2. Message(cur, e, n + 1) = [k \in 1 .. L |-> <<cur, e, StreamEnd[n] + k>>]
    <3>1. L = Lens[n + 1]
      BY <1>0
    <3>2. QED
      BY <1>3, <3>1, NextBytes
  <2>3. SubSeq(buf, start + 1, start + L) = [k \in 1 .. L |-> buf[start + k]]
    <3>1. start + L - (start + 1) + 1 = L /\ start + L <= Len(buf)
      BY <1>1, <1>2, <1>3
    <3>2. SubSeq(buf, start + 1, start + L)
            = [k \in 1 .. start + L - (start + 1) + 1 |-> buf[k + (start + 1) - 1]]
      BY <1>2, <1>3, <3>1
    <3>3. \A k \in 1 .. L : k + (start + 1) - 1 = start + k
      BY <1>2, <1>3
    <3>4. QED
      BY <3>1, <3>2, <3>3
  <2>4. \A k \in 1 .. L : buf[start + k] = <<cur, e, StreamEnd[n] + k>>
    <3>1. 1 .. L \subseteq 1 .. CurLen
      BY <1>1, <1>2, <1>3
    <3>2. QED
      BY <3>1, <1>5
  <2>5. QED
    BY <1>0, <2>2, <2>3, <2>4
<1>7. p.bytes # <<>> /\ p.bytes[1][2] = e
  <2>1. 1 \in DOMAIN Message(cur, e, n + 1) /\ Message(cur, e, n + 1)[1][2] = e
    <3>1. QED
      BY <1>0, <1>3 DEF Message
  <2>2. QED
    BY <2>1, <1>6
<1>8. /\ \A c, d : Of(c, d)' = IF c = cur /\ d = e THEN Of(c, d) \cup {Len(posted) + 1}
                               ELSE Of(c, d)
      /\ \A c, d : \A i \in DOMAIN posted : Nth(c, d, i)' = Nth(c, d, i)
      /\ \A c, d, i : i = Len(posted) + 1 => Nth(c, d, i)' = Cardinality(Of(c, d)')
      /\ \A i \in DOMAIN posted : posted'[i] = posted[i]
      /\ DOMAIN posted' = DOMAIN posted \cup {Len(posted) + 1}
      /\ posted'[Len(posted) + 1] = p
  <2>1. QED
    BY <1>1, <1>6, <1>7, OneMore
<1>9. Cardinality(Of(cur, e)') = n + 1
  <2>1. Len(posted) + 1 \notin Of(cur, e)
    BY Places DEF Of
  <2>2. Of(cur, e)' = Of(cur, e) \cup {Len(posted) + 1}
    BY <1>1, <1>8
  <2>3. QED
    BY <1>0, <2>1, <2>2, OfFinite, FS_AddElement DEF Count
<1>10. /\ Count(cur)' = n + 1
       /\ \A d \in Conns : d # cur => Count(d)' = Count(d)
  BY <1>0, <1>1, <1>8, <1>9 DEF Count
<1>11. Past'
  <2>1. ASSUME NEW i \in DOMAIN posted'
        PROVE  posted'[i].bytes # <<>> /\ posted'[i].bytes[1][2] <= epoch[posted'[i].conn]
    <3>1. CASE i \in DOMAIN posted
      BY <3>1, <1>8 DEF Sound, Past
    <3>2. CASE i = Len(posted) + 1
      <4>1. posted'[i] = p /\ p.conn = cur
        BY <3>2, <1>6, <1>8
      <4>2. p.bytes[1][2] <= epoch[cur]
        <5>1. e = epoch[cur]
          BY <1>0
        <5>2. p.bytes[1][2] = e
          BY <1>7
        <5>3. e <= e
          BY <1>2
        <5>4. QED
          BY <5>1, <5>2, <5>3, Zenon
      <4>3. QED
        BY <4>1, <4>2, <1>7
    <3>3. QED
      BY <3>1, <3>2, <1>8
  <2>2. QED
    BY <2>1, <1>1 DEF Past
<1>12. PacketsAreMessages'
  <2>1. ASSUME NEW c \in Conns, NEW d \in 0 .. MaxBreaks, NEW i \in Of(c, d)'
        PROVE  /\ Nth(c, d, i)' \in DOMAIN Lens
               /\ posted'[i].bytes = Message(c, d, Nth(c, d, i)')
    <3>1. CASE i \in Of(c, d)
      <4>1. i \in DOMAIN posted
        BY <3>1 DEF Of
      <4>2. QED
        BY <3>1, <4>1, <1>8 DEF Sound, PacketsAreMessages
    <3>2. CASE i \notin Of(c, d)
      <4>1. c = cur /\ d = e /\ i = Len(posted) + 1
        BY <3>2, <1>8
      <4>2. Nth(c, d, i)' = n + 1
        BY <4>1, <1>1, <1>8, <1>9
      <4>3. n + 1 \in DOMAIN Lens
        BY <1>3, Numbers
      <4>4. posted'[i].bytes = Message(cur, e, n + 1)
        <5>1. QED
          BY <4>1, <1>6, <1>8
      <4>5. QED
        BY <4>1, <4>2, <4>3, <4>4
    <3>3. QED
      BY <3>1, <3>2
  <2>2. ASSUME NEW c, NEW d, NEW i
        PROVE  Message(c, d, Nth(c, d, i))' = Message(c, d, Nth(c, d, i)')
    BY DEF Message
  <2>3. QED
    BY <2>1, <2>2 DEF PacketsAreMessages
<1>13. \A d \in Conns : d # cur => Held(d)' = 0
  BY <1>1 DEF Held
<1>14. ASSUME start + L = Len(buf)
       PROVE  Held(cur)' = 0 /\ CurLen = L
  BY <1>14, <1>1, <1>2, <1>3 DEF Held
<1>15. ASSUME start + L # Len(buf)
       PROVE  /\ Held(cur)' = CurLen - L /\ CurLen' = CurLen - L /\ pc' = "parse"
              /\ CurLen - L \in Nat
              /\ \A k \in 1 .. CurLen - L :
                   buf'[start' + k] = <<cur, e, StreamEnd[n + 1] + k>>
  <2>1. /\ start' = start + L /\ buf' = Stamped(buf) /\ pc' = "parse"
        /\ Len(buf') = Len(buf)
    BY <1>15, <1>1, StampedType
  <2>2. CurLen' = CurLen - L /\ CurLen - L \in Nat
    BY <2>1, <1>1, <1>2, <1>3 DEF CurLen
  <2>3. Held(cur)' = CurLen - L
    BY <2>1, <2>2, <1>1 DEF Held
  <2>4. ASSUME NEW k \in 1 .. CurLen - L
        PROVE  buf'[start' + k] = <<cur, e, StreamEnd[n + 1] + k>>
    <3>1. L + k \in 1 .. CurLen /\ start + L + k \in start + 1 .. Len(buf)
          /\ start + (L + k) = start + L + k
          /\ StreamEnd[n] + (L + k) = StreamEnd[n + 1] + k
      BY <2>2, <1>1, <1>2, <1>3
    <3>2. buf[start + (L + k)] = <<cur, e, StreamEnd[n] + (L + k)>>
      BY <3>1, <1>5
    <3>3. buf'[start + L + k] = buf[start + L + k]
      BY <2>1, <3>1, StampedType
    <3>4. QED
      BY <2>1, <3>1, <3>2, <3>3
  <2>5. QED
    BY <2>1, <2>2, <2>3, <2>4
<1>16. Kept'
  <2>1. ASSUME NEW d \in Conns
        PROVE  /\ Count(d)' \in 0 .. Len(Lens)
               /\ read[d] = StreamEnd[Count(d)'] + Held(d)'
               /\ \A k \in 1 .. Held(d)' :
                    buf'[start' + k] = <<d, epoch[d], StreamEnd[Count(d)'] + k>>
               /\ pc' = "idle" /\ Count(d)' < Len(Lens) => Held(d)' < Lens[Count(d)' + 1]
    <3>1. Count(d)' \in 0 .. Len(Lens)
      <4>1. n + 1 \in 0 .. Len(Lens)
        BY <1>3, Numbers
      <4>2. Count(d) \in 0 .. Len(Lens)
        BY DEF Sound, Kept
      <4>3. QED
        BY <4>1, <4>2, <1>1, <1>10
    <3>2. Count(d)' < Len(Lens) => Lens[Count(d)' + 1] \in Nat /\ 0 < Lens[Count(d)' + 1]
      <4>1. Count(d)' < Len(Lens) => Count(d)' + 1 \in 1 .. Len(Lens)
        BY <3>1, Numbers
      <4>2. QED
        BY <4>1, Numbers
    <3>3. CASE d = cur /\ start + L = Len(buf)
      <4>1. Count(d)' = n + 1 /\ Held(d)' = 0
        BY <3>3, <1>1, <1>10, <1>14
      <4>2. read[d] = StreamEnd[n + 1] + 0
        BY <3>3, <1>3, <1>5, <1>14
      <4>3. 1 .. Held(d)' = {}
        BY <4>1
      <4>4. QED
        BY <3>1, <3>2, <4>1, <4>2, <4>3
    <3>4. CASE d = cur /\ start + L # Len(buf)
      <4>1. Count(d)' = n + 1 /\ Held(d)' = CurLen - L /\ pc' = "parse"
        BY <3>4, <1>1, <1>10, <1>15
      <4>2. read[d] = StreamEnd[n + 1] + (CurLen - L)
        BY <3>4, <1>2, <1>3, <1>5
      <4>3. \A k \in 1 .. CurLen - L :
              buf'[start' + k] = <<d, epoch[d], StreamEnd[n + 1] + k>>
        BY <3>4, <1>0, <1>15
      <4>4. QED
        BY <3>1, <4>1, <4>2, <4>3
    <3>5. CASE d # cur
      <4>1. Count(d)' = Count(d) /\ Held(d)' = 0 /\ Held(d) = 0
        BY <3>5, <1>4, <1>10, <1>13
      <4>2. read[d] = StreamEnd[Count(d)] + 0
        BY <4>1 DEF Sound, Kept
      <4>3. 1 .. Held(d)' = {}
        BY <4>1
      <4>4. QED
        BY <3>1, <3>2, <4>1, <4>2, <4>3
    <3>6. QED
      BY <3>3, <3>4, <3>5
  <2>2. QED
    BY <2>1, <1>1 DEF Kept
<1>17. Begun'
  BY <1>1 DEF Begun
<1>18. Short'
  <2>1. CASE start + L = Len(buf)
    BY <2>1, <1>1 DEF Short
  <2>2. CASE start + L # Len(buf)
    BY <2>2, <1>1, <1>3, <1>15, Numbers DEF Short
  <2>3. QED
    BY <2>1, <2>2
<1>19. QED
  BY <1>11, <1>12, <1>16, <1>17, <1>18 DEF Sound

LEMMA BreakSound ==
  ASSUME Typed, Sound, NEW c \in Conns, Break(c)
  PROVE  Sound'
<1>1. /\ pc = "idle" /\ epoch' = [epoch EXCEPT ![c] = @ + 1]
      /\ read' = [read EXCEPT ![c] = 0]
      /\ UNCHANGED <<pc, cur, buf, offset, start, msgLen, posted>>
  BY DEF Break
<1>2. /\ epoch \in [Conns -> 0 .. MaxBreaks] /\ read \in [Conns -> Nat]
      /\ \A d \in Conns : epoch[d] \in Nat
  <2>1. /\ epoch \in [Conns -> 0 .. MaxBreaks]
        /\ read \in [Conns -> 0 .. StreamEnd[Len(Lens)]]
    BY DEF Typed, TypeOK
  <2>2. QED
    BY <2>1, Numbers
<1>3. /\ epoch'[c] = epoch[c] + 1 /\ read'[c] = 0
      /\ \A d \in Conns : d # c => epoch'[d] = epoch[d] /\ read'[d] = read[d]
  BY <1>1, <1>2
<1>4. \A d, e : Of(d, e)' = Of(d, e)
  BY <1>1 DEF Of
<1>5. \A i \in DOMAIN posted : posted[i].conn \in Conns
  BY DEF Typed, TypeOK
<1>6. \A i \in DOMAIN posted : posted[i].bytes[1][2] \in Nat
  <2>1. ASSUME NEW i \in DOMAIN posted
        PROVE  posted[i].bytes[1][2] \in Nat
    <3>1. posted[i] \in [conn : Conns, bytes : Seq(Bytes)]
      <4> DEFINE P == [conn : Conns, bytes : Seq(Bytes)]
      <4>1. posted \in Seq(P)
        BY DEF Typed
      <4> HIDE DEF P
      <4>2. posted[i] \in P
        BY <4>1
      <4>3. QED
        BY <4>2 DEF P
    <3>2. posted[i].bytes \in Seq(Bytes) /\ posted[i].bytes # <<>>
      BY <3>1 DEF Sound, Past
    <3>3. posted[i].bytes[1] \in Bytes
      BY <3>2
    <3>4. QED
      BY <3>3 DEF Bytes
  <2>2. QED
    BY <2>1
<1>7. Of(c, epoch[c] + 1) = {}
  <2>1. ASSUME NEW i \in Of(c, epoch[c] + 1)
        PROVE  FALSE
    <3>1. /\ i \in DOMAIN posted /\ posted[i].conn = c
          /\ posted[i].bytes[1][2] = epoch[c] + 1
      BY DEF Of
    <3>2. posted[i].bytes[1][2] <= epoch[c]
      BY <3>1 DEF Sound, Past
    <3>3. QED
      BY <3>1, <3>2, <1>2
  <2>2. QED
    BY <2>1
<1>8. Count(c)' = 0 /\ \A d \in Conns : d # c => Count(d)' = Count(d)
  BY <1>3, <1>4, <1>7, FS_EmptySet DEF Count
<1>9. Held(c)' = 0
  <2>1. offset > 0 => buf[1] # <<c, epoch[c] + 1, buf[1][3]>>
    <3>1. offset > 0 => buf[1][2] <= epoch[buf[1][1]]
      BY <1>1 DEF Sound, Begun
    <3>2. ASSUME buf[1] = <<c, epoch[c] + 1, buf[1][3]>>
          PROVE  buf[1][1] = c /\ buf[1][2] = epoch[c] + 1
      BY <3>2
    <3>3. QED
      BY <3>1, <3>2, <1>2
  <2>2. QED
    BY <2>1, <1>1, <1>3 DEF Held
<1>10. \A d \in Conns : d # c => Held(d)' = Held(d)
  BY <1>1, <1>3 DEF Held
<1>11. Past'
  <2>1. ASSUME NEW i \in DOMAIN posted
        PROVE  posted[i].bytes # <<>> /\ posted[i].bytes[1][2] <= epoch'[posted[i].conn]
    <3>1. /\ posted[i].bytes # <<>> /\ posted[i].bytes[1][2] <= epoch[posted[i].conn]
          /\ posted[i].conn \in Conns /\ posted[i].bytes[1][2] \in Nat
      BY <1>5, <1>6 DEF Sound, Past
    <3>2. epoch[posted[i].conn] <= epoch'[posted[i].conn]
          /\ epoch[posted[i].conn] \in Nat /\ epoch'[posted[i].conn] \in Nat
      BY <3>1, <1>2, <1>3
    <3>3. QED
      BY <3>1, <3>2
  <2>2. QED
    BY <2>1, <1>1 DEF Past
<1>12. PacketsAreMessages'
  <2>1. \A d, e, i : Nth(d, e, i)' = Nth(d, e, i)
    BY <1>4 DEF Nth
  <2>2. QED
    BY <1>1, <1>4, <2>1 DEF Sound, PacketsAreMessages, Message
<1>13. Kept'
  <2>1. ASSUME NEW d \in Conns
        PROVE  /\ Count(d)' \in 0 .. Len(Lens)
               /\ read'[d] = StreamEnd[Count(d)'] + Held(d)'
               /\ \A k \in 1 .. Held(d)' :
                    buf[start + k] = <<d, epoch'[d], StreamEnd[Count(d)'] + k>>
               /\ Count(d)' < Len(Lens) => Held(d)' < Lens[Count(d)' + 1]
    <3>1. CASE d = c
      <4>1. Len(Lens) > 0 => Lens[1] \in Nat /\ 0 < Lens[1]
        BY Numbers
      <4>2. 1 .. Held(c)' = {}
        BY <1>9
      <4>3. QED
        BY <3>1, <4>1, <4>2, <1>3, <1>8, <1>9, Numbers, StreamEnds
    <3>2. CASE d # c
      BY <3>2, <1>1, <1>3, <1>8, <1>10 DEF Sound, Kept
    <3>3. QED
      BY <3>1, <3>2
  <2>2. QED
    BY <2>1, <1>1 DEF Kept
<1>14. Begun'
  <2>1. ASSUME offset > 0
        PROVE  buf[1][1] \in Conns /\ buf[1][2] <= epoch'[buf[1][1]]
    <3>1. buf[1][1] \in Conns /\ buf[1][2] <= epoch[buf[1][1]] /\ buf[1][2] \in Nat
      <4>1. 1 \in 1 .. Len(buf) /\ buf \in Seq(Bytes)
        BY <2>1, <1>1 DEF Typed, TypeOK
      <4>2. buf[1] \in Bytes
        BY <4>1
      <4>3. QED
        BY <4>2, <2>1, <1>1 DEF Sound, Begun, Bytes
    <3>2. epoch[buf[1][1]] <= epoch'[buf[1][1]]
          /\ epoch[buf[1][1]] \in Nat /\ epoch'[buf[1][1]] \in Nat
      BY <3>1, <1>2, <1>3
    <3>3. QED
      BY <3>1, <3>2
  <2>2. QED
    BY <2>1, <1>1 DEF Begun
<1>15. Short'
  BY <1>1 DEF Short
<1>16. QED
  BY <1>11, <1>12, <1>13, <1>14, <1>15 DEF Sound

\* Nothing of this changes when the main thread takes a packet.
LEMMA SoundFrame ==
  ASSUME Sound, UNCHANGED <<pc, cur, buf, offset, start, msgLen, streamVars, posted>>
  PROVE  Sound'
<1>1. Past' /\ PacketsAreMessages' /\ \A c : Count(c)' = Count(c)
  BY PostedFrame DEF Sound, streamVars
<1>2. \A c : Held(c)' = Held(c)
  BY DEF Held, CurLen, streamVars
<1>3. Kept'
  BY <1>1, <1>2 DEF Sound, Kept, streamVars
<1>4. Begun' /\ Short'
  BY DEF Sound, Begun, Short, CurLen, streamVars
<1>5. QED
  BY <1>1, <1>3, <1>4 DEF Sound

----------------------------------------------------------------------------
(* The theorems.                                                           *)

LEMMA StepKeeps == IInv /\ [Next]_vars => IInv'
<1> SUFFICES ASSUME IInv, [Next]_vars PROVE IInv'
  OBVIOUS
<1>1. Typed /\ Typed'
  BY TypedStep DEF IInv
<1>2. ASSUME ~ spoiled'
      PROVE  Sound'
  <2>1. ~ spoiled
    BY <1>2 DEF Next, Recv, Break, KeepRest, PostPacket, PostRefused, Take, vars
  <2>2. Sound
    BY <2>1 DEF IInv
  <2>3. CASE Take \/ UNCHANGED vars
    BY <2>2, <2>3, SoundFrame DEF Take, vars
  <2>4. CASE PostRefused
    BY <2>4, <1>2 DEF PostRefused
  <2>5. QED
    BY <1>1, <1>2, <2>2, <2>3, <2>4, RecvSound, BreakSound, KeepRestSound,
       PostPacketSound DEF Next
<1>3. QED
  BY <1>1, <1>2 DEF IInv

\* The inductive invariant.
THEOREM Invariance == Spec => []IInv
<1>1. Init => IInv
  BY InitTyped, InitSound DEF IInv
<1>2. QED
  BY <1>1, StepKeeps, PTL DEF Spec

\* However the reads split the streams, what is posted of each are its messages,
\* whole, in order and none left out, unless the buffer is used as it must not be.
THEOREM FramesAreMessages == Spec => []PacketsUnlessSpoiled
<1>1. IInv => PacketsUnlessSpoiled
  BY DEF IInv, Sound, Past, PacketsUnlessSpoiled
<1>2. QED
  BY <1>1, Invariance, PTL

\* A call posts every message of which it has read the last byte, and keeps what
\* it has of the next.
THEOREM NothingIsHeldBack == Spec => []NothingHeldBack
<1>1. IInv => NothingHeldBack
  <2> SUFFICES ASSUME IInv, pc = "idle", ~ spoiled, NEW c \in Conns
               PROVE  LET n    == Cardinality(Of(c, epoch[c]))
                          kept == IF offset > 0 /\ buf[1] = <<c, epoch[c], buf[1][3]>>
                                  THEN offset ELSE 0
                      IN  /\ read[c] = StreamEnd[n] + kept
                          /\ n < Len(Lens) => read[c] < StreamEnd[n + 1]
    BY DEF NothingHeldBack
  <2> DEFINE n == Count(c)
  <2>1. /\ n \in 0 .. Len(Lens) /\ read[c] = StreamEnd[n] + Held(c)
        /\ n < Len(Lens) => Held(c) < Lens[n + 1]
        /\ Held(c) \in Nat
    BY DEF IInv, Sound, Kept, Typed, TypeOK, Held
  <2>2. n < Len(Lens) => read[c] < StreamEnd[n + 1]
    <3>1. ASSUME n < Len(Lens)
          PROVE  read[c] < StreamEnd[n + 1]
      <4> HIDE DEF n
      <4>1. n + 1 \in 1 .. Len(Lens) /\ n + 1 - 1 = n
        BY <2>1, <3>1, Numbers
      <4>2. /\ StreamEnd[n + 1] = StreamEnd[n] + Lens[n + 1] /\ StreamEnd[n] \in Nat
            /\ Lens[n + 1] \in Nat
        BY <2>1, <4>1, StreamEnds, Numbers
      <4>3. QED
        BY <2>1, <3>1, <4>2
    <3>2. QED
      BY <3>1
  <2>3. QED
    BY <2>1, <2>2 DEF Count, Held
<1>2. QED
  BY <1>1, Invariance, PTL

=============================================================================
