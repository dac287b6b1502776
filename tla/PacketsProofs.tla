---------------------------- MODULE PacketsProofs ----------------------------
(***************************************************************************)
(* For every length of a message and of the buffers, what the send queue   *)
(* accepts was neither cut by doSerializeMsg nor written past the end of   *)
(* m_pCodeBuffer, although SocketManager::SendMessage does not look; and    *)
(* the decode buffer is never out of proportion to what was decoded in it, *)
(* and is long enough for the packet it is made for.  Where three times the *)
(* tries are enough for every packet, three packets at most stay compressed.*)
(***************************************************************************)
EXTENDS Packets, WellFoundedInduction, TLAPS

\* What was accepted was short enough for all three limits.
LEMMA AcceptedFits ==
  ASSUME NEW len \in Lens, Takes(HeadLen + PHDR_LEN + Body(len))
  PROVE  Body(len) = len /\ ~ (HeadLen + PHDR_LEN + Body(len) > CodeBuf)
<1>1. len \in Nat /\ SendBuf - PHDR_LEN \in Nat /\ HeadLen \in Nat
      /\ PHDR_LEN \in Nat /\ SendBuf \in Nat /\ CodeBuf \in Nat /\ QueueLen \in Nat
  BY SendAssumption
<1>2. Body(len) = IF len <= SendBuf - PHDR_LEN THEN len ELSE SendBuf - PHDR_LEN
  BY <1>1 DEF Body, Min
<1>3. HeadLen + (HeadLen + PHDR_LEN + Body(len)) <= QueueLen
  BY DEF Takes
<1>4. QED
  BY <1>1, <1>2, <1>3, LimitAssumption

\* The queue, the last of the three limits to be tested, is the tightest.
THEOREM SendKeepsWhole == Spec => []AcceptedIsWhole
<1>1. Init => AcceptedIsWhole
  BY DEF Init, AcceptedIsWhole
<1>2. AcceptedIsWhole /\ [Next]_vars => AcceptedIsWhole'
  <2> SUFFICES ASSUME AcceptedIsWhole, [Next]_vars PROVE AcceptedIsWhole'
    OBVIOUS
  <2>1. ASSUME NEW len \in Lens, SendMessage(len)
        PROVE  AcceptedIsWhole'
    <3> DEFINE n == HeadLen + PHDR_LEN + Body(len)
    <3>1. PICK accepted \in {FALSE, Takes(n)} :
            sent' = [asked |-> len, copied |-> Body(len), accepted |-> accepted,
                     outside |-> n > CodeBuf]
      BY <2>1 DEF SendMessage
    <3>2. CASE accepted = FALSE
      BY <3>1, <3>2 DEF AcceptedIsWhole
    <3>3. CASE accepted = Takes(n)
      <4>1. sent'.accepted = Takes(n) /\ sent'.copied = Body(len)
            /\ sent'.asked = len /\ sent'.outside = (n > CodeBuf)
        BY <3>1, <3>3
      <4>2. Takes(n) => Body(len) = len /\ ~ (n > CodeBuf)
        BY AcceptedFits
      <4>3. QED
        BY <4>1, <4>2 DEF AcceptedIsWhole
    <3>4. QED
      BY <3>1, <3>2, <3>3
  <2>2. ASSUME UNCHANGED sent
        PROVE  AcceptedIsWhole'
    BY <2>2 DEF AcceptedIsWhole
  <2>3. QED
    BY <2>1, <2>2 DEF Next, Decode, Plain, vars
<1>3. QED
  BY <1>1, <1>2, PTL DEF Spec

----------------------------------------------------------------------------
(* Numbers.                                                                *)

\* A set of numbers that is not empty has a least one.
LEMMA LeastNumber ==
  ASSUME NEW S, S \subseteq Nat, S # {}
  PROVE  \E x \in S : \A y \in S : x <= y
<1> DEFINE R == {ss \in Nat \X Nat : ss[1] < ss[2]}
<1>1. IsWellFoundedOn(R, Nat)
  BY NatLessThanWellFounded DEF OpToRel
<1>2. PICK x \in S : \A y \in S : ~ (<<y, x>> \in R)
  <2> HIDE DEF R
  <2>1. QED
    BY <1>1, WFMin
<1>3. ASSUME NEW y \in S
      PROVE  x <= y
  <2>1. x \in Nat /\ y \in Nat
    OBVIOUS
  <2>2. y < x => <<y, x>> \in R
    BY <2>1
  <2>3. QED
    BY <1>2, <2>1, <2>2
<1>4. QED
  BY <1>3

\* What zero is in, and every number when the one before it is, holds all of them.
LEMMA CountingUp ==
  ASSUME NEW n \in Nat, NEW S, 0 \in S, \A k \in 1 .. n : k - 1 \in S => k \in S
  PROVE  0 .. n \subseteq S
<1> DEFINE Left == (0 .. n) \ S
<1>1. SUFFICES ASSUME Left # {}
               PROVE  FALSE
  OBVIOUS
<1>2. PICK k \in Left : \A j \in Left : k <= j
  <2>1. Left \subseteq Nat
    OBVIOUS
  <2> HIDE DEF Left
  <2>2. QED
    BY <1>1, <2>1, LeastNumber
<1>3. k \in 1 .. n
  BY <1>2
<1>4. k - 1 \in 0 .. n /\ ~ (k <= k - 1)
  BY <1>3
<1>5. k - 1 \in S
  BY <1>2, <1>4
<1>6. QED
  BY <1>2, <1>3, <1>5

\* A product of numbers is a number, and grows with them.
LEMMA Products ==
  ASSUME NEW a \in Nat, NEW x \in Nat, NEW y \in Nat
  PROVE  a * x \in Nat /\ (x <= y => a * x <= a * y)
<1>1. a * x \in Nat
  OBVIOUS
<1>2. ASSUME x <= y
      PROVE  a * x <= a * y
  <2>1. y - x \in Nat /\ a * (y - x) \in Nat
    BY <1>2
  <2>2. a * (y - x) = a * y - a * x
    OBVIOUS
  <2>3. a * x \in Int /\ a * y \in Int
    OBVIOUS
  <2>4. QED
    BY <2>1, <2>2, <2>3
<1>3. QED
  BY <1>1, <1>2

----------------------------------------------------------------------------
(* The decode buffer.                                                      *)

\* The length after a turn of the loop of unSerializeMsg.
Turn(length, orig) == IF length >= orig THEN length ELSE Growth * length

\* The lengths of the buffer in n turns.
Enlarges(g, b, orig, n) ==
  g[0] = b /\ \A k \in 1 .. n : g[k] = Turn(g[k - 1], orig)

LEMMA TurnType ==
  ASSUME NEW length \in Nat, NEW orig \in Nat
  PROVE  Turn(length, orig) \in Nat
  BY Products, DecodeAssumption DEF Turn

\* The loop is defined for any number of turns.
LEMMA LoopExists ==
  ASSUME NEW b \in Nat, NEW orig \in Nat, NEW n \in Nat
  PROVE  \E g \in [0 .. n -> Nat] : Enlarges(g, b, orig, n)
<1> DEFINE S == {m \in 0 .. n : \E g \in [0 .. m -> Nat] : Enlarges(g, b, orig, m)}
<1>1. 0 \in S
  <2>1. [k \in 0 .. 0 |-> b] \in [0 .. 0 -> Nat]
    OBVIOUS
  <2>2. Enlarges([k \in 0 .. 0 |-> b], b, orig, 0)
    BY DEF Enlarges
  <2>3. QED
    BY <2>1, <2>2
<1>2. ASSUME NEW m \in 1 .. n, m - 1 \in S
      PROVE  m \in S
  <2>1. PICK g \in [0 .. m - 1 -> Nat] : Enlarges(g, b, orig, m - 1)
    BY <1>2
  <2> DEFINE h == [k \in 0 .. m |-> IF k = m THEN Turn(g[m - 1], orig) ELSE g[k]]
  <2>2. h \in [0 .. m -> Nat]
    <3>1. g[m - 1] \in Nat
      BY <2>1
    <3>2. Turn(g[m - 1], orig) \in Nat
      BY <3>1, TurnType
    <3>3. QED
      BY <3>2
  <2>3. Enlarges(h, b, orig, m)
    <3>1. h[0] = b
      BY <2>1 DEF Enlarges
    <3>2. ASSUME NEW k \in 1 .. m
          PROVE  h[k] = Turn(h[k - 1], orig)
      <4>1. k \in 0 .. m /\ k - 1 \in 0 .. m /\ k - 1 # m
        OBVIOUS
      <4>2. h[k - 1] = g[k - 1]
        BY <4>1
      <4>3. CASE k = m
        BY <4>1, <4>2, <4>3
      <4>4. CASE k # m
        <5>1. k \in 1 .. m - 1 /\ h[k] = g[k]
          BY <4>1, <4>4
        <5>2. QED
          BY <5>1, <4>2, <2>1 DEF Enlarges
      <4>5. QED
        BY <4>3, <4>4
    <3>3. QED
      BY <3>1, <3>2 DEF Enlarges
  <2>4. QED
    BY <2>2, <2>3
<1>3. 0 .. n \subseteq S
  <2> HIDE DEF S
  <2>1. QED
    BY <1>1, <1>2, CountingUp
<1>4. n \in S
  <2>1. n \in 0 .. n
    OBVIOUS
  <2> HIDE DEF S
  <2>2. QED
    BY <1>3, <2>1
<1>5. QED
  BY <1>4

\* What Enlarged takes is the last length of that loop.
LEMMA EnlargedIsLast ==
  ASSUME NEW b \in Nat, NEW orig \in Nat, NEW n \in Nat
  PROVE  \E g \in [0 .. n -> Nat] :
           /\ Enlarges(g, b, orig, n)
           /\ Enlarged(b, orig, n) = g[n]
<1> DEFINE Loop(f) == f = [k \in 0 .. n |-> IF k = 0 THEN b
                                          ELSE IF f[k - 1] >= orig THEN f[k - 1]
                                          ELSE Growth * f[k - 1]]
           size == CHOOSE f : Loop(f)
<1>1. PICK g \in [0 .. n -> Nat] : Enlarges(g, b, orig, n)
  BY LoopExists
<1>2. Loop(g)
  <2>1. ASSUME NEW k \in 0 .. n
        PROVE  g[k] = IF k = 0 THEN b
                      ELSE IF g[k - 1] >= orig THEN g[k - 1] ELSE Growth * g[k - 1]
    <3>1. CASE k = 0
      BY <3>1, <1>1 DEF Enlarges
    <3>2. CASE k # 0
      BY <3>2, <1>1 DEF Enlarges, Turn
    <3>3. QED
      BY <3>1, <3>2
  <2>2. QED
    BY <2>1
<1>3. Loop(size)
  <2> HIDE DEF Loop
  <2>1. QED
    BY <1>2
<1>4. Enlarged(b, orig, n) = size[n]
  BY DEF Enlarged
<1>5. n \in {k \in 0 .. n : size[k] = g[k]}
  <2> HIDE DEF size
  <2> DEFINE S == {k \in 0 .. n : size[k] = g[k]}
  <2>1. 0 \in S
    BY <1>2, <1>3
  <2>2. ASSUME NEW k \in 1 .. n, k - 1 \in S
        PROVE  k \in S
    BY <2>2, <1>2, <1>3
  <2>3. 0 .. n \subseteq S
    <3> HIDE DEF S
    <3>1. QED
      BY <2>1, <2>2, CountingUp
  <2>4. QED
    BY <2>3
<1>6. QED
  BY <1>1, <1>4, <1>5

\* It is a number, not less than what the buffer was, and no more than that or
\* Growth times what is decoded.
LEMMA EnlargedBounds ==
  ASSUME NEW b \in Nat, NEW orig \in Nat, NEW n \in Nat
  PROVE  /\ Enlarged(b, orig, n) \in Nat
         /\ b <= Enlarged(b, orig, n)
         /\ \/ Enlarged(b, orig, n) <= b
            \/ Enlarged(b, orig, n) <= Growth * orig
<1>1. PICK g \in [0 .. n -> Nat] : Enlarges(g, b, orig, n) /\ Enlarged(b, orig, n) = g[n]
  BY EnlargedIsLast
<1>2. Growth \in Nat /\ Growth - 1 \in Nat /\ Growth * orig \in Nat
  BY DecodeAssumption, Products
<1> DEFINE S == {k \in 0 .. n : b <= g[k] /\ (g[k] <= b \/ g[k] <= Growth * orig)}
<1>3. 0 \in S
  BY <1>1 DEF Enlarges
<1>4. ASSUME NEW k \in 1 .. n, k - 1 \in S
      PROVE  k \in S
  <2>1. PICK x \in Nat : x = g[k - 1]
    BY <1>4
  <2>2. b <= x /\ (x <= b \/ x <= Growth * orig) /\ g[k] = Turn(x, orig)
    BY <1>1, <1>4, <2>1 DEF Enlarges
  <2>3. CASE x >= orig
    BY <2>1, <2>2, <2>3 DEF Turn
  <2>4. CASE ~ (x >= orig)
    <3>1. g[k] = Growth * x
      BY <2>2, <2>4 DEF Turn
    <3>2. Growth * x <= Growth * orig
      BY <2>1, <2>4, <1>2, Products
    <3>3. Growth * x = x + (Growth - 1) * x /\ (Growth - 1) * x \in Nat
      BY <2>1, <1>2, Products
    <3>4. QED
      BY <3>1, <3>2, <3>3, <2>1, <2>2
  <2>5. QED
    BY <2>3, <2>4
<1>5. 0 .. n \subseteq S
  <2> HIDE DEF S
  <2>1. QED
    BY <1>3, <1>4, CountingUp
<1>6. n \in S
  BY <1>5
<1>7. QED
  BY <1>1, <1>6

\* The types of the receiving side, and the bound as two cases.
InProportion ==
  /\ {buf, first, largest} \subseteq Nat
  /\ buf <= Factor * first \/ buf <= Growth * largest

\* A packet that is decoded keeps the buffer in proportion.
LEMMA DecodeKeeps ==
  ASSUME InProportion, NEW len \in Nat, NEW orig \in Nat, NEW damaged \in BOOLEAN,
         Decode(len, orig, damaged)
  PROVE  InProportion'
<1> DEFINE b == IF buf = 0 THEN FirstBuffer(len) ELSE buf
<1>1. /\ Factor \in Nat /\ Growth \in Nat /\ Tries \in Nat
      /\ buf \in Nat /\ first \in Nat /\ largest \in Nat
  BY DecodeAssumption DEF InProportion
<1>2. /\ buf' = Enlarged(b, orig, Tries)
      /\ first' = IF buf = 0 THEN len ELSE first
      /\ largest' = Max({largest, orig})
  BY DEF Decode, Kept
<1>3. b \in Nat
  BY <1>1 DEF FirstBuffer
<1>4. /\ buf' \in Nat
      /\ buf' <= b \/ buf' <= Growth * orig
  <2> HIDE DEF b
  <2>1. QED
    BY <1>1, <1>2, <1>3, EnlargedBounds
<1>5. /\ largest' \in Nat /\ orig <= largest' /\ largest <= largest'
  <2>1. largest' = IF largest >= orig THEN largest ELSE orig
    BY <1>1, <1>2 DEF Max
  <2>2. QED
    BY <2>1, <1>1
<1>6. Growth * orig <= Growth * largest' /\ Growth * largest <= Growth * largest'
  BY <1>1, <1>5, Products
<1>7. Growth * orig \in Nat /\ Growth * largest \in Nat /\ Growth * largest' \in Nat
  BY <1>1, <1>5, Products
<1>8. CASE buf = 0
  <2>1. b = Factor * first' /\ first' \in Nat
    BY <1>2, <1>8 DEF FirstBuffer
  <2>2. QED
    BY <2>1, <1>3, <1>4, <1>5, <1>6, <1>7 DEF InProportion
<1>9. CASE buf # 0
  <2>1. b = buf /\ first' = first
    BY <1>2, <1>9
  <2> HIDE DEF b
  <2>2. (b <= Factor * first \/ b <= Growth * largest) /\ Factor * first \in Nat
    BY <2>1, <1>1, Products DEF InProportion
  <2>3. {buf', first', largest'} \subseteq Nat
    BY <2>1, <1>1, <1>4, <1>5
  <2>4. CASE buf' <= b /\ b <= Factor * first
    <3>1. buf' <= Factor * first
      BY <2>2, <2>4, <1>3, <1>4
    <3>2. QED
      BY <3>1, <2>1, <2>3 DEF InProportion
  <2>5. CASE buf' <= b /\ b <= Growth * largest
    <3>1. buf' <= Growth * largest'
      BY <2>5, <1>3, <1>4, <1>6, <1>7
    <3>2. QED
      BY <3>1, <2>3 DEF InProportion
  <2>6. CASE buf' <= Growth * orig
    <3>1. buf' <= Growth * largest'
      BY <2>6, <1>4, <1>6, <1>7
    <3>2. QED
      BY <3>1, <2>3 DEF InProportion
  <2>7. QED
    BY <2>2, <2>4, <2>5, <2>6, <1>4
<1>10. QED
  BY <1>8, <1>9

\* What may be decoded is a number.
LEMMA OrigsAreNumbers ==
  ASSUME NEW len \in Bodies
  PROVE  /\ len \in Nat /\ Origs(len) \subseteq Nat
         /\ \A orig \in Origs(len) : orig <= MaxRatio * len
<1>1. len \in Nat /\ Factor \in Nat /\ MaxRatio \in Nat
  BY DecodeAssumption
<1>2. Factor * len \in Nat /\ 100 * len \in Nat /\ MaxRatio * len \in Nat
  BY <1>1
<1>3. QED
  BY <1>1, <1>2 DEF Origs

\* However many packets come, the buffer that is kept is never longer than what
\* the first one asked for or the longest one needed.
THEOREM BufferFits == Spec => []BufferInProportion
<1>1. Init => InProportion
  <2>1. ASSUME Init
        PROVE  InProportion
    <3>1. buf = 0 /\ first = 0 /\ largest = 0 /\ Factor \in Nat
      BY <2>1, DecodeAssumption DEF Init
    <3>2. QED
      BY <3>1 DEF InProportion
  <2>2. QED
    BY <2>1
<1>2. InProportion /\ [Next]_vars => InProportion'
  <2> SUFFICES ASSUME InProportion, [Next]_vars
               PROVE  InProportion'
    OBVIOUS
  <2>1. ASSUME NEW len \in Bodies, NEW orig \in Origs(len), NEW damaged \in BOOLEAN,
               Decode(len, orig, damaged)
        PROVE  InProportion'
    BY <2>1, OrigsAreNumbers, DecodeKeeps
  <2>2. ASSUME UNCHANGED <<buf, first, largest>>
        PROVE  InProportion'
    BY <2>2 DEF InProportion
  <2>3. QED
    BY <2>1, <2>2 DEF Next, SendMessage, Plain, vars, inVars
<1>3. InProportion => BufferInProportion
  <2>1. ASSUME InProportion
        PROVE  BufferInProportion
    <3>1. Factor * first \in Nat /\ Growth * largest \in Nat /\ buf \in Nat
      BY <2>1, DecodeAssumption DEF InProportion
    <3>2. Max({Factor * first, Growth * largest}) =
            IF Factor * first >= Growth * largest THEN Factor * first
                                                  ELSE Growth * largest
      BY <3>1 DEF Max
    <3>3. QED
      BY <2>1, <3>1, <3>2 DEF InProportion, BufferInProportion
  <2>2. QED
    BY <2>1
<1>4. QED
  BY <1>1, <1>2, <1>3, PTL DEF Spec

----------------------------------------------------------------------------
(* The first packet.                                                       *)

\* A buffer of Factor lengths of a packet grows in step with the loop for a packet
\* of one byte, as long as it has not got there.
LEMMA EnoughForFirst ==
  ASSUME NEW len \in Nat, NEW orig \in Nat, orig <= MaxRatio * len,
         Enlarged(Factor, MaxRatio, Tries) >= MaxRatio
  PROVE  Enlarged(FirstBuffer(len), orig, Tries) >= orig
<1>1. Factor \in Nat /\ Growth \in Nat /\ Tries \in Nat /\ MaxRatio \in Nat
  BY DecodeAssumption
<1>2. PICK f \in [0 .. Tries -> Nat] :
        /\ Enlarges(f, Factor, MaxRatio, Tries)
        /\ Enlarged(Factor, MaxRatio, Tries) = f[Tries]
  BY <1>1, EnlargedIsLast
<1>3. FirstBuffer(len) \in Nat /\ FirstBuffer(len) = len * Factor
  BY <1>1, Products DEF FirstBuffer
<1>4. PICK g \in [0 .. Tries -> Nat] :
        /\ Enlarges(g, FirstBuffer(len), orig, Tries)
        /\ Enlarged(FirstBuffer(len), orig, Tries) = g[Tries]
  BY <1>1, <1>3, EnlargedIsLast
<1>5. \A x \in Nat : x >= MaxRatio => len * x >= orig
  <2>1. ASSUME NEW x \in Nat, x >= MaxRatio
        PROVE  len * x >= orig
    <3>1. len * MaxRatio <= len * x
      BY <2>1, <1>1, Products
    <3>2. len * MaxRatio = MaxRatio * len /\ len * MaxRatio \in Nat /\ len * x \in Nat
      BY <1>1, Products
    <3>3. QED
      BY <3>1, <3>2
  <2>2. QED
    BY <2>1
<1> DEFINE S == {k \in 0 .. Tries : g[k] >= orig \/ g[k] >= len * f[k]}
<1>6. 0 \in S
  <2>1. g[0] = len * f[0] /\ g[0] \in Nat
    BY <1>1, <1>2, <1>3, <1>4 DEF Enlarges
  <2>2. QED
    BY <2>1, <1>1
<1>7. ASSUME NEW k \in 1 .. Tries, k - 1 \in S
      PROVE  k \in S
  <2>1. PICK x \in Nat, y \in Nat : x = g[k - 1] /\ y = f[k - 1]
    BY <1>1, <1>7
  <2>2. /\ x >= orig \/ x >= len * y
        /\ g[k] = Turn(x, orig) /\ f[k] = Turn(y, MaxRatio)
    BY <1>2, <1>4, <1>7, <2>1 DEF Enlarges
  <2>3. CASE x >= orig
    BY <2>2, <2>3, <1>1 DEF Turn
  <2>4. CASE ~ (x >= orig)
    <3>1. x >= len * y /\ g[k] = Growth * x /\ len * y \in Nat
      BY <2>1, <2>2, <2>4, Products DEF Turn
    <3>2. ~ (y >= MaxRatio)
      BY <3>1, <2>1, <2>4, <1>5
    <3>3. len * f[k] = Growth * (len * y)
      BY <3>2, <2>1, <2>2, <1>1 DEF Turn
    <3>4. Growth * (len * y) <= Growth * x
      BY <3>1, <2>1, <1>1, Products
    <3>5. Growth * (len * y) \in Nat /\ Growth * x \in Nat
      BY <3>1, <2>1, <1>1, Products
    <3>6. g[k] >= len * f[k]
      BY <3>1, <3>3, <3>4, <3>5
    <3>7. QED
      BY <3>6, <1>1
  <2>5. QED
    BY <2>3, <2>4
<1>8. 0 .. Tries \subseteq S
  <2> HIDE DEF S
  <2>1. QED
    BY <1>1, <1>6, <1>7, CountingUp
<1>9. Tries \in S
  BY <1>1, <1>8
<1>10. g[Tries] \in Nat /\ f[Tries] \in Nat /\ len * f[Tries] \in Nat
  BY <1>1, Products
<1>11. len * f[Tries] >= orig
  BY <1>2, <1>5, <1>10
<1>12. QED
  BY <1>4, <1>9, <1>10, <1>11

\* As long as there is no buffer no packet was handed over compressed.
NoneRaw == InProportion /\ (buf = 0 => got # "raw")

\* Where the tries are enough for a packet of one byte and the highest ratio, as
\* the program's five of three times are, the packet that makes the buffer is
\* decoded, however long it is.
THEOREM FirstFits ==
  ASSUME Enlarged(Factor, MaxRatio, Tries) >= MaxRatio
  PROVE  Spec => FirstIsDecoded
<1>1. Init => NoneRaw
  <2>1. ASSUME Init
        PROVE  NoneRaw
    <3>1. buf = 0 /\ first = 0 /\ largest = 0 /\ got = "none" /\ Factor \in Nat
      BY <2>1, DecodeAssumption DEF Init
    <3>2. QED
      BY <3>1 DEF NoneRaw, InProportion
  <2>2. QED
    BY <2>1
<1>2. ASSUME NoneRaw, [Next]_vars
      PROVE  NoneRaw' /\ (vars' # vars => (buf = 0 => got' # "raw"))
  <2>1. ASSUME NEW len \in Bodies, NEW orig \in Origs(len), NEW damaged \in BOOLEAN,
               Decode(len, orig, damaged)
        PROVE  NoneRaw' /\ (buf = 0 => got' # "raw")
    <3>1. len \in Nat /\ orig \in Nat /\ orig <= MaxRatio * len
      BY <2>1, OrigsAreNumbers
    <3>2. InProportion'
      BY <2>1, <3>1, <1>2, DecodeKeeps DEF NoneRaw
    <3>3. buf = 0 => got' # "raw"
      <4>1. Enlarged(FirstBuffer(len), orig, Tries) >= orig
        BY <3>1, EnoughForFirst
      <4>2. Enlarged(FirstBuffer(len), orig, Tries) \in Nat
        <5>1. FirstBuffer(len) \in Nat /\ Tries \in Nat
          BY <3>1, DecodeAssumption, Products DEF FirstBuffer
        <5>2. QED
          BY <5>1, <3>1, EnlargedBounds
      <4>3. ~ (Enlarged(FirstBuffer(len), orig, Tries) < orig)
        BY <4>1, <4>2, <3>1
      <4>4. QED
        BY <4>3, <2>1 DEF Decode
    <3>4. buf # 0 => buf' # 0
      <4>1. ASSUME buf # 0
            PROVE  buf' # 0
        <5>1. buf \in Nat /\ Tries \in Nat /\ buf' \in Nat
          BY <1>2, <3>2, DecodeAssumption DEF NoneRaw, InProportion
        <5>2. buf' = Enlarged(buf, orig, Tries)
          BY <4>1, <2>1 DEF Decode, Kept
        <5>3. buf <= buf'
          BY <5>1, <5>2, <3>1, EnlargedBounds
        <5>4. QED
          BY <5>1, <5>3, <4>1
      <4>2. QED
        BY <4>1
    <3>5. QED
      BY <3>2, <3>3, <3>4 DEF NoneRaw
  <2>2. ASSUME UNCHANGED <<buf, first, largest>>, UNCHANGED got \/ got' = "plain"
        PROVE  NoneRaw' /\ (buf = 0 => got' # "raw")
    BY <2>2, <1>2 DEF NoneRaw, InProportion
  <2>3. QED
    BY <1>2, <2>1, <2>2 DEF Next, SendMessage, Plain, vars, inVars
<1>3. NoneRaw /\ [Next]_vars => [buf = 0 => got' # "raw"]_vars
  BY <1>2
<1>4. NoneRaw /\ [Next]_vars => NoneRaw'
  BY <1>2
<1>5. QED
  BY <1>1, <1>3, <1>4, PTL DEF Spec, FirstIsDecoded

----------------------------------------------------------------------------
(* The packets that are handed over compressed.                            *)

\* There is a first try and a last.
LEMMA SomeTries ==
  /\ Growth \in Nat /\ Tries \in Nat /\ Tries - 1 \in Nat
  /\ Tries - 1 \in 0 .. Tries /\ Tries \in Tries - 1 .. Tries
<1>1. Growth \in Nat /\ Tries \in Nat \ {0}
  BY DecodeAssumption
<1>2. QED
  BY <1>1

\* The loop with fewer turns has the lengths of the one with more.
LEMMA SameLoop ==
  ASSUME NEW b \in Nat, NEW orig \in Nat, NEW n \in Nat,
         NEW m \in 0 .. n, NEW g, NEW h,
         Enlarges(g, b, orig, n), Enlarges(h, b, orig, m)
  PROVE  g[m] = h[m]
<1> DEFINE S == {k \in 0 .. m : g[k] = h[k]}
<1>1. 0 \in S
  BY DEF Enlarges
<1>2. ASSUME NEW k \in 1 .. m, k - 1 \in S
      PROVE  k \in S
  <2>1. k \in 1 .. n /\ g[k - 1] = h[k - 1]
    BY <1>2
  <2>2. g[k] = Turn(g[k - 1], orig) /\ h[k] = Turn(h[k - 1], orig)
    BY <2>1 DEF Enlarges
  <2>3. QED
    BY <2>1, <2>2
<1>3. 0 .. m \subseteq S
  <2> HIDE DEF S
  <2>1. QED
    BY <1>1, <1>2, CountingUp
<1>4. QED
  BY <1>3

\* Once the buffer is long enough it stays as long.
LEMMA LongEnoughStays ==
  ASSUME NEW b \in Nat, NEW orig \in Nat, NEW n \in Nat,
         NEW g \in [0 .. n -> Nat], Enlarges(g, b, orig, n),
         NEW j \in 0 .. n, g[j] >= orig
  PROVE  \A k \in j .. n : g[k] >= orig
<1> DEFINE S == {i \in 0 .. n - j : g[j + i] >= orig}
<1>1. n - j \in Nat
  OBVIOUS
<1>2. 0 \in S
  BY <1>1
<1>3. ASSUME NEW i \in 1 .. n - j, i - 1 \in S
      PROVE  i \in S
  <2>1. j + i \in 1 .. n /\ j + (i - 1) = (j + i) - 1
    OBVIOUS
  <2>2. g[(j + i) - 1] >= orig
    BY <1>3, <2>1
  <2>3. g[j + i] = g[(j + i) - 1]
    BY <2>1, <2>2 DEF Enlarges, Turn
  <2>4. QED
    BY <2>2, <2>3
<1>4. 0 .. n - j \subseteq S
  <2> HIDE DEF S
  <2>1. QED
    BY <1>1, <1>2, <1>3, CountingUp
<1>5. ASSUME NEW k \in j .. n
      PROVE  g[k] >= orig
  <2>1. k - j \in 0 .. n - j /\ j + (k - j) = k
    OBVIOUS
  <2>2. k - j \in S
    BY <1>4, <2>1
  <2>3. QED
    BY <2>1, <2>2
<1>6. QED
  BY <1>5

\* The loop of a packet, with its length before the last try and after it.
LEMMA LastTry ==
  ASSUME NEW b \in Nat, NEW orig \in Nat
  PROVE  \E g \in [0 .. Tries -> Nat] :
           /\ Enlarges(g, b, orig, Tries)
           /\ Enlarged(b, orig, Tries - 1) = g[Tries - 1]
           /\ Enlarged(b, orig, Tries) = g[Tries]
<1>1. PICK g \in [0 .. Tries -> Nat] :
        Enlarges(g, b, orig, Tries) /\ Enlarged(b, orig, Tries) = g[Tries]
  BY SomeTries, EnlargedIsLast
<1>2. PICK h \in [0 .. Tries - 1 -> Nat] :
        Enlarges(h, b, orig, Tries - 1) /\ Enlarged(b, orig, Tries - 1) = h[Tries - 1]
  BY SomeTries, EnlargedIsLast
<1>3. g[Tries - 1] = h[Tries - 1]
  BY SomeTries, <1>1, <1>2, SameLoop
<1>4. QED
  BY <1>1, <1>2, <1>3

\* The buffer is as long as will ever be asked for, or as f says.
AsLongAs(b, longest, length) == b >= longest \/ b >= length

\* A packet that needs the last of its tries, and asks for no more than is ever
\* asked for, takes the buffer as many turns up f as there are tries.
LEMMA AllTheTries ==
  ASSUME NEW b \in Nat, NEW orig \in Nat, NEW longest \in Nat, orig <= longest,
         NEW start \in Nat, NEW n \in Nat, NEW f \in [0 .. n -> Nat],
         Enlarges(f, start, longest, n),
         NEW m \in Nat, m + Tries <= n, AsLongAs(b, longest, f[m]),
         Enlarged(b, orig, Tries - 1) < orig
  PROVE  AsLongAs(Enlarged(b, orig, Tries), longest, f[m + Tries])
<1>1. Growth \in Nat /\ Tries \in Nat /\ Tries - 1 \in Nat /\ Tries - 1 \in 0 .. Tries
  BY SomeTries
<1>2. PICK g \in [0 .. Tries -> Nat] :
        /\ Enlarges(g, b, orig, Tries)
        /\ Enlarged(b, orig, Tries - 1) = g[Tries - 1]
        /\ Enlarged(b, orig, Tries) = g[Tries]
  BY LastTry
<1>4. g[Tries - 1] \in Nat /\ g[Tries - 1] < orig
  BY <1>1, <1>2
<1>5. \A j \in 0 .. Tries - 1 : ~ (g[j] >= orig)
  <2>1. ASSUME NEW j \in 0 .. Tries - 1, g[j] >= orig
        PROVE  FALSE
    <3>1. j \in 0 .. Tries /\ Tries - 1 \in j .. Tries
      BY <1>1
    <3>2. g[Tries - 1] >= orig
      BY <1>1, <1>2, <2>1, <3>1, LongEnoughStays
    <3>3. QED
      BY <3>2, <1>4
  <2>2. QED
    BY <2>1
<1> DEFINE S == {j \in 0 .. Tries : AsLongAs(g[j], longest, f[m + j])}
<1>6. 0 \in S
  BY <1>1, <1>2 DEF Enlarges
<1>7. ASSUME NEW j \in 1 .. Tries, j - 1 \in S
      PROVE  j \in S
  <2>1. /\ j - 1 \in 0 .. Tries - 1 /\ j - 1 \in 0 .. Tries /\ m + j \in 1 .. n
        /\ m + (j - 1) \in 0 .. n /\ (m + j) - 1 = m + (j - 1)
    BY <1>1
  <2>2. PICK x \in Nat, y \in Nat : x = g[j - 1] /\ y = f[m + (j - 1)]
    BY <2>1
  <2>3. AsLongAs(x, longest, y)
    BY <1>7, <2>2
  <2>4. g[j] = Turn(x, orig) /\ f[m + j] = Turn(y, longest)
    BY <1>2, <2>1, <2>2 DEF Enlarges
  <2>5. ~ (x >= orig)
    BY <1>5, <2>1, <2>2
  <2>6. ~ (x >= longest) /\ x >= y /\ ~ (y >= longest)
    BY <2>3, <2>5 DEF AsLongAs
  <2>7. g[j] = Growth * x /\ f[m + j] = Growth * y
    BY <2>4, <2>5, <2>6 DEF Turn
  <2>8. Growth * y <= Growth * x /\ Growth * x \in Nat /\ Growth * y \in Nat
    BY <1>1, <2>6, Products
  <2>9. g[j] >= f[m + j]
    BY <2>7, <2>8
  <2>10. QED
    BY <2>9 DEF AsLongAs
<1>8. 0 .. Tries \subseteq S
  <2> HIDE DEF S
  <2>1. QED
    BY <1>1, <1>6, <1>7, CountingUp
<1>9. Tries \in S
  BY <1>1, <1>8
<1>10. QED
  BY <1>2, <1>9

\* A packet for which the buffer is long enough needs no tries.
LEMMA NoTries ==
  ASSUME NEW b \in Nat, NEW orig \in Nat, NEW n \in Nat, b >= orig
  PROVE  Enlarged(b, orig, n) \in Nat /\ Enlarged(b, orig, n) >= orig
<1>1. Enlarged(b, orig, n) \in Nat /\ b <= Enlarged(b, orig, n)
  BY EnlargedBounds
<1>2. QED
  BY <1>1

\* A packet that is handed over compressed has needed its last try.
LEMMA HandedOver ==
  ASSUME NEW b \in Nat, NEW orig \in Nat, Enlarged(b, orig, Tries) < orig
  PROVE  Enlarged(b, orig, Tries - 1) < orig
<1>1. /\ Tries \in Nat /\ Tries - 1 \in Nat
      /\ Tries - 1 \in 0 .. Tries /\ Tries \in Tries - 1 .. Tries
  BY SomeTries
<1>2. PICK g \in [0 .. Tries -> Nat] :
        /\ Enlarges(g, b, orig, Tries)
        /\ Enlarged(b, orig, Tries - 1) = g[Tries - 1]
        /\ Enlarged(b, orig, Tries) = g[Tries]
  BY LastTry
<1>3. ~ (g[Tries - 1] >= orig)
  <2>1. ASSUME g[Tries - 1] >= orig
        PROVE  FALSE
    <3>1. g[Tries] >= orig
      BY <1>1, <1>2, <2>1, LongEnoughStays
    <3>2. g[Tries] \in Nat
      BY <1>1
    <3>3. QED
      BY <3>1, <3>2, <1>2
  <2>2. QED
    BY <2>1
<1>4. g[Tries - 1] \in Nat
  BY <1>1
<1>5. QED
  BY <1>2, <1>3, <1>4

\* The buffer has grown by all the tries of each packet handed over: f are its
\* lengths from the shortest first buffer on, longest the most it can be asked for.
Climbed(f, longest) ==
  /\ raws \in 0 .. 3
  /\ buf = 0 => raws = 0
  /\ buf # 0 => AsLongAs(buf, longest, f[Tries * raws])

\* A packet that is decoded, or not, keeps that.
LEMMA DecodeClimbs ==
  ASSUME NEW start \in Nat, NEW longest \in Nat,
         NEW f \in [0 .. 3 * Tries -> Nat], Enlarges(f, start, longest, 3 * Tries),
         f[3 * Tries] >= longest,
         NEW len \in Nat \ {0}, start <= Factor * len,
         NEW orig \in Nat, orig <= longest, NEW damaged \in BOOLEAN,
         InProportion, Climbed(f, longest), Decode(len, orig, damaged)
  PROVE  Climbed(f, longest)'
<1>1. /\ Factor \in Nat \ {0} /\ Growth \in Nat /\ Tries \in Nat /\ Tries - 1 \in Nat
      /\ buf \in Nat
  BY DecodeAssumption DEF InProportion
<1>2. PICK b : b = IF buf = 0 THEN FirstBuffer(len) ELSE buf
  OBVIOUS
<1>3. b \in Nat /\ b # 0
  <2>1. Factor * len \in Nat /\ Factor * len # 0
    BY <1>1
  <2>2. QED
    BY <2>1, <1>1, <1>2 DEF FirstBuffer
<1>4. /\ buf' = Enlarged(b, orig, Tries)
      /\ \/ raws' = raws
         \/ raws' = raws + 1 /\ Enlarged(b, orig, Tries - 1) < orig
  <2>1. buf' = Enlarged(b, orig, Tries)
    BY <1>2 DEF Decode, Kept
  <2>2. /\ got' = IF damaged /\ Enlarged(b, orig, Tries - 1) < orig THEN "damaged"
                  ELSE IF Enlarged(b, orig, Tries) < orig THEN "raw"
                  ELSE IF damaged THEN "dropped" ELSE "decoded"
        /\ raws' = IF got' \in {"raw", "damaged"} THEN raws + 1 ELSE raws
    BY <1>2 DEF Decode
  <2>3. Enlarged(b, orig, Tries) < orig => Enlarged(b, orig, Tries - 1) < orig
    BY <1>3, HandedOver
  <2>4. raws' # raws => raws' = raws + 1 /\ got' \in {"raw", "damaged"}
    BY <2>2
  <2>5. got' \in {"raw", "damaged"} => Enlarged(b, orig, Tries - 1) < orig
    BY <2>2, <2>3
  <2>6. QED
    BY <2>1, <2>4, <2>5
<1>5. raws \in 0 .. 3
  BY DEF Climbed
<1>6. /\ Tries * raws \in Nat /\ Tries * raws <= 3 * Tries /\ Tries * 0 = 0
      /\ Tries * (raws + 1) = Tries * raws + Tries
      /\ Tries * 3 = 3 * Tries
  <2>1. raws \in {0, 1, 2, 3}
    BY <1>5
  <2>2. QED
    BY <2>1, <1>1
<1>7. f[Tries * raws] \in Nat /\ AsLongAs(b, longest, f[Tries * raws])
  <2>1. f[Tries * raws] \in Nat
    BY <1>6
  <2>2. CASE buf = 0
    <3>1. raws = 0
      BY <2>2 DEF Climbed
    <3>2. f[Tries * raws] = start
      BY <3>1, <1>6 DEF Enlarges
    <3>3. QED
      BY <3>2, <2>1, <2>2, <1>2, <1>3 DEF AsLongAs, FirstBuffer
  <2>3. CASE buf # 0
    BY <2>1, <2>3, <1>2 DEF Climbed
  <2>4. QED
    BY <2>2, <2>3
<1>8. Enlarged(b, orig, Tries) \in Nat /\ b <= Enlarged(b, orig, Tries)
  BY <1>1, <1>3, EnlargedBounds
<1>9. buf' # 0
  BY <1>3, <1>4, <1>8
<1>10. CASE raws' = raws
  <2>1. AsLongAs(buf', longest, f[Tries * raws'])
    BY <1>3, <1>4, <1>7, <1>8, <1>10 DEF AsLongAs
  <2>2. QED
    BY <2>1, <1>5, <1>9, <1>10 DEF Climbed
<1>11. CASE raws' = raws + 1 /\ Enlarged(b, orig, Tries - 1) < orig
  <2>1. raws # 3
    <3>1. SUFFICES ASSUME raws = 3
                   PROVE  FALSE
      OBVIOUS
    <3>2. b >= orig
      BY <3>1, <1>3, <1>6, <1>7 DEF AsLongAs
    <3>3. Enlarged(b, orig, Tries - 1) \in Nat /\ Enlarged(b, orig, Tries - 1) >= orig
      BY <3>2, <1>1, <1>3, NoTries
    <3>4. QED
      BY <3>3, <1>11
  <2>2. Tries * raws + Tries <= 3 * Tries
    <3>1. raws \in {0, 1, 2}
      BY <1>5, <2>1
    <3>2. QED
      BY <3>1, <1>1
  <2>3. AsLongAs(Enlarged(b, orig, Tries), longest, f[Tries * raws + Tries])
    <3>1. 3 * Tries \in Nat
      BY <1>1
    <3>2. QED
      BY <3>1, <2>2, <1>1, <1>3, <1>6, <1>7, <1>11, AllTheTries
  <2>4. AsLongAs(buf', longest, f[Tries * raws'])
    BY <2>3, <1>4, <1>6, <1>11
  <2>5. raws' \in 0 .. 3
    BY <1>5, <1>11, <2>1
  <2>6. QED
    BY <2>4, <2>5, <1>9 DEF Climbed
<1>12. QED
  BY <1>4, <1>10, <1>11

\* Where three times the tries take the shortest first buffer to the most that any
\* packet can decode to, as they do with the lengths of the program, three packets
\* are the most that are handed over compressed, however many come.
THEOREM RawIsRare ==
  ASSUME NEW lo \in Nat, NEW hi \in Nat,
         \A len \in Bodies : lo <= len /\ len <= hi,
         Enlarged(Factor * lo, MaxRatio * hi, 3 * Tries) >= MaxRatio * hi
  PROVE  Spec => []RawAtMostThrice
<1>1. PICK start \in Nat, longest \in Nat :
        start = Factor * lo /\ longest = MaxRatio * hi
  BY DecodeAssumption, Products
<1>2. Factor \in Nat /\ MaxRatio \in Nat /\ 3 * Tries \in Nat
  BY DecodeAssumption
<1>3. PICK f \in [0 .. 3 * Tries -> Nat] :
        /\ Enlarges(f, start, longest, 3 * Tries)
        /\ Enlarged(start, longest, 3 * Tries) = f[3 * Tries]
  <2>1. \A n \in Nat : \E f \in [0 .. n -> Nat] :
          Enlarges(f, start, longest, n) /\ Enlarged(start, longest, n) = f[n]
    BY <1>1, EnlargedIsLast
  <2>2. QED
    BY <2>1, <1>2
<1>4. f[3 * Tries] >= longest
  BY <1>1, <1>3
<1> DEFINE Rare == InProportion /\ Climbed(f, longest)
<1>5. Init => Rare
  <2>1. ASSUME Init
        PROVE  Rare
    <3>1. buf = 0 /\ first = 0 /\ largest = 0 /\ raws = 0
      BY <2>1 DEF Init
    <3>2. QED
      BY <3>1, <1>2 DEF InProportion, Climbed
  <2>2. QED
    BY <2>1
<1>6. Rare /\ [Next]_vars => Rare'
  <2> SUFFICES ASSUME Rare, [Next]_vars
               PROVE  Rare'
    OBVIOUS
  <2>1. ASSUME NEW len \in Bodies, NEW orig \in Origs(len), NEW damaged \in BOOLEAN,
               Decode(len, orig, damaged)
        PROVE  Rare'
    <3>1. len \in Nat \ {0} /\ orig \in Nat /\ orig <= MaxRatio * len
      BY <2>1, OrigsAreNumbers, DecodeAssumption
    <3>2. lo <= len /\ len <= hi
      OBVIOUS
    <3>3. start <= Factor * len
      BY <1>1, <1>2, <3>1, <3>2, Products
    <3>4. MaxRatio * len <= MaxRatio * hi /\ MaxRatio * len \in Nat
      BY <1>2, <3>1, <3>2, Products
    <3>5. orig <= longest
      BY <1>1, <3>1, <3>4
    <3>6. InProportion'
      BY <2>1, <3>1, DecodeKeeps
    <3>7. Climbed(f, longest)'
      BY <1>3, <1>4, <2>1, <3>1, <3>3, <3>5, DecodeClimbs
    <3>8. QED
      BY <3>6, <3>7
  <2>2. ASSUME UNCHANGED <<buf, first, largest, raws>>
        PROVE  Rare'
    BY <2>2 DEF InProportion, Climbed
  <2>3. QED
    BY <2>1, <2>2 DEF Next, SendMessage, Plain, vars, inVars
<1>7. Rare => RawAtMostThrice
  BY DEF Climbed, RawAtMostThrice
<1>8. QED
  BY <1>5, <1>6, <1>7, PTL DEF Spec
==============================================================================
