-------------------------------- MODULE Packets --------------------------------
(***************************************************************************)
(* The lengths of packets (MsgProcessHandler.cpp, package.head.h).  On the *)
(* way out a message gets a header in a buffer of SendBuf bytes, then the  *)
(* connection index in another of CodeBuf bytes, then a place in the send  *)
(* queue: three limits, of which only the first and the last are tested.   *)
(*                                                                         *)
(* On the way in, a compressed message is decoded into a buffer that is    *)
(* made for the first one, enlarged when one does not fit, and kept.  After*)
(* Tries enlargements a packet that still does not fit is handed to the    *)
(* script as it came, compressed.                                          *)
(*                                                                         *)
(* Only lengths are modelled: a compressed packet is the length of its     *)
(* body and the length it decodes to.                                      *)
(***************************************************************************)
EXTENDS Integers, FiniteSetsExt

CONSTANTS SendBuf,        \* m_iSendBufferLen (kSEND_BUFF_LEN)
          CodeBuf,        \* m_iCodeBufferLen (kSEND_BUFF_LEN)
          QueueLen,       \* bytes of the send queue without the reserved ones
          HeadLen,        \* bytes of the length word and of the index
          PHDR_LEN,       \* bytes of the packet header
          Factor,         \* the first decode buffer, in lengths of its packet
          Growth, Tries,  \* how it is enlarged, and how often for a packet
          MaxRatio,       \* external: zlib never decodes to more than that
          Lens,           \* lengths the script sends
          Bodies          \* lengths of the compressed bodies that come in

ASSUME SendAssumption ==
  /\ {SendBuf, CodeBuf, QueueLen, HeadLen, PHDR_LEN} \subseteq Nat
  /\ PHDR_LEN <= SendBuf /\ Lens \subseteq Nat
\* SocketManager::init and initNetManager: all three are kSEND_BUFF_LEN bytes,
\* of which the queue uses some for itself.
ASSUME LimitAssumption ==
  HeadLen > 0 /\ QueueLen <= CodeBuf /\ QueueLen <= SendBuf
ASSUME DecodeAssumption ==
  /\ {Factor, Growth, Tries, MaxRatio} \subseteq Nat \ {0}
  /\ Bodies \subseteq Nat \ {0}

VARIABLES sent,           \* history: the message handed over last
          buf,            \* uncompressBufferLen_, 0 before there is a buffer
          got,            \* history: what became of the last packet
          first, largest, \* history: first body, longest decoded length
          raws            \* history: packets handed over compressed

inVars == <<buf, got, first, largest, raws>>
vars == <<sent, inVars>>

----------------------------------------------------------------------------
(* Sending.                                                                *)

\* doSerializeMsg: what does not fit behind the header is cut off.
Body(len) == Min({len, SendBuf - PHDR_LEN})

\* Mutant: the queue takes what it is given.
TakesAnything(n) == TRUE

\* append2 has room for a message of n bytes at most when the ring is as long.
Takes(n) == HeadLen + n <= QueueLen

\* sendMessage -> doSerializeMsg -> SendTo -> SocketManager::SendMessage, which
\* copies the packet behind the index without a test.  A queue that is not
\* empty may refuse.
SendMessage(len) ==
  LET n == HeadLen + PHDR_LEN + Body(len) IN
  /\ \E accepted \in {FALSE, Takes(n)} :
       sent' = [asked |-> len, copied |-> Body(len), accepted |-> accepted,
                outside |-> n > CodeBuf]
  /\ UNCHANGED inVars

----------------------------------------------------------------------------
(* Receiving.                                                              *)

\* Mutant: a buffer of the packet's own length.
FirstBufferSame(len) == len

\* The buffer that is made for the first compressed packet.
FirstBuffer(len) == Factor * len

\* Mutant: the loop does not stop when the packet is decoded.
EnlargedAlways(b, orig, n) ==
  LET size[k \in 0 .. n] == IF k = 0 THEN b ELSE Growth * size[k - 1]
  IN  size[n]

\* The loop of unSerializeMsg: enlarged while uncompress says that orig bytes
\* do not fit, n times at most.
Enlarged(b, orig, n) ==
  LET size[k \in 0 .. n] == IF k = 0 THEN b
                            ELSE IF size[k - 1] >= orig THEN size[k - 1]
                            ELSE Growth * size[k - 1]
  IN  size[n]

\* Mutant: the enlarged buffer is not kept.
KeptAsItWas(b, enlarged) == b

\* What is left for the next packet.
Kept(b, enlarged) == enlarged

\* process -> unSerializeMsg, of a packet with a compressed body.  A damaged one
\* is found out after orig decoded bytes, and is dropped, unless that took all
\* the tries: the loop looks at the count before it looks at the error.
Decode(len, orig, damaged) ==
  LET b == IF buf = 0 THEN FirstBuffer(len) ELSE buf
      enlarged == Enlarged(b, orig, Tries)
      lastTry == Enlarged(b, orig, Tries - 1) < orig
  IN  /\ buf' = Kept(b, enlarged)
      /\ got' = IF damaged /\ lastTry THEN "damaged"
                ELSE IF enlarged < orig THEN "raw"
                ELSE IF damaged THEN "dropped" ELSE "decoded"
      /\ raws' = IF got' \in {"raw", "damaged"} THEN raws + 1 ELSE raws
      /\ first' = IF buf = 0 THEN len ELSE first
      /\ largest' = Max({largest, orig})
      /\ UNCHANGED sent

\* A packet whose command says that it is not compressed.
Plain == got' = "plain" /\ UNCHANGED <<sent, buf, first, largest, raws>>

\* Decoded lengths of interest for a body of length len, as far as zlib goes.
Origs(len) ==
  {orig \in {len, Factor * len, Factor * len + 1, 100 * len, MaxRatio * len} :
     orig <= MaxRatio * len}

Init == /\ sent = [asked |-> 0, copied |-> 0, accepted |-> FALSE,
                   outside |-> FALSE]
        /\ buf = 0 /\ got = "none" /\ first = 0 /\ largest = 0 /\ raws = 0

Next == \/ \E len \in Lens : SendMessage(len)
        \/ \E len \in Bodies : \E orig \in Origs(len) :
             \E damaged \in BOOLEAN : Decode(len, orig, damaged)
        \/ Plain

Spec == Init /\ [][Next]_vars

----------------------------------------------------------------------------
(* Properties.                                                             *)

\* A message that SendMessage accepted was neither cut nor written past the
\* end of m_pCodeBuffer: the queue, although it is tested last, is the tightest
\* of the three limits.
AcceptedIsWhole ==
  sent.accepted => sent.copied = sent.asked /\ ~ sent.outside

\* The packet that makes the buffer is never handed over compressed, whatever
\* its ratio, unless it is damaged.
FirstIsDecoded == [][buf = 0 => got' # "raw"]_vars

\* The buffer is kept, so the script gets a packet that is still compressed at
\* most three times, however many come.
RawAtMostThrice == raws <= 3

\* Nor is the buffer ever much longer than what had to be decoded.
BufferInProportion == buf <= Max({Factor * first, Growth * largest})
================================================================================
