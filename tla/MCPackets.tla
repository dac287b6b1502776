------------------------------ MODULE MCPackets ------------------------------
(***************************************************************************)
(* Packets with the lengths of net-common.h, and the lengths around them.  *)
(***************************************************************************)
EXTENDS Packets

\* The last length each limit lets through, and the next: that of the queue, of
\* m_pCodeBuffer, of m_pSendBuffer.
MCLens == {0, 1} \cup (130984 .. 130985) \cup (131052 .. 131053)
            \cup (131056 .. 131057)

\* From the shortest body zlib makes to the longest that fits a packet.
MCBodies == {8, 9, 100, 5000, 524272}

\* What the theorem FirstFits supposes: five times, and five tripled five times,
\* are enough for one byte at zlib's highest ratio.
ASSUME EnoughAssumption == Enlarged(Factor, MaxRatio, Tries) >= MaxRatio

\* What the theorem RawIsRare supposes, for all bodies from the shortest to the
\* longest: fifteen times three are enough.
ASSUME RareAssumption ==
  /\ \A len \in Bodies : 8 <= len /\ len <= 524272
  /\ Enlarged(Factor * 8, MaxRatio * 524272, 3 * Tries) >= MaxRatio * 524272
==============================================================================
