---------------------------- MODULE MCRecvStream ----------------------------
(* Instance of RecvStream: a message shorter than half the buffer, one that *)
(* fills most of it, and a short one again.                                 *)
EXTENDS RecvStream

MCLens == <<3, 5, 4>>

\* The passing run follows a behavior until a call has returned after the
\* shared buffer was used as it must not be.
UpToSpoiled == spoiled => pc = "idle"
=============================================================================
