-------------------------------- MODULE Fifo --------------------------------
(***************************************************************************)
(* What a message queue between two threads promises: messages are taken   *)
(* one by one, whole, in the order in which they were sent, and every      *)
(* message that was sent is eventually taken.  A send that the bounded     *)
(* implementation refuses is not a send: it leaves both histories alone.   *)
(***************************************************************************)
EXTENDS Naturals, Sequences

CONSTANT Payload          \* what a message carries

VARIABLES sent,           \* every message sent so far, in order
          received        \* every message taken so far, in order

fifoVars == <<sent, received>>

Init == sent = <<>> /\ received = <<>>

\* A message is named by its position, so that equal payloads stay distinct.
Send == \E p \in Payload :
          /\ sent' = Append(sent, <<Len(sent) + 1, p>>)
          /\ UNCHANGED received

Receive == /\ Len(received) < Len(sent)
           /\ received' = Append(received, sent[Len(received) + 1])
           /\ UNCHANGED sent

Next == Send \/ Receive

SafeSpec == Init /\ [][Next]_fifoVars

Spec == SafeSpec /\ WF_fifoVars(Receive)
=============================================================================
