-------------------------------- MODULE Session --------------------------------
(***************************************************************************)
(* What NetSocket.lua lets a script believe of each of its objects, if it  *)
(* waits for the answer to what it asks: an object is connected only as the*)
(* answer to a connect or reconnect, one answer for each, and nothing      *)
(* happens to an object that was destroyed.                                *)
(***************************************************************************)
CONSTANT Objects

VARIABLE status           \* of each object: "idle", "asked", "up" or "gone"

Init == status = [o \in Objects |-> "idle"]

Becomes(o, before, after) ==
  /\ status[o] \in before
  /\ status' = [status EXCEPT ![o] = after]

Ask(o)     == Becomes(o, {"idle"}, "asked")
Up(o)      == Becomes(o, {"asked"}, "up")
Fail(o)    == Becomes(o, {"asked"}, "idle")
End(o)     == Becomes(o, {"up"}, "idle")
Destroy(o) == Becomes(o, {"idle", "asked", "up"}, "gone")

Next == \E o \in Objects : Ask(o) \/ Up(o) \/ Fail(o) \/ End(o) \/ Destroy(o)

Spec == Init /\ [][Next]_status
================================================================================
