------------------------------ MODULE NetSocket ------------------------------
(***************************************************************************)
(* The script's view of the connections: NetSocket.lua on top of           *)
(* MsgProcessHandler and NetManager, composed with SocketManager.  Each    *)
(* NetSocket has a connection index of its own.  What the net thread posts *)
(* is an event in the receive queue; the frame callback NetManager::Update *)
(* takes one event in a frame and hands it to the object in socketArr.     *)
(* So the object's _isConnected lags behind the connection, and its close, *)
(* which the handlers of the events also call, acts on whatever socket the *)
(* index has by then.                                                      *)
(*                                                                         *)
(* All of it runs on the main thread, so a call of the script is one step. *)
(* The script never turns automatic reconnection on (MsgProcessHandler     *)
(* starts NetManager with it off).                                         *)
(***************************************************************************)
EXTENDS SocketManager

CONSTANTS EvCap,          \* events the receive queue has room for
          Patient         \* does the script wait for the answer to a connect?

ASSUME EvCapAssumption == EvCap \in Nat /\ Patient \in BOOLEAN

VARIABLES
  inited,                 \* m_bInited: there is a NetManager and a net thread
  inArr,                  \* the objects that socketArr holds
  isConnected,            \* the objects whose _isConnected is true
  events,                 \* receive queue: <<index, event>>
  asked,                  \* history: accepted connects not answered yet
  overflow                \* history: an event found the queue full

luaVars == <<inited, inArr, isConnected, events, asked, overflow>>
allVars == <<vars, luaVars>>

LuaInit ==
  /\ Init /\ auto = FALSE
  /\ inited = FALSE /\ inArr = Conns /\ isConnected = {}
  /\ events = <<>> /\ asked = {} /\ overflow = FALSE

----------------------------------------------------------------------------
(* The script.                                                             *)

MayAsk(c) == c \in inArr /\ (Patient => c \notin isConnected \cup asked)

\* The first connect makes the NetManager and starts the net thread.
InitNetManager == inited' = TRUE

\* connect -> connectToServer.  The result of addConnect is not handed on.
Connect(c) ==
  /\ MayAsk(c)
  /\ InitNetManager
  /\ IF IndexFree(c)
     THEN AddConnect(c) /\ asked' = asked \cup {c}
     ELSE UNCHANGED <<vars, asked>>
  /\ UNCHANGED <<inArr, isConnected, events, overflow>>

\* reconnect -> reconnectToServer.
Reconnect(c) ==
  /\ MayAsk(c)
  /\ inited
  /\ ReConnect(c)
  /\ asked' = asked \cup {c}
  /\ UNCHANGED <<inited, inArr, isConnected, events, overflow>>

\* Mutant: close of an object that knows of no connection goes on too.
CloseAnyway(c) == RemoveConnect(c) /\ isConnected' = isConnected \ {c}

\* close: nothing, unless the object knows of a connection.
CloseIt(c) == /\ IF c \in isConnected THEN RemoveConnect(c) ELSE UNCHANGED vars
              /\ isConnected' = isConnected \ {c}

\* Mutant: the connection is left to itself.
DestroyOnly(c) ==
  /\ c \in inArr
  /\ isConnected' = isConnected \ {c}
  /\ inArr' = inArr \ {c}
  /\ UNCHANGED <<vars, inited, events, asked, overflow>>

Close(c) ==
  /\ c \in inArr \cap isConnected
  /\ CloseIt(c)
  /\ UNCHANGED <<inited, inArr, events, asked, overflow>>

\* destroy: close, and out of socketArr.
Destroy(c) ==
  /\ c \in inArr
  /\ CloseIt(c)
  /\ inArr' = inArr \ {c}
  /\ UNCHANGED <<inited, events, asked, overflow>>

\* sendMsg: for a connection that does not exist it does nothing.
SendMsg(c) ==
  /\ c \in inArr
  /\ SendMessage(c)
  /\ UNCHANGED luaVars

Script == \E c \in Conns :
            Connect(c) \/ Reconnect(c) \/ Close(c) \/ Destroy(c) \/ SendMsg(c)

----------------------------------------------------------------------------
(* The frame callback.                                                     *)

\* Mutant: the handler of an end does not call close.
HandleNoClose(c, event) ==
  /\ isConnected' = IF event = "connect" THEN isConnected \cup {c}
                    ELSE isConnected
  /\ UNCHANGED vars

\* Mutant: the handler of a connect only tells the listener.
HandleNoFlag(c, event) ==
  IF event \in {"connect", "netmsg"}
  THEN UNCHANGED <<isConnected, vars>>
  ELSE CloseIt(c)

\* onNetEvent and its handlers.  What ends a connection closes it as well.
Handle(c, event) ==
  IF event = "connect"
  THEN isConnected' = isConnected \cup {c} /\ UNCHANGED vars
  ELSE IF event = "netmsg" THEN UNCHANGED <<isConnected, vars>>
  ELSE CloseIt(c)

\* MsgProcessHandler's callbacks, through onScriptNetMsg and the handler the
\* script registered: what is for no object of socketArr is dropped.
Deliver(c, event) ==
  \/ /\ c \in inArr
     /\ Handle(c, event)
     /\ asked' = IF event \in {"connect", "failed"} THEN asked \ {c} ELSE asked
  \/ /\ c \notin inArr
     /\ UNCHANGED <<isConnected, asked, vars>>

\* Mutant: the event stays in the queue (PM_NOREMOVE).
UpdateNoRemove ==
  /\ inited
  /\ events # <<>>
  /\ Deliver(Head(events)[1], Head(events)[2])
  /\ UNCHANGED <<inited, inArr, events, overflow>>

\* NetManager::Update.
Update ==
  /\ inited
  /\ events # <<>>
  /\ Deliver(Head(events)[1], Head(events)[2])
  /\ events' = Tail(events)
  /\ UNCHANGED <<inited, inArr, overflow>>

----------------------------------------------------------------------------
(* The net thread: what it posts goes to the receive queue, and is lost    *)
(* when that is full (_do_post_recved_buff, whose result nobody looks at). *)

\* Mutant: the queue takes everything.
ReceiveAlways(new) == events' = Append(events, new) /\ UNCHANGED overflow

Receive(new) ==
  IF Len(events) < EvCap
  THEN events' = Append(events, new) /\ UNCHANGED overflow
  ELSE UNCHANGED events /\ overflow' = TRUE

\* Events of this step, for at most one connection.
Posted == {c \in Conns : told'[c] # told[c]}

Steps ==
  /\ inited
  /\ Run
  /\ IF Posted # {}
     THEN \E c \in Posted : Receive(<<c, told'[c][1]>>)
     ELSE UNCHANGED <<events, overflow>>
  /\ UNCHANGED <<inited, inArr, isConnected, asked>>

\* PostRecvMessageFrom posts a message of a connection that it reads from.
StepWithMessage ==
  /\ inited
  /\ Dispatch
  /\ Reaches(First(Readable))
  /\ Receive(<<it', "netmsg">>)
  /\ UNCHANGED <<inited, inArr, isConnected, asked>>

LuaWorld == World /\ UNCHANGED luaVars

LuaNext == Script \/ Update \/ Steps \/ StepWithMessage \/ LuaWorld

LuaSpec == LuaInit /\ [][LuaNext]_allVars

\* The frame callback is scheduled in every frame; the net thread is never stopped
\* unless it is inside Send.
LuaFairSpec == /\ LuaSpec
               /\ WF_allVars(Steps /\ ~ InSend)
               /\ WF_allVars(Update)
               /\ \A c \in Conns : WF_allVars(DelayOver(c) /\ UNCHANGED luaVars)

----------------------------------------------------------------------------
(* Properties.                                                             *)

\* Every variable stays in its range.
LuaTypeOK ==
  /\ TypeOK
  /\ inited \in BOOLEAN /\ overflow \in BOOLEAN
  /\ inArr \subseteq Conns /\ isConnected \subseteq Conns /\ asked \subseteq Conns
  /\ events \in Seq(Conns \X {"connect", "broken", "failed", "netmsg"})
  /\ Len(events) <= EvCap

\* The connection under index c is up, and nobody has closed it.
Live(c) == /\ client[c] # None /\ up[client[c]]
           /\ closing[c] = None /\ deleting[c] = None

\* What isConnected of NetSocket.lua answers: an object that says so has a live
\* connection, or the event that it ended is still to be handled.
FlagIsTrue ==
  ~ overflow =>
    \A c \in isConnected :
      Live(c) \/ \E i \in DOMAIN events : events[i] = <<c, "broken">>

\* The other way round: an object with a live connection learns of it.
LiveIsTold ==
  \A c \in Conns :
    (Live(c) /\ c \in inArr) ~>
      (c \in isConnected \/ ~ Live(c) \/ c \notin inArr \/ overflow)

\* If sends return, destroy leaves no connection behind, unless the answer to a
\* connect of the object is still to come.
DestroyedIsClosed ==
  SendsReturn =>
    \A c \in Conns : (c \notin inArr /\ c \notin asked) ~> (client[c] = None)

\* A script that waits for its answers sees the life of an object as Session has
\* it: no answer comes twice, or to an object that was closed or destroyed.
Object == INSTANCE Session WITH
  Objects <- Conns,
  status  <- [c \in Conns |-> IF c \notin inArr THEN "gone"
                              ELSE IF c \in isConnected THEN "up"
                              ELSE IF c \in asked THEN "asked" ELSE "idle"]

ImplementsSession == Object!Spec

\* The net thread still has the request of c, or its answer is in the queue.
Pursued(c) == \/ adding[c] # None \/ c \in addRecon \/ recon[c] # Absent
              \/ \E i \in DOMAIN events : events[i][1] = c

\* If sends return, a connect or reconnect is answered, unless the net thread lost
\* the request (the hazards of m_addReconnMap and m_addingSocketMap) or the
\* answer (a full receive queue).
AskIsAnswered ==
  SendsReturn =>
    \A c \in Conns :
      (c \in asked /\ c \in inArr) ~>
        (c \notin asked \/ c \notin inArr \/ ~ Pursued(c) \/ overflow)
=============================================================================
