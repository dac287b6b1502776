------------------------------- MODULE Shutdown -------------------------------
(***************************************************************************)
(* The life of the net thread around SocketManager: it is created detached *)
(* (Thread_t.h) when the network is first used, and ~SocketManager, on the *)
(* main thread, asks it to stop by clearing m_isRunning, sleeps for a      *)
(* second, and then deletes the clients and the buffers whether the thread *)
(* has ended or not.  The thread sets m_isRunning itself when it starts.   *)
(*                                                                         *)
(* The loop of Run tests m_isRunning where a pass begins.  A pass that     *)
(* waits neither in open nor in Send takes much less than the second, so   *)
(* when it is over the thread has ended or is inside one of these.  If it  *)
(* is still there when the memory goes, the behaviour of the program is    *)
(* undefined, and the model stops.                                         *)
(***************************************************************************)
EXTENDS SocketManager

CONSTANT MaxCalls         \* bound: calls of the main thread

ASSUME MaxCallsAssumption == MaxCalls \in Nat

VARIABLES
  calls,                  \* calls made so far
  thread,                 \* "none", "created", "running" or "ended"
  running,                \* m_isRunning
  dtor                    \* ~SocketManager: "no", "waiting", "freeing", "done"

shutVars  == <<thread, running, dtor>>
groupVars == <<vars, shutVars, calls>>

ShutInit ==
  /\ Init
  /\ thread = "none" /\ running = FALSE /\ dtor = "no"
  /\ calls = 0

----------------------------------------------------------------------------
(* The net thread.                                                         *)

\* NetManager::run and RunThread, whose result does not tell whether the thread
\* was created.
RunThread ==
  /\ dtor = "no"
  /\ thread = "none"
  /\ thread' \in {"created", "ended"}
  /\ UNCHANGED <<vars, running, dtor, calls>>

\* StartThread reaches Run.
EnterRun ==
  /\ dtor # "done"
  /\ thread = "created"
  /\ thread' = "running"
  /\ running' = TRUE
  /\ UNCHANGED <<vars, dtor, calls>>

\* Mutant: a pass without clients goes on without the test.
GoesOnWithoutClients == pc = "deleting" => running \/ Entries(client) = {}

\* The test of the loop.
GoesOn == pc = "deleting" => running

NetStep ==
  /\ dtor # "done"
  /\ thread = "running"
  /\ GoesOn
  /\ Run
  /\ UNCHANGED <<shutVars, calls>>

LoopEnds ==
  /\ dtor # "done"
  /\ thread = "running"
  /\ ~ GoesOn
  /\ thread' = "ended"
  /\ UNCHANGED <<vars, running, dtor, calls>>

NetThread == EnterRun \/ NetStep \/ LoopEnds

----------------------------------------------------------------------------
(* The main thread.                                                        *)

\* The net thread is created before the first connect is asked for.
Calls ==
  /\ dtor = "no" /\ thread # "none"
  /\ calls < MaxCalls
  /\ Main
  /\ calls' = calls + 1
  /\ UNCHANGED shutVars

\* ~NetManager, and ~SocketManager up to its wait: only for a thread that runs.
Stop ==
  /\ dtor = "no" /\ thread # "none"
  /\ NoDangling
  /\ running' = FALSE
  /\ dtor' = IF running THEN "waiting" ELSE "freeing"
  /\ UNCHANGED <<vars, thread, calls>>

\* What may outlast the second: connect, the name resolution that open begins
\* with, and Send.
Inside == \/ pc = "opening"
          \/ pc = "adding" /\ Pending # {}
          \/ InSend

WaitOver ==
  /\ dtor = "waiting"
  /\ thread = "ended" \/ Inside
  /\ dtor' = "freeing"
  /\ UNCHANGED <<vars, thread, running, calls>>

\* The rest of ~SocketManager: of all the maps only the clients are closed and
\* deleted.
FreeClients ==
  /\ dtor = "freeing"
  /\ NoDangling
  /\ Replace({client[c] : c \in Entries(client)}, None, None)
  /\ client' = NoEntries
  /\ dtor' = "done"
  /\ UNCHANGED <<netVars, adding, deleting, closing, reconVars, flagVars,
                 fdsetVars, sendq, ghostVars, thread, running, calls>>

Destructor == Stop \/ WaitOver \/ FreeClients

ShutWorld == dtor # "done" /\ World /\ UNCHANGED <<shutVars, calls>>

ShutNext == RunThread \/ NetThread \/ Calls \/ Destructor \/ ShutWorld

ShutSpec == ShutInit /\ [][ShutNext]_groupVars

\* Both threads are scheduled, though Send may wait for ever; nobody is made to
\* destroy the manager.
ShutFairSpec == /\ ShutSpec
                /\ WF_groupVars(NetThread /\ ~ InSend)
                /\ WF_groupVars(WaitOver \/ FreeClients)

----------------------------------------------------------------------------
(* Properties.                                                             *)

\* Every variable stays in its range.
ShutTypeOK ==
  /\ TypeOK
  /\ thread \in {"none", "created", "running", "ended"}
  /\ running \in BOOLEAN
  /\ dtor \in {"no", "waiting", "freeing", "done"}
  /\ calls \in 0 .. MaxCalls

\* As long as there is a manager, no map of it keeps a deleted socket.
NoDanglingBefore == dtor # "done" => NoDangling

\* A manager that was destroyed after its thread ended leaves no connection
\* open, although only the sockets of one of its four maps are closed.
NothingLeftOpen ==
  dtor = "done" /\ thread \in {"none", "ended"} => \A f \in Fds : open[f] = None

\* The wait of ~SocketManager is for something: a thread that was told to stop
\* ends its pass and returns, or it waits inside open or Send.
StopIsHeard ==
  (dtor = "waiting") ~> (thread = "ended" \/ Inside)
===============================================================================
