---------------------------- MODULE SocketManager ----------------------------
(***************************************************************************)
(* SocketManager (socket/SocketManager.cpp): the connections of the        *)
(* program, driven by two threads with no lock.  The main thread calls     *)
(* addConnect, removeConnect, reConnect, SendMessage and setAutoConnect;   *)
(* the net thread runs Run's loop: delete, reconnect, open, send, select.  *)
(*                                                                         *)
(* A call of the main thread is one step.  The net thread's loop is cut    *)
(* where it waits (connect, send and select), between its phases, between  *)
(* the entries it retries, opens and dispatches to, and between the set    *)
(* that watches a new client and the map that holds it: a call of the main *)
(* thread may come in between.  The loops over m_deletingSocketMap and     *)
(* m_addReconnMap are one step each.  A data race inside one std::map      *)
(* operation is outside of the model.  Once a map holds a pointer to a     *)
(* deleted object the behaviour of the program is undefined, and the model *)
(* stops there.                                                            *)
(***************************************************************************)
EXTENDS Integers, Sequences, FiniteSetsExt

CONSTANTS Conns,          \* connection indices, ordered as in a std::map
          NSocks,         \* bound: ClientSocket objects alive at once
          NFds,           \* bound: descriptors of the process
          MaxRetry,       \* m_maxReconnCount
          SendCap,        \* bound: messages waiting in the send queue
          Api,            \* the calls the main thread makes
          AddsOverlap     \* may it call addConnect while one is pending?

ASSUME ConnsAssumption == Conns \subseteq Nat \ {0} /\ IsFiniteSet(Conns)
ASSUME BoundsAssumption ==
  /\ NSocks \in Nat /\ NFds \in Nat /\ MaxRetry \in Nat /\ SendCap \in Nat
  /\ AddsOverlap \in BOOLEAN
ASSUME ApiAssumption == Api \subseteq {"remove", "reconnect", "send", "auto"}

VARIABLES
  pc, it, cur, ready,     \* net thread: phase, map iterator, socket, select
  client, adding, deleting, closing,     \* maps from index to socket
  recon, due,             \* m_reconnectingMap: attempts made; delay over
  addRecon, lost,         \* keys of m_addReconnMap and m_disconnectedMap
  auto, retry, allOk,     \* m_autoReconnect, m_bRetry, m_allConnectSuccess
  fd, up, freed, who,     \* of a socket: m_sock, connected, deleted, its index
  open, broken,           \* kernel: whose each descriptor is; peer gone
  rfds, maxsock,          \* m_rfds (m_efds goes with it) and m_maxsock
  sendq,                  \* indices of the messages in the send queue
  told,                   \* history: last event posted for each connection
  misrouted,              \* history: bytes went to or came from another peer
  reused,                 \* history: a socket got the number of a removed one
  lowered                 \* history: m_maxsock lost the socket being inserted

netVars    == <<pc, it, cur, ready>>
mapVars    == <<client, adding, deleting, closing>>
reconVars  == <<recon, due, addRecon, lost>>
flagVars   == <<auto, retry, allOk>>
sockVars   == <<fd, up, freed, who>>
kernelVars == <<open, broken>>
fdsetVars  == <<rfds, maxsock>>
ghostVars  == <<told, misrouted, reused, lowered>>
vars == <<netVars, mapVars, reconVars, flagVars, sockVars, kernelVars,
          fdsetVars, sendq, ghostVars>>

Socks  == 1 .. NSocks
Fds    == 1 .. NFds
None   == 0               \* no socket, and INVALID_SOCKET
Absent == -1              \* no entry in m_reconnectingMap

Entries(map) == {c \in Conns : map[c] # None}
NoEntries == [c \in Conns |-> None]
First(S) == Min(S)        \* what begin() or ++ of a map's iterator reaches

\* Mutant: m_maxsock as its comment has it, the highest descriptor plus one.
HighestPlusOne(S) == 1 + Max(S \cup {0})

Highest(S) == Max(S \cup {0})

\* Sockets some map, the net thread or an open descriptor refers to.
Referenced == {client[c] : c \in Conns} \cup {adding[c] : c \in Conns}
                \cup {deleting[c] : c \in Conns} \cup {closing[c] : c \in Conns}
                \cup {open[f] : f \in Fds} \cup {cur}

\* No pointer the program may still follow is to a deleted socket.
NoDangling ==
  freed \cap ({client[c] : c \in Conns} \cup {adding[c] : c \in Conns}
                \cup {deleting[c] : c \in Conns} \cup {cur}) = {}

----------------------------------------------------------------------------
(* Parts of handlers.                                                      *)

\* Mutant: sockets are deleted without Close.
ShutNone(S) == {}

\* The descriptors that Close of the sockets S closes: Close keeps the number,
\* so it may by then be another socket's.
Shut(S) == {fd[s] : s \in S}

\* Close and delete of the sockets S, and a new one for connection c (or for
\* none): close() acts on the descriptor number, whoever has it now.
Replace(S, new, c) ==
  LET shut == Shut(S) IN
  /\ open' = [f \in Fds |-> IF f \in shut THEN None ELSE open[f]]
  /\ broken' = broken \ shut
  /\ freed' = (freed \cup S) \ {new}
  /\ fd' = [s \in Socks |-> IF s \in S \cup {new} THEN None ELSE fd[s]]
  /\ up' = [s \in Socks |-> up[s] /\ s \notin S \cup {new}]
  /\ who' = [s \in Socks |-> IF s = new THEN c
                             ELSE IF s \in S THEN None ELSE who[s]]

\* Mutant: a new connect leaves the pending one alone.
EvictedNone == {}

\* addConnect for an index that is in neither map: whatever connection is
\* first in m_addingSocketMap makes room for the new one.
Evicted == IF Entries(adding) = {} THEN {} ELSE {adding[First(Entries(adding))]}

\* Mutant: the socket that was deleted stays in the map.
InsertNoErase(c, s) == adding' = [adding EXCEPT ![c] = s]

Insert(c, s) ==
  adding' = [d \in Conns |-> IF d = c THEN s
                             ELSE IF adding[d] \in Evicted THEN None
                             ELSE adding[d]]

\* The event loop learns of a change through the receive queue.
Post(c, event) == told' = [told EXCEPT ![c] = <<event, 1 - @[2]>>]

\* Mutant: the highest descriptor is not looked for.
TopOfNothing(map) == 0

\* m_maxsock over the clients in map.
TopOf(map) == Highest({fd[map[d]] : d \in Entries(map)})

\* _remove_connect for the indices C: no longer watched, and erased.
Unmap(C) ==
  LET dead == C \cap Entries(client) IN
  /\ client' = [c \in Conns |-> IF c \in dead THEN None ELSE client[c]]
  /\ closing' = [c \in Conns |-> IF c \in dead THEN None ELSE closing[c]]
  /\ rfds' = rfds \ {fd[client[c]] : c \in dead}
  /\ maxsock' = IF dead = {} THEN maxsock ELSE TopOf(client')

\* onDisconnected: deleted later; silently retried, or reported.
OnDisconnected(c) ==
  /\ allOk' = FALSE
  /\ deleting' = [deleting EXCEPT ![c] = client[c]]
  /\ IF auto
     THEN /\ recon' = [recon EXCEPT ![c] = 0]
          /\ due' = due \ {c}
          /\ UNCHANGED <<lost, told>>
     ELSE /\ lost' = lost \cup {c}
          /\ Post(c, "broken")
          /\ UNCHANGED <<recon, due>>

\* Mutant: the descriptor stays in the set, so select reports it again.
CheckErrorStillWatched(c) ==
  /\ rfds' = rfds
  /\ OnDisconnected(c)
  /\ sendq' = <<>>

\* _check_error_on_sock with any error but EWOULDBLOCK.
CheckError(c) ==
  /\ rfds' = rfds \ {fd[client[c]]}
  /\ OnDisconnected(c)
  /\ sendq' = <<>>

\* _check_error_on_sock with EWOULDBLOCK, which does nothing.
ErrorPassedOver ==
  UNCHANGED <<rfds, allOk, deleting, recon, due, lost, told, sendq>>

----------------------------------------------------------------------------
(* The main thread.                                                        *)

\* Mutant: only the connections that are pending count as in use.
IndexNotPending(c) == adding[c] = None

\* addConnect; the caller gets false when the index is in use.
IndexFree(c) == client[c] = None /\ adding[c] = None

AddConnect(c) ==
  /\ NoDangling
  /\ AddsOverlap \/ (Entries(adding) = {} /\ pc \notin {"opening", "inserting"})
  /\ IndexFree(c)
  /\ \E s \in Socks \ Referenced :
       /\ \A t \in Socks \ Referenced : s <= t
       /\ Replace(Evicted, s, c)
       /\ Insert(c, s)
  /\ UNCHANGED <<netVars, client, deleting, closing, reconVars, flagVars,
                 fdsetVars, sendq, ghostVars>>

\* removeConnect: the descriptor is closed here, the entry stays in
\* m_clientSocketMap until the net thread rebuilds its sets.
RemoveConnect(c) ==
  /\ NoDangling
  /\ "remove" \in Api
  /\ recon' = [recon EXCEPT ![c] = Absent]
  /\ due' = due \ {c}
  /\ IF client[c] = None
     THEN UNCHANGED <<closing, open, broken, maxsock, lowered>>
     ELSE LET f == fd[client[c]] IN
          /\ open' = [open EXCEPT ![f] = None]
          /\ broken' = broken \ {f}
          /\ closing' = [closing EXCEPT ![c] = client[c]]
          /\ maxsock' = Highest({fd[client[d]] : d \in Entries(client)} \ {f})
          /\ lowered' = (lowered \/ (pc = "inserting" /\ maxsock' < fd[cur]))
  /\ UNCHANGED <<netVars, client, adding, deleting, addRecon, lost, flagVars,
                 sockVars, rfds, sendq, told, misrouted, reused>>

\* reConnect: refused when a retry is already listed or the index is unknown.
ReConnect(c) ==
  /\ NoDangling
  /\ "reconnect" \in Api
  /\ recon[c] = Absent
  /\ c \in lost \/ client[c] # None
  /\ retry' = TRUE
  /\ addRecon' = addRecon \cup {c}
  /\ UNCHANGED <<netVars, mapVars, recon, due, lost, auto, allOk, sockVars,
                 kernelVars, fdsetVars, sendq, ghostVars>>

\* SendMessage: any index that has a client socket will do.
SendMessage(c) ==
  /\ NoDangling
  /\ "send" \in Api
  /\ client[c] # None
  /\ Len(sendq) < SendCap
  /\ sendq' = Append(sendq, c)
  /\ UNCHANGED <<netVars, mapVars, reconVars, flagVars, sockVars, kernelVars,
                 fdsetVars, ghostVars>>

SetAutoConnect ==
  /\ NoDangling
  /\ "auto" \in Api
  /\ auto' = ~ auto
  /\ UNCHANGED <<netVars, mapVars, reconVars, retry, allOk, sockVars,
                 kernelVars, fdsetVars, sendq, ghostVars>>

Main == \/ \E c \in Conns : \/ AddConnect(c) \/ RemoveConnect(c)
                            \/ ReConnect(c) \/ SendMessage(c)
        \/ SetAutoConnect

----------------------------------------------------------------------------
(* The net thread: one pass of Run's loop.                                 *)

\* Where the net thread is, as long as its behaviour is defined.
At(phase) == NoDangling /\ pc = phase

\* _check_deleting: an index that is still a client loses that client.
CheckDeleting ==
  /\ At("deleting")
  /\ Unmap(Entries(deleting))
  /\ Replace({IF client[c] # None THEN client[c] ELSE deleting[c] :
                c \in Entries(deleting)}, None, None)
  /\ deleting' = NoEntries
  /\ pc' = "reconnecting"
  /\ UNCHANGED <<it, cur, ready, adding, reconVars, flagVars, sendq, ghostVars>>

\* The test before _check_reconnecting looks at the entries.
Retrying == IF retry \/ auto THEN "retrying" ELSE "adding"

\* _check_reconnecting, first part: the user's requests, if there are any, are
\* copied, and then m_addReconnMap is cleared, with what was added meanwhile.
MergeRequests ==
  /\ At("reconnecting")
  /\ recon' = [c \in Conns |-> IF c \in addRecon THEN 0 ELSE recon[c]]
  /\ due' = due \ addRecon
  /\ pc' = IF addRecon = {} THEN Retrying ELSE "merged"
  /\ it' = 0
  /\ UNCHANGED <<cur, ready, mapVars, addRecon, lost, flagVars, sockVars,
                 kernelVars, fdsetVars, sendq, ghostVars>>

ClearRequests ==
  /\ At("merged")
  /\ addRecon' = {}
  /\ pc' = Retrying
  /\ it' = 0
  /\ UNCHANGED <<cur, ready, mapVars, recon, due, lost, flagVars, sockVars,
                 kernelVars, fdsetVars, sendq, ghostVars>>

\* Mutant: an entry that was never tried does not count.
RetryableCounted == {c \in due : c > it /\ recon[c] > 0 /\ recon[c] <= MaxRetry}

\* Second part, one entry: the attempt is counted, and addConnect called.
Retryable == {c \in due : c > it /\ recon[c] # Absent /\ recon[c] <= MaxRetry}

RetryOne ==
  /\ At("retrying")
  /\ Retryable # {}
  /\ LET c == First(Retryable)
         old == {client[c]} \ {None}
     IN  /\ it' = c
         /\ recon' = [recon EXCEPT ![c] = @ + 1]
         /\ due' = due \ {c}
         /\ Unmap({c})
         /\ IF adding[c] # None
            THEN Replace(old, None, None) /\ UNCHANGED adding
            ELSE \E s \in Socks \ Referenced :
                   /\ \A t \in Socks \ Referenced : s <= t
                   /\ Replace(old \cup Evicted, s, c)
                   /\ Insert(c, s)
  /\ UNCHANGED <<pc, cur, ready, deleting, addRecon, lost, flagVars, sendq,
                 ghostVars>>

RetryDone ==
  /\ At("retrying")
  /\ Retryable = {}
  /\ pc' = "adding"
  /\ it' = 0
  /\ UNCHANGED <<cur, ready, mapVars, reconVars, flagVars, sockVars, kernelVars,
                 fdsetVars, sendq, ghostVars>>

\* _check_adding, one entry: a descriptor, then the blocking connect.
Pending == {c \in Entries(adding) : c > it}

\* The numbers of the connections that were removed and are still clients.
Removed == {fd[closing[c]] : c \in Entries(closing)}

\* CreateEx: the lowest descriptor that is free, or none at all.
CreateEx(s) ==
  \E f \in Fds \cup {None} :
    /\ f # None => open[f] = None /\ \A g \in Fds : open[g] = None => f <= g
    /\ fd' = [fd EXCEPT ![s] = f]
    /\ open' = [g \in Fds |-> IF g = f THEN s ELSE open[g]]
    /\ reused' = (reused \/ f \in Removed)

OpenStart ==
  /\ At("adding")
  /\ Pending # {}
  /\ LET c == First(Pending) IN
       /\ it' = c
       /\ cur' = adding[c]
       /\ CreateEx(adding[c])
  /\ pc' = "opening"
  /\ UNCHANGED <<ready, mapVars, reconVars, flagVars, up, freed, who, broken,
                 fdsetVars, sendq, told, misrouted, lowered>>

\* connect succeeded: the descriptor is watched first.
Opened ==
  /\ At("opening")
  /\ fd[cur] # None
  /\ rfds' = rfds \cup {fd[cur]}
  /\ maxsock' = Highest({maxsock, fd[cur]})
  /\ pc' = "inserting"
  /\ UNCHANGED <<it, cur, ready, mapVars, reconVars, flagVars, sockVars,
                 kernelVars, sendq, ghostVars>>

\* Then the socket is a client, and onConnect runs.
OpenDone ==
  /\ At("inserting")
  /\ LET c == it IN
       /\ client' = [client EXCEPT ![c] = cur]
       /\ up' = [up EXCEPT ![cur] = TRUE]
       /\ recon' = [recon EXCEPT ![c] = Absent]
       /\ due' = due \ {c}
       /\ lost' = lost \ {c}
       /\ Post(c, "connect")
       /\ allOk' = IF \A d \in Conns : recon'[d] = Absent
                   THEN \A d \in Entries(client') : up'[client'[d]]
                   ELSE allOk /\ ~ auto
       /\ retry' = (retry /\ ~ allOk')
  /\ cur' = None
  /\ pc' = "adding"
  /\ UNCHANGED <<it, ready, adding, deleting, closing, addRecon, auto, fd, freed,
                 who, kernelVars, fdsetVars, sendq, misrouted, reused, lowered>>

\* Mutants: one attempt too many; never; not without automatic reconnection.
GivesUpLate(c)  == ~ auto \/ recon[c] > MaxRetry
GivesUpNever(c) == ~ auto
GivesUpAuto(c)  == recon[c] > 0 /\ recon[c] >= MaxRetry

\* Connect failed: open closes the descriptor, if it has one, and
\* onConnectFailed runs.
GivesUp(c) == ~ auto \/ (recon[c] > 0 /\ recon[c] >= MaxRetry)

OpenFailed ==
  /\ At("opening")
  /\ LET c == it IN
       /\ open' = [f \in Fds |-> IF f = fd[cur] THEN None ELSE open[f]]
       /\ broken' = broken \ {fd[cur]}
       /\ allOk' = FALSE
       /\ deleting' = [deleting EXCEPT ![c] = cur]
       /\ IF GivesUp(c)
          THEN /\ lost' = lost \cup {c}
               /\ recon' = [recon EXCEPT ![c] = Absent]
               /\ due' = due \ {c}
               /\ Post(c, "failed")
          ELSE UNCHANGED <<lost, recon, due, told>>
  /\ cur' = None
  /\ pc' = "adding"
  /\ UNCHANGED <<it, ready, client, adding, closing, addRecon, auto, retry,
                 sockVars, fdsetVars, sendq, misrouted, reused, lowered>>

\* m_addingSocketMap.clear(), and the test whether there is any client.
AddingDone ==
  /\ At("adding")
  /\ Pending = {}
  /\ adding' = NoEntries
  /\ it' = 0
  /\ pc' = IF Entries(client) = {} THEN "deleting" ELSE "sending"
  /\ UNCHANGED <<cur, ready, client, deleting, closing, reconVars, flagVars,
                 sockVars, kernelVars, fdsetVars, sendq, ghostVars>>

\* Whether the descriptor of a socket reaches the peer it was opened for.
Reaches(c) == LET f == fd[client[c]] IN open[f] # None /\ f \notin broken

Mixed(c) == misrouted \/ who[open[fd[client[c]]]] # c

\* The message at the head of the send queue, if it can be sent.
Sendable == /\ sendq # <<>>
            /\ client[Head(sendq)] # None
            /\ up[client[Head(sendq)]]

\* Send, when it returns: to a peer that is gone, it may still have succeeded.
\* After that, whatever is at the head is removed.
SendHead ==
  /\ At("sending")
  /\ Sendable
  /\ LET c == Head(sendq) IN
       \/ /\ open[fd[client[c]]] # None
          /\ misrouted' = Mixed(c)
          /\ UNCHANGED <<rfds, allOk, deleting, recon, due, lost, told, sendq>>
       \/ /\ ~ Reaches(c)
          /\ CheckError(c)
          /\ UNCHANGED misrouted
  /\ pc' = "removing"
  /\ UNCHANGED <<it, cur, ready, client, adding, closing, addRecon, auto, retry,
                 sockVars, kernelVars, maxsock, reused, lowered>>

RemoveHead ==
  /\ At("removing")
  /\ sendq' = IF sendq = <<>> THEN <<>> ELSE Tail(sendq)
  /\ pc' = "selecting"
  /\ UNCHANGED <<it, cur, ready, mapVars, reconVars, flagVars, sockVars,
                 kernelVars, fdsetVars, ghostVars>>

SendNothing ==
  /\ At("sending")
  /\ ~ Sendable
  /\ pc' = "selecting"
  /\ UNCHANGED <<it, cur, ready, mapVars, reconVars, flagVars, sockVars,
                 kernelVars, fdsetVars, sendq, ghostVars>>

\* Mutant: select is given the highest descriptor, not that plus one.
WatchedBelow == {f \in rfds : f < maxsock}

\* sockes_select: a closed descriptor among the watched ones is an error, and
\* nothing ready a timeout; both rebuild the sets.
Watched == {f \in rfds : f <= maxsock}

RebuildFdset ==
  LET left == [c \in Conns |-> IF closing[c] # None THEN None ELSE client[c]]
      bad  == {left[c] : c \in {d \in Entries(left) : open[fd[left[d]]] = None}}
  IN  /\ client' = left
      /\ closing' = NoEntries
      /\ up' = [s \in Socks |-> up[s] /\ s \notin bad]
      /\ rfds' = rfds \cap ({fd[left[c]] : c \in Entries(left)} \ {fd[s] : s \in bad})

SelectFailed ==
  /\ At("selecting")
  /\ \/ \E f \in Watched : open[f] = None
     \/ Watched \cap broken = {}
  /\ RebuildFdset
  /\ pc' = "deleting"
  /\ UNCHANGED <<it, cur, ready, adding, deleting, reconVars, flagVars, fd, freed,
                 who, kernelVars, maxsock, sendq, ghostVars>>

\* Some descriptors are ready: they have bytes, or their peer is gone.
SelectReady ==
  /\ At("selecting")
  /\ \A f \in Watched : open[f] # None
  /\ \E R \in SUBSET Watched :
       /\ R # {} /\ Watched \cap broken \subseteq R
       /\ ready' = R
  /\ pc' = "dispatching"
  /\ it' = 0
  /\ UNCHANGED <<cur, mapVars, reconVars, flagVars, sockVars, kernelVars,
                 fdsetVars, sendq, ghostVars>>

\* recv returns 0 when the peer has closed, and leaves errno as it was: it may
\* be an EWOULDBLOCK of an earlier call.
StaleErrno(c) == ~ Reaches(c) /\ open[fd[client[c]]] # None

\* PostRecvMessageFrom for one client whose descriptor is ready.
Readable == {c \in Entries(client) : c > it /\ fd[client[c]] \in ready}

Dispatch ==
  /\ At("dispatching")
  /\ Readable # {}
  /\ LET c == First(Readable) IN
       /\ it' = c
       /\ \/ /\ Reaches(c)
             /\ misrouted' = Mixed(c)
             /\ UNCHANGED <<rfds, allOk, deleting, recon, due, lost, told, sendq>>
          \/ /\ ~ Reaches(c)
             /\ CheckError(c)
             /\ UNCHANGED misrouted
          \/ /\ StaleErrno(c)
             /\ ErrorPassedOver
             /\ UNCHANGED misrouted
  /\ UNCHANGED <<pc, cur, ready, client, adding, closing, addRecon, auto, retry,
                 sockVars, kernelVars, maxsock, reused, lowered>>

DispatchDone ==
  /\ At("dispatching")
  /\ Readable = {}
  /\ pc' = "deleting"
  /\ ready' = {}
  /\ it' = 0
  /\ UNCHANGED <<cur, mapVars, reconVars, flagVars, sockVars, kernelVars,
                 fdsetVars, sendq, ghostVars>>

Run == \/ CheckDeleting
       \/ MergeRequests \/ ClearRequests \/ RetryOne \/ RetryDone
       \/ OpenStart \/ Opened \/ OpenDone \/ OpenFailed \/ AddingDone
       \/ SendHead \/ RemoveHead \/ SendNothing
       \/ SelectFailed \/ SelectReady \/ Dispatch \/ DispatchDone

----------------------------------------------------------------------------
(* The world: time passes, peers go.                                       *)

DelayOver(c) ==
  /\ NoDangling
  /\ recon[c] # Absent /\ c \notin due
  /\ due' = due \cup {c}
  /\ UNCHANGED <<netVars, mapVars, recon, addRecon, lost, flagVars, sockVars,
                 kernelVars, fdsetVars, sendq, ghostVars>>

PeerGone(f) ==
  /\ NoDangling
  /\ open[f] # None /\ f \notin broken /\ open[f] # cur
  /\ broken' = broken \cup {f}
  /\ UNCHANGED <<netVars, mapVars, reconVars, flagVars, sockVars, open,
                 fdsetVars, sendq, ghostVars>>

World == (\E c \in Conns : DelayOver(c)) \/ (\E f \in Fds : PeerGone(f))

Init ==
  /\ pc = "deleting" /\ it = 0 /\ cur = None /\ ready = {}
  /\ client = NoEntries /\ adding = NoEntries
  /\ deleting = NoEntries /\ closing = NoEntries
  /\ recon = [c \in Conns |-> Absent] /\ due = {} /\ addRecon = {} /\ lost = {}
  /\ auto \in BOOLEAN /\ retry = FALSE /\ allOk = FALSE
  /\ fd = [s \in Socks |-> None] /\ up = [s \in Socks |-> FALSE]
  /\ freed = {} /\ who = [s \in Socks |-> None]
  /\ open = [f \in Fds |-> None] /\ broken = {}
  /\ rfds = {} /\ maxsock = 0
  /\ sendq = <<>>
  /\ told = [c \in Conns |-> <<"none", 0>>] /\ misrouted = FALSE
  /\ reused = FALSE /\ lowered = FALSE

Next == Main \/ Run \/ World

Spec == Init /\ [][Next]_vars

\* The net thread is inside Send, which loops until all bytes are taken.
InSend == pc = "sending" /\ Sendable

\* The net thread is never stopped while the program runs, and time passes; but
\* a peer that does not read may keep it inside Send for ever.
FairSpec == /\ Spec
            /\ WF_vars(Run /\ ~ InSend)
            /\ \A c \in Conns : WF_vars(DelayOver(c))

----------------------------------------------------------------------------
(* Properties.                                                             *)

\* Every variable stays in its range.
TypeOK ==
  /\ pc \in {"deleting", "reconnecting", "merged", "retrying", "adding",
             "opening", "inserting", "sending", "removing", "selecting", "dispatching"}
  /\ it \in Conns \cup {0}
  /\ cur \in Socks \cup {None}
  /\ ready \subseteq Fds
  /\ client \in [Conns -> Socks \cup {None}]
  /\ adding \in [Conns -> Socks \cup {None}]
  /\ deleting \in [Conns -> Socks \cup {None}]
  /\ closing \in [Conns -> Socks \cup {None}]
  /\ recon \in [Conns -> Absent .. MaxRetry + 1]
  /\ due \subseteq Conns /\ addRecon \subseteq Conns /\ lost \subseteq Conns
  /\ auto \in BOOLEAN /\ retry \in BOOLEAN /\ allOk \in BOOLEAN
  /\ fd \in [Socks -> Fds \cup {None}]
  /\ up \in [Socks -> BOOLEAN]
  /\ freed \subseteq Socks
  /\ who \in [Socks -> Conns \cup {None}]
  /\ open \in [Fds -> Socks \cup {None}]
  /\ broken \subseteq Fds
  /\ rfds \subseteq Fds
  /\ maxsock \in Fds \cup {0}
  /\ sendq \in Seq(Conns)
  /\ told \in [Conns -> {"none", "connect", "broken", "failed"} \X {0, 1}]
  /\ misrouted \in BOOLEAN /\ reused \in BOOLEAN /\ lowered \in BOOLEAN

\* No index has two live sockets: what is deleted under an index is what the
\* index is a client with, and closing agrees with it.
OneSocketPerIndex ==
  \A c \in Conns :
    /\ deleting[c] # None /\ client[c] # None => deleting[c] = client[c]
    /\ closing[c] # None => closing[c] = client[c]
    /\ adding[c] # None /\ client[c] # None =>
         adding[c] = client[c] /\ pc = "adding"

\* Bytes are only exchanged with the peer of the index they are labelled with.
RightPeer == ~ misrouted

\* They are, as long as no socket gets the number of a removed connection whose
\* socket is still a client, whatever is deleted, retried and closed twice.
RightUnlessReused == ~ reused => RightPeer

\* Every live connection is watched by select, whatever is opened, closed and
\* deleted around it, as long as no number is shared and removeConnect does not
\* recompute m_maxsock while a socket is being inserted.
ConnectedIsWatched ==
  ~ reused /\ ~ lowered =>
    \A c \in Entries(client) :
      up[client[c]] /\ closing[c] = None /\ deleting[c] = None
        => fd[client[c]] \in Watched

\* A connection that ends is reported broken only once: never broken twice,
\* nor after a failed connect, without a connect in between.
BrokenAfterConnect ==
  [][\A c \in Conns : told'[c] # told[c] /\ told'[c][1] = "broken"
                        => told[c][1] = "connect"]_vars

\* The reconnecting max count of SocketManager.h bounds the attempts of a single
\* connection: with two, a retry that another one evicts counts one more.
AttemptsBounded == \A c \in Conns : recon[c] <= MaxRetry

\* What the code does not guarantee and the properties below suppose: no Send
\* waits for ever,
SendsReturn == []<>(pc # "sending")

\* and an end that is read again and again is at last read with another errno.
ErrnoChanges == SF_vars(Dispatch /\ deleting' # deleting)

\* A connection that is listed for a retry is connected again, given up with an
\* event, or removed, as long as the net thread looks at the list at all.  It is
\* so with one connection: with two, a retry that another one evicts goes past
\* the maximum with no event.
RetriedToTheEnd ==
  SendsReturn =>
    \A c \in Conns : (recon[c] # Absent) ~>
      (recon[c] = Absent \/ ~ (retry \/ auto))

\* A connect that was accepted, and whose outcome is not yet known.
Connecting(c) == /\ adding[c] # None
                 /\ pc = "adding" => c > it
                 /\ pc \in {"opening", "inserting"} => c >= it

\* A connect that was accepted is reported, connected or failed, while automatic
\* reconnection is off and sends return, whatever is removed in the meantime.
ReportedUnlessAuto ==
  SendsReturn =>
    \A c \in Conns : \A n \in {0, 1} :
      (Connecting(c) /\ told[c][2] = n) ~> (told[c][2] # n \/ auto)

\* The end of a connection is noticed, if sends return and errno is not for ever
\* the one of an earlier call: its socket does not stay a client.
EndIsNoticed ==
  SendsReturn /\ ErrnoChanges =>
    \A s \in Socks :
      (\E c \in Conns : client[c] = s /\ fd[s] \in broken) ~>
        (\A c \in Conns : client[c] # s \/ fd[s] \notin broken)
=============================================================================
