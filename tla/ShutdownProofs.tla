----------------------------- MODULE ShutdownProofs -----------------------------
(***************************************************************************)
(* Whose the open descriptors of SocketManager are: every one belongs to a *)
(* client or to the socket that is being opened, so that none is lost.  As *)
(* long as no socket gets the number of a removed connection, every client *)
(* has its own, which is watched and reaches the right peer, whatever the  *)
(* main thread calls.  All of it holds through the life of the net thread  *)
(* until the manager is gone, and what ~SocketManager closes is then all   *)
(* that was open, if the thread has ended.                                 *)
(***************************************************************************)
EXTENDS Shutdown, SocketManagerProofs

\* An open descriptor belongs to the socket that is being opened, or to a
\* client that was not removed, and that socket knows its number.
OpenOwned ==
  \A f \in Fds : open[f] # None =>
    /\ fd[open[f]] = f
    /\ \/ cur = open[f]
       \/ \E c \in Conns : client[c] = open[f] /\ closing[c] = None

\* A descriptor that is still open after sockets were deleted belongs to another.
LEMMA ReplaceOpen ==
  ASSUME TypeOK, OpenOwned, NEW S, S \subseteq Socks, NEW s, NEW c, Replace(S, s, c),
         s = None \/ s \notin Referenced,
         NEW f \in Fds, open'[f] # None
  PROVE  /\ open'[f] = open[f] /\ open[f] \notin S
         /\ fd'[open[f]] = f
<1>1. open'[f] = open[f] /\ f \notin {fd[t] : t \in S} /\ open[f] # s
  BY DEF Replace, Shut, Referenced
<1>2. fd[open[f]] = f
  BY <1>1 DEF OpenOwned
<1>3. open[f] \notin S
  BY <1>1, <1>2
<1>4. open[f] \in Socks
  BY <1>1 DEF TypeOK
<1>5. QED
  BY <1>1, <1>2, <1>3, <1>4 DEF Replace

\* Every step: a socket is closed before it is deleted or forgotten.
LEMMA OpenOwnedStep ==
  ASSUME Inv, OpenOwned, Next
  PROVE  OpenOwned'
<1>1. TypeOK /\ TypeOK' /\ OpeningOne /\ Sound /\ OneAdding /\ OneSocketPerIndex
  BY NextTypes DEF Inv, Sound
<1>2. ASSUME UNCHANGED <<open, fd, cur, client, closing>>
      PROVE  OpenOwned'
  BY <1>2 DEF OpenOwned
<1>3. ASSUME NEW c \in Conns, AddConnect(c)
      PROVE  OpenOwned'
  <2>1. PICK s \in Socks \ Referenced : Replace(Evicted, s, c)
    BY <1>3 DEF AddConnect
  <2>3. UNCHANGED <<cur, client, closing>>
    BY <1>3 DEF AddConnect, netVars
  <2>4. Evicted \subseteq Socks
    BY <1>1, EvictedType
  <2>5. ASSUME NEW f \in Fds, open'[f] # None
        PROVE  open'[f] = open[f] /\ fd'[open[f]] = f
    BY <1>1, <2>1, <2>4, <2>5, ReplaceOpen
  <2>6. QED
    BY <2>3, <2>5 DEF OpenOwned
<1>4. ASSUME NEW c \in Conns, RemoveConnect(c)
      PROVE  OpenOwned'
  <2>1. UNCHANGED <<cur, client, fd>>
    BY <1>4 DEF RemoveConnect, netVars, sockVars
  <2>2. CASE client[c] = None
    BY <1>2, <1>4, <2>1, <2>2 DEF RemoveConnect
  <2>3. CASE client[c] # None
    <3>1. /\ open' = [open EXCEPT ![fd[client[c]]] = None]
          /\ closing' = [closing EXCEPT ![c] = client[c]]
      BY <1>4, <2>3 DEF RemoveConnect
    <3>2. ASSUME NEW f \in Fds, open'[f] # None
          PROVE  /\ open'[f] = open[f] /\ fd[open[f]] = f
                 /\ \/ cur = open[f]
                    \/ \E d \in Conns : client[d] = open[f] /\ closing'[d] = None
      <4>1. open'[f] = open[f] /\ f # fd[client[c]]
        BY <1>1, <3>1, <3>2 DEF TypeOK
      <4>2. fd[open[f]] = f
        BY <3>2, <4>1 DEF OpenOwned
      <4>3. ASSUME NEW d \in Conns, client[d] = open[f], closing[d] = None
            PROVE  closing'[d] = None
        BY <1>1, <3>1, <4>1, <4>2, <4>3 DEF TypeOK
      <4>4. QED
        BY <3>2, <4>1, <4>2, <4>3 DEF OpenOwned
    <3>3. QED
      BY <2>1, <3>2 DEF OpenOwned
  <2>4. QED
    BY <2>2, <2>3
<1>5. CASE CheckDeleting
  <2> DEFINE C == Entries(deleting)
             S == {IF client[d] # None THEN client[d] ELSE deleting[d] : d \in C}
  <2>1. S \subseteq Socks
    BY <1>1 DEF TypeOK, Entries
  <2>2. Replace(S, None, None) /\ cur' = cur /\ Unmap(C)
    BY <1>5 DEF CheckDeleting
  <2>3. ASSUME NEW d \in Conns, client[d] \notin S
        PROVE  client'[d] = client[d] /\ closing'[d] = closing[d]
    <3>1. d \notin C \cap Entries(client)
      BY <2>3 DEF Entries
    <3>2. QED
      BY <1>1, <2>2, <3>1 DEF Unmap, TypeOK
  <2> HIDE DEF S
  <2>4. ASSUME NEW f \in Fds, open'[f] # None
        PROVE  open'[f] = open[f] /\ open[f] \notin S /\ fd'[open[f]] = f
    BY <1>1, <2>1, <2>2, <2>4, ReplaceOpen
  <2>5. QED
    BY <2>2, <2>3, <2>4 DEF OpenOwned
<1>6. CASE RetryOne
  <2>1. PICK c \in Conns, S \in SUBSET Socks, s \in Socks \cup {None} :
          /\ Unmap({c}) /\ Replace(S, s, IF s = None THEN None ELSE c)
          /\ client[c] # None => client[c] \in S
          /\ s # None => s \notin Referenced
    BY <1>1, <1>6, RetryOneShape
  <2>2. cur' = cur
    BY <1>6 DEF RetryOne
  <2>3. ASSUME NEW d \in Conns, client[d] \notin S
        PROVE  client'[d] = client[d] /\ closing'[d] = closing[d]
    <3>1. d \notin {c} \cap Entries(client)
      BY <2>1, <2>3 DEF Entries
    <3>2. QED
      BY <1>1, <2>1, <3>1 DEF Unmap, TypeOK
  <2>4. ASSUME NEW f \in Fds, open'[f] # None
        PROVE  open'[f] = open[f] /\ open[f] \notin S /\ fd'[open[f]] = f
    BY <1>1, <2>1, <2>4, ReplaceOpen
  <2>5. QED
    BY <2>2, <2>3, <2>4 DEF OpenOwned
<1>7. CASE OpenStart
  <2> DEFINE c == First(Pending)
  <2>1. c \in Pending
    BY <1>7, FirstOf, Numbers DEF OpenStart, Pending, Entries
  <2>2. /\ pc = "adding" /\ Detail /\ cur = None
        /\ UNCHANGED <<client, closing>>
        /\ cur' = adding[c] /\ CreateEx(adding[c])
    BY <1>1, <1>7 DEF OpenStart, At, Sound, OpeningOne, mapVars
  <2> HIDE DEF c
  <2>3. c \in Conns /\ adding[c] \in Socks /\ adding[c] # None /\ c > it
    BY <1>1, <2>1 DEF Pending, Entries, TypeOK
  <2>4. client[c] = None
    BY <1>1, <2>2, <2>3, Numbers DEF Detail, Phased, TypeOK
  <2>5. \A d \in Conns : client[d] # adding[c]
    BY <2>2, <2>3, <2>4 DEF Detail, Owned
  <2>6. PICK g \in Fds \cup {None} :
          /\ fd' = [fd EXCEPT ![adding[c]] = g]
          /\ open' = [f \in Fds |-> IF f = g THEN adding[c] ELSE open[f]]
    BY <2>2 DEF CreateEx
  <2>7. ASSUME NEW f \in Fds, open'[f] # None
        PROVE  /\ fd'[open'[f]] = f
               /\ \/ cur' = open'[f]
                  \/ \E d \in Conns : client[d] = open'[f] /\ closing[d] = None
    <3>1. CASE f = g
      BY <1>1, <2>2, <2>3, <2>6, <3>1 DEF TypeOK
    <3>2. CASE f # g
      <4>1. open'[f] = open[f] /\ open[f] # None
        BY <2>6, <2>7, <3>2
      <4>2. /\ fd[open[f]] = f
            /\ \E d \in Conns : client[d] = open[f] /\ closing[d] = None
        BY <2>2, <4>1 DEF OpenOwned
      <4>3. open[f] \in Socks /\ open[f] # adding[c]
        BY <1>1, <2>5, <4>1, <4>2 DEF TypeOK
      <4>4. QED
        BY <1>1, <2>6, <4>1, <4>2, <4>3 DEF TypeOK
    <3>3. QED
      BY <3>1, <3>2
  <2>8. QED
    BY <2>2, <2>7 DEF OpenOwned
<1>8. CASE OpenDone
  <2>1. /\ pc = "inserting" /\ Detail /\ cur' = None
        /\ UNCHANGED <<fd, open, closing>>
        /\ client' = [client EXCEPT ![it] = cur]
    BY <1>1, <1>8 DEF OpenDone, At, Sound, kernelVars
  <2>2. it \in Conns /\ client[it] = None /\ closing[it] = None
    BY <1>1, <2>1 DEF OpeningOne, Detail, Phased, OneSocketPerIndex
  <2>3. client'[it] = cur /\ \A d \in Conns : d # it => client'[d] = client[d]
    BY <1>1, <2>1, <2>2 DEF TypeOK
  <2>4. QED
    BY <2>1, <2>2, <2>3 DEF OpenOwned
<1>9. CASE OpenFailed
  <2>1. /\ open' = [f \in Fds |-> IF f = fd[cur] THEN None ELSE open[f]]
        /\ UNCHANGED <<fd, client, closing>>
    BY <1>9 DEF OpenFailed, sockVars
  <2>2. QED
    BY <2>1 DEF OpenOwned
<1>10. CASE SelectFailed
  <2>1. /\ UNCHANGED <<fd, open, cur>> /\ closing' = NoEntries
        /\ \A d \in Conns : closing[d] = None => client'[d] = client[d]
    BY <1>10 DEF SelectFailed, RebuildFdset, kernelVars
  <2>2. QED
    BY <2>1 DEF OpenOwned, NoEntries
<1>11. CASE \/ (\E c \in Conns : ReConnect(c) \/ SendMessage(c))
            \/ SetAutoConnect \/ World
  BY <1>2, <1>11 DEF ReConnect, SendMessage, SetAutoConnect, World, DelayOver,
     PeerGone, netVars, mapVars, sockVars, kernelVars
<1>12. CASE \/ MergeRequests \/ ClearRequests \/ RetryDone \/ Opened \/ AddingDone
            \/ SendHead \/ RemoveHead \/ SendNothing \/ SelectReady
            \/ Dispatch \/ DispatchDone
  BY <1>2, <1>12 DEF MergeRequests, ClearRequests, RetryDone, Opened, AddingDone,
     SendHead, RemoveHead, SendNothing, SelectReady, Dispatch, DispatchDone,
     mapVars, sockVars, kernelVars
<1>13. QED
  BY <1>3, <1>4, <1>5, <1>6, <1>7, <1>8, <1>9, <1>10, <1>11, <1>12
  DEF Next, Main, Run

----------------------------------------------------------------------------
(* As long as no socket gets the number of a removed one, no descriptor is  *)
(* closed behind its socket's back.                                        *)

\* A client that was not removed has a descriptor that is open, and no other
\* client has its number.  A socket that failed has closed its own, and one that
\* waits has none yet.
OwnDescriptors ==
  /\ \A c \in Conns :
       /\ client[c] # None =>
            /\ fd[client[c]] # None
            /\ open[fd[client[c]]] = IF closing[c] = None THEN client[c] ELSE None
       /\ deleting[c] # None /\ client[c] = None =>
            fd[deleting[c]] = None \/ open[fd[deleting[c]]] = None
       /\ adding[c] # None =>
            \/ fd[adding[c]] = None \/ adding[c] = cur
            \/ adding[c] = client[c] \/ adding[c] = deleting[c]
  /\ \A c, d \in Conns :
       client[c] # None /\ client[d] # None /\ fd[client[c]] = fd[client[d]] => c = d
  /\ cur # None /\ fd[cur] # None => open[fd[cur]] = cur

\* What select watches of the clients.
AllWatched ==
  \A c \in Entries(client) :
    up[client[c]] /\ closing[c] = None /\ deleting[c] = None => fd[client[c]] \in Watched

Numbered ==
  /\ NoDangling => OwnDescriptors
  /\ NoDangling /\ pc = "inserting" =>
       fd[cur] # None /\ (~ lowered => fd[cur] \in Watched)
  /\ ~ lowered => AllWatched

\* What Replace leaves of the sockets that it is not about.
LEMMA ReplaceKeeps ==
  ASSUME TypeOK, NEW S, S \subseteq Socks, NEW s, NEW c, Replace(S, s, c)
  PROVE  /\ \A t \in Socks : t \notin S /\ t # s => fd'[t] = fd[t] /\ up'[t] = up[t]
         /\ \A t \in Socks : fd'[t] = fd[t] \/ fd'[t] = None
         /\ \A t \in Socks : up'[t] => up[t] /\ t \notin S /\ t # s
         /\ \A f \in Fds : open'[f] = open[f] \/ open'[f] = None
         /\ \A f \in Fds : (\A t \in S : fd[t] # f) => open'[f] = open[f]
         /\ s \in Socks => fd'[s] = None
<1>1. \A t \in Socks : up[t] \in BOOLEAN
  BY DEF TypeOK
<1>2. \A t \in Socks : /\ t \notin S /\ t # s => up'[t] = up[t]
                       /\ up'[t] => up[t] /\ t \notin S /\ t # s
  BY <1>1 DEF Replace
<1>3. QED
  BY <1>2 DEF Replace, Shut

\* A client that stays when others are erased stays watched.
LEMMA UnmapWatched ==
  ASSUME TypeOK, OwnDescriptors, NEW C, C \subseteq Conns, Unmap(C),
         NEW c \in Conns, client'[c] # None, fd[client[c]] \in Watched
  PROVE  /\ client'[c] = client[c] /\ ~ (c \in C /\ client[c] # None)
         /\ fd[client[c]] \in rfds' /\ fd[client[c]] <= maxsock'
<1>1. client'[c] = client[c] /\ ~ (c \in C /\ client[c] # None)
  BY DEF Unmap, Entries, TypeOK
<1>2. fd[client[c]] \in rfds'
  <2>1. \A d \in C \cap Entries(client) : fd[client[d]] # fd[client[c]]
    BY <1>1 DEF Entries, OwnDescriptors
  <2>2. QED
    BY <2>1 DEF Unmap, Watched
<1>3. fd[client[c]] <= maxsock'
  <2>1. CASE maxsock' = maxsock
    BY <2>1 DEF Watched
  <2>2. CASE maxsock' = Highest({fd[client'[d]] : d \in Entries(client')})
    <3> DEFINE T == {fd[client'[d]] : d \in {e \in Conns : client'[e] # None}}
    <3>1. \A d \in Conns : client'[d] \in Socks \cup {None}
      BY DEF Unmap, TypeOK
    <3>2. T \subseteq Fds \cup {0}
      BY <3>1 DEF TypeOK, None
    <3>3. fd[client[c]] \in T
      BY <1>1
    <3>4. maxsock' = Highest(T)
      BY <2>2 DEF Entries
    <3> HIDE DEF T
    <3>5. QED
      BY <3>2, <3>3, <3>4, HighestOf
  <2>3. QED
    BY <2>1, <2>2 DEF Unmap, TopOf, Entries
<1>4. QED
  BY <1>1, <1>2, <1>3

\* Steps that change nothing of this.
LEMMA NumberedFrame ==
  ASSUME Numbered,
         UNCHANGED <<cur, client, deleting, closing, fd, up, open, rfds, maxsock, lowered>>,
         adding' = adding \/ adding' = NoEntries, NoDangling,
         pc' = "inserting" => pc = "inserting"
  PROVE  Numbered'
<1>1. \A c \in Conns : adding'[c] = adding[c] \/ adding'[c] = None
  BY DEF NoEntries
<1>2. OwnDescriptors'
  BY <1>1 DEF Numbered, OwnDescriptors
<1>3. ~ lowered' => AllWatched'
  BY DEF Numbered, AllWatched, Watched, Entries
<1>4. pc' = "inserting" => fd'[cur'] # None /\ (~ lowered' => fd'[cur'] \in Watched')
  BY DEF Numbered, Watched
<1>5. QED
  BY <1>2, <1>3, <1>4 DEF Numbered

\* addConnect: what it evicts has no descriptor yet, or dangles.
LEMMA NumberedAdd ==
  ASSUME Inv, Numbered, TypeOK', NEW c \in Conns, AddConnect(c)
  PROVE  Numbered'
<1>1. PICK s \in Socks \ Referenced : Replace(Evicted, s, c) /\ Insert(c, s)
  BY DEF AddConnect
<1>2. /\ TypeOK /\ NoDangling /\ Detail /\ OneAdding /\ OwnDescriptors
      /\ adding[c] = None /\ Evicted \subseteq Socks
      /\ UNCHANGED <<pc, it, cur, client, deleting, closing, rfds, maxsock, lowered>>
  BY EvictedType DEF AddConnect, IndexFree, Inv, Sound, Numbered, netVars, fdsetVars,
                     ghostVars
<1>3. /\ adding' = [d \in Conns |-> IF d = c THEN s ELSE None]
      /\ Evicted = {adding[d] : d \in Entries(adding)}
  BY <1>1, <1>2, Inserted
<1>4. s # None /\ s # cur /\ \A d \in Conns : client[d] # s /\ deleting[d] # s
  BY <1>1, Numbers DEF Referenced
<1>5. /\ \A t \in Socks : t \notin Evicted /\ t # s => fd'[t] = fd[t]
      /\ \A t \in Socks : up'[t] => up[t] /\ t \notin Evicted /\ t # s
      /\ \A f \in Fds : (\A t \in Evicted : fd[t] # f) => open'[f] = open[f]
      /\ fd'[s] = None
  <2>1. TypeOK /\ Evicted \subseteq Socks /\ Replace(Evicted, s, c) /\ s \in Socks
    BY <1>1, <1>2
  <2>2. \A t \in Socks : t \notin Evicted /\ t # s => fd'[t] = fd[t] /\ up'[t] = up[t]
    BY <2>1, ReplaceKeeps
  <2>3. \A f \in Fds : (\A t \in Evicted : fd[t] # f) => open'[f] = open[f]
    BY <2>1, ReplaceKeeps
  <2>4. \A t \in Socks : up'[t] => up[t] /\ t \notin Evicted /\ t # s
    BY <2>1, ReplaceKeeps
  <2>5. fd'[s] = None
    BY <2>1, ReplaceKeeps
  <2>6. QED
    BY <2>2, <2>3, <2>4, <2>5
<1>6. ASSUME ~ lowered'
      PROVE  AllWatched'
  <2>1. ASSUME NEW d \in Entries(client)', up'[client'[d]], closing'[d] = None,
               deleting'[d] = None
        PROVE  fd'[client'[d]] \in Watched'
    <3>1. d \in Entries(client) /\ client'[d] = client[d] /\ client[d] \in Socks
      BY <1>2, <2>1 DEF Entries, TypeOK
    <3>2. up[client[d]] /\ fd'[client[d]] = fd[client[d]]
      BY <1>5, <2>1, <3>1
    <3>3. fd[client[d]] \in Watched
      BY <1>2, <1>6, <2>1, <3>1, <3>2 DEF Numbered, AllWatched
    <3>4. QED
      BY <1>2, <3>1, <3>2, <3>3 DEF Watched
  <2>2. QED
    BY <2>1 DEF AllWatched
<1>7. ASSUME NoDangling'
      PROVE  /\ OwnDescriptors'
             /\ pc' = "inserting" =>
                  fd'[cur'] # None /\ (~ lowered' => fd'[cur'] \in Watched')
  <2>1. freed' = (freed \cup Evicted) \ {s}
    BY <1>1 DEF Replace
  <2>2. /\ cur \notin Evicted
        /\ \A d \in Conns : client[d] \notin Evicted /\ deleting[d] \notin Evicted
    BY <1>2, <1>4, <1>7, <2>1 DEF NoDangling
  <2>3. \A t \in Evicted : fd[t] = None
    BY <1>2, <1>3, <2>2 DEF OwnDescriptors, Entries
  <2>4. \A f \in Fds : open'[f] = open[f]
    BY <1>5, <2>3, Numbers
  <2>5. \A d \in Conns : /\ client[d] # None => fd'[client[d]] = fd[client[d]]
                         /\ deleting[d] # None => fd'[deleting[d]] = fd[deleting[d]]
    BY <1>2, <1>4, <1>5, <2>2 DEF TypeOK
  <2>6. cur # None => fd'[cur] = fd[cur]
    BY <1>2, <1>4, <1>5, <2>2 DEF TypeOK
  <2>7. \A t \in Socks : fd[t] # None => open'[fd[t]] = open[fd[t]]
    BY <1>2, <2>4 DEF TypeOK
  <2>8. \A d \in Conns : adding'[d] # None => fd'[adding'[d]] = None
    BY <1>3, <1>5
  <2>9. OwnDescriptors'
    BY <1>2, <2>5, <2>6, <2>7, <2>8 DEF OwnDescriptors, TypeOK
  <2>10. pc = "inserting" => cur # None
    BY Numbers DEF Inv, OpeningOne
  <2>11. pc' = "inserting" => fd'[cur'] # None /\ (~ lowered' => fd'[cur'] \in Watched')
    BY <1>2, <2>6, <2>10 DEF Numbered, Watched
  <2>12. QED
    BY <2>9, <2>11
<1>8. QED
  BY <1>6, <1>7 DEF Numbered

\* While a socket is opened it is neither a client nor being deleted, and its
\* number is nobody else's.
LEMMA OpeningIsOther ==
  ASSUME Inv, NoDangling, OwnDescriptors, pc \in {"opening", "inserting"}
  PROVE  /\ it \in Conns /\ cur \in Socks /\ cur # None /\ fd[cur] \in Fds \cup {None}
         /\ adding[it] = cur /\ client[it] = None /\ closing[it] = None
         /\ \A d \in Conns : deleting[d] = None
         /\ \A d \in Conns : adding[d] # None => d = it
         /\ \A d \in Conns : client[d] # None =>
              client[d] # cur /\ fd[client[d]] # fd[cur]
<1>1. TypeOK /\ OpeningOne /\ OneAdding /\ OneSocketPerIndex /\ Detail
  BY DEF Inv, Sound
<1>2. it \in Conns /\ cur \in Socks /\ cur # None /\ fd[cur] \in Fds \cup {None}
  BY <1>1, Numbers DEF OpeningOne, TypeOK
<1>3. adding[it] = cur /\ client[it] = None /\ \A d \in Conns : deleting[d] = None
  BY <1>1, <1>2 DEF Detail, Phased, NoEntries
<1>4. closing[it] = None
  BY <1>1, <1>2, <1>3 DEF OneSocketPerIndex
<1>5. \A d \in Conns : adding[d] # None => d = it
  BY <1>1, <1>2, <1>3 DEF OneAdding
<1>6. ASSUME NEW d \in Conns, client[d] # None
      PROVE  client[d] # cur /\ fd[client[d]] # fd[cur]
  <2>1. client[d] # cur
    BY <1>1, <1>2, <1>3, <1>6 DEF Detail, Owned
  <2>2. fd[client[d]] # None /\ open[fd[client[d]]] # cur
    BY <1>2, <1>6, <2>1 DEF OwnDescriptors
  <2>3. QED
    BY <1>2, <2>1, <2>2 DEF OwnDescriptors
<1>7. QED
  BY <1>2, <1>3, <1>4, <1>5, <1>6

\* removeConnect closes the number of its own client only, and looks for the
\* highest among those of the others.
LEMMA NumberedRemove ==
  ASSUME Inv, Numbered, TypeOK', NEW c \in Conns, RemoveConnect(c)
  PROVE  Numbered'
<1>1. /\ TypeOK /\ NoDangling /\ Detail /\ OwnDescriptors /\ OneSocketPerIndex
      /\ UNCHANGED <<pc, cur, client, adding, deleting, fd, up, rfds>>
  BY DEF RemoveConnect, Inv, Sound, Numbered, netVars, sockVars
<1>2. CASE client[c] = None
  <2>1. UNCHANGED <<closing, open, maxsock, lowered>>
    BY <1>2 DEF RemoveConnect
  <2>2. QED
    BY <1>1, <2>1, NumberedFrame
<1>3. CASE client[c] # None
  <2> DEFINE f == fd[client[c]]
             T == {fd[client[d]] : d \in Entries(client)} \ {f}
  <2>1. /\ open' = [open EXCEPT ![f] = None]
        /\ closing' = [closing EXCEPT ![c] = client[c]]
        /\ maxsock' = Highest(T)
        /\ lowered' = (lowered \/ (pc = "inserting" /\ maxsock' < fd[cur]))
    BY <1>3 DEF RemoveConnect
  <2>2. T \subseteq Fds \cup {0}
    BY <1>1 DEF TypeOK, None, Entries
  <2>3. \A x \in T : x <= maxsock'
    <3> HIDE DEF T
    <3>1. QED
      BY <2>1, <2>2, HighestOf
  <2>4. \A d \in Conns : client[d] # None /\ d # c => fd[client[d]] # f
    BY <1>1, <1>3 DEF OwnDescriptors
  <2>5. \A d \in Conns : client[d] # None /\ d # c => fd[client[d]] <= maxsock'
    BY <2>3, <2>4 DEF Entries
  <2> HIDE DEF T
  <2>6. f \in Fds /\ f # None
    BY <1>1, <1>3 DEF OwnDescriptors, TypeOK
  <2>7. /\ open'[f] = None /\ \A g \in Fds : g # f => open'[g] = open[g]
        /\ closing'[c] = client[c] /\ \A d \in Conns : d # c => closing'[d] = closing[d]
    BY <1>1, <2>1, <2>6 DEF TypeOK
  <2>8. cur # None => fd[cur] # f
    <3>1. pc \in {"opening", "inserting"} => \A d \in Conns :
            client[d] # None => fd[client[d]] # fd[cur]
      BY <1>1, OpeningIsOther
    <3>2. pc \notin {"opening", "inserting"} => cur = None
      BY DEF Inv, OpeningOne
    <3>3. QED
      BY <1>3, <3>1, <3>2
  <2> HIDE DEF f
  <2>9. OwnDescriptors'
    <3>1. ASSUME NEW d \in Conns, client[d] # None
          PROVE  /\ fd[client[d]] # None
                 /\ open'[fd[client[d]]] = IF closing'[d] = None THEN client[d] ELSE None
      <4>1. CASE d = c
        BY <1>3, <2>6, <2>7, <4>1 DEF f
      <4>2. CASE d # c
        <5>1. fd[client[d]] \in Fds /\ fd[client[d]] # f
          BY <1>1, <2>4, <3>1, <4>2 DEF OwnDescriptors, TypeOK
        <5>2. QED
          BY <1>1, <2>7, <3>1, <4>2, <5>1 DEF OwnDescriptors
      <4>3. QED
        BY <4>1, <4>2
    <3>2. ASSUME NEW d \in Conns, deleting[d] # None, client[d] = None
          PROVE  fd[deleting[d]] = None \/ open'[fd[deleting[d]]] = None
      <4>1. fd[deleting[d]] = None \/ open[fd[deleting[d]]] = None
        BY <1>1, <3>2 DEF OwnDescriptors
      <4>2. fd[deleting[d]] \in Fds \cup {None}
        BY <1>1, <3>2 DEF TypeOK
      <4>3. QED
        BY <2>7, <4>1, <4>2
    <3>3. cur # None /\ fd[cur] # None => open'[fd[cur]] = cur
      BY <1>1, <2>7, <2>8 DEF OwnDescriptors, TypeOK
    <3>4. QED
      BY <1>1, <3>1, <3>2, <3>3 DEF OwnDescriptors
  <2>10. ASSUME ~ lowered'
         PROVE  AllWatched'
    <3>1. ASSUME NEW d \in Conns, client[d] # None, up[client[d]], closing'[d] = None,
                 deleting[d] = None
          PROVE  fd[client[d]] \in rfds /\ fd[client[d]] <= maxsock'
      <4>1. d # c /\ closing[d] = None
        BY <1>3, <2>7, <3>1
      <4>2. fd[client[d]] \in Watched
        BY <2>1, <2>10, <3>1, <4>1 DEF Numbered, AllWatched, Entries
      <4>3. QED
        BY <2>5, <3>1, <4>1, <4>2 DEF Watched
    <3>2. QED
      BY <1>1, <3>1 DEF AllWatched, Watched, Entries
  <2>11. ASSUME pc = "inserting"
         PROVE  fd[cur] # None /\ (~ lowered' => fd[cur] \in Watched')
    <3>1. fd[cur] # None /\ (~ lowered => fd[cur] \in Watched)
      BY <1>1, <2>11 DEF Numbered
    <3>2. fd[cur] \in Nat /\ maxsock' \in Nat
      <4>1. cur \in Socks /\ maxsock' \in Fds \cup {0}
        BY <2>11 DEF Inv, OpeningOne, TypeOK
      <4>2. fd[cur] \in Fds
        BY <1>1, <3>1, <4>1 DEF TypeOK
      <4>3. Fds \subseteq Nat
        BY Numbers
      <4>4. 0 \in Nat
        OBVIOUS
      <4>5. maxsock' \in Nat
        BY <4>1, <4>3, <4>4, Zenon
      <4>6. fd[cur] \in Nat
        BY <4>2, <4>3, Zenon
      <4>7. QED
        BY <4>5, <4>6
    <3>3. ~ lowered' => ~ lowered /\ fd[cur] <= maxsock'
      <4>1. ~ lowered' => ~ lowered /\ ~ (maxsock' < fd[cur])
        BY <2>1, <2>11, Zenon
      <4>2. QED
        BY <3>2, <4>1
    <3>4. QED
      BY <1>1, <3>1, <3>3 DEF Watched
  <2>12. QED
    BY <1>1, <2>9, <2>10, <2>11 DEF Numbered
<1>4. QED
  BY <1>2, <1>3

\* _check_deleting closes the numbers of what it deletes, and no other's.
LEMMA NumberedDelete ==
  ASSUME Inv, Numbered, TypeOK', CheckDeleting
  PROVE  Numbered'
<1> DEFINE C == Entries(deleting)
           S == {IF client[c] # None THEN client[c] ELSE deleting[c] : c \in C}
<1>1. /\ TypeOK /\ Detail /\ OwnDescriptors /\ pc = "deleting" /\ cur = None
      /\ OneSocketPerIndex /\ UNCHANGED <<cur, adding, lowered>>
      /\ deleting' = NoEntries /\ pc' = "reconnecting"
      /\ Replace(S, None, None) /\ Unmap(C)
  BY DEF CheckDeleting, At, Inv, Sound, Numbered, OpeningOne, ghostVars
<1>2. S \subseteq Socks
  BY <1>1 DEF TypeOK, Entries
<1>3. \A t \in S : \E d \in Conns : /\ deleting[d] # None
                                    /\ \/ t = client[d] /\ t # None
                                       \/ t = deleting[d] /\ client[d] = None
  BY DEF Entries
<1> HIDE DEF S
<1>4. ASSUME NEW c \in Conns, client'[c] # None
      PROVE  /\ client'[c] = client[c] /\ closing'[c] = closing[c]
             /\ deleting[c] = None /\ client[c] \notin S /\ client[c] \in Socks
  <2>1. client'[c] = client[c] /\ deleting[c] = None /\ closing'[c] = closing[c]
    BY <1>1, <1>4 DEF Unmap, Entries, TypeOK
  <2>2. client[c] \notin S
    BY <1>1, <1>3, <1>4, <2>1 DEF Detail, Owned
  <2>3. client[c] \in Socks
    BY <1>1, <1>4, <2>1 DEF TypeOK
  <2>4. QED
    BY <2>1, <2>2, <2>3
<1>5. /\ \A t \in Socks : t \notin S => fd'[t] = fd[t]
      /\ \A t \in Socks : fd'[t] = fd[t] \/ fd'[t] = None
      /\ \A t \in Socks : up'[t] => up[t]
      /\ \A f \in Fds : open'[f] = open[f] \/ open'[f] = None
      /\ \A f \in Fds : (\A t \in S : fd[t] # f) => open'[f] = open[f]
  <2>1. TypeOK /\ S \subseteq Socks /\ Replace(S, None, None)
    BY <1>1, <1>2
  <2>2. \A t \in Socks : t \notin S /\ t # None => fd'[t] = fd[t] /\ up'[t] = up[t]
    BY <2>1, ReplaceKeeps
  <2>3. \A t \in Socks : fd'[t] = fd[t] \/ fd'[t] = None
    BY <2>1, ReplaceKeeps
  <2>4. \A t \in Socks : up'[t] => up[t]
    BY <2>1, ReplaceKeeps
  <2>5. \A f \in Fds : open'[f] = open[f] \/ open'[f] = None
    BY <2>1, ReplaceKeeps
  <2>6. \A f \in Fds : (\A t \in S : fd[t] # f) => open'[f] = open[f]
    BY <2>1, ReplaceKeeps
  <2>7. \A t \in Socks : t # None
    BY Numbers
  <2>8. QED
    BY <2>2, <2>3, <2>4, <2>5, <2>6, <2>7
<1>6. ASSUME NEW c \in Conns, client'[c] # None
      PROVE  /\ fd'[client[c]] = fd[client[c]] /\ fd[client[c]] # None
             /\ open'[fd[client[c]]] = IF closing[c] = None THEN client[c] ELSE None
  <2>1. /\ client'[c] = client[c] /\ client[c] # None /\ deleting[c] = None
        /\ client[c] \notin S /\ client[c] \in Socks
    BY <1>4, <1>6
  <2>2. /\ fd[client[c]] # None /\ fd[client[c]] \in Fds
        /\ open[fd[client[c]]] = IF closing[c] = None THEN client[c] ELSE None
    BY <1>1, <2>1 DEF OwnDescriptors, TypeOK
  <2>3. ASSUME NEW t \in S, closing[c] = None
        PROVE  fd[t] # fd[client[c]]
    <3>1. PICK d \in Conns : /\ deleting[d] # None
                             /\ \/ t = client[d] /\ t # None
                                \/ t = deleting[d] /\ client[d] = None
      BY <1>3
    <3>2. CASE t = client[d] /\ t # None
      BY <1>1, <2>1, <3>1, <3>2 DEF OwnDescriptors
    <3>3. CASE t = deleting[d] /\ client[d] = None
      BY <1>1, <2>1, <2>2, <2>3, <3>1, <3>3 DEF OwnDescriptors
    <3>4. QED
      BY <3>1, <3>2, <3>3
  <2>4. QED
    BY <1>5, <2>1, <2>2, <2>3
<1>7. ASSUME NEW c \in Conns, adding[c] # None
      PROVE  fd'[adding[c]] = None
  <2>1. adding[c] # client[c] /\ adding[c] # deleting[c] /\ adding[c] # cur
    BY <1>1, <1>7 DEF OneSocketPerIndex, Detail, Phased
  <2>2. fd[adding[c]] = None /\ adding[c] \in Socks
    BY <1>1, <1>7, <2>1 DEF OwnDescriptors, TypeOK
  <2>3. QED
    BY <1>5, <2>2
<1>8. ASSUME NEW c \in Conns, NEW d \in Conns, client'[c] # None, client'[d] # None,
             fd'[client'[c]] = fd'[client'[d]]
      PROVE  c = d
  BY <1>1, <1>4, <1>6, <1>8 DEF OwnDescriptors
<1>9. OwnDescriptors'
  BY <1>1, <1>4, <1>6, <1>7, <1>8 DEF OwnDescriptors, NoEntries
<1>10. ASSUME ~ lowered'
       PROVE  AllWatched'
  <2>1. ASSUME NEW c \in Conns, client'[c] # None, up'[client'[c]], closing'[c] = None
        PROVE  fd'[client'[c]] \in Watched'
    <3>1. /\ client'[c] = client[c] /\ deleting[c] = None /\ client[c] \in Socks
          /\ fd'[client[c]] = fd[client[c]] /\ up[client[c]] /\ closing[c] = None
      BY <1>1, <1>4, <1>5, <1>6, <2>1 DEF TypeOK
    <3>2. fd[client[c]] \in Watched
      BY <1>1, <1>10, <2>1, <3>1 DEF Numbered, AllWatched, Entries
    <3>3. C \subseteq Conns
      BY DEF Entries
    <3>4. fd[client[c]] \in rfds' /\ fd[client[c]] <= maxsock'
      BY <1>1, <2>1, <3>2, <3>3, UnmapWatched
    <3>5. QED
      BY <3>1, <3>4 DEF Watched
  <2>2. QED
    BY <2>1 DEF AllWatched, Entries
<1>11. QED
  BY <1>1, <1>9, <1>10 DEF Numbered

\* A retry closes the client of its index, and no other's.
LEMMA NumberedRetry ==
  ASSUME Inv, Numbered, TypeOK', RetryOne
  PROVE  Numbered'
<1>1. /\ TypeOK /\ Detail /\ OwnDescriptors /\ pc = "retrying" /\ cur = None
      /\ OneSocketPerIndex /\ deleting = NoEntries
      /\ UNCHANGED <<pc, cur, deleting, lowered>>
  BY DEF RetryOne, At, Inv, Sound, Numbered, OpeningOne, Detail, Phased, ghostVars
<1>2. PICK c \in Conns, S \in SUBSET Socks, s \in Socks \cup {None} :
        /\ Unmap({c}) /\ Replace(S, s, IF s = None THEN None ELSE c)
        /\ \A t \in S : \/ t = client[c]
                        \/ s # None /\ \E d \in Conns : adding[d] # None /\ t = adding[d]
        /\ IF s = None THEN adding' = adding
           ELSE /\ s \notin Referenced
                /\ adding' = [d \in Conns |-> IF d = c THEN s ELSE None]
  BY RetryOneShape DEF Inv
<1>3. ASSUME NEW d \in Conns, adding[d] # None
      PROVE  fd[adding[d]] = None /\ client[d] = None
  BY <1>1, <1>3 DEF OneSocketPerIndex, OwnDescriptors, NoEntries
<1>4. ASSUME NEW d \in Conns, client'[d] # None
      PROVE  /\ client'[d] = client[d] /\ client[d] \in Socks /\ d # c
             /\ closing'[d] = closing[d] /\ client[d] # s /\ client[d] \notin S
  <2>1. /\ client'[d] = client[d] /\ client[d] \in Socks /\ d # c
        /\ closing'[d] = closing[d]
    BY <1>1, <1>2, <1>4 DEF Unmap, Entries, TypeOK
  <2>2. client[d] # s
    BY <1>2, <2>1, <1>4 DEF Referenced
  <2>3. client[d] \notin S
    BY <1>1, <1>2, <1>3, <1>4, <2>1 DEF Detail, Owned
  <2>4. QED
    BY <2>1, <2>2, <2>3
<1>5. /\ \A t \in Socks : t \notin S /\ t # s => fd'[t] = fd[t]
      /\ \A t \in Socks : fd'[t] = fd[t] \/ fd'[t] = None
      /\ \A t \in Socks : up'[t] => up[t]
      /\ \A f \in Fds : open'[f] = open[f] \/ open'[f] = None
      /\ \A f \in Fds : (\A t \in S : fd[t] # f) => open'[f] = open[f]
      /\ s \in Socks => fd'[s] = None
  <2>1. TypeOK /\ S \subseteq Socks /\ Replace(S, s, IF s = None THEN None ELSE c)
    BY <1>1, <1>2
  <2>2. \A t \in Socks : t \notin S /\ t # s => fd'[t] = fd[t]
    BY <2>1, ReplaceKeeps
  <2>3. \A t \in Socks : fd'[t] = fd[t] \/ fd'[t] = None
    BY <2>1, ReplaceKeeps
  <2>4. \A t \in Socks : up'[t] => up[t]
    BY <2>1, ReplaceKeeps
  <2>5. \A f \in Fds : open'[f] = open[f] \/ open'[f] = None
    BY <2>1, ReplaceKeeps
  <2>6. \A f \in Fds : (\A t \in S : fd[t] # f) => open'[f] = open[f]
    BY <2>1, ReplaceKeeps
  <2>7. s \in Socks => fd'[s] = None
    BY <2>1, ReplaceKeeps
  <2>8. QED
    BY <2>2, <2>3, <2>4, <2>5, <2>6, <2>7
<1>6. ASSUME NEW d \in Conns, client'[d] # None
      PROVE  /\ fd'[client[d]] = fd[client[d]] /\ fd[client[d]] # None
             /\ open'[fd[client[d]]] = IF closing[d] = None THEN client[d] ELSE None
  <2>1. /\ client'[d] = client[d] /\ client[d] # None /\ d # c /\ client[d] \in Socks
        /\ client[d] # s /\ client[d] \notin S
    BY <1>4, <1>6
  <2>2. /\ fd[client[d]] # None /\ fd[client[d]] \in Fds
        /\ open[fd[client[d]]] = IF closing[d] = None THEN client[d] ELSE None
    BY <1>1, <2>1 DEF OwnDescriptors, TypeOK
  <2>3. ASSUME NEW t \in S
        PROVE  fd[t] # fd[client[d]]
    <3>1. CASE t = client[c]
      <4>1. t # None
        BY <1>2, Numbers
      <4>2. QED
        BY <1>1, <2>1, <3>1, <4>1 DEF OwnDescriptors
    <3>2. CASE \E e \in Conns : adding[e] # None /\ t = adding[e]
      BY <1>3, <2>2, <3>2
    <3>3. QED
      BY <1>2, <3>1, <3>2
  <2>4. QED
    BY <1>5, <2>1, <2>2, <2>3
<1>7. ASSUME NEW d \in Conns, adding'[d] # None
      PROVE  fd'[adding'[d]] = None
  <2>1. CASE s = None
    <3>1. adding' = adding
      BY <1>2, <2>1
    <3>2. fd[adding[d]] = None /\ adding[d] \in Socks
      BY <1>1, <1>3, <1>7, <3>1 DEF TypeOK
    <3>3. QED
      BY <1>5, <3>1, <3>2
  <2>2. CASE s # None
    BY <1>2, <1>5, <1>7, <2>2
  <2>3. QED
    BY <2>1, <2>2
<1>8. ASSUME NEW d \in Conns, NEW e \in Conns, client'[d] # None, client'[e] # None,
             fd'[client'[d]] = fd'[client'[e]]
      PROVE  d = e
  BY <1>1, <1>4, <1>6, <1>8 DEF OwnDescriptors
<1>9. OwnDescriptors'
  BY <1>1, <1>4, <1>6, <1>7, <1>8 DEF OwnDescriptors, NoEntries
<1>10. ASSUME ~ lowered'
       PROVE  AllWatched'
  <2>1. ASSUME NEW d \in Conns, client'[d] # None, up'[client'[d]], closing'[d] = None
        PROVE  fd'[client'[d]] \in Watched'
    <3>1. /\ client'[d] = client[d] /\ client[d] \in Socks
          /\ fd'[client[d]] = fd[client[d]] /\ up[client[d]] /\ closing[d] = None
          /\ deleting[d] = None
      BY <1>1, <1>4, <1>5, <1>6, <2>1 DEF TypeOK, NoEntries
    <3>2. fd[client[d]] \in Watched
      BY <1>1, <1>10, <2>1, <3>1 DEF Numbered, AllWatched, Entries
    <3>3. {c} \subseteq Conns
      OBVIOUS
    <3>4. fd[client[d]] \in rfds' /\ fd[client[d]] <= maxsock'
      BY <1>1, <1>2, <2>1, <3>2, <3>3, UnmapWatched
    <3>5. QED
      BY <3>1, <3>4 DEF Watched
  <2>2. QED
    BY <2>1 DEF AllWatched, Entries
<1>11. QED
  BY <1>1, <1>9, <1>10 DEF Numbered

\* The number that CreateEx takes is nobody's, nor a removed connection's.
LEMMA NumberedOpenStart ==
  ASSUME Inv, Numbered, TypeOK', OpenStart, ~ reused'
  PROVE  Numbered'
<1> DEFINE c == First(Pending)
<1>1. c \in Pending
  BY FirstOf, Numbers DEF OpenStart, Pending, Entries
<1>2. /\ TypeOK /\ Detail /\ OwnDescriptors /\ pc = "adding" /\ OneAdding
      /\ OneSocketPerIndex /\ pc' = "opening"
      /\ UNCHANGED <<client, adding, deleting, closing, up, rfds, maxsock, lowered>>
      /\ cur' = adding[c] /\ CreateEx(adding[c])
  BY DEF OpenStart, At, Inv, Sound, Numbered, mapVars, fdsetVars
<1> HIDE DEF c
<1>3. c \in Conns /\ adding[c] \in Socks /\ adding[c] # None /\ c > it
  BY <1>1, <1>2 DEF Pending, Entries, TypeOK
<1>4. client[c] = None /\ deleting[c] = None
  BY <1>2, <1>3, Numbers DEF Detail, Phased, TypeOK
<1>5. \A d \in Conns : client[d] # adding[c] /\ deleting[d] # adding[c]
  BY <1>2, <1>3, <1>4 DEF Detail, Owned
<1>6. PICK g \in Fds \cup {None} :
        /\ g # None => open[g] = None
        /\ fd' = [fd EXCEPT ![adding[c]] = g]
        /\ open' = [f \in Fds |-> IF f = g THEN adding[c] ELSE open[f]]
        /\ g \notin Removed
  BY <1>2 DEF CreateEx
<1>7. \A d \in Conns : deleting[d] = None
  BY <1>2, <1>3, <1>4 DEF Detail, Phased, OneAdding
<1>8. ASSUME NEW d \in Conns, client[d] # None
      PROVE  /\ fd'[client[d]] = fd[client[d]] /\ fd[client[d]] # None
             /\ open'[fd[client[d]]] = IF closing[d] = None THEN client[d] ELSE None
  <2>1. /\ client[d] \in Socks /\ fd[client[d]] \in Fds /\ fd[client[d]] # None
        /\ open[fd[client[d]]] = IF closing[d] = None THEN client[d] ELSE None
    BY <1>2, <1>8 DEF OwnDescriptors, TypeOK
  <2>2. closing[d] = None => fd[client[d]] # g
    BY <1>6, <1>8, <2>1
  <2>3. closing[d] # None => fd[client[d]] # g
    BY <1>2, <1>6 DEF Removed, Entries, OneSocketPerIndex
  <2>4. QED
    BY <1>2, <1>5, <1>6, <2>1, <2>2, <2>3 DEF TypeOK
<1>9. OwnDescriptors'
  <2>1. \A d \in Conns : adding[d] # None => adding[d] = adding[c]
    BY <1>2, <1>3 DEF OneAdding
  <2>2. fd'[cur'] # None => open'[fd'[cur']] = cur'
    BY <1>2, <1>3, <1>6 DEF TypeOK
  <2>3. ASSUME NEW d \in Conns, NEW e \in Conns, client[d] # None, client[e] # None,
               fd'[client[d]] = fd'[client[e]]
        PROVE  d = e
    BY <1>2, <1>8, <2>3 DEF OwnDescriptors
  <2>4. QED
    BY <1>2, <1>7, <1>8, <2>1, <2>2, <2>3 DEF OwnDescriptors
<1>10. ~ lowered' => AllWatched'
  BY <1>2, <1>8 DEF Numbered, AllWatched, Watched, Entries
<1>11. QED
  BY <1>2, <1>9, <1>10 DEF Numbered

\* The new socket is watched, and the others still are.
LEMMA NumberedOpened ==
  ASSUME Inv, Numbered, TypeOK', Opened
  PROVE  Numbered'
<1>1. /\ TypeOK /\ NoDangling /\ OwnDescriptors /\ pc = "opening" /\ fd[cur] # None
      /\ UNCHANGED <<cur, client, adding, deleting, closing, fd, up, open, lowered>>
      /\ rfds' = rfds \cup {fd[cur]} /\ maxsock' = Highest({maxsock, fd[cur]})
  BY DEF Opened, At, Inv, Sound, Numbered, mapVars, sockVars, kernelVars, ghostVars
<1>2. fd[cur] \in Fds
  BY <1>1, OpeningIsOther
<1>3. maxsock <= maxsock' /\ fd[cur] <= maxsock' /\ maxsock \in Nat /\ maxsock' \in Nat
  <2>1. {maxsock, fd[cur]} \subseteq Fds \cup {0} /\ maxsock' \in Fds \cup {0}
    BY <1>1, <1>2 DEF TypeOK
  <2>2. \A x \in {maxsock, fd[cur]} : x <= maxsock'
    BY <1>1, <2>1, HighestOf
  <2>3. maxsock <= maxsock' /\ fd[cur] <= maxsock'
    BY <2>2
  <2>4. maxsock \in Fds \cup {0} /\ maxsock' \in Fds \cup {0}
    BY <2>1
  <2>5. QED
    BY <2>3, <2>4, Numbers
<1>4. \A f \in Watched : f \in Watched'
  <2>1. \A f \in Watched : f \in rfds /\ f <= maxsock /\ f \in Nat
    BY <1>1, Numbers DEF Watched, TypeOK
  <2>2. \A f \in Watched : f <= maxsock'
    BY <1>3, <2>1
  <2>3. QED
    BY <1>1, <2>1, <2>2 DEF Watched
<1>5. fd[cur] \in Watched'
  BY <1>1, <1>3 DEF Watched
<1>6. OwnDescriptors'
  BY <1>1 DEF OwnDescriptors
<1>7. ~ lowered' => AllWatched'
  BY <1>1, <1>4 DEF Numbered, AllWatched, Entries
<1>8. QED
  BY <1>1, <1>5, <1>6, <1>7 DEF Numbered

\* The new client is watched already.
LEMMA NumberedOpenDone ==
  ASSUME Inv, Numbered, TypeOK', OpenDone
  PROVE  Numbered'
<1>1. /\ TypeOK /\ NoDangling /\ OwnDescriptors /\ pc = "inserting" /\ pc' = "adding"
      /\ UNCHANGED <<adding, deleting, closing, fd, open, rfds, maxsock, lowered>>
      /\ cur' = None
      /\ client' = [client EXCEPT ![it] = cur] /\ up' = [up EXCEPT ![cur] = TRUE]
  BY DEF OpenDone, At, Inv, Sound, Numbered, kernelVars, fdsetVars
<1>2. /\ it \in Conns /\ cur \in Socks /\ cur # None
      /\ adding[it] = cur /\ client[it] = None /\ closing[it] = None
      /\ \A d \in Conns : deleting[d] = None
      /\ \A d \in Conns : adding[d] # None => d = it
      /\ \A d \in Conns : client[d] # None => client[d] # cur /\ fd[client[d]] # fd[cur]
  BY <1>1, OpeningIsOther
<1>3. client'[it] = cur /\ \A d \in Conns : d # it => client'[d] = client[d]
  BY <1>1, <1>2 DEF TypeOK
<1>4. fd[cur] # None /\ (~ lowered => fd[cur] \in Watched)
  BY <1>1 DEF Numbered
<1>5. OwnDescriptors'
  <2>1. ASSUME NEW d \in Conns, client'[d] # None
        PROVE  /\ fd[client'[d]] # None
               /\ open[fd[client'[d]]] = IF closing[d] = None THEN client'[d] ELSE None
    BY <1>1, <1>2, <1>3, <1>4, <2>1 DEF OwnDescriptors
  <2>2. ASSUME NEW d \in Conns, NEW e \in Conns, client'[d] # None, client'[e] # None,
               fd[client'[d]] = fd[client'[e]]
        PROVE  d = e
    BY <1>1, <1>2, <1>3, <2>2 DEF OwnDescriptors
  <2>3. \A d \in Conns : adding[d] # None => adding[d] = client'[d]
    BY <1>2, <1>3
  <2>4. QED
    BY <1>1, <1>2, <2>1, <2>2, <2>3 DEF OwnDescriptors
<1>6. ASSUME ~ lowered'
      PROVE  AllWatched'
  <2>1. ASSUME NEW d \in Conns, client'[d] # None, up'[client'[d]], closing'[d] = None
        PROVE  fd[client'[d]] \in Watched
    <3>1. CASE d = it
      BY <1>1, <1>3, <1>4, <1>6, <3>1
    <3>2. CASE d # it
      <4>1. client'[d] = client[d] /\ client[d] # cur /\ client[d] # None
        BY <1>2, <1>3, <2>1, <3>2
      <4>2. up[client[d]] /\ closing[d] = None
        BY <1>1, <2>1, <4>1 DEF TypeOK
      <4>3. QED
        BY <1>1, <1>2, <1>6, <4>1, <4>2 DEF Numbered, AllWatched, Entries
    <3>3. QED
      BY <3>1, <3>2
  <2>2. QED
    BY <1>1, <2>1 DEF AllWatched, Watched, Entries
<1>7. QED
  BY <1>1, <1>5, <1>6 DEF Numbered

\* A connect that failed closes its own number.
LEMMA NumberedOpenFailed ==
  ASSUME Inv, Numbered, TypeOK', OpenFailed
  PROVE  Numbered'
<1>1. /\ TypeOK /\ NoDangling /\ OwnDescriptors /\ pc = "opening" /\ pc' = "adding"
      /\ UNCHANGED <<client, adding, closing, fd, up, rfds, maxsock, lowered>>
      /\ cur' = None
      /\ open' = [f \in Fds |-> IF f = fd[cur] THEN None ELSE open[f]]
      /\ deleting' = [deleting EXCEPT ![it] = cur]
  BY DEF OpenFailed, At, Inv, Sound, Numbered, sockVars, fdsetVars
<1>2. /\ it \in Conns /\ cur \in Socks /\ cur # None /\ fd[cur] \in Fds \cup {None}
      /\ adding[it] = cur /\ client[it] = None
      /\ \A d \in Conns : deleting[d] = None
      /\ \A d \in Conns : adding[d] # None => d = it
      /\ \A d \in Conns : client[d] # None => client[d] # cur /\ fd[client[d]] # fd[cur]
  BY <1>1, OpeningIsOther
<1>3. deleting'[it] = cur /\ \A d \in Conns : d # it => deleting'[d] = None
  BY <1>1, <1>2 DEF TypeOK
<1>4. ASSUME NEW d \in Conns, client[d] # None
      PROVE  /\ fd[client[d]] # None
             /\ open'[fd[client[d]]] = IF closing[d] = None THEN client[d] ELSE None
  <2>1. /\ fd[client[d]] # None /\ fd[client[d]] \in Fds
        /\ open[fd[client[d]]] = IF closing[d] = None THEN client[d] ELSE None
    BY <1>1, <1>4 DEF OwnDescriptors, TypeOK
  <2>2. QED
    BY <1>1, <1>2, <1>4, <2>1
<1>5. fd[cur] = None \/ open'[fd[cur]] = None
  BY <1>1, <1>2
<1>6. OwnDescriptors'
  BY <1>1, <1>2, <1>3, <1>4, <1>5 DEF OwnDescriptors
<1>7. ~ lowered' => AllWatched'
  BY <1>1, <1>2 DEF Numbered, AllWatched, Watched, Entries
<1>8. QED
  BY <1>1, <1>6, <1>7 DEF Numbered

\* An error on a client.
LEMMA NumberedError ==
  ASSUME Inv, Numbered, NoDangling, pc \notin {"adding", "opening", "inserting"},
         pc' # "inserting", NEW c \in Conns, client[c] # None, CheckError(c),
         UNCHANGED <<cur, client, adding, closing, fd, up, open, maxsock, lowered>>
  PROVE  Numbered'
<1>1. TypeOK /\ OwnDescriptors /\ adding[c] = None
  BY DEF Inv, Sound, Numbered, OneSocketPerIndex
<1>2. /\ deleting'[c] = client[c] /\ \A d \in Conns : d # c => deleting'[d] = deleting[d]
      /\ rfds' = rfds \ {fd[client[c]]}
  BY <1>1, ErrorFound
<1>3. OwnDescriptors'
  BY <1>1, <1>2 DEF OwnDescriptors
<1>4. \A d \in Conns : d # c /\ client[d] # None => fd[client[d]] # fd[client[c]]
  BY <1>1 DEF OwnDescriptors
<1>5. ~ lowered' => AllWatched'
  BY <1>2, <1>4 DEF Numbered, AllWatched, Watched, Entries
<1>6. QED
  BY <1>3, <1>5 DEF Numbered

\* RebuildFdset drops the clients that were removed, and no other: none of them
\* is closed.
LEMMA NumberedSelectFailed ==
  ASSUME Inv, Numbered, TypeOK', SelectFailed
  PROVE  Numbered'
<1> DEFINE left == [c \in Conns |-> IF closing[c] # None THEN None ELSE client[c]]
           bad  == {left[c] : c \in {d \in Entries(left) : open[fd[left[d]]] = None}}
<1>1. /\ TypeOK /\ OwnDescriptors /\ OneSocketPerIndex
      /\ UNCHANGED <<cur, adding, deleting, fd, open, maxsock, lowered>>
      /\ cur = None /\ pc = "selecting" /\ pc' = "deleting"
      /\ client' = left /\ closing' = NoEntries
      /\ up' = [s \in Socks |-> up[s] /\ s \notin bad]
      /\ rfds' = rfds \cap ({fd[left[c]] : c \in Entries(left)} \ {fd[s] : s \in bad})
  BY DEF SelectFailed, RebuildFdset, At, Inv, Sound, Numbered, OpeningOne, kernelVars,
         ghostVars
<1>2. bad = {}
  BY <1>1 DEF OwnDescriptors, Entries
<1>3. /\ \A t \in Socks : up'[t] => up[t]
      /\ \A c \in Conns : left[c] # None /\ fd[left[c]] \in rfds => fd[left[c]] \in rfds'
  <2> HIDE DEF left, bad
  <2>1. QED
    BY <1>1, <1>2 DEF TypeOK, Entries
<1>4. \A c \in Conns : client'[c] # None =>
        /\ client'[c] = client[c] /\ left[c] = client[c] /\ closing[c] = None
        /\ client[c] \in Socks
  BY <1>1 DEF TypeOK
<1>5. \A c \in Conns : client'[c] = None => closing[c] # None \/ client[c] = None
  BY <1>1
<1> HIDE DEF left, bad
<1>6. OwnDescriptors'
  <2>1. ASSUME NEW c \in Conns, client'[c] # None
        PROVE  fd[client'[c]] # None /\ open[fd[client'[c]]] = client'[c]
    BY <1>1, <1>4, <2>1 DEF OwnDescriptors
  <2>2. ASSUME NEW c \in Conns, NEW d \in Conns, client'[c] # None, client'[d] # None,
               fd[client'[c]] = fd[client'[d]]
        PROVE  c = d
    BY <1>1, <1>4, <2>2 DEF OwnDescriptors
  <2>3. ASSUME NEW c \in Conns, deleting[c] # None, client'[c] = None
        PROVE  fd[deleting[c]] = None \/ open[fd[deleting[c]]] = None
    <3>1. CASE client[c] = None
      BY <1>1, <2>3, <3>1 DEF OwnDescriptors
    <3>2. CASE client[c] # None
      <4>1. closing[c] # None /\ deleting[c] = client[c]
        BY <1>1, <1>5, <2>3, <3>2 DEF OneSocketPerIndex
      <4>2. QED
        BY <1>1, <3>2, <4>1 DEF OwnDescriptors
    <3>3. QED
      BY <3>1, <3>2
  <2>4. ASSUME NEW c \in Conns, adding[c] # None
        PROVE  fd[adding[c]] = None \/ adding[c] = deleting[c]
    <3>1. client[c] = None
      BY <1>1, <2>4 DEF OneSocketPerIndex
    <3>2. QED
      BY <1>1, <2>4, <3>1 DEF OwnDescriptors
  <2>5. \A c \in Conns : closing'[c] = None
    BY <1>1 DEF NoEntries
  <2>6. QED
    BY <1>1, <2>1, <2>2, <2>3, <2>4, <2>5 DEF OwnDescriptors
<1>7. ASSUME ~ lowered'
      PROVE  AllWatched'
  <2>1. ASSUME NEW c \in Conns, client'[c] # None, up'[client'[c]], deleting[c] = None
        PROVE  fd[client'[c]] \in rfds' /\ fd[client'[c]] <= maxsock
    <3>1. /\ client'[c] = client[c] /\ left[c] = client[c] /\ up[client[c]]
          /\ closing[c] = None
      BY <1>3, <1>4, <2>1
    <3>2. fd[client[c]] \in Watched
      BY <1>1, <1>7, <2>1, <3>1 DEF Numbered, AllWatched, Entries
    <3>3. QED
      BY <1>3, <2>1, <3>1, <3>2 DEF Watched
  <2>2. QED
    BY <1>1, <2>1 DEF AllWatched, Watched, Entries
<1>8. QED
  BY <1>1, <1>6, <1>7 DEF Numbered

\* Every step.
LEMMA NumberedStep ==
  ASSUME Inv, ~ reused => Numbered, Next
  PROVE  ~ reused' => Numbered'
<1>1. TypeOK /\ TypeOK'
  BY NextTypes DEF Inv
<1>2. reused' = reused \/ OpenStart
  BY DEF Next, Main, World, Run, AddConnect, RemoveConnect, ReConnect, SendMessage,
     SetAutoConnect, DelayOver, PeerGone, CheckDeleting, MergeRequests, ClearRequests,
     RetryOne, RetryDone, Opened, OpenDone, OpenFailed, AddingDone, SendHead, RemoveHead,
     SendNothing, SelectFailed, SelectReady, Dispatch, DispatchDone, ghostVars
<1>3. SUFFICES ASSUME ~ reused'
               PROVE  Numbered'
  OBVIOUS
<1>4. OpenStart => Numbered
  <2>1. CASE reused
    BY <1>1, <1>3, <2>1 DEF OpenStart, CreateEx, TypeOK
  <2>2. QED
    BY <2>1
<1>5. Numbered
  BY <1>2, <1>3, <1>4
<1>6. ASSUME NEW c \in Conns, AddConnect(c) \/ RemoveConnect(c)
      PROVE  Numbered'
  BY <1>1, <1>5, <1>6, NumberedAdd, NumberedRemove
<1>7. CASE \/ (\E c \in Conns : ReConnect(c) \/ SendMessage(c))
           \/ SetAutoConnect \/ World
  BY <1>5, <1>7, NumberedFrame DEF ReConnect, SendMessage, SetAutoConnect, World,
     DelayOver, PeerGone, netVars, mapVars, sockVars, kernelVars, fdsetVars, ghostVars
<1>8. CASE \/ MergeRequests \/ ClearRequests \/ RetryDone \/ AddingDone
           \/ RemoveHead \/ SendNothing \/ SelectReady \/ DispatchDone
  BY <1>5, <1>8, NumberedFrame DEF MergeRequests, ClearRequests, Retrying, RetryDone,
     AddingDone, RemoveHead, SendNothing, SelectReady, DispatchDone, At,
     mapVars, sockVars, kernelVars, fdsetVars, ghostVars
<1>9. CASE SendHead
  <2>1. /\ NoDangling /\ pc = "sending" /\ pc' = "removing"
        /\ Head(sendq) \in Conns /\ client[Head(sendq)] # None
        /\ UNCHANGED <<cur, client, adding, closing, fd, up, open, maxsock, lowered>>
        /\ UNCHANGED <<rfds, deleting>> \/ CheckError(Head(sendq))
    BY <1>1, <1>9 DEF SendHead, Sendable, At, TypeOK, sockVars, kernelVars
  <2>2. CASE UNCHANGED <<rfds, deleting>>
    BY <1>5, <2>1, <2>2, NumberedFrame
  <2>3. CASE CheckError(Head(sendq))
    BY <1>5, <2>1, <2>3, NumberedError
  <2>4. QED
    BY <2>1, <2>2, <2>3
<1>10. CASE Dispatch
  <2>1. First(Readable) \in Readable
    BY <1>10, FirstOf, Numbers DEF Dispatch, Readable, Entries
  <2>2. First(Readable) \in Conns /\ client[First(Readable)] # None
    BY <2>1 DEF Readable, Entries
  <2>3. /\ NoDangling /\ pc = "dispatching" /\ pc' = "dispatching"
        /\ UNCHANGED <<cur, client, adding, closing, fd, up, open, maxsock, lowered>>
        /\ UNCHANGED <<rfds, deleting>> \/ CheckError(First(Readable))
    BY <1>10 DEF Dispatch, ErrorPassedOver, At, sockVars, kernelVars
  <2>4. CASE UNCHANGED <<rfds, deleting>>
    BY <1>5, <2>3, <2>4, NumberedFrame
  <2>5. CASE CheckError(First(Readable))
    BY <1>5, <2>2, <2>3, <2>5, NumberedError
  <2>6. QED
    BY <2>3, <2>4, <2>5
<1>11. QED
  BY <1>1, <1>3, <1>5, <1>6, <1>7, <1>8, <1>9, <1>10, NumberedDelete, NumberedRetry,
     NumberedOpenStart, NumberedOpened, NumberedOpenDone, NumberedOpenFailed,
     NumberedSelectFailed
  DEF Next, Main, Run

\* The initial state.
LEMMA NumberedInit == Init => Numbered
<1> SUFFICES ASSUME Init
             PROVE  Numbered
  OBVIOUS
<1>1. \A c \in Conns : client[c] = None /\ adding[c] = None /\ deleting[c] = None
  BY DEF Init, NoEntries
<1>2. cur = None /\ pc = "deleting"
  BY DEF Init
<1>3. QED
  BY <1>1, <1>2 DEF Numbered, OwnDescriptors, AllWatched, Entries

\* A step that changes nothing.
LEMMA NumberedStutter ==
  ASSUME ~ reused => Numbered, UNCHANGED vars
  PROVE  ~ reused' => Numbered'
<1>1. UNCHANGED <<pc, cur, client, adding, deleting, closing, freed, fd, up, open,
                  rfds, maxsock, reused, lowered>>
  BY DEF vars, netVars, mapVars, sockVars, kernelVars, fdsetVars, ghostVars
<1>2. NoDangling' = NoDangling
  BY <1>1 DEF NoDangling
<1>3. OwnDescriptors => OwnDescriptors'
  BY <1>1 DEF OwnDescriptors
<1>4. AllWatched => AllWatched'
  BY <1>1 DEF AllWatched, Watched, Entries
<1>5. fd[cur] \in Watched => fd'[cur'] \in Watched'
  BY <1>1 DEF Watched
<1>6. QED
  BY <1>1, <1>2, <1>3, <1>4, <1>5 DEF Numbered

\* Whatever calls the main thread makes, every live connection is among what
\* select watches, and below the highest descriptor it is given, until a socket
\* gets the number of a removed one or removeConnect meets an insertion.
THEOREM Watching == Spec => []ConnectedIsWatched
<1>1. Inv /\ (~ reused => Numbered) /\ [Next]_vars => (~ reused => Numbered)'
  BY NumberedStep, NumberedStutter
<1>2. Init => (~ reused => Numbered)
  BY NumberedInit
<1>3. (~ reused => Numbered) => ConnectedIsWatched
  BY DEF Numbered, AllWatched, ConnectedIsWatched
<1>4. QED
  BY <1>1, <1>2, <1>3, Invariance, PTL DEF Spec

\* The number of a client that is open reaches the peer it was opened for.
LEMMA NotMixed ==
  ASSUME Inv, Numbered, NoDangling, RightPeer, NEW c \in Conns, client[c] # None,
         open[fd[client[c]]] # None
  PROVE  ~ Mixed(c)
<1>1. open[fd[client[c]]] = client[c] /\ who[client[c]] = c
  BY DEF Inv, Sound, Detail, Owned, Numbered, OwnDescriptors
<1>2. QED
  BY <1>1 DEF Mixed, RightPeer

\* Whatever is removed, deleted, retried and closed twice, bytes are only exchanged
\* with the peer of the index they are labelled with, until a socket gets the number
\* of a removed one whose socket is still a client.
THEOREM NoneMisrouted == Spec => []RightUnlessReused
<1>1. Init => RightUnlessReused
  BY DEF Init, RightUnlessReused, RightPeer
<1>2. ASSUME Inv, ~ reused => Numbered, RightUnlessReused, Next
      PROVE  RightUnlessReused'
  <2>1. CASE misrouted' = misrouted
    <3>1. reused => reused' \/ OpenStart
      BY <1>2 DEF Next, Main, World, Run, AddConnect, RemoveConnect, ReConnect,
         SendMessage, SetAutoConnect, DelayOver, PeerGone, CheckDeleting, MergeRequests,
         ClearRequests, RetryOne, RetryDone, Opened, OpenDone, OpenFailed, AddingDone,
         SendHead, RemoveHead, SendNothing, SelectFailed, SelectReady, Dispatch,
         DispatchDone, ghostVars
    <3>2. reused /\ OpenStart => reused'
      BY <1>2 DEF OpenStart, CreateEx, Inv, TypeOK
    <3>3. QED
      BY <1>2, <2>1, <3>1, <3>2 DEF RightUnlessReused, RightPeer
  <2>2. CASE SendHead
    <3>1. /\ NoDangling /\ Head(sendq) \in Conns /\ client[Head(sendq)] # None
          /\ reused' = reused
          /\ \/ /\ misrouted' = Mixed(Head(sendq))
                /\ open[fd[client[Head(sendq)]]] # None
             \/ misrouted' = misrouted
      BY <1>2, <2>2 DEF SendHead, Sendable, At, Inv, TypeOK
    <3>2. ~ reused /\ open[fd[client[Head(sendq)]]] # None => ~ Mixed(Head(sendq))
      BY <1>2, <3>1, NotMixed DEF RightUnlessReused
    <3>3. QED
      BY <1>2, <3>1, <3>2 DEF RightUnlessReused, RightPeer
  <2>3. CASE Dispatch
    <3>1. First(Readable) \in Readable
      BY <2>3, FirstOf, Numbers DEF Dispatch, Readable, Entries
    <3>2. First(Readable) \in Conns /\ client[First(Readable)] # None
      BY <3>1 DEF Readable, Entries
    <3>3. /\ NoDangling /\ reused' = reused
          /\ \/ /\ misrouted' = Mixed(First(Readable))
                /\ open[fd[client[First(Readable)]]] # None
             \/ misrouted' = misrouted
      BY <2>3 DEF Dispatch, Reaches, At
    <3>4. ~ reused /\ open[fd[client[First(Readable)]]] # None => ~ Mixed(First(Readable))
      BY <1>2, <3>2, <3>3, NotMixed DEF RightUnlessReused
    <3>5. QED
      BY <1>2, <3>3, <3>4 DEF RightUnlessReused, RightPeer
  <2>4. CASE ~ SendHead /\ ~ Dispatch
    <3>1. CASE Main \/ World
      BY <2>1, <3>1 DEF Main, World, AddConnect, RemoveConnect, ReConnect,
         SendMessage, SetAutoConnect, DelayOver, PeerGone, ghostVars
    <3>2. CASE Run
      BY <2>1, <2>4, <3>2 DEF Run, CheckDeleting, MergeRequests, ClearRequests,
         RetryOne, RetryDone, OpenStart, Opened, OpenDone, OpenFailed, AddingDone,
         RemoveHead, SendNothing, SelectFailed, SelectReady, DispatchDone, ghostVars
    <3>3. QED
      BY <1>2, <3>1, <3>2 DEF Next
  <2>5. QED
    BY <2>2, <2>3, <2>4
<1>3. ASSUME RightUnlessReused, UNCHANGED vars
      PROVE  RightUnlessReused'
  BY <1>3 DEF RightUnlessReused, RightPeer, vars, ghostVars
<1>4. Inv /\ (~ reused => Numbered) /\ [Next]_vars => (~ reused => Numbered)'
  BY NumberedStep, NumberedStutter
<1>5. Inv /\ (~ reused => Numbered) /\ RightUnlessReused /\ [Next]_vars
        => RightUnlessReused'
  BY <1>2, <1>3
<1>6. Init => (~ reused => Numbered)
  BY NumberedInit
<1>7. QED
  BY <1>1, <1>4, <1>5, <1>6, Invariance, PTL DEF Spec

----------------------------------------------------------------------------
(* The life of the net thread around the steps of SocketManager.           *)

\* The invariant: a thread that is not inside Run is between two passes.
ShutInv ==
  /\ ShutTypeOK
  /\ dtor # "done" => Inv /\ OpenOwned
  /\ thread # "running" => pc = "deleting"
  /\ NothingLeftOpen

\* At first no descriptor is open.
LEMMA InitOpenOwned == Init => OpenOwned
BY DEF Init, OpenOwned

\* A step of the thread's or the manager's life opens and closes none.
LEMMA StutterOpenOwned ==
  ASSUME OpenOwned, UNCHANGED vars
  PROVE  OpenOwned'
BY DEF OpenOwned, vars, netVars, mapVars, sockVars, kernelVars

\* The initial state.
LEMMA InitShut == ShutInit => ShutInv
<1> SUFFICES ASSUME ShutInit
             PROVE  ShutInv
  OBVIOUS
<1>1. Inv /\ OpenOwned
  BY InitInv, InitOpenOwned DEF ShutInit
<1>2. /\ thread = "none" /\ running = FALSE /\ dtor = "no" /\ pc = "deleting"
      /\ calls \in 0 .. MaxCalls
  BY MaxCallsAssumption DEF ShutInit, Init
<1>3. QED
  BY <1>1, <1>2 DEF ShutInv, ShutTypeOK, NothingLeftOpen, Inv

\* The steps of the two threads and of the world, while there is a manager.
LEMMA StepShut ==
  ASSUME ShutInv, dtor # "done", Next, UNCHANGED shutVars,
         thread = "running" \/ pc' = pc, calls' \in 0 .. MaxCalls
  PROVE  ShutInv'
<1>1. Inv' /\ OpenOwned'
  BY NextInv, OpenOwnedStep DEF ShutInv
<1>2. thread' = thread /\ running' = running /\ dtor' = dtor
  BY DEF shutVars
<1>3. QED
  BY <1>1, <1>2 DEF ShutInv, ShutTypeOK, NothingLeftOpen, Inv

\* The steps that only start, stop or wait for the thread.
LEMMA LifeShut ==
  ASSUME ShutInv, dtor # "done", dtor' # "done", UNCHANGED vars,
         thread' \in {"none", "created", "running", "ended"},
         running' \in BOOLEAN, dtor' \in {"no", "waiting", "freeing", "done"},
         thread' # "running" => pc = "deleting", calls' \in 0 .. MaxCalls
  PROVE  ShutInv'
<1>1. Inv' /\ OpenOwned'
  BY StutterInv, StutterOpenOwned DEF ShutInv
<1>2. pc' = pc
  BY DEF vars, netVars
<1>3. QED
  BY <1>1, <1>2 DEF ShutInv, ShutTypeOK, NothingLeftOpen, Inv

\* The last step of ~SocketManager: the clients are deleted.
LEMMA FreeClientsShut ==
  ASSUME ShutInv, FreeClients
  PROVE  ShutInv' /\ client' = NoEntries
<1> DEFINE S == {client[c] : c \in Entries(client)}
<1>1. /\ dtor = "freeing" /\ dtor' = "done" /\ client' = NoEntries
      /\ Replace(S, None, None)
      /\ UNCHANGED <<pc, it, cur, ready, adding, deleting, closing, recon, due,
                     addRecon, lost, auto, retry, allOk, rfds, maxsock, sendq,
                     told, misrouted, reused, lowered, thread, running, calls>>
  BY DEF FreeClients, netVars, reconVars, flagVars, fdsetVars, ghostVars
<1>2. TypeOK /\ OpeningOne /\ OpenOwned
  BY <1>1 DEF ShutInv, Inv
<1>3. S \subseteq Socks
  BY <1>2 DEF TypeOK, Entries
<1>4. \A c \in Conns : client[c] # None => client[c] \in S
  BY DEF Entries
<1> HIDE DEF S
<1>5. /\ open' \in [Fds -> Socks \cup {None}] /\ broken' \subseteq Fds
      /\ freed' \subseteq Socks /\ fd' \in [Socks -> Fds \cup {None}]
      /\ up' \in [Socks -> BOOLEAN] /\ who' \in [Socks -> Conns \cup {None}]
  BY <1>1, <1>2, <1>3, ReplaceType
<1>6. client' \in [Conns -> Socks \cup {None}]
  BY <1>1 DEF NoEntries
<1>7. TypeOK'
  BY <1>1, <1>2, <1>5, <1>6 DEF TypeOK
<1>8. ASSUME thread \in {"none", "ended"}, NEW f \in Fds, open'[f] # None
      PROVE  FALSE
  <2>1. cur = None
    BY <1>2, <1>8 DEF ShutInv, OpeningOne
  <2>2. open'[f] = open[f] /\ open[f] \notin S
    BY <1>1, <1>2, <1>3, <1>8, ReplaceOpen
  <2>3. \E c \in Conns : client[c] = open[f] /\ client[c] # None
    BY <1>2, <1>8, <2>1, <2>2 DEF OpenOwned
  <2>4. QED
    BY <1>4, <2>2, <2>3
<1>9. NothingLeftOpen'
  BY <1>1, <1>8 DEF NothingLeftOpen
<1>10. QED
  BY <1>1, <1>7, <1>9 DEF ShutInv, ShutTypeOK

\* Every step.
LEMMA NextShut ==
  ASSUME ShutInv, ShutNext
  PROVE  ShutInv'
<1>1. thread \in {"none", "created", "running", "ended"} /\ running \in BOOLEAN
      /\ dtor \in {"no", "waiting", "freeing", "done"} /\ calls \in 0 .. MaxCalls
  BY DEF ShutInv, ShutTypeOK
<1>2. CASE RunThread
  BY <1>1, <1>2, LifeShut DEF RunThread, ShutInv
<1>3. CASE EnterRun
  BY <1>1, <1>3, LifeShut DEF EnterRun
<1>4. CASE NetStep
  BY <1>1, <1>4, StepShut DEF NetStep, Next
<1>5. CASE LoopEnds
  BY <1>1, <1>5, LifeShut DEF LoopEnds, GoesOn
<1>6. CASE Calls
  <2>1. pc' = pc
    BY <1>6 DEF Calls, Main, AddConnect, RemoveConnect, ReConnect, SendMessage,
                SetAutoConnect, netVars
  <2>2. calls' \in 0 .. MaxCalls
    BY <1>1, <1>6, MaxCallsAssumption DEF Calls
  <2>3. QED
    BY <1>6, <2>1, <2>2, StepShut DEF Calls, Next
<1>7. CASE Stop
  BY <1>1, <1>7, LifeShut DEF Stop, ShutInv
<1>8. CASE WaitOver
  BY <1>1, <1>8, LifeShut DEF WaitOver, ShutInv
<1>9. CASE FreeClients
  BY <1>9, FreeClientsShut
<1>10. CASE ShutWorld
  <2>1. pc' = pc
    BY <1>10 DEF ShutWorld, World, DelayOver, PeerGone, netVars
  <2>2. QED
    BY <1>1, <1>10, <2>1, StepShut DEF ShutWorld, Next
<1>11. QED
  BY <1>2, <1>3, <1>4, <1>5, <1>6, <1>7, <1>8, <1>9, <1>10
  DEF ShutNext, NetThread, Destructor

\* A step that changes nothing.
LEMMA StutterShut ==
  ASSUME ShutInv, UNCHANGED groupVars
  PROVE  ShutInv'
<1>1. /\ UNCHANGED vars /\ calls' = calls
      /\ thread' = thread /\ running' = running /\ dtor' = dtor
  BY DEF groupVars, shutVars
<1>2. TypeOK' /\ pc' = pc /\ open' = open
  BY <1>1 DEF ShutInv, ShutTypeOK, TypeOK, vars, netVars, mapVars, reconVars,
              flagVars, sockVars, kernelVars, fdsetVars, ghostVars
<1>3. Inv /\ OpenOwned => Inv' /\ OpenOwned'
  BY <1>1, StutterInv, StutterOpenOwned
<1>4. QED
  BY <1>1, <1>2, <1>3 DEF ShutInv, ShutTypeOK, NothingLeftOpen

\* The inductive invariant holds for every value of the constants.
THEOREM ShutInvariance == ShutSpec => []ShutInv
<1>1. ShutInv /\ [ShutNext]_groupVars => ShutInv'
  BY NextShut, StutterShut
<1>2. QED
  BY InitShut, <1>1, PTL DEF ShutSpec

\* All variables keep their types while the thread and the manager come and go.
THEOREM ShutTypeCorrect == ShutSpec => []ShutTypeOK
<1>1. ShutInv => ShutTypeOK
  BY DEF ShutInv
<1>2. QED
  BY <1>1, ShutInvariance, PTL

\* ~SocketManager closes the clients only, and yet it leaves no descriptor open
\* when the thread has ended before: the sockets of the other maps have none.
THEOREM AllClosed == ShutSpec => []NothingLeftOpen
<1>1. ShutInv => NothingLeftOpen
  BY DEF ShutInv
<1>2. QED
  BY <1>1, ShutInvariance, PTL

\* No map keeps a deleted socket while there is a manager, unless addConnect is
\* called while a connect is pending.
THEOREM NoneDanglesBefore ==
  ASSUME ~ AddsOverlap
  PROVE  ShutSpec => []NoDanglingBefore
<1>1. ShutInv => NoDanglingBefore
  BY DEF ShutInv, NoDanglingBefore, Inv
<1>2. QED
  BY <1>1, ShutInvariance, PTL

\* The same through the life of the net thread: every live connection is watched
\* until the manager is gone, and with it the connections.
THEOREM WatchingBefore == ShutSpec => []ConnectedIsWatched
<1> DEFINE Before == dtor # "done" => (~ reused => Numbered)
           After  == dtor = "done" => client = NoEntries
<1>1. ShutInit => Before /\ After
  BY NumberedInit DEF ShutInit
<1>2. ASSUME ShutInv, Before, After, ShutNext
      PROVE  Before' /\ After'
  <2>1. CASE FreeClients
    BY <1>2, <2>1, FreeClientsShut DEF FreeClients
  <2>2. ASSUME dtor # "done", dtor' # "done", Next \/ UNCHANGED vars
        PROVE  Before' /\ After'
    BY <1>2, <2>2, NumberedStep, NumberedStutter DEF ShutInv
  <2>3. CASE ~ FreeClients
    BY <1>2, <2>2, <2>3 DEF ShutNext, NetThread, Destructor, RunThread, EnterRun,
       NetStep, LoopEnds, Calls, Stop, WaitOver, ShutWorld, Next, shutVars
  <2>4. QED
    BY <2>1, <2>3
<1>3. ASSUME Before, After, UNCHANGED groupVars
      PROVE  Before' /\ After'
  <2>1. UNCHANGED vars /\ dtor' = dtor /\ client' = client
    BY <1>3 DEF groupVars, shutVars, vars, mapVars
  <2>2. QED
    BY <1>3, <2>1, NumberedStutter
<1>4. Before /\ After => ConnectedIsWatched
  BY DEF Numbered, AllWatched, ConnectedIsWatched, Entries, NoEntries
<1> HIDE DEF Before, After
<1>5. ShutInv /\ Before /\ After /\ [ShutNext]_groupVars => (Before /\ After)'
  BY <1>2, <1>3
<1>6. QED
  BY <1>1, <1>4, <1>5, ShutInvariance, PTL DEF ShutSpec
================================================================================
