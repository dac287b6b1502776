---------------------------- MODULE NetSocketProofs ----------------------------
(***************************************************************************)
(* The script's view: NetSocket keeps its types for all connections and    *)
(* calls; for a script that waits for its answers, every object lives the  *)
(* life of Session, and if there is one connection, what an object says of *)
(* it is true or about to be corrected.                                    *)
(***************************************************************************)
EXTENDS NetSocket, SocketManagerProofs

Events == Conns \X {"connect", "broken", "failed", "netmsg"}

\* The events that answer a connect or a reconnect of connection c.
Answers(c) == {<<c, "connect">>, <<c, "failed">>}

\* A request of connection c that was accepted and not lost.
Waiting(c) == Connecting(c) \/ c \in addRecon \/ recon[c] # Absent

\* A request is waiting, or its only answer is in the queue, not both; the script
\* asked for either and does not think that it is connected.
OneAnswer ==
  \A c \in Conns :
    /\ Waiting(c) => c \in asked
    /\ \A i \in DOMAIN events : events[i] \in Answers(c) =>
         /\ c \in asked /\ ~ Waiting(c)
         /\ \A j \in DOMAIN events : events[j] \in Answers(c) => i = j
    /\ c \in addRecon => /\ ~ Connecting(c)
                         /\ pc = "merged" \/ recon[c] = Absent

\* What the objects say, next to what they asked.
Said == auto = FALSE /\ isConnected \subseteq inArr /\ isConnected \cap asked = {}

\* What every step keeps, whatever the script does.
LuaInv == Inv /\ LuaTypeOK

----------------------------------------------------------------------------
(* The events.                                                             *)

\* What is left of a queue.
LEMMA TailOf ==
  ASSUME NEW S, NEW s \in Seq(S), s # <<>>
  PROVE  /\ Tail(s) \in Seq(S) /\ Head(s) \in S /\ Head(s) = s[1]
         /\ Len(Tail(s)) = Len(s) - 1 /\ Len(s) \in Nat /\ Len(s) > 0
         /\ \A i \in DOMAIN Tail(s) : i + 1 \in DOMAIN s /\ Tail(s)[i] = s[i + 1]
         /\ \A i \in DOMAIN s : i # 1 => i - 1 \in DOMAIN Tail(s) /\ i \in Nat
  OBVIOUS

\* A queue with one more.
LEMMA AppendOf ==
  ASSUME NEW S, NEW s \in Seq(S), NEW e \in S
  PROVE  /\ Append(s, e) \in Seq(S)
         /\ Len(Append(s, e)) = Len(s) + 1 /\ Len(s) \in Nat
         /\ DOMAIN s = 1 .. Len(s) /\ DOMAIN Append(s, e) = 1 .. Len(s) + 1
         /\ \A i \in DOMAIN s : Append(s, e)[i] = s[i]
         /\ Append(s, e)[Len(s) + 1] = e
  OBVIOUS

\* A connect that succeeds posts that, and nothing else.
LEMMA OpenDonePosts ==
  ASSUME TypeOK, OpeningOne, OpenDone
  PROVE  it \in Conns /\ Posted = {it} /\ told'[it][1] = "connect"
<1>1. it \in Conns /\ told' = [told EXCEPT ![it] = <<"connect", 1 - told[it][2]>>]
  BY DEF OpenDone, At, OpeningOne, Post
<1>2. told[it][2] \in {0, 1} /\ 1 - told[it][2] # told[it][2]
  BY <1>1 DEF TypeOK
<1>3. told'[it] = <<"connect", 1 - told[it][2]>> /\ told'[it] # told[it]
  BY <1>1, <1>2 DEF TypeOK
<1>4. \A c \in Conns : c # it => told'[c] = told[c]
  BY <1>1 DEF TypeOK
<1>5. QED
  BY <1>1, <1>3, <1>4 DEF Posted

\* A connect that fails posts that, as there is no automatic reconnection.
LEMMA OpenFailedPosts ==
  ASSUME TypeOK, OpeningOne, OpenFailed, ~ auto
  PROVE  it \in Conns /\ Posted = {it} /\ told'[it][1] = "failed"
<1>1. it \in Conns /\ told' = [told EXCEPT ![it] = <<"failed", 1 - told[it][2]>>]
  BY DEF OpenFailed, At, OpeningOne, Post, GivesUp
<1>2. told[it][2] \in {0, 1} /\ 1 - told[it][2] # told[it][2]
  BY <1>1 DEF TypeOK
<1>3. told'[it] = <<"failed", 1 - told[it][2]>> /\ told'[it] # told[it]
  BY <1>1, <1>2 DEF TypeOK
<1>4. \A c \in Conns : c # it => told'[c] = told[c]
  BY <1>1 DEF TypeOK
<1>5. QED
  BY <1>1, <1>3, <1>4 DEF Posted

\* An error on a connection posts that, and nothing else.
LEMMA ErrorPosts ==
  ASSUME TypeOK, NEW c \in Conns, CheckError(c)
  PROVE  /\ Posted \subseteq {c} /\ \A d \in Posted : told'[d][1] = "broken"
         /\ ~ auto => Posted = {c}
<1>1. CASE auto
  BY <1>1 DEF CheckError, OnDisconnected, Posted
<1>2. CASE ~ auto
  <2>1. told' = [told EXCEPT ![c] = <<"broken", 1 - told[c][2]>>]
    BY <1>2 DEF CheckError, OnDisconnected, Post
  <2>2. told[c][2] \in {0, 1} /\ 1 - told[c][2] # told[c][2]
    BY DEF TypeOK
  <2>3. told'[c] = <<"broken", 1 - told[c][2]>> /\ told'[c] # told[c]
    BY <2>1, <2>2 DEF TypeOK
  <2>4. \A d \in Conns : d # c => told'[d] = told[d]
    BY <2>1 DEF TypeOK
  <2>5. QED
    BY <2>3, <2>4 DEF Posted
<1>3. QED
  BY <1>1, <1>2

\* A send that fails is an error on the connection at the head of the queue.
LEMMA SendHeadErrs ==
  ASSUME TypeOK, SendHead
  PROVE  \/ UNCHANGED <<told, deleting, recon>>
         \/ Head(sendq) \in Conns /\ CheckError(Head(sendq))
  BY DEF SendHead, Sendable, TypeOK

\* A read that fails is an error on the connection it was for.
LEMMA DispatchErrs ==
  ASSUME TypeOK, Dispatch
  PROVE  /\ it' \in Conns
         /\ UNCHANGED <<told, deleting, recon>> \/ CheckError(it')
<1>1. First(Readable) \in Readable
  BY FirstOf, Numbers DEF Dispatch, Readable, Entries
<1>2. First(Readable) \in Conns
  BY <1>1 DEF Readable, Entries
<1>3. QED
  BY <1>2 DEF Dispatch, ErrorPassedOver

\* A read from the peer posts no event of the connection.
LEMMA ReadPosts ==
  ASSUME Dispatch, Reaches(First(Readable))
  PROVE  Posted = {}
<1>1. told' = told
  BY DEF Dispatch, StaleErrno
<1>2. QED
  BY <1>1 DEF Posted

\* The other steps of the net thread post nothing.
LEMMA Silent ==
  ASSUME \/ CheckDeleting \/ MergeRequests \/ ClearRequests \/ RetryOne
         \/ RetryDone \/ OpenStart \/ Opened \/ AddingDone \/ RemoveHead
         \/ SendNothing \/ SelectFailed \/ SelectReady \/ DispatchDone
  PROVE  Posted = {}
<1>1. told' = told
  BY DEF CheckDeleting, MergeRequests, ClearRequests, RetryOne, RetryDone,
     OpenStart, Opened, AddingDone, RemoveHead, SendNothing, SelectFailed,
     SelectReady, DispatchDone, ghostVars
<1>2. QED
  BY <1>1 DEF Posted

\* What a step posts is an event; an answer is posted only by the end of a connect.
LEMMA RunPosts ==
  ASSUME TypeOK, OpeningOne, Run, NEW c \in Posted
  PROVE  /\ <<c, told'[c][1]>> \in Events
         /\ ~ (OpenDone \/ OpenFailed) => told'[c][1] = "broken"
<1>1. c \in Conns /\ told'[c] # told[c]
  BY DEF Posted
<1>2. CASE OpenDone
  BY <1>1, <1>2, OpenDonePosts DEF Events
<1>3. CASE OpenFailed
  <2>1. Post(it, "failed") \/ told' = told
    BY <1>3 DEF OpenFailed
  <2>2. told'[c][1] = "failed"
    BY <1>1, <2>1 DEF Post, TypeOK
  <2>3. QED
    BY <1>1, <1>3, <2>2 DEF Events
<1>4. CASE SendHead \/ Dispatch
  <2>1. told' = told \/ \E d \in Conns : CheckError(d)
    BY <1>4, SendHeadErrs, DispatchErrs
  <2>2. told'[c][1] = "broken"
    BY <1>1, <2>1, ErrorPosts
  <2>3. QED
    BY <1>1, <2>2 DEF Events
<1>5. QED
  BY <1>2, <1>3, <1>4, Silent DEF Run

----------------------------------------------------------------------------
(* Types.                                                                  *)

\* The event that Update takes.
LEMMA FirstEvent ==
  ASSUME LuaTypeOK, events # <<>>
  PROVE  /\ Head(events)[1] \in Conns
         /\ Head(events)[2] \in {"connect", "broken", "failed", "netmsg"}
         /\ Head(events) = <<Head(events)[1], Head(events)[2]>>
<1>1. events \in Seq(Events)
  BY DEF LuaTypeOK, Events
<1>2. Head(events) \in Events
  BY <1>1, TailOf
<1>3. QED
  BY <1>2 DEF Events

\* close is a call of removeConnect, or nothing.
LEMMA CloseItStep ==
  ASSUME LuaTypeOK, NEW c \in Conns, CloseIt(c)
  PROVE  (RemoveConnect(c) /\ c \in isConnected) \/ UNCHANGED vars
  BY DEF CloseIt

\* What Update does to the connections.
LEMMA UpdateStep ==
  ASSUME LuaTypeOK, Update
  PROVE  (\E c \in Conns : RemoveConnect(c) /\ c \in isConnected) \/ UNCHANGED vars
<1>1. Head(events)[1] \in Conns
  BY FirstEvent DEF Update
<1>2. Deliver(Head(events)[1], Head(events)[2])
  BY DEF Update
<1>3. QED
  BY <1>1, <1>2, CloseItStep DEF Deliver, Handle

\* Each step is one of SocketManager, or changes nothing there.
LEMMA LuaStep ==
  ASSUME LuaTypeOK, LuaNext
  PROVE  [Next]_vars
<1>1. CASE Script
  BY <1>1, CloseItStep
  DEF Script, Connect, Reconnect, Close, Destroy, SendMsg, Next, Main
<1>2. CASE Update
  BY <1>2, UpdateStep DEF Next, Main
<1>3. CASE Steps \/ StepWithMessage \/ LuaWorld
  BY <1>3 DEF Steps, StepWithMessage, LuaWorld, Next, Run
<1>4. QED
  BY <1>1, <1>2, <1>3 DEF LuaNext

\* The queue with an event more, or with that one lost.
LEMMA ReceiveType ==
  ASSUME LuaTypeOK, NEW e \in Events, Receive(e)
  PROVE  events' \in Seq(Events) /\ Len(events') <= EvCap /\ overflow' \in BOOLEAN
<1>1. events \in Seq(Events) /\ EvCap \in Nat
  BY EvCapAssumption DEF LuaTypeOK, Events
<1>2. CASE Len(events) < EvCap
  BY <1>1, <1>2, AppendOf DEF Receive, LuaTypeOK
<1>3. CASE ~ (Len(events) < EvCap)
  BY <1>1, <1>3 DEF Receive, LuaTypeOK
<1>4. QED
  BY <1>2, <1>3

\* Every step keeps the ranges of the script's side.
LEMMA LuaTypes ==
  ASSUME LuaInv, LuaNext
  PROVE  LuaInv'
<1>1. Inv /\ LuaTypeOK /\ TypeOK /\ OpeningOne /\ events \in Seq(Events)
  BY DEF LuaInv, LuaTypeOK, Inv, Events
<1>2. Inv'
  BY <1>1, LuaStep, NextInv, StutterInv
<1>3. CASE Script
  BY <1>1, <1>2, <1>3
  DEF Script, Connect, InitNetManager, Reconnect, Close, Destroy, SendMsg, CloseIt,
      luaVars, LuaInv, Inv, LuaTypeOK
<1>4. CASE Update
  <2>1. Head(events)[1] \in Conns
    BY <1>1, <1>4, FirstEvent DEF Update
  <2>2. events' \in Seq(Events) /\ Len(events') <= EvCap
    BY <1>1, <1>4, TailOf, EvCapAssumption DEF Update, LuaTypeOK
  <2>3. isConnected' \subseteq Conns /\ asked' \subseteq Conns
    BY <1>1, <1>4, <2>1 DEF Update, Deliver, Handle, CloseIt, LuaTypeOK
  <2>4. QED
    BY <1>1, <1>2, <1>4, <2>2, <2>3 DEF Update, LuaInv, Inv, LuaTypeOK, Events
<1>5. CASE Steps
  <2>1. events' \in Seq(Events) /\ Len(events') <= EvCap /\ overflow' \in BOOLEAN
    <3>1. CASE Posted # {}
      BY <1>1, <1>5, <3>1, RunPosts, ReceiveType DEF Steps
    <3>2. CASE Posted = {}
      BY <1>1, <1>5, <3>2 DEF Steps, LuaTypeOK
    <3>3. QED
      BY <3>1, <3>2
  <2>2. QED
    BY <1>1, <1>2, <1>5, <2>1 DEF Steps, LuaInv, Inv, LuaTypeOK, Events
<1>6. CASE StepWithMessage
  <2>1. <<it', "netmsg">> \in Events
    BY <1>1, <1>6, DispatchErrs DEF StepWithMessage, Events
  <2>2. events' \in Seq(Events) /\ Len(events') <= EvCap /\ overflow' \in BOOLEAN
    BY <1>1, <1>6, <2>1, ReceiveType DEF StepWithMessage
  <2>3. QED
    BY <1>1, <1>2, <1>6, <2>2 DEF StepWithMessage, LuaInv, Inv, LuaTypeOK, Events
<1>7. CASE LuaWorld
  BY <1>1, <1>2, <1>7 DEF LuaWorld, luaVars, LuaInv, Inv, LuaTypeOK
<1>8. QED
  BY <1>3, <1>4, <1>5, <1>6, <1>7 DEF LuaNext

\* A step that changes nothing.
LEMMA LuaStutter ==
  ASSUME LuaInv, UNCHANGED allVars
  PROVE  LuaInv'
<1>1. Inv'
  BY StutterInv DEF LuaInv, allVars
<1>2. QED
  BY <1>1 DEF LuaInv, Inv, LuaTypeOK, allVars, luaVars

\* The initial state.
LEMMA LuaInitTypes == LuaInit => LuaInv
<1> SUFFICES ASSUME LuaInit
             PROVE  LuaInv
  OBVIOUS
<1>1. Inv
  BY InitInv DEF LuaInit
<1>2. events \in Seq(Events) /\ Len(events) <= EvCap
  BY EvCapAssumption DEF LuaInit
<1>3. QED
  BY <1>1, <1>2 DEF LuaInit, LuaInv, LuaTypeOK, Inv, Events

\* The invariant of the connections and the ranges of the script's side hold for
\* every value of the constants.
THEOREM LuaInvariance == LuaSpec => []LuaInv
<1>1. LuaInv /\ [LuaNext]_allVars => LuaInv'
  BY LuaTypes, LuaStutter
<1>2. QED
  BY LuaInitTypes, <1>1, PTL DEF LuaSpec

\* Whatever the script does and the queue loses, the variables keep their types.
THEOREM LuaTypeCorrect == LuaSpec => []LuaTypeOK
<1>1. LuaInv => LuaTypeOK
  BY DEF LuaInv
<1>2. QED
  BY <1>1, LuaInvariance, PTL

----------------------------------------------------------------------------
(* One answer.                                                             *)

\* A user's request is not also a connect that is pending, and is in
\* m_reconnectingMap only between the two lines that move it there.
OneRequest(c) ==
  c \in addRecon => /\ ~ Connecting(c)
                    /\ pc = "merged" \/ recon[c] = Absent

\* The net thread makes no requests, and the end of a connect ends one.
LEMMA RunWaiting ==
  ASSUME Inv, auto = FALSE, Run, NEW c \in Conns, OneRequest(c)
  PROVE  /\ Waiting(c)' => Waiting(c)
         /\ (OpenDone \/ OpenFailed) /\ c = it => Waiting(c) /\ ~ Waiting(c)'
         /\ OneRequest(c)'
<1>1. TypeOK /\ OpeningOne /\ (NoDangling => Phased) /\ Conns \subseteq Nat \ {0}
  BY Numbers DEF Inv, Sound, Detail
<1>2. CASE CheckDeleting \/ RemoveHead \/ SendNothing \/ SelectFailed
           \/ SelectReady \/ DispatchDone
  <2>1. /\ pc \notin {"adding", "opening", "inserting", "merged"}
        /\ pc' \notin {"adding", "opening", "inserting", "merged"}
        /\ UNCHANGED <<adding, recon, addRecon>> /\ ~ OpenDone /\ ~ OpenFailed
    BY <1>2 DEF CheckDeleting, RemoveHead, SendNothing, SelectFailed, SelectReady,
       DispatchDone, At, mapVars, reconVars, OpenDone, OpenFailed
  <2>2. QED
    BY <2>1 DEF Waiting, Connecting, OneRequest
<1>3. CASE MergeRequests
  <2>1. /\ pc = "reconnecting" /\ UNCHANGED <<adding, addRecon>> /\ it' = 0
        /\ pc' \in {"merged", "retrying", "adding"}
        /\ c \in addRecon => pc' = "merged"
        /\ recon'[c] = IF c \in addRecon THEN 0 ELSE recon[c]
    BY <1>3 DEF MergeRequests, Retrying, At, mapVars
  <2>2. c > 0
    BY <1>1
  <2>3. Connecting(c)' <=> Connecting(c)
    BY <2>1, <2>2 DEF Connecting
  <2>4. CASE c \in addRecon
    BY <2>1, <2>3, <2>4 DEF Waiting, OneRequest, OpenDone, OpenFailed, At
  <2>5. CASE c \notin addRecon
    BY <2>1, <2>3, <2>5 DEF Waiting, OneRequest, OpenDone, OpenFailed, At
  <2>6. QED
    BY <2>4, <2>5
<1>4. CASE ClearRequests
  <2>1. /\ pc = "merged" /\ pc' \in {"retrying", "adding"} /\ addRecon' = {}
        /\ UNCHANGED <<adding, recon>>
    BY <1>4 DEF ClearRequests, Retrying, At, mapVars
  <2>2. QED
    BY <2>1 DEF Waiting, Connecting, OneRequest, OpenDone, OpenFailed, At
<1>5. CASE RetryOne
  <2> DEFINE d == First(Retryable)
  <2>1. d \in Retryable
    BY <1>1, <1>5, FirstOf DEF RetryOne, Retryable, TypeOK
  <2>2. d \in Conns /\ recon[d] # Absent
    BY <1>1, <2>1 DEF Retryable, TypeOK
  <2>3. /\ pc = "retrying" /\ pc' = "retrying" /\ addRecon' = addRecon
        /\ recon' = [recon EXCEPT ![d] = @ + 1]
    BY <1>5 DEF RetryOne, At
  <2>4. ASSUME c # d
        PROVE  adding'[c] \in {adding[c], None} /\ recon'[c] = recon[c]
    <3>1. adding' = adding \/ \E s \in Socks : Insert(d, s)
      BY <1>5 DEF RetryOne
    <3> HIDE DEF d
    <3>2. QED
      BY <1>1, <2>3, <2>4, <3>1 DEF Insert, TypeOK
  <2> HIDE DEF d
  <2>5. CASE c = d
    BY <2>2, <2>3, <2>5 DEF Waiting, OneRequest, OpenDone, OpenFailed, At
  <2>6. CASE c # d
    BY <2>3, <2>4, <2>6 DEF Waiting, Connecting, OneRequest, OpenDone, OpenFailed, At
  <2>7. QED
    BY <2>5, <2>6
<1>6. CASE RetryDone
  <2>1. /\ pc = "retrying" /\ pc' = "adding" /\ UNCHANGED <<adding, recon, addRecon>>
    BY <1>6 DEF RetryDone, At, mapVars, reconVars
  <2>2. QED
    BY <2>1 DEF Waiting, Connecting, OneRequest, OpenDone, OpenFailed, At
<1>7. CASE OpenStart
  <2> DEFINE d == First(Pending)
  <2>1. d \in Pending
    BY <1>1, <1>7, FirstOf DEF OpenStart, Pending, Entries
  <2>2. /\ pc = "adding" /\ pc' = "opening" /\ it' = d
        /\ UNCHANGED <<adding, recon, addRecon>>
    BY <1>7 DEF OpenStart, At, mapVars, reconVars
  <2> HIDE DEF d
  <2>3. it \in Nat /\ c \in Nat
    BY <1>1, Numbers DEF TypeOK
  <2>4. d \in Nat /\ it \in Nat /\ d > it /\ c \in Nat
    BY <1>1, <2>3, <2>1 DEF Pending, Entries
  <2>5. Connecting(c)' => Connecting(c)
    BY <2>4, <2>2 DEF Connecting
  <2>6. QED
    BY <2>2, <2>5 DEF Waiting, OneRequest, OpenDone, OpenFailed, At
<1>8. CASE OpenDone \/ OpenFailed
  <2>1. /\ pc \in {"opening", "inserting"} /\ pc' = "adding" /\ NoDangling
        /\ UNCHANGED <<it, adding, addRecon>>
    BY <1>8 DEF OpenDone, OpenFailed, At
  <2>2. it \in Conns /\ adding[it] # None
    BY <1>1, <2>1, Numbers DEF OpeningOne, Phased
  <2>3. recon' = [recon EXCEPT ![it] = Absent]
    BY <1>8 DEF OpenDone, OpenFailed, GivesUp
  <2>4. recon'[c] = IF c = it THEN Absent ELSE recon[c]
    BY <1>1, <2>3 DEF TypeOK
  <2>5. it \in Nat /\ c \in Nat
    BY <1>1, <2>2
  <2>6. (Connecting(c)' => Connecting(c)) /\ (c = it => Connecting(c) /\ ~ Connecting(c)')
    BY <2>1, <2>2, <2>5 DEF Connecting
  <2>7. QED
    BY <2>1, <2>4, <2>6 DEF Waiting, OneRequest
<1>9. CASE AddingDone
  <2>1. /\ pc = "adding" /\ UNCHANGED <<recon, addRecon>> /\ adding'[c] = None
    BY <1>9 DEF AddingDone, At, NoEntries, reconVars
  <2>2. QED
    BY <2>1 DEF Waiting, Connecting, OneRequest, OpenDone, OpenFailed, At
<1>10. CASE SendHead \/ Dispatch
  <2>1. /\ pc \notin {"adding", "opening", "inserting", "merged"}
        /\ pc' \notin {"adding", "opening", "inserting", "merged"}
        /\ UNCHANGED <<adding, addRecon>>
    BY <1>10 DEF SendHead, Dispatch, At
  <2>2. recon' = recon
    BY <1>1, <1>10, SendHeadErrs, DispatchErrs DEF CheckError, OnDisconnected
  <2>3. QED
    BY <2>1, <2>2 DEF Waiting, Connecting, OneRequest, OpenDone, OpenFailed, At
<1>11. CASE Opened
  <2>1. /\ pc = "opening" /\ pc' = "inserting" /\ it' = it
        /\ UNCHANGED <<adding, recon, addRecon>>
    BY <1>11 DEF Opened, At, mapVars, reconVars
  <2>2. QED
    BY <2>1 DEF Waiting, Connecting, OneRequest, OpenDone, OpenFailed, At
<1>12. QED
  BY <1>2, <1>3, <1>4, <1>5, <1>6, <1>7, <1>8, <1>9, <1>10, <1>11 DEF Run

\* Calls of the script that add no request, or forget some.
LEMMA OneAnswerFrame ==
  ASSUME LuaTypeOK, OneAnswer, UNCHANGED <<events, asked, pc>>,
         \A c \in Conns : /\ Waiting(c)' => Waiting(c)
                          /\ OneRequest(c)'
  PROVE  OneAnswer'
  BY DEF OneAnswer, OneRequest, Answers

\* What _check_connecting and the like read of removeConnect.
LEMMA RemoveWaiting ==
  ASSUME TypeOK, NEW c \in Conns, RemoveConnect(c), NEW d \in Conns, OneRequest(d)
  PROVE  (Waiting(d)' => Waiting(d)) /\ OneRequest(d)' /\ UNCHANGED <<pc, auto>>
<1>1. UNCHANGED <<pc, it, adding, addRecon, auto>> /\ recon' = [recon EXCEPT ![c] = Absent]
  BY DEF RemoveConnect, netVars, flagVars
<1>2. recon'[d] \in {recon[d], Absent}
  BY <1>1 DEF TypeOK
<1>3. QED
  BY <1>1, <1>2 DEF Waiting, Connecting, OneRequest

\* The queue with one more event: an answer only to a request that waited and does
\* not wait any more.
LEMMA OneAnswerReceive ==
  ASSUME LuaTypeOK, OneAnswer, NEW e \in Events, Receive(e), UNCHANGED asked,
         \A c \in Conns : /\ Waiting(c)' => Waiting(c)
                          /\ e \in Answers(c) => Waiting(c) /\ ~ Waiting(c)'
                          /\ OneRequest(c)'
  PROVE  OneAnswer'
<1>1. events \in Seq(Events)
  BY DEF LuaTypeOK, Events
<1>2. CASE events' = events
  BY <1>2 DEF OneAnswer, OneRequest, Answers
<1>3. CASE events' = Append(events, e)
  <2>1. SUFFICES ASSUME NEW c \in Conns
                 PROVE  /\ Waiting(c)' => c \in asked'
                        /\ \A i \in DOMAIN events' : events'[i] \in Answers(c) =>
                             /\ c \in asked' /\ ~ Waiting(c)'
                             /\ \A j \in DOMAIN events' :
                                  events'[j] \in Answers(c) => i = j
    BY DEF OneAnswer, OneRequest, Answers
  <2>2. Waiting(c)' => c \in asked'
    BY DEF OneAnswer
  <2>3. ASSUME NEW i \in DOMAIN events', events'[i] \in Answers(c)
        PROVE  \/ i \in DOMAIN events /\ events[i] = events'[i]
               \/ i = Len(events) + 1 /\ e \in Answers(c)
    BY <1>1, <1>3, <2>3, AppendOf
  <2>4. CASE e \in Answers(c)
    <3>1. \A i \in DOMAIN events : events[i] \notin Answers(c)
      BY <2>4 DEF OneAnswer
    <3>2. c \in asked' /\ ~ Waiting(c)'
      BY <2>4 DEF OneAnswer
    <3>3. QED
      BY <2>2, <2>3, <3>1, <3>2
  <2>5. CASE e \notin Answers(c)
    <3>1. \A i \in DOMAIN events' : events'[i] \in Answers(c) =>
            i \in DOMAIN events /\ events[i] \in Answers(c)
      BY <2>3, <2>5
    <3>2. QED
      BY <2>2, <3>1 DEF OneAnswer
  <2>6. QED
    BY <2>4, <2>5
<1>4. QED
  BY <1>2, <1>3 DEF Receive

\* The script: it asks only when it knows of no connection and waits for no answer.
LEMMA ScriptAnswer ==
  ASSUME Patient, LuaInv, Said, OneAnswer, Script
  PROVE  Said' /\ OneAnswer'
<1>1. /\ TypeOK /\ LuaTypeOK
      /\ \A d \in Conns : /\ OneRequest(d)
                          /\ Waiting(d) => d \in asked
                          /\ \A i \in DOMAIN events :
                               events[i] \in Answers(d) => d \in asked
  BY DEF LuaInv, LuaTypeOK, OneAnswer, OneRequest
<1>2. PICK c \in Conns :
        Connect(c) \/ Reconnect(c) \/ Close(c) \/ Destroy(c) \/ SendMsg(c)
  BY DEF Script
<1>3. ASSUME UNCHANGED vars, UNCHANGED <<asked, events>>
      PROVE  OneAnswer' /\ UNCHANGED auto
  BY <1>1, <1>3 DEF OneAnswer, Waiting, Connecting, vars, netVars, mapVars, reconVars,
                    flagVars, Answers
<1>4. ASSUME NEW a, a = c, a \notin asked, asked' = asked \cup {a}, UNCHANGED events,
             \A d \in Conns : d # a => /\ Waiting(d)' => Waiting(d)
                                       /\ OneRequest(d)',
             OneRequest(a)'
      PROVE  OneAnswer'
  BY <1>1, <1>4 DEF OneAnswer, OneRequest, Answers
<1>5. CASE Connect(c)
  <2>1. CASE IndexFree(c)
    <3>1. PICK s \in Socks : Insert(c, s) /\ UNCHANGED <<pc, it, addRecon, recon, auto>>
      BY <1>5, <2>1 DEF Connect, AddConnect, netVars, reconVars, flagVars
    <3>2. /\ c \notin isConnected \cup asked /\ asked' = asked \cup {c} /\ c \in inArr
          /\ UNCHANGED <<inArr, isConnected, events>>
      BY <1>5, <2>1 DEF Connect, MayAsk
    <3>3. ASSUME NEW d \in Conns, d # c
          PROVE  (Waiting(d)' => Waiting(d)) /\ OneRequest(d)'
      <4>1. adding'[d] \in {adding[d], None}
        BY <1>1, <3>1, <3>3 DEF Insert, LuaTypeOK, TypeOK
      <4>2. QED
        BY <1>1, <3>1, <4>1 DEF Waiting, Connecting, OneRequest
    <3>4. OneRequest(c)'
      BY <1>1, <3>1, <3>2 DEF Waiting, OneRequest
    <3>5. QED
      BY <1>4, <3>1, <3>2, <3>3, <3>4 DEF Said
  <2>2. CASE ~ IndexFree(c)
    BY <1>3, <1>5, <2>2 DEF Connect, Said
  <2>3. QED
    BY <2>1, <2>2
<1>6. CASE Reconnect(c)
  <2>1. /\ UNCHANGED <<pc, it, adding, recon, auto>> /\ recon[c] = Absent
        /\ addRecon' = addRecon \cup {c}
    BY <1>6 DEF Reconnect, ReConnect, netVars, mapVars
  <2>2. /\ c \notin isConnected \cup asked /\ asked' = asked \cup {c} /\ c \in inArr
        /\ UNCHANGED <<inArr, isConnected, events>>
    BY <1>6 DEF Reconnect, MayAsk
  <2>3. \A d \in Conns : d # c => (Waiting(d)' => Waiting(d)) /\ OneRequest(d)'
    BY <1>1, <2>1 DEF Waiting, Connecting, OneRequest
  <2>4. OneRequest(c)'
    BY <1>1, <2>1, <2>2 DEF Waiting, Connecting, OneRequest
  <2>5. QED
    BY <1>4, <2>1, <2>2, <2>3, <2>4 DEF Said
<1>7. CASE Close(c) \/ Destroy(c)
  <2>1. /\ RemoveConnect(c) \/ UNCHANGED vars
        /\ isConnected' = isConnected \ {c} /\ UNCHANGED <<asked, events>>
        /\ inArr' \in {inArr, inArr \ {c}}
    BY <1>7 DEF Close, Destroy, CloseIt
  <2>2. CASE RemoveConnect(c)
    <3>1. \A d \in Conns : (Waiting(d)' => Waiting(d)) /\ OneRequest(d)'
      BY <1>1, <2>2, RemoveWaiting
    <3>2. UNCHANGED <<pc, auto>>
      BY <2>2 DEF RemoveConnect, netVars, flagVars
    <3>3. QED
      BY <1>1, <2>1, <3>1, <3>2, OneAnswerFrame DEF Said
  <2>3. QED
    BY <1>3, <2>1, <2>2 DEF Said
<1>8. CASE SendMsg(c)
  <2>1. UNCHANGED <<pc, it, adding, recon, addRecon, auto>>
    BY <1>8 DEF SendMsg, SendMessage, netVars, mapVars, reconVars, flagVars
  <2>2. \A d \in Conns : (Waiting(d)' => Waiting(d)) /\ OneRequest(d)'
    BY <1>1, <2>1 DEF Waiting, Connecting, OneRequest
  <2>3. UNCHANGED <<inArr, isConnected, events, asked>>
    BY <1>8 DEF SendMsg, luaVars
  <2>4. QED
    BY <1>1, <2>1, <2>2, <2>3, OneAnswerFrame DEF Said
<1>9. QED
  BY <1>2, <1>5, <1>6, <1>7, <1>8

\* The frame callback: an answer that is handed over was the only one.
LEMMA UpdateAnswer ==
  ASSUME LuaInv, Said, OneAnswer, Update
  PROVE  Said' /\ OneAnswer'
<1>1. /\ TypeOK /\ LuaTypeOK /\ events \in Seq(Events) /\ events # <<>>
      /\ \A d \in Conns : OneRequest(d)
  BY DEF LuaInv, LuaTypeOK, OneAnswer, OneRequest, Events, Update
<1>2. PICK a \in Conns, event \in {"connect", "broken", "failed", "netmsg"} :
        /\ Head(events)[1] = a /\ Head(events)[2] = event
        /\ events[1] = <<a, event>> /\ 1 \in DOMAIN events
  BY <1>1, FirstEvent, TailOf
<1>3. Deliver(a, event) /\ events' = Tail(events) /\ inArr' = inArr
  BY <1>2 DEF Update
<1>4. (\E c \in Conns : RemoveConnect(c)) \/ UNCHANGED vars
  BY <1>1, UpdateStep
<1>5. UNCHANGED auto /\ \A d \in Conns : (Waiting(d)' => Waiting(d)) /\ OneRequest(d)'
  <2>1. CASE UNCHANGED vars
    BY <1>1, <2>1 DEF OneRequest, Waiting, Connecting, vars, netVars, mapVars,
                      reconVars, flagVars
  <2>2. ASSUME NEW c \in Conns, RemoveConnect(c)
        PROVE  UNCHANGED auto /\ \A d \in Conns : (Waiting(d)' => Waiting(d)) /\ OneRequest(d)'
    <3>1. UNCHANGED auto
      BY <2>2 DEF RemoveConnect, flagVars
    <3>2. QED
      BY <1>1, <2>2, <3>1, RemoveWaiting
  <2>3. QED
    BY <1>4, <2>1, <2>2
<1>6. /\ event \in {"connect", "failed"} => a \in asked /\ ~ Waiting(a)
      /\ asked' = asked \/ (asked' = asked \ {a} /\ event \in {"connect", "failed"})
      /\ isConnected' \subseteq isConnected
           \/ (event = "connect" /\ a \in inArr /\ isConnected' = isConnected \cup {a}
               /\ asked' = asked \ {a})
  <2>1. event \in {"connect", "failed"} => a \in asked /\ ~ Waiting(a)
    BY <1>2 DEF OneAnswer, Answers
  <2>2. asked' = asked \/ (asked' = asked \ {a} /\ event \in {"connect", "failed"})
    BY <1>3 DEF Deliver
  <2>3. CASE a \in inArr /\ event = "connect"
    BY <1>3, <2>1, <2>2, <2>3 DEF Deliver, Handle
  <2>4. CASE ~ (a \in inArr /\ event = "connect")
    <3>1. isConnected' \subseteq isConnected
      BY <1>3, <2>4 DEF Deliver, Handle, CloseIt
    <3>2. QED
      BY <2>1, <2>2, <3>1
  <2>5. QED
    BY <2>1, <2>2, <2>3, <2>4
<1>7. Said'
  BY <1>3, <1>5, <1>6 DEF Said
<1>8. ASSUME NEW c \in Conns
      PROVE  /\ Waiting(c)' => c \in asked'
             /\ \A i \in DOMAIN events' : events'[i] \in Answers(c) =>
                  /\ c \in asked' /\ ~ Waiting(c)'
                  /\ \A j \in DOMAIN events' : events'[j] \in Answers(c) => i = j
  <2>1. Waiting(c)' => c \in asked'
    BY <1>5, <1>6 DEF OneAnswer
  <2>2. ASSUME NEW i \in DOMAIN events', events'[i] \in Answers(c)
        PROVE  /\ i + 1 \in DOMAIN events /\ events[i + 1] \in Answers(c)
               /\ i \in Nat /\ i > 0
    BY <1>1, <1>3, <2>2, TailOf
  <2>3. ASSUME NEW i \in DOMAIN events', events'[i] \in Answers(c)
        PROVE  /\ c \in asked' /\ ~ Waiting(c)'
               /\ \A j \in DOMAIN events' : events'[j] \in Answers(c) => i = j
    <3>1. /\ i + 1 \in DOMAIN events /\ events[i + 1] \in Answers(c) /\ i \in Nat /\ i > 0
      BY <2>2, <2>3
    <3>2. /\ c \in asked /\ ~ Waiting(c)
          /\ \A j \in DOMAIN events : events[j] \in Answers(c) => i + 1 = j
      BY <3>1 DEF OneAnswer
    <3>3. ~ (a = c /\ event \in {"connect", "failed"})
      <4>1. SUFFICES ASSUME a = c, event \in {"connect", "failed"}
                     PROVE  FALSE
        OBVIOUS
      <4>2. events[1] \in Answers(c)
        BY <1>2, <4>1 DEF Answers
      <4>3. QED
        BY <1>2, <3>1, <3>2, <4>2
    <3>4. c \in asked' /\ ~ Waiting(c)'
      BY <1>5, <1>6, <3>2, <3>3
    <3>5. ASSUME NEW j \in DOMAIN events', events'[j] \in Answers(c)
          PROVE  i = j
      <4>1. j + 1 \in DOMAIN events /\ events[j + 1] \in Answers(c) /\ j \in Nat
        BY <2>2, <3>5
      <4>2. QED
        BY <3>1, <3>2, <4>1
    <3>6. QED
      BY <3>4, <3>5
  <2>4. QED
    BY <2>1, <2>3
<1>9. QED
  BY <1>5, <1>7, <1>8 DEF OneAnswer, OneRequest, Answers

\* The net thread: an answer is the end of a request.
LEMMA ThreadAnswer ==
  ASSUME LuaInv, Said, OneAnswer, Steps \/ StepWithMessage
  PROVE  Said' /\ OneAnswer'
<1>1. /\ Inv /\ TypeOK /\ OpeningOne /\ LuaTypeOK
      /\ auto = FALSE /\ \A c \in Conns : OneRequest(c)
  BY DEF LuaInv, Inv, Said, OneAnswer, OneRequest
<1>2. Run /\ UNCHANGED <<inArr, isConnected, asked>>
  BY DEF Steps, StepWithMessage, Run
<1>3. Said'
  <2>1. auto' = auto
    BY <1>2 DEF Run, CheckDeleting, MergeRequests, ClearRequests, RetryOne, RetryDone,
       OpenStart, Opened, OpenDone, OpenFailed, AddingDone, SendHead, RemoveHead,
       SendNothing, SelectFailed, SelectReady, Dispatch, DispatchDone, flagVars
  <2>2. QED
    BY <1>2, <2>1 DEF Said
<1>4. \A c \in Conns : /\ Waiting(c)' => Waiting(c)
                       /\ (OpenDone \/ OpenFailed) /\ c = it => Waiting(c) /\ ~ Waiting(c)'
                       /\ OneRequest(c)'
  BY <1>1, <1>2, RunWaiting
<1>5. CASE UNCHANGED events
  <2>1. \A c \in Conns : (Waiting(c)' => Waiting(c)) /\ OneRequest(c)'
    BY <1>4
  <2>2. UNCHANGED <<events, asked>>
    BY <1>2, <1>5
  <2>3. OneAnswer'
    BY <2>1, <2>2 DEF OneAnswer, OneRequest, Answers
  <2>4. QED
    BY <1>3, <2>3
<1>6. CASE Steps /\ Posted # {}
  <2>1. PICK d \in Posted : Receive(<<d, told'[d][1]>>)
    BY <1>6 DEF Steps
  <2> DEFINE e == <<d, told'[d][1]>>
  <2>2. e \in Events /\ (~ (OpenDone \/ OpenFailed) => told'[d][1] = "broken")
    BY <1>1, <1>2, RunPosts
  <2>3. (OpenDone \/ OpenFailed) => d = it
    BY <1>1, <2>1, OpenDonePosts, OpenFailedPosts
  <2>4. \A c \in Conns : e \in Answers(c) => c = it /\ (OpenDone \/ OpenFailed)
    BY <2>2, <2>3 DEF Answers
  <2> HIDE DEF e
  <2>5. QED
    BY <1>1, <1>2, <1>3, <1>4, <2>1, <2>2, <2>4, OneAnswerReceive DEF e
<1>7. CASE StepWithMessage
  <2> DEFINE e == <<it', "netmsg">>
  <2>1. e \in Events
    BY <1>1, <1>7, DispatchErrs DEF StepWithMessage, Events
  <2>2. Receive(e) /\ \A c \in Conns : e \notin Answers(c)
    BY <1>7 DEF StepWithMessage, Answers
  <2> HIDE DEF e
  <2>3. QED
    BY <1>1, <1>2, <1>3, <1>4, <2>1, <2>2, OneAnswerReceive
<1>8. Posted = {} /\ Steps => UNCHANGED events
  BY DEF Steps
<1>9. QED
  BY <1>3, <1>5, <1>6, <1>7, <1>8

\* Every step.
LEMMA AnswerStep ==
  ASSUME Patient, LuaInv, Said, OneAnswer, [LuaNext]_allVars
  PROVE  Said' /\ OneAnswer'
<1>1. \A c \in Conns : OneRequest(c)
  BY DEF OneAnswer, OneRequest
<1>2. CASE LuaWorld \/ UNCHANGED allVars
  <2>1. UNCHANGED <<pc, it, adding, recon, addRecon, auto>>
    BY <1>2 DEF LuaWorld, World, DelayOver, PeerGone, allVars, vars, netVars, mapVars,
                reconVars, flagVars
  <2>2. UNCHANGED <<inArr, isConnected, asked, events>>
    BY <1>2 DEF LuaWorld, allVars, luaVars
  <2>3. \A d \in Conns : (Waiting(d)' => Waiting(d)) /\ OneRequest(d)'
    BY <1>1, <2>1 DEF Waiting, Connecting, OneRequest
  <2>4. QED
    BY <2>1, <2>2, <2>3, OneAnswerFrame DEF Said, LuaInv
<1>3. QED
  BY <1>2, ScriptAnswer, UpdateAnswer, ThreadAnswer DEF LuaNext

\* The initial state.
LEMMA AnswerInit == LuaInit => Said /\ OneAnswer
<1> SUFFICES ASSUME LuaInit
             PROVE  Said /\ OneAnswer
  OBVIOUS
<1>1. \A c \in Conns : ~ Waiting(c) /\ c \notin addRecon
  BY DEF LuaInit, Init, Waiting, Connecting, NoEntries
<1>2. DOMAIN events = {}
  BY DEF LuaInit
<1>3. QED
  BY <1>1, <1>2 DEF LuaInit, Said, OneAnswer

\* A script that waits for its answers has one request or one answer at a time.
THEOREM Answered == ASSUME Patient PROVE LuaSpec => [](Said /\ OneAnswer)
<1>1. LuaInv /\ Said /\ OneAnswer /\ [LuaNext]_allVars => (Said /\ OneAnswer)'
  BY AnswerStep
<1>2. QED
  BY AnswerInit, <1>1, LuaInvariance, PTL DEF LuaSpec

----------------------------------------------------------------------------
(* The life of an object.                                                  *)

\* The refinement mapping, for one object.
StatusOf(c) == IF c \notin inArr THEN "gone"
               ELSE IF c \in isConnected THEN "up"
               ELSE IF c \in asked THEN "asked" ELSE "idle"

\* The changes that Session allows, of one object at most.
Moves(c) ==
  \/ StatusOf(c)' = StatusOf(c)
  \/ StatusOf(c) = "idle" /\ StatusOf(c)' = "asked"
  \/ StatusOf(c) = "asked" /\ StatusOf(c)' \in {"up", "idle"}
  \/ StatusOf(c) = "up" /\ StatusOf(c)' = "idle"
  \/ StatusOf(c) # "gone" /\ StatusOf(c)' = "gone"

\* Such a change is a step of Session.
LEMMA SessionMoves ==
  ASSUME NEW c \in Conns, Moves(c),
         \A d \in Conns : d # c => StatusOf(d)' = StatusOf(d)
  PROVE  [Object!Next]_[d \in Conns |-> StatusOf(d)]
<1> DEFINE status == [d \in Conns |-> StatusOf(d)]
<1>1. status' = [status EXCEPT ![c] = StatusOf(c)']
  OBVIOUS
<1>2. status[c] = StatusOf(c)
  OBVIOUS
<1>3. StatusOf(c) \in {"idle", "asked", "up", "gone"}
  BY DEF StatusOf
<1>4. StatusOf(c)' = StatusOf(c) => status' = status
  BY <1>1
<1> HIDE DEF status
<1>5. \/ status' = status
      \/ status[c] = "idle" /\ status' = [status EXCEPT ![c] = "asked"]
      \/ status[c] = "asked" /\ status' = [status EXCEPT ![c] = "up"]
      \/ status[c] = "asked" /\ status' = [status EXCEPT ![c] = "idle"]
      \/ status[c] = "up" /\ status' = [status EXCEPT ![c] = "idle"]
      \/ status[c] \in {"idle", "asked", "up"} /\ status' = [status EXCEPT ![c] = "gone"]
  BY <1>1, <1>2, <1>3, <1>4 DEF Moves
<1>6. QED
  BY <1>5
  DEF status, StatusOf, Object!Next, Object!Ask, Object!Up, Object!Fail, Object!End,
      Object!Destroy, Object!Becomes

\* Every step is one of Session: an event that comes twice, or too late, for an
\* object does not move it.
LEMMA SessionStep ==
  ASSUME Patient, LuaInv, Said, OneAnswer, [LuaNext]_allVars
  PROVE  [Object!Next]_[c \in Conns |-> StatusOf(c)]
<1>1. LuaTypeOK /\ \A c \in asked : c \notin isConnected
  BY DEF LuaInv, Said
<1>2. ASSUME UNCHANGED <<inArr, isConnected, asked>>
      PROVE  [Object!Next]_[c \in Conns |-> StatusOf(c)]
  BY <1>2 DEF StatusOf
<1>3. CASE Script
  <2>1. PICK c \in Conns :
          Connect(c) \/ Reconnect(c) \/ Close(c) \/ Destroy(c) \/ SendMsg(c)
    BY <1>3 DEF Script
  <2>2. CASE Connect(c) \/ Reconnect(c)
    <3>1. /\ c \in inArr /\ c \notin isConnected /\ c \notin asked
          /\ UNCHANGED <<inArr, isConnected>>
          /\ asked' \in {asked, asked \cup {c}}
      BY <2>2 DEF Connect, Reconnect, MayAsk
    <3>2. Moves(c) /\ \A d \in Conns : d # c => StatusOf(d)' = StatusOf(d)
      BY <3>1 DEF Moves, StatusOf
    <3>3. QED
      BY <3>2, SessionMoves
  <2>3. CASE Close(c)
    <3>1. /\ c \in inArr /\ c \in isConnected /\ isConnected' = isConnected \ {c}
          /\ UNCHANGED <<inArr, asked>>
      BY <2>3 DEF Close, CloseIt
    <3>2. Moves(c) /\ \A d \in Conns : d # c => StatusOf(d)' = StatusOf(d)
      BY <1>1, <3>1 DEF Moves, StatusOf
    <3>3. QED
      BY <3>2, SessionMoves
  <2>4. CASE Destroy(c)
    <3>1. /\ c \in inArr /\ isConnected' = isConnected \ {c}
          /\ inArr' = inArr \ {c} /\ UNCHANGED asked
      BY <2>4 DEF Destroy, CloseIt
    <3>2. Moves(c) /\ \A d \in Conns : d # c => StatusOf(d)' = StatusOf(d)
      BY <3>1 DEF Moves, StatusOf
    <3>3. QED
      BY <3>2, SessionMoves
  <2>5. CASE SendMsg(c)
    BY <1>2, <2>5 DEF SendMsg, luaVars
  <2>6. QED
    BY <2>1, <2>2, <2>3, <2>4, <2>5
<1>4. CASE Update
  <2>1. PICK c \in Conns, event \in {"connect", "broken", "failed", "netmsg"} :
          /\ Head(events)[1] = c /\ Head(events)[2] = event
          /\ events[1] = <<c, event>> /\ 1 \in DOMAIN events
    BY <1>1, <1>4, FirstEvent, TailOf DEF Update, LuaTypeOK
  <2>2. Deliver(c, event) /\ inArr' = inArr
    BY <1>4, <2>1 DEF Update
  <2>3. event \in {"connect", "failed"} => c \in asked
    BY <2>1 DEF OneAnswer, Answers
  <2>4. CASE c \notin inArr \/ event = "netmsg"
    BY <1>2, <2>2, <2>4 DEF Deliver, Handle
  <2>5. CASE c \in inArr /\ event = "connect"
    <3>1. /\ isConnected' = isConnected \cup {c} /\ asked' = asked \ {c}
      BY <2>2, <2>5 DEF Deliver, Handle
    <3>2. Moves(c) /\ \A d \in Conns : d # c => StatusOf(d)' = StatusOf(d)
      BY <1>1, <2>2, <2>3, <2>5, <3>1 DEF Moves, StatusOf
    <3>3. QED
      BY <2>1, <3>2, SessionMoves
  <2>6. CASE c \in inArr /\ event \in {"broken", "failed"}
    <3>1. /\ isConnected' = isConnected \ {c}
          /\ asked' = IF event = "failed" THEN asked \ {c} ELSE asked
      BY <2>2, <2>6 DEF Deliver, Handle, CloseIt
    <3>2. \A d \in Conns : d # c => StatusOf(d)' = StatusOf(d)
      BY <2>2, <3>1 DEF StatusOf
    <3>3. ASSUME event = "broken"
          PROVE  Moves(c)
      BY <1>1, <2>2, <2>6, <3>1, <3>3 DEF Moves, StatusOf
    <3>4. ASSUME event = "failed"
          PROVE  Moves(c)
      <4>1. c \in asked /\ c \notin isConnected
        BY <1>1, <2>3, <3>4
      <4>2. StatusOf(c) = "asked" /\ StatusOf(c)' = "idle"
        BY <2>2, <2>6, <3>1, <3>4, <4>1 DEF StatusOf
      <4>3. QED
        BY <4>2 DEF Moves
    <3>5. QED
      BY <2>6, <3>2, <3>3, <3>4, SessionMoves
  <2>7. QED
    BY <2>1, <2>4, <2>5, <2>6
<1>5. CASE Steps \/ StepWithMessage \/ LuaWorld \/ UNCHANGED allVars
  BY <1>2, <1>5 DEF Steps, StepWithMessage, LuaWorld, luaVars, allVars
<1>6. QED
  BY <1>3, <1>4, <1>5 DEF LuaNext

\* Each object of a script that waits for its answers lives the life of Session:
\* no answer comes twice, or to an object that was closed or destroyed.
THEOREM Sessions == ASSUME Patient PROVE LuaSpec => ImplementsSession
<1>1. LuaInit => Object!Init
  BY DEF LuaInit, Object!Init
<1>2. LuaInv /\ Said /\ OneAnswer /\ [LuaNext]_allVars =>
        [Object!Next]_[c \in Conns |-> IF c \notin inArr THEN "gone"
                                       ELSE IF c \in isConnected THEN "up"
                                       ELSE IF c \in asked THEN "asked" ELSE "idle"]
  BY SessionStep DEF StatusOf
<1>3. LuaSpec => [](Said /\ OneAnswer)
  BY Answered
<1>4. QED
  BY <1>1, <1>2, <1>3, LuaInvariance, PTL
  DEF LuaSpec, ImplementsSession, Object!Spec

----------------------------------------------------------------------------
(* One connection.                                                         *)

\* Where there is one connection, the descriptor of a client that was not removed
\* is open and its own, and so is that of the socket that is being opened.
OwnOpen ==
  /\ \A c \in Conns : client[c] # None /\ closing[c] = None =>
       fd[client[c]] \in Fds /\ open[fd[client[c]]] = client[c]
  /\ pc = "inserting" => fd[cur] # None
  /\ pc \in {"opening", "inserting"} /\ fd[cur] # None => open[fd[cur]] = cur

\* Steps that neither open nor close.
LEMMA OwnOpenFrame ==
  ASSUME OwnOpen, UNCHANGED <<client, closing, fd, open>>,
         pc' \notin {"opening", "inserting"} \/ UNCHANGED <<pc, cur>>
  PROVE  OwnOpen'
  BY DEF OwnOpen

\* Every step of both threads.
LEMMA OwnOpenStep ==
  ASSUME Inv, \A c, d \in Conns : c = d, OwnOpen, Next
  PROVE  OwnOpen'
<1>1. /\ TypeOK /\ OpeningOne /\ OneSocketPerIndex /\ (NoDangling => Phased)
      /\ TypeOK' /\ OpeningOne'
  BY NextTypes DEF Inv, Sound, Detail
<1>2. ASSUME NEW c \in Conns, AddConnect(c)
      PROVE  OwnOpen'
  <2>1. PICK s \in Socks \ Referenced : Replace(Evicted, s, c)
    BY <1>2 DEF AddConnect
  <2>2. Evicted = {}
    BY <1>2 DEF AddConnect, IndexFree, Entries, Evicted
  <2>3. /\ \A f \in Fds : open'[f] = open[f]
        /\ \A t \in Socks : t # s => fd'[t] = fd[t]
    BY <2>1, <2>2 DEF Replace, Shut
  <2>4. UNCHANGED <<pc, cur, client, closing>>
    BY <1>2 DEF AddConnect, netVars
  <2>5. cur # s /\ \A d \in Conns : client[d] # s
    BY DEF Referenced
  <2>6. \A d \in Conns : client[d] # None =>
          client[d] \in Socks /\ fd'[client[d]] = fd[client[d]]
    BY <1>1, <2>3, <2>5 DEF TypeOK
  <2>7. pc \in {"opening", "inserting"} =>
          cur \in Socks /\ fd'[cur] = fd[cur] /\ fd[cur] \in Fds \cup {None}
    BY <1>1, <2>3, <2>5 DEF TypeOK, OpeningOne
  <2>8. QED
    BY <2>3, <2>4, <2>6, <2>7 DEF OwnOpen
<1>3. ASSUME NEW c \in Conns, RemoveConnect(c)
      PROVE  OwnOpen'
  <2>1. UNCHANGED <<pc, cur, client, fd>>
    BY <1>3 DEF RemoveConnect, netVars, sockVars
  <2>2. CASE client[c] = None
    BY <1>3, <2>1, <2>2, OwnOpenFrame DEF RemoveConnect
  <2>3. CASE client[c] # None
    <3>1. closing' = [closing EXCEPT ![c] = client[c]] /\ NoDangling
      BY <1>3, <2>3 DEF RemoveConnect
    <3>2. pc \notin {"opening", "inserting"}
      BY <1>1, <2>3, <3>1 DEF Phased, OpeningOne
    <3>3. \A d \in Conns : closing'[d] # None
      BY <1>1, <2>3, <3>1 DEF TypeOK
    <3>4. QED
      BY <2>1, <3>2, <3>3 DEF OwnOpen
  <2>4. QED
    BY <2>2, <2>3
<1>4. CASE (\E c \in Conns : ReConnect(c) \/ SendMessage(c)) \/ SetAutoConnect \/ World
  <2>1. UNCHANGED <<pc, cur, client, closing, fd, open>>
    BY <1>4 DEF ReConnect, SendMessage, SetAutoConnect, World, DelayOver, PeerGone,
       netVars, mapVars, sockVars, kernelVars
  <2>2. QED
    BY <2>1, OwnOpenFrame
<1>5. CASE CheckDeleting
  <2>1. /\ pc' \notin {"opening", "inserting"} /\ Unmap(Entries(deleting))
        /\ Replace({IF client[c] # None THEN client[c] ELSE deleting[c] :
                      c \in Entries(deleting)}, None, None)
    BY <1>5 DEF CheckDeleting
  <2>2. CASE Entries(deleting) = {}
    <3>1. /\ client' = client /\ closing' = closing
      BY <1>1, <2>1, <2>2 DEF Unmap, TypeOK
    <3>2. open' = open /\ fd' = fd
      BY <1>1, <2>1, <2>2, Numbers DEF Replace, Shut, TypeOK
    <3>3. QED
      BY <2>1, <3>1, <3>2, OwnOpenFrame
  <2>3. CASE Entries(deleting) # {}
    <3>1. \A c \in Conns : c \in Entries(deleting)
      BY <2>3 DEF Entries
    <3>2. \A c \in Conns : client'[c] = None
      BY <2>1, <3>1 DEF Unmap, Entries
    <3>3. QED
      BY <2>1, <3>2 DEF OwnOpen
  <2>4. QED
    BY <2>2, <2>3
<1>6. CASE RetryOne
  <2>1. First(Retryable) \in Retryable
    BY <1>1, <1>6, FirstOf, Numbers DEF RetryOne, Retryable, TypeOK
  <2>2. \A c \in Conns : c = First(Retryable)
    BY <1>1, <2>1 DEF Retryable, TypeOK
  <2>3. Unmap({First(Retryable)}) /\ pc' \notin {"opening", "inserting"}
    BY <1>6 DEF RetryOne, At
  <2>4. \A c \in Conns : client'[c] = None
    BY <2>2, <2>3 DEF Unmap, Entries
  <2>5. QED
    BY <2>3, <2>4 DEF OwnOpen
<1>7. CASE OpenStart
  <2>1. First(Pending) \in Pending
    BY <1>7, FirstOf, Numbers DEF OpenStart, Pending, Entries
  <2>2. PICK c \in Conns : c = First(Pending) /\ adding[c] # None /\ c > it
    BY <2>1 DEF Pending, Entries
  <2>3. /\ cur' = adding[c] /\ cur' \in Socks /\ CreateEx(adding[c])
        /\ NoDangling /\ pc = "adding" /\ pc' = "opening" /\ client' = client
    BY <1>1, <1>7, <2>2 DEF OpenStart, At, mapVars, TypeOK
  <2>4. \A d \in Conns : client'[d] = None
    <3>1. it \in Nat /\ c \in Nat
      BY <1>1, Numbers DEF TypeOK
    <3>2. ~ (c <= it)
      BY <2>2, <3>1
    <3>3. client[c] = None
      BY <1>1, <2>2, <2>3, <3>2 DEF Phased
    <3>4. QED
      BY <2>3, <3>3
  <2>5. PICK f \in Fds \cup {None} :
          /\ fd' = [fd EXCEPT ![adding[c]] = f]
          /\ open' = [g \in Fds |-> IF g = f THEN adding[c] ELSE open[g]]
    BY <2>3 DEF CreateEx
  <2>6. fd'[cur'] = f /\ (f # None => open'[f] = cur')
    BY <1>1, <2>3, <2>5 DEF TypeOK
  <2>7. QED
    BY <2>3, <2>4, <2>6 DEF OwnOpen
<1>8. CASE OpenDone
  <2>1. /\ it \in Conns /\ pc = "inserting" /\ pc' \notin {"opening", "inserting"}
        /\ client' = [client EXCEPT ![it] = cur] /\ UNCHANGED <<fd, open>>
        /\ fd[cur] # None
    BY <1>1, <1>8 DEF OpenDone, At, OpeningOne, OwnOpen, kernelVars
  <2>2. cur \in Socks /\ fd[cur] \in Fds
    BY <1>1, <2>1 DEF TypeOK, OpeningOne
  <2>3. \A c \in Conns : client'[c] = cur
    BY <1>1, <2>1 DEF TypeOK
  <2>4. QED
    BY <2>1, <2>2, <2>3 DEF OwnOpen
<1>9. CASE OpenFailed
  <2>1. /\ NoDangling /\ pc = "opening" /\ pc' \notin {"opening", "inserting"}
        /\ client' = client /\ it \in Conns
    BY <1>1, <1>9 DEF OpenFailed, At, OpeningOne
  <2>2. \A c \in Conns : client'[c] = None
    BY <1>1, <2>1 DEF Phased
  <2>3. QED
    BY <2>1, <2>2 DEF OwnOpen
<1>10. CASE SelectFailed
  <2>1. /\ pc' \notin {"opening", "inserting"} /\ UNCHANGED <<fd, open>>
        /\ client' = [c \in Conns |-> IF closing[c] # None THEN None ELSE client[c]]
    BY <1>10 DEF SelectFailed, kernelVars, RebuildFdset
  <2>2. \A c \in Conns : client'[c] # None => client[c] = client'[c] /\ closing[c] = None
    BY <2>1
  <2>3. QED
    BY <2>1, <2>2 DEF OwnOpen
<1>11. CASE \/ MergeRequests \/ ClearRequests \/ RetryDone \/ AddingDone
            \/ SendHead \/ RemoveHead \/ SendNothing \/ SelectReady \/ Dispatch
            \/ DispatchDone
  <2>1. /\ pc' \notin {"opening", "inserting"}
        /\ UNCHANGED <<client, closing, fd, open>>
    BY <1>11 DEF MergeRequests, ClearRequests, Retrying, RetryDone, AddingDone, SendHead,
       RemoveHead, SendNothing, SelectReady, Dispatch, DispatchDone, At, mapVars,
       sockVars, kernelVars
  <2>2. QED
    BY <2>1, OwnOpenFrame
<1>12. CASE Opened
  <2>1. /\ pc = "opening" /\ fd[cur] # None
        /\ UNCHANGED <<cur, client, closing, fd, open>>
    BY <1>12 DEF Opened, At, mapVars, sockVars, kernelVars
  <2>2. QED
    BY <2>1 DEF OwnOpen
<1>13. QED
  BY <1>2, <1>3, <1>4, <1>5, <1>6, <1>7, <1>8, <1>9, <1>10, <1>11, <1>12
  DEF Next, Main, Run

\* The net thread ends a live connection for a retry, or with an event.
LEMMA LiveStays ==
  ASSUME Inv, \A c, d \in Conns : c = d, OwnOpen, auto = FALSE, Run,
         NEW c \in Conns, Live(c), ~ Waiting(c)
  PROVE  Live(c)' \/ (Posted = {c} /\ told'[c][1] = "broken")
<1>1. /\ TypeOK /\ OpeningOne /\ (NoDangling => Phased) /\ \A d \in Conns : d = c
      /\ client[c] # None /\ up[client[c]] /\ closing[c] = None /\ deleting[c] = None
  BY DEF Inv, Sound, Detail, Live
<1>2. ASSUME UNCHANGED <<client, up, closing, deleting>>
      PROVE  Live(c)'
  BY <1>2 DEF Live
<1>3. CASE CheckDeleting
  <2>1. Entries(deleting) = {}
    BY <1>1 DEF Entries
  <2>2. Unmap({}) /\ Replace({}, None, None) /\ deleting' = NoEntries
    BY <1>3, <2>1 DEF CheckDeleting
  <2>3. client'[c] = client[c] /\ closing'[c] = None /\ deleting'[c] = None
    BY <1>1, <2>2 DEF Unmap, NoEntries
  <2>4. client[c] \in Socks /\ up'[client[c]]
    BY <1>1, <2>2, Numbers DEF Replace, TypeOK
  <2>5. QED
    BY <1>1, <2>3, <2>4 DEF Live
<1>4. CASE RetryOne
  <2>1. First(Retryable) \in Retryable
    BY <1>1, <1>4, FirstOf, Numbers DEF RetryOne, Retryable, TypeOK
  <2>2. recon[c] # Absent
    BY <1>1, <2>1 DEF Retryable, TypeOK
  <2>3. QED
    BY <2>2 DEF Waiting
<1>5. CASE OpenDone \/ OpenFailed
  <2>1. NoDangling /\ pc \in {"opening", "inserting"} /\ it \in Conns
    BY <1>1, <1>5 DEF OpenDone, OpenFailed, At, OpeningOne
  <2>2. QED
    BY <1>1, <2>1 DEF Phased
<1>6. CASE SendHead \/ Dispatch
  <2>1. \/ \E d \in Conns : CheckError(d)
        \/ UNCHANGED deleting
    BY <1>1, <1>6, SendHeadErrs, DispatchErrs
  <2>2. CASE \E d \in Conns : CheckError(d)
    BY <1>1, <2>2, ErrorPosts
  <2>3. CASE UNCHANGED deleting
    BY <1>2, <1>6, <2>3 DEF SendHead, Dispatch, sockVars
  <2>4. QED
    BY <2>1, <2>2, <2>3
<1>7. CASE SelectFailed
  <2>1. RebuildFdset /\ UNCHANGED deleting
    BY <1>7 DEF SelectFailed
  <2> DEFINE left == [d \in Conns |-> IF closing[d] # None THEN None ELSE client[d]]
             bad == {left[d] : d \in {e \in Entries(left) : open[fd[left[e]]] = None}}
  <2>2. left[c] = client[c] /\ client[c] \in Socks
    BY <1>1 DEF TypeOK
  <2>3. \A d \in Conns : left[d] = client[c] /\ open[fd[left[d]]] = client[c]
    BY <1>1, <2>2 DEF OwnOpen
  <2>4. bad = {}
    <3>1. \A d \in Conns : open[fd[left[d]]] # None
      BY <1>1, <2>3
    <3> HIDE DEF left
    <3>2. QED
      BY <3>1 DEF Entries
  <2>5. client' = left /\ closing' = NoEntries /\ up' = [s \in Socks |-> up[s] /\ s \notin bad]
    BY <2>1 DEF RebuildFdset
  <2>6. client'[c] = client[c] /\ closing'[c] = None /\ up'[client[c]]
    BY <1>1, <2>2, <2>4, <2>5 DEF NoEntries
  <2>7. QED
    BY <1>1, <2>1, <2>6 DEF Live
<1>8. CASE \/ MergeRequests \/ ClearRequests \/ RetryDone \/ OpenStart \/ Opened
           \/ AddingDone \/ RemoveHead \/ SendNothing \/ SelectReady \/ DispatchDone
  <2>1. UNCHANGED <<client, up, closing, deleting>>
    BY <1>8 DEF MergeRequests, ClearRequests, RetryDone, OpenStart, Opened,
       AddingDone, RemoveHead, SendNothing, SelectReady, DispatchDone, mapVars, sockVars
  <2>2. QED
    BY <1>2, <2>1
<1>9. QED
  BY <1>3, <1>4, <1>5, <1>6, <1>7, <1>8 DEF Run

\* A connect that succeeds makes the connection live.
LEMMA ConnectIsLive ==
  ASSUME Inv, OpenDone
  PROVE  Live(it)'
<1>1. /\ TypeOK /\ OneSocketPerIndex /\ Phased
      /\ it \in Conns /\ cur \in Socks /\ pc = "inserting"
  BY DEF Inv, Sound, Detail, OpenDone, At, OpeningOne
<1>2. /\ it' = it /\ UNCHANGED <<deleting, closing>>
      /\ client' = [client EXCEPT ![it] = cur] /\ up' = [up EXCEPT ![cur] = TRUE]
  BY DEF OpenDone
<1>3. client'[it] = cur /\ cur # None /\ up'[cur]
  BY <1>1, <1>2, Numbers DEF TypeOK
<1>4. client[it] = None /\ closing[it] = None /\ deleting[it] = None
  BY <1>1 DEF Phased, OneSocketPerIndex, NoEntries
<1>5. QED
  BY <1>2, <1>3, <1>4 DEF Live

\* The end of the connection of c is in the queue.
Ended(c, after) == \E j \in DOMAIN events : j > after /\ events[j] = <<c, "broken">>

\* What an object says, or is about to say, is true or about to be corrected.
Flagged ==
  ~ overflow => \A c \in Conns :
    /\ c \in isConnected => Live(c) \/ Ended(c, 0)
    /\ \A i \in DOMAIN events : events[i] = <<c, "connect">> => Live(c) \/ Ended(c, i)

\* The script: it closes a connection only when it knows of it.
LEMMA FlaggedScript ==
  ASSUME Said, OneAnswer, Flagged, \A c, d \in Conns : c = d, Script
  PROVE  Flagged'
<1>1. PICK c \in Conns :
        Connect(c) \/ Reconnect(c) \/ Close(c) \/ Destroy(c) \/ SendMsg(c)
  BY DEF Script
<1>2. UNCHANGED <<events, overflow>>
  BY <1>1 DEF Connect, Reconnect, Close, Destroy, SendMsg, luaVars
<1>3. \/ c \in isConnected /\ isConnected' = isConnected \ {c}
      \/ isConnected' \subseteq isConnected /\ (Live(c) => Live(c)')
  <2>1. CASE Connect(c) \/ Reconnect(c) \/ SendMsg(c)
    <3>1. isConnected' = isConnected
      BY <2>1 DEF Connect, Reconnect, SendMsg, luaVars
    <3>2. AddConnect(c) \/ UNCHANGED <<client, up, closing, deleting>>
      BY <2>1 DEF Connect, Reconnect, ReConnect, SendMsg, SendMessage, vars, mapVars,
         sockVars
    <3>3. Live(c) => Live(c)'
      BY <3>2 DEF AddConnect, IndexFree, Live
    <3>4. QED
      BY <3>1, <3>3
  <2>2. CASE Close(c) \/ Destroy(c)
    <3>1. isConnected' = isConnected \ {c}
      BY <2>2 DEF Close, Destroy, CloseIt
    <3>2. c \notin isConnected => UNCHANGED <<client, up, closing, deleting>>
      BY <2>2 DEF Close, Destroy, CloseIt, vars, mapVars, sockVars
    <3>3. QED
      BY <3>1, <3>2 DEF Live
  <2>3. QED
    BY <1>1, <2>1, <2>2
<1>4. c \in isConnected => \A i \in DOMAIN events : events[i] # <<c, "connect">>
  BY DEF Said, OneAnswer, Answers
<1>5. ASSUME ~ overflow
      PROVE  /\ c \in isConnected' => Live(c)' \/ Ended(c, 0)
             /\ \A i \in DOMAIN events :
                  events[i] = <<c, "connect">> => Live(c)' \/ Ended(c, i)
  <2>1. CASE c \in isConnected /\ isConnected' = isConnected \ {c}
    BY <1>4, <2>1
  <2>2. CASE isConnected' \subseteq isConnected /\ (Live(c) => Live(c)')
    BY <1>5, <2>2 DEF Flagged
  <2>3. QED
    BY <1>3, <2>1, <2>2
<1>6. QED
  BY <1>2, <1>5 DEF Flagged, Ended

\* The frame callback: a connect is believed, and so is an end.
LEMMA FlaggedUpdate ==
  ASSUME LuaInv, Said, OneAnswer, Flagged, \A c, d \in Conns : c = d, Update
  PROVE  Flagged'
<1>1. LuaTypeOK /\ events \in Seq(Events) /\ events # <<>>
  BY DEF LuaInv, LuaTypeOK, Events, Update
<1>2. PICK c \in Conns, event \in {"connect", "broken", "failed", "netmsg"} :
        /\ Head(events)[1] = c /\ Head(events)[2] = event
        /\ events[1] = <<c, event>> /\ 1 \in DOMAIN events
  BY <1>1, FirstEvent, TailOf
<1>3. Deliver(c, event) /\ events' = Tail(events) /\ UNCHANGED <<inArr, overflow>>
  BY <1>2 DEF Update
<1>4. ASSUME NEW i \in DOMAIN events'
      PROVE  i + 1 \in DOMAIN events /\ events'[i] = events[i + 1] /\ i \in Nat /\ i > 0
  BY <1>1, <1>3, TailOf
<1>5. ASSUME NEW n \in Nat, n = 0 => event # "broken", Ended(c, n)
      PROVE  \E j \in DOMAIN events' : j + 1 > n /\ events'[j] = <<c, "broken">>
  <2>1. PICK j \in DOMAIN events : j > n /\ events[j] = <<c, "broken">>
    BY <1>5 DEF Ended
  <2>2. j # 1 /\ j \in Nat
    BY <1>1, <1>2, <1>5, <2>1
  <2>3. j - 1 \in DOMAIN events' /\ events'[j - 1] = events[j]
    BY <1>1, <1>3, <2>1, <2>2, TailOf
  <2>4. QED
    BY <2>1, <2>2, <2>3
<1>6. c \notin isConnected => UNCHANGED <<client, up, closing, deleting>>
  BY <1>3 DEF Deliver, Handle, CloseIt, vars, mapVars, sockVars
<1>7. ASSUME ~ overflow, NEW i \in DOMAIN events', events'[i] = <<c, "connect">>
      PROVE  Live(c)' \/ \E j \in DOMAIN events' : j > i /\ events'[j] = <<c, "broken">>
  <2>1. i + 1 \in DOMAIN events /\ events[i + 1] = <<c, "connect">> /\ i \in Nat /\ i > 0
    BY <1>4, <1>7
  <2>2. c \notin isConnected
    BY <2>1 DEF Said, OneAnswer, Answers
  <2>3. Live(c) => Live(c)'
    BY <1>6, <2>2 DEF Live
  <2>4. CASE Ended(c, i + 1)
    <3>1. PICK j \in DOMAIN events' : j + 1 > i + 1 /\ events'[j] = <<c, "broken">>
      BY <1>5, <2>1, <2>4
    <3>2. QED
      BY <1>4, <2>1, <3>1
  <2>5. QED
    BY <1>7, <2>1, <2>3, <2>4 DEF Flagged
<1>8. ASSUME ~ overflow, c \in isConnected'
      PROVE  Live(c)' \/ \E j \in DOMAIN events' : j > 0 /\ events'[j] = <<c, "broken">>
  <2>1. ASSUME NEW n \in Nat, n = 0 => event # "broken", Ended(c, n)
        PROVE  \E j \in DOMAIN events' : j > 0 /\ events'[j] = <<c, "broken">>
    BY <1>4, <1>5, <2>1
  <2>2. c \in inArr
    BY <1>3, <1>8 DEF Deliver, Said
  <2>3. CASE event = "connect"
    <3>1. UNCHANGED <<client, up, closing, deleting>>
      BY <1>3, <2>2, <2>3 DEF Deliver, Handle, vars, mapVars, sockVars
    <3>2. Live(c) \/ Ended(c, 1)
      BY <1>2, <1>8, <2>3 DEF Flagged
    <3>3. QED
      BY <2>1, <3>1, <3>2 DEF Live
  <2>4. CASE event = "netmsg"
    <3>1. UNCHANGED <<client, up, closing, deleting, isConnected>>
      BY <1>3, <2>2, <2>4 DEF Deliver, Handle, vars, mapVars, sockVars
    <3>2. Live(c) \/ Ended(c, 0)
      BY <1>8, <3>1 DEF Flagged
    <3>3. QED
      BY <2>1, <2>4, <3>1, <3>2 DEF Live
  <2>5. CASE event \in {"broken", "failed"}
    BY <1>3, <1>8, <2>2, <2>5 DEF Deliver, Handle, CloseIt
  <2>6. QED
    BY <2>3, <2>4, <2>5
<1>9. QED
  <2>1. ASSUME ~ overflow', NEW d \in Conns
        PROVE  /\ d \in isConnected' => Live(d)' \/ Ended(d, 0)'
               /\ \A i \in DOMAIN events' :
                    events'[i] = <<d, "connect">> => Live(d)' \/ Ended(d, i)'
    <3>1. d = c /\ ~ overflow
      BY <1>3, <2>1
    <3>2. QED
      BY <1>7, <1>8, <3>1 DEF Ended
  <2>2. QED
    BY <2>1 DEF Flagged, Ended

\* The net thread: a connect that is posted is live, and no connection ends without
\* an event, unless the queue is full.
LEMMA FlaggedThread ==
  ASSUME LuaInv, Said, OneAnswer, Flagged, OwnOpen, \A c, d \in Conns : c = d,
         Steps \/ StepWithMessage
  PROVE  Flagged'
<1>1. /\ Inv /\ TypeOK /\ OpeningOne /\ LuaTypeOK /\ events \in Seq(Events)
      /\ auto = FALSE /\ Run /\ UNCHANGED <<isConnected, asked>>
  BY DEF LuaInv, Inv, LuaTypeOK, Said, Events, Steps, StepWithMessage, Run
<1>2. SUFFICES ASSUME ~ overflow', NEW c \in Conns
               PROVE  /\ c \in isConnected => Live(c)' \/ Ended(c, 0)'
                      /\ \A i \in DOMAIN events' : events'[i] = <<c, "connect">> =>
                           Live(c)' \/ Ended(c, i)'
  BY <1>1 DEF Flagged, Ended
<1>3. /\ ~ overflow
      /\ \/ Posted = {} /\ events' = events
         \/ \E d \in Posted : events' = Append(events, <<d, told'[d][1]>>)
         \/ Posted = {} /\ it' \in Conns /\ events' = Append(events, <<it', "netmsg">>)
  <2>1. CASE Steps /\ Posted # {}
    BY <1>2, <2>1 DEF Steps, Receive
  <2>2. CASE Steps /\ Posted = {}
    BY <1>2, <2>2 DEF Steps
  <2>3. CASE StepWithMessage
    BY <1>1, <1>2, <2>3, DispatchErrs, ReadPosts DEF StepWithMessage, Receive
  <2>4. QED
    BY <2>1, <2>2, <2>3
<1>4. PICK e \in Events :
        /\ events' = events \/ events' = Append(events, e)
        /\ \A d \in Conns : d \in Posted => e = <<d, told'[d][1]>>
                                            /\ events' = Append(events, e)
        /\ events' # events /\ e[2] = "connect" =>
             \E d \in Posted : e = <<d, told'[d][1]>>
  <2>1. CASE Posted = {} /\ events' = events
    <3>1. <<c, "netmsg">> \in Events
      BY DEF Events
    <3>2. QED
      BY <2>1, <3>1
  <2>2. CASE Posted = {} /\ it' \in Conns /\ events' = Append(events, <<it', "netmsg">>)
    <3>1. PICK e \in Events : e = <<it', "netmsg">>
      BY <2>2 DEF Events
    <3>2. QED
      BY <2>2, <3>1
  <2>3. CASE \E d \in Posted : events' = Append(events, <<d, told'[d][1]>>)
    <3>1. PICK d \in Posted : events' = Append(events, <<d, told'[d][1]>>)
      BY <2>3
    <3>2. PICK e \in Events : e = <<d, told'[d][1]>>
      BY <1>1, RunPosts
    <3>3. \A b \in Conns : b = d
      BY <3>1 DEF Posted
    <3>4. QED
      BY <3>1, <3>2, <3>3
  <2>4. QED
    BY <1>3, <2>1, <2>2, <2>3
<1>5. \A i \in DOMAIN events :
        i \in DOMAIN events' /\ events'[i] = events[i] /\ i \in Nat /\ i > 0
  BY <1>1, <1>4, AppendOf
<1>6. ASSUME NEW n, Ended(c, n)
      PROVE  Ended(c, n)'
  BY <1>5, <1>6 DEF Ended
<1>7. ASSUME NEW n \in Nat, n <= Len(events), Live(c), ~ Waiting(c)
      PROVE  Live(c)' \/ Ended(c, n)'
  <2>1. CASE Posted = {c} /\ told'[c][1] = "broken"
    <3>1. events' = Append(events, <<c, "broken">>) /\ <<c, "broken">> \in Events
      BY <1>4, <2>1
    <3>2. /\ Len(events) + 1 \in DOMAIN events' /\ Len(events) + 1 > n
          /\ events'[Len(events) + 1] = <<c, "broken">>
      BY <1>1, <1>7, <3>1, AppendOf
    <3>3. QED
      BY <3>2 DEF Ended
  <2>2. QED
    BY <1>1, <1>7, <2>1, LiveStays
<1>8. c \in isConnected => Live(c)' \/ Ended(c, 0)'
  <2>1. SUFFICES ASSUME c \in isConnected
                 PROVE  Live(c)' \/ Ended(c, 0)'
    OBVIOUS
  <2>2. ~ Waiting(c)
    BY <2>1 DEF Said, OneAnswer
  <2>3. Live(c) \/ Ended(c, 0)
    BY <1>3, <2>1 DEF Flagged
  <2>4. 0 <= Len(events)
    BY <1>1
  <2>5. QED
    BY <1>6, <1>7, <2>2, <2>3, <2>4
<1>9. ASSUME NEW i \in DOMAIN events', events'[i] = <<c, "connect">>
      PROVE  Live(c)' \/ Ended(c, i)'
  <2>1. CASE i \in DOMAIN events
    <3>1. events[i] = <<c, "connect">> /\ i \in Nat /\ i <= Len(events)
      BY <1>1, <1>5, <1>9, <2>1
    <3>2. ~ Waiting(c)
      BY <2>1, <3>1 DEF OneAnswer, Answers
    <3>3. Live(c) \/ Ended(c, i)
      BY <1>3, <2>1, <3>1 DEF Flagged
    <3>4. QED
      BY <1>6, <1>7, <3>1, <3>2, <3>3
  <2>2. CASE i \notin DOMAIN events
    <3>1. events' = Append(events, e) /\ i = Len(events) + 1
      BY <1>1, <1>4, <2>2, AppendOf
    <3>2. e = <<c, "connect">> /\ events' # events
      <4>1. events'[i] = e
        BY <1>1, <3>1, AppendOf
      <4>2. QED
        BY <1>9, <2>2, <4>1
    <3>3. c \in Posted /\ told'[c][1] = "connect"
      BY <1>4, <3>2
    <3>4. OpenDone /\ c = it
      BY <1>1, <3>3, RunPosts, OpenDonePosts, OpenFailedPosts
    <3>5. it' = it
      BY <3>4 DEF OpenDone
    <3>6. Live(it)'
      BY <1>1, <3>4, ConnectIsLive
    <3>7. QED
      BY <3>4, <3>5, <3>6
  <2>3. QED
    BY <2>1, <2>2
<1>10. QED
  BY <1>8, <1>9

\* Every step.
LEMMA FlaggedStep ==
  ASSUME LuaInv, Said, OneAnswer, Flagged, OwnOpen, \A c, d \in Conns : c = d,
         [LuaNext]_allVars
  PROVE  Flagged' /\ OwnOpen'
<1>1. Inv /\ LuaTypeOK
  BY DEF LuaInv
<1>2. OwnOpen'
  <2>1. CASE UNCHANGED vars
    BY <2>1 DEF OwnOpen, vars, netVars, mapVars, sockVars, kernelVars
  <2>2. Next \/ UNCHANGED vars
    BY <1>1, LuaStep DEF allVars
  <2>3. QED
    BY <1>1, <2>1, <2>2, OwnOpenStep
<1>3. CASE LuaWorld \/ UNCHANGED allVars
  <2>1. UNCHANGED <<client, up, closing, deleting, isConnected, events, overflow>>
    BY <1>3 DEF LuaWorld, World, DelayOver, PeerGone, allVars, vars, luaVars, mapVars,
       sockVars
  <2>2. QED
    BY <1>2, <2>1 DEF Flagged, Live, Ended
<1>4. QED
  BY <1>2, <1>3, FlaggedScript, FlaggedUpdate, FlaggedThread DEF LuaNext

\* A script that waits for its answers and has one connection: an object that says
\* it is connected is, or the event that tells it otherwise is on its way, as long
\* as no event was lost.  With more connections another one's removal may close the
\* descriptor that this one has got meanwhile.
THEOREM FlagsAreTrue ==
  ASSUME Patient, \A c, d \in Conns : c = d
  PROVE  LuaSpec => []FlagIsTrue
<1>1. LuaInit => Flagged /\ OwnOpen
  <2>1. LuaInit => DOMAIN events = {}
    BY DEF LuaInit
  <2>2. QED
    BY <2>1 DEF LuaInit, Init, Flagged, OwnOpen, NoEntries
<1>2. LuaInv /\ Said /\ OneAnswer /\ Flagged /\ OwnOpen /\ [LuaNext]_allVars =>
        (Flagged /\ OwnOpen)'
  BY FlaggedStep
<1>3. LuaInv /\ Flagged => FlagIsTrue
  BY DEF Flagged, FlagIsTrue, Ended, LuaInv, LuaTypeOK
<1>4. LuaSpec => [](Said /\ OneAnswer)
  BY Answered
<1>5. QED
  BY <1>1, <1>2, <1>3, <1>4, LuaInvariance, PTL DEF LuaSpec
================================================================================
