-------------------------- MODULE SocketManagerProofs --------------------------
(***************************************************************************)
(* For any set of connections, any bounds and any choice of calls of the   *)
(* main thread, SocketManager keeps its types, one socket for each index,  *)
(* and the order of the events of a connection.  No pointer dangles if     *)
(* addConnect waits for the connect that is pending, and with a single     *)
(* connection the attempts to reconnect are bounded.                       *)
(***************************************************************************)
EXTENDS SocketManager, WellFoundedInduction, TLAPS

\* A socket is being opened in two phases only.
OpeningOne ==
  IF pc \in {"opening", "inserting"} THEN it \in Conns /\ cur \in Socks
                                     ELSE cur = None

\* While a connect is pending only one is: an insertion evicts the other.
OneAdding ==
  \A c, d \in Conns : adding[c] # None /\ adding[d] # None => c = d

\* A socket in a map was made for the index it is listed under, and a deleted
\* socket was made for none.
Owned ==
  /\ \A c \in Conns : /\ client[c] # None => who[client[c]] = c
                      /\ adding[c] # None => who[adding[c]] = c
                      /\ deleting[c] # None => who[deleting[c]] = c
  /\ \A s \in freed : who[s] = None

\* What the phase of the net thread says of the maps.
Phased ==
  /\ pc \in {"opening", "inserting"} =>
       adding[it] = cur /\ client[it] = None /\ deleting = NoEntries
  /\ pc \in {"reconnecting", "merged", "retrying"} => deleting = NoEntries
  /\ pc = "adding" => \A c \in Conns :
       /\ deleting[c] # None => adding[c] = deleting[c] /\ client[c] = None
       /\ deleting[c] # None \/ client[c] # None => adding[c] = None \/ c <= it
  /\ pc = "sending" =>
       \A c \in Conns : deleting[c] # None => client[c] = None
  /\ pc \in {"removing", "selecting"} => \A c \in Conns :
       deleting[c] # None /\ client[c] # None => fd[client[c]] \notin rfds
  /\ pc = "dispatching" => \A c \in Conns :
       deleting[c] # None /\ client[c] # None =>
         c <= it \/ fd[client[c]] \notin ready
  /\ pc \notin {"adding", "opening", "inserting"} => \A c \in Conns :
       adding[c] # None => adding[c] # deleting[c]

\* The last event of a client that is not about to be deleted is its connect.
AllReported ==
  \A c \in Conns : client[c] # None /\ deleting[c] = None => told[c][1] = "connect"

Detail == Owned /\ Phased /\ AllReported

\* What every step keeps; the details only as long as no pointer dangles.
Sound == OneAdding /\ OneSocketPerIndex /\ (NoDangling => Detail)

\* The first entry that an iterator reaches is an entry, and no other is before it.
LEMMA FirstOf ==
  ASSUME NEW S, S \subseteq Nat, S # {}
  PROVE  First(S) \in S /\ \A y \in S : First(S) <= y
<1> DEFINE R == {ss \in Nat \X Nat : ss[1] < ss[2]}
<1>1. IsWellFoundedOn(R, Nat)
  BY NatLessThanWellFounded DEF OpToRel
<1>2. PICK x \in S : \A y \in S : ~ (<<y, x>> \in R)
  <2> HIDE DEF R
  <2>1. QED
    BY <1>1, WFMin
<1>3. ASSUME NEW y \in S
      PROVE  x <= y
  <2>1. x \in Nat /\ y \in Nat
    OBVIOUS
  <2>2. y < x => <<y, x>> \in R
    BY <2>1
  <2>3. QED
    BY <1>2, <2>1, <2>2
<1>4. QED
  BY <1>3 DEF First, Min

\* The highest descriptor of a set, which is zero for an empty one.
LEMMA HighestOf ==
  ASSUME NEW S, S \subseteq Fds \cup {0}
  PROVE  Highest(S) \in Fds \cup {0} /\ \A x \in S : x <= Highest(S)
<1> DEFINE T == S \cup {0}
           R == {NFds - x : x \in T}
<1>1. NFds \in Nat
  BY BoundsAssumption
<1>2. T \subseteq 0 .. NFds
  BY <1>1 DEF Fds
<1>3. R \subseteq Nat /\ R # {}
  BY <1>1, <1>2
<1>4. PICK r \in R : \A y \in R : r <= y
  BY <1>3, FirstOf
<1>5. PICK m \in T : r = NFds - m
  BY <1>4
<1>6. \A x \in T : NFds - x \in R
  OBVIOUS
<1>7. ASSUME NEW x \in T
      PROVE  x <= m
  <2>1. m <= NFds /\ m \in Nat /\ x \in Nat
    BY <1>1, <1>2, <1>5
  <2>2. NFds - m <= NFds - x
    BY <1>4, <1>5, <1>6
  <2>3. QED
    BY <1>1, <2>1, <2>2
<1>8. Highest(S) \in T /\ \A x \in T : x <= Highest(S)
  BY <1>5, <1>7 DEF Highest, Max
<1>9. QED
  BY <1>8, <1>2 DEF Fds

\* The numbers of the bounds.
LEMMA Numbers ==
  /\ NSocks \in Nat /\ NFds \in Nat /\ MaxRetry \in Nat
  /\ Conns \subseteq Nat \ {0}
  /\ None \notin Conns /\ None \notin Socks /\ None \notin Fds
  /\ Socks \subseteq Nat /\ Fds \subseteq Nat
  BY ConnsAssumption, BoundsAssumption DEF None, Socks, Fds

\* The attempts that m_reconnectingMap can show.
LEMMA Attempts ==
  /\ Absent \in Absent .. MaxRetry + 1 /\ 0 \in Absent .. MaxRetry + 1
  /\ \A n \in Absent .. MaxRetry + 1 :
       n # Absent /\ n <= MaxRetry => n \in Nat /\ n + 1 \in Absent .. MaxRetry + 1
  BY Numbers DEF Absent

\* Close, delete and new keep the sockets and the descriptors in their ranges.
LEMMA ReplaceType ==
  ASSUME TypeOK, NEW S, S \subseteq Socks, NEW s \in Socks \cup {None},
         NEW c \in Conns \cup {None}, Replace(S, s, c)
  PROVE  /\ open' \in [Fds -> Socks \cup {None}]
         /\ broken' \subseteq Fds
         /\ freed' \subseteq Socks
         /\ fd' \in [Socks -> Fds \cup {None}]
         /\ up' \in [Socks -> BOOLEAN]
         /\ who' \in [Socks -> Conns \cup {None}]
<1>1. broken' \subseteq Fds /\ freed' \subseteq Socks
  BY Numbers DEF TypeOK, Replace
<1>2. open' \in [Fds -> Socks \cup {None}]
  BY DEF TypeOK, Replace
<1>3. fd' \in [Socks -> Fds \cup {None}] /\ up' \in [Socks -> BOOLEAN]
  BY DEF TypeOK, Replace
<1>4. who' \in [Socks -> Conns \cup {None}]
  BY DEF TypeOK, Replace
<1>5. QED
  BY <1>1, <1>2, <1>3, <1>4

\* The same for an index that is erased from m_clientSocketMap.
LEMMA UnmapType ==
  ASSUME TypeOK, NEW C, Unmap(C)
  PROVE  /\ client' \in [Conns -> Socks \cup {None}]
         /\ closing' \in [Conns -> Socks \cup {None}]
         /\ rfds' \subseteq Fds
         /\ maxsock' \in Fds \cup {0}
<1>1. client' \in [Conns -> Socks \cup {None}] /\ closing' \in [Conns -> Socks \cup {None}]
  BY DEF TypeOK, Unmap
<1>2. rfds' \subseteq Fds
  BY DEF TypeOK, Unmap
<1> DEFINE T == {fd[client'[d]] : d \in {c \in Conns : client'[c] # None}}
<1>3. T \subseteq Fds \cup {0}
  BY <1>1 DEF TypeOK, None
<1>4. Highest(T) \in Fds \cup {0}
  BY <1>3, HighestOf
<1>5. maxsock' \in {maxsock, Highest(T)}
  BY DEF Unmap, TopOf, Entries
<1>6. QED
  BY <1>1, <1>2, <1>4, <1>5 DEF TypeOK

\* What makes room for a new connection is a socket.
LEMMA EvictedType ==
  ASSUME TypeOK
  PROVE  Evicted \subseteq Socks
<1>1. CASE Entries(adding) = {}
  BY <1>1 DEF Evicted
<1>2. CASE Entries(adding) # {}
  <2>1. First(Entries(adding)) \in Entries(adding)
    BY <1>2, FirstOf, Numbers DEF Entries
  <2>2. QED
    BY <2>1, <1>2 DEF Evicted, Entries, TypeOK
<1>3. QED
  BY <1>1, <1>2

\* What an insertion leaves in m_addingSocketMap are sockets.
LEMMA InsertType ==
  ASSUME TypeOK, NEW c \in Conns, NEW s \in Socks, Insert(c, s)
  PROVE  adding' \in [Conns -> Socks \cup {None}]
  BY DEF TypeOK, Insert

\* What is posted is an event.
LEMMA PostType ==
  ASSUME TypeOK, NEW c \in Conns, NEW e \in {"connect", "broken", "failed"}, Post(c, e)
  PROVE  told' \in [Conns -> {"none", "connect", "broken", "failed"} \X {0, 1}]
<1>1. told[c] \in {"none", "connect", "broken", "failed"} \X {0, 1}
  BY DEF TypeOK
<1>2. 1 - told[c][2] \in {0, 1}
  BY <1>1
<1>3. <<e, 1 - told[c][2]>> \in {"none", "connect", "broken", "failed"} \X {0, 1}
  BY <1>2
<1>4. told' = [told EXCEPT ![c] = <<e, 1 - told[c][2]>>]
  BY DEF Post
<1>5. QED
  BY <1>3, <1>4 DEF TypeOK

\* An error on a connection keeps what it changes in its range.
LEMMA CheckErrorType ==
  ASSUME TypeOK, NEW c \in Conns, CheckError(c)
  PROVE  /\ rfds' \subseteq Fds
         /\ allOk' \in BOOLEAN
         /\ deleting' \in [Conns -> Socks \cup {None}]
         /\ recon' \in [Conns -> Absent .. MaxRetry + 1]
         /\ due' \subseteq Conns
         /\ lost' \subseteq Conns
         /\ told' \in [Conns -> {"none", "connect", "broken", "failed"} \X {0, 1}]
         /\ sendq' \in Seq(Conns)
<1>1. rfds' \subseteq Fds /\ allOk' \in BOOLEAN
  BY DEF TypeOK, CheckError, OnDisconnected
<1>2. sendq' \in Seq(Conns)
  BY DEF CheckError
<1>3. deleting' \in [Conns -> Socks \cup {None}]
  BY DEF TypeOK, CheckError, OnDisconnected
<1>4. recon' \in [Conns -> Absent .. MaxRetry + 1]
  <2>1. recon' = [recon EXCEPT ![c] = 0] \/ recon' = recon
    BY DEF CheckError, OnDisconnected
  <2>2. QED
    BY <2>1, Attempts DEF TypeOK
<1>5. due' \subseteq Conns /\ lost' \subseteq Conns
  BY DEF TypeOK, CheckError, OnDisconnected
<1>6. told' \in [Conns -> {"none", "connect", "broken", "failed"} \X {0, 1}]
  <2>1. Post(c, "broken") \/ told' = told
    BY DEF CheckError, OnDisconnected
  <2>2. QED
    BY <2>1, PostType DEF TypeOK
<1>7. QED
  BY <1>1, <1>3, <1>4, <1>5, <1>6, <1>2

----------------------------------------------------------------------------
(* Types.                                                                  *)

\* The main thread.
LEMMA MainTypes ==
  ASSUME TypeOK, OpeningOne, Main
  PROVE  TypeOK' /\ OpeningOne'
<1>1. ASSUME NEW c \in Conns, AddConnect(c)
      PROVE  TypeOK' /\ OpeningOne'
  <2>1. PICK s \in Socks : Replace(Evicted, s, c) /\ Insert(c, s)
    BY <1>1 DEF AddConnect
  <2>2. Evicted \subseteq Socks
    BY EvictedType
  <2>3. /\ open' \in [Fds -> Socks \cup {None}] /\ broken' \subseteq Fds
        /\ freed' \subseteq Socks /\ fd' \in [Socks -> Fds \cup {None}]
        /\ up' \in [Socks -> BOOLEAN] /\ who' \in [Socks -> Conns \cup {None}]
    BY <2>1, <2>2, ReplaceType
  <2>4. adding' \in [Conns -> Socks \cup {None}]
    BY <2>1, InsertType
  <2>5. QED
    BY <1>1, <2>3, <2>4
    DEF AddConnect, TypeOK, OpeningOne, netVars, reconVars, flagVars, fdsetVars,
        ghostVars
<1>2. ASSUME NEW c \in Conns, RemoveConnect(c)
      PROVE  TypeOK' /\ OpeningOne'
  <2>1. recon' \in [Conns -> Absent .. MaxRetry + 1] /\ due' \subseteq Conns
    BY <1>2, Attempts DEF RemoveConnect, TypeOK
  <2> DEFINE T == {fd[client[d]] : d \in Entries(client)} \ {fd[client[c]]}
  <2>2. T \subseteq Fds \cup {0}
    BY DEF TypeOK, None, Entries
  <2>3. maxsock' \in {maxsock, Highest(T)}
    BY <1>2 DEF RemoveConnect
  <2>4. maxsock' \in Fds \cup {0}
    BY <2>2, <2>3, HighestOf DEF TypeOK
  <2>5. /\ closing' \in [Conns -> Socks \cup {None}]
        /\ open' \in [Fds -> Socks \cup {None}]
        /\ broken' \subseteq Fds
    BY <1>2 DEF RemoveConnect, TypeOK
  <2>6. lowered' \in BOOLEAN
    BY <1>2 DEF RemoveConnect, TypeOK
  <2>7. QED
    BY <1>2, <2>1, <2>4, <2>5, <2>6
    DEF RemoveConnect, TypeOK, OpeningOne, netVars, flagVars, sockVars
<1>3. ASSUME NEW c \in Conns, ReConnect(c)
      PROVE  TypeOK' /\ OpeningOne'
  BY <1>3 DEF ReConnect, TypeOK, OpeningOne, netVars, mapVars, sockVars,
              kernelVars, fdsetVars, ghostVars
<1>4. ASSUME NEW c \in Conns, SendMessage(c)
      PROVE  TypeOK' /\ OpeningOne'
  BY <1>4 DEF SendMessage, TypeOK, OpeningOne, netVars, mapVars, reconVars,
              flagVars, sockVars, kernelVars, fdsetVars, ghostVars
<1>5. ASSUME SetAutoConnect
      PROVE  TypeOK' /\ OpeningOne'
  BY <1>5 DEF SetAutoConnect, TypeOK, OpeningOne, netVars, mapVars, reconVars,
              sockVars, kernelVars, fdsetVars, ghostVars
<1>6. QED
  BY <1>1, <1>2, <1>3, <1>4, <1>5 DEF Main

\* Time and the peers.
LEMMA WorldTypes ==
  ASSUME TypeOK, OpeningOne, World
  PROVE  TypeOK' /\ OpeningOne'
<1>1. ASSUME NEW c \in Conns, DelayOver(c)
      PROVE  TypeOK' /\ OpeningOne'
  BY <1>1 DEF DelayOver, TypeOK, OpeningOne, netVars, mapVars, flagVars,
              sockVars, kernelVars, fdsetVars, ghostVars
<1>2. ASSUME NEW f \in Fds, PeerGone(f)
      PROVE  TypeOK' /\ OpeningOne'
  BY <1>2 DEF PeerGone, TypeOK, OpeningOne, netVars, mapVars, reconVars,
              flagVars, sockVars, fdsetVars, ghostVars
<1>3. QED
  BY <1>1, <1>2 DEF World

\* The net thread up to the retries.
LEMMA RetryTypes ==
  ASSUME TypeOK, OpeningOne,
         CheckDeleting \/ MergeRequests \/ ClearRequests \/ RetryOne \/ RetryDone
  PROVE  TypeOK' /\ OpeningOne'
<1>1. CASE CheckDeleting
  <2> DEFINE S == {IF client[c] # None THEN client[c] ELSE deleting[c] :
                     c \in Entries(deleting)}
  <2>1. Unmap(Entries(deleting)) /\ Replace(S, None, None)
    BY <1>1 DEF CheckDeleting
  <2>2. S \subseteq Socks
    BY DEF TypeOK, Entries
  <2>3. /\ open' \in [Fds -> Socks \cup {None}] /\ broken' \subseteq Fds
        /\ freed' \subseteq Socks /\ fd' \in [Socks -> Fds \cup {None}]
        /\ up' \in [Socks -> BOOLEAN] /\ who' \in [Socks -> Conns \cup {None}]
    <3> HIDE DEF S
    <3>1. QED
      BY <2>1, <2>2, ReplaceType
  <2>4. /\ client' \in [Conns -> Socks \cup {None}]
        /\ closing' \in [Conns -> Socks \cup {None}]
        /\ rfds' \subseteq Fds /\ maxsock' \in Fds \cup {0}
    BY <2>1, UnmapType
  <2>5. deleting' \in [Conns -> Socks \cup {None}] /\ pc' = "reconnecting"
    BY <1>1 DEF CheckDeleting, NoEntries
  <2>6. cur' = None /\ cur' \in Socks \cup {None}
    BY <1>1 DEF CheckDeleting, OpeningOne, At
  <2>7. QED
    BY <1>1, <2>3, <2>4, <2>5, <2>6
    DEF CheckDeleting, TypeOK, OpeningOne, reconVars, flagVars, ghostVars
<1>2. CASE MergeRequests
  <2>1. recon' \in [Conns -> Absent .. MaxRetry + 1]
    BY <1>2, Numbers DEF MergeRequests, TypeOK, Absent
  <2>2. pc' \in {"merged", "retrying", "adding"}
    BY <1>2 DEF MergeRequests, Retrying
  <2>3. QED
    BY <1>2, <2>1, <2>2
    DEF MergeRequests, At, TypeOK, OpeningOne, mapVars, flagVars, sockVars,
        kernelVars, fdsetVars, ghostVars
<1>3. CASE ClearRequests
  <2>1. pc' \in {"retrying", "adding"}
    BY <1>3 DEF ClearRequests, Retrying
  <2>2. QED
    BY <1>3, <2>1
    DEF ClearRequests, At, TypeOK, OpeningOne, mapVars, flagVars, sockVars,
        kernelVars, fdsetVars, ghostVars
<1>4. CASE RetryOne
  <2> DEFINE c == First(Retryable)
             old == {client[c]} \ {None}
  <2>1. c \in Retryable
    BY <1>4, FirstOf, Numbers DEF RetryOne, Retryable, TypeOK
  <2> HIDE DEF c
  <2>2. c \in Conns /\ recon[c] + 1 \in Absent .. MaxRetry + 1
    BY <2>1, Attempts DEF Retryable, TypeOK
  <2>3. /\ it' = c /\ recon' = [recon EXCEPT ![c] = @ + 1] /\ due' = due \ {c}
        /\ Unmap({c})
    BY <1>4 DEF RetryOne, c
  <2>4. recon' \in [Conns -> Absent .. MaxRetry + 1]
    BY <2>2, <2>3 DEF TypeOK
  <2>5. /\ client' \in [Conns -> Socks \cup {None}]
        /\ closing' \in [Conns -> Socks \cup {None}]
        /\ rfds' \subseteq Fds /\ maxsock' \in Fds \cup {0}
    BY <2>3, UnmapType
  <2>6. \E S \in SUBSET Socks : \E s \in Socks \cup {None}, d \in Conns \cup {None} :
          Replace(S, s, d) /\ (adding' = adding \/ (s \in Socks /\ Insert(c, s)))
    <3>1. old \subseteq Socks
      BY <2>2 DEF TypeOK
    <3>2. Evicted \subseteq Socks
      BY EvictedType
    <3> HIDE DEF old
    <3>3. CASE adding[c] # None
      <4>1. Replace(old, None, None) /\ adding' = adding
        BY <1>4, <3>3 DEF RetryOne, c, old
      <4>2. None \in Socks \cup {None} /\ None \in Conns \cup {None}
        OBVIOUS
      <4>3. QED
        BY <3>1, <4>1, <4>2
    <3>4. CASE adding[c] = None
      <4>1. PICK s \in Socks : Replace(old \cup Evicted, s, c) /\ Insert(c, s)
        BY <1>4, <3>4 DEF RetryOne, c, old
      <4>2. old \cup Evicted \in SUBSET Socks
        BY <3>1, <3>2
      <4>3. QED
        BY <4>1, <4>2, <2>2
    <3>5. QED
      BY <3>3, <3>4
  <2>7. /\ open' \in [Fds -> Socks \cup {None}] /\ broken' \subseteq Fds
        /\ freed' \subseteq Socks /\ fd' \in [Socks -> Fds \cup {None}]
        /\ up' \in [Socks -> BOOLEAN] /\ who' \in [Socks -> Conns \cup {None}]
    BY <2>6, ReplaceType
  <2>8. adding' \in [Conns -> Socks \cup {None}]
    BY <2>2, <2>6, InsertType DEF TypeOK
  <2>9. due' \subseteq Conns
    BY <2>3 DEF TypeOK
  <2>10. QED
    BY <1>4, <2>2, <2>3, <2>4, <2>5, <2>7, <2>8, <2>9
    DEF RetryOne, At, TypeOK, OpeningOne, flagVars, ghostVars
<1>5. CASE RetryDone
  BY <1>5 DEF RetryDone, At, TypeOK, OpeningOne, mapVars, reconVars, flagVars,
              sockVars, kernelVars, fdsetVars, ghostVars
<1>6. QED
  BY <1>1, <1>2, <1>3, <1>4, <1>5

\* The net thread from the pending connects to the sends.
LEMMA OpenTypes ==
  ASSUME TypeOK, OpeningOne,
         OpenStart \/ Opened \/ OpenDone \/ OpenFailed \/ AddingDone
  PROVE  TypeOK' /\ OpeningOne'
<1>1. CASE OpenStart
  <2> DEFINE c == First(Pending)
  <2>1. c \in Pending
    BY <1>1, FirstOf, Numbers DEF OpenStart, Pending, Entries
  <2> HIDE DEF c
  <2>2. c \in Conns /\ adding[c] \in Socks
    BY <2>1 DEF Pending, Entries, TypeOK
  <2>3. it' = c /\ cur' = adding[c] /\ CreateEx(adding[c]) /\ pc' = "opening"
    BY <1>1 DEF OpenStart, c
  <2>4. fd' \in [Socks -> Fds \cup {None}] /\ open' \in [Fds -> Socks \cup {None}]
    BY <2>2, <2>3 DEF CreateEx, TypeOK
  <2>5. reused' \in BOOLEAN
    BY <2>3 DEF CreateEx, TypeOK
  <2>6. QED
    BY <1>1, <2>2, <2>3, <2>4, <2>5
    DEF OpenStart, TypeOK, OpeningOne, mapVars, reconVars, flagVars, fdsetVars,
        ghostVars
<1>2. CASE OpenDone
  <2>1. it \in Conns /\ cur \in Socks
    BY <1>2 DEF OpenDone, At, OpeningOne
  <2>2. UNCHANGED <<reused, lowered, misrouted>>
    BY <1>2 DEF OpenDone
  <2>3. told' \in [Conns -> {"none", "connect", "broken", "failed"} \X {0, 1}]
    BY <1>2, <2>1, PostType DEF OpenDone
  <2>4. /\ client' \in [Conns -> Socks \cup {None}]
        /\ up' \in [Socks -> BOOLEAN]
        /\ recon' \in [Conns -> Absent .. MaxRetry + 1]
        /\ due' \subseteq Conns /\ lost' \subseteq Conns
    BY <1>2, <2>1, Attempts DEF OpenDone, TypeOK
  <2>5. allOk' \in BOOLEAN /\ retry' \in BOOLEAN
    <3>1. (\A d \in Entries(client') : up'[client'[d]]) \in BOOLEAN
      OBVIOUS
    <3>2. (allOk /\ ~ auto) \in BOOLEAN /\ (retry /\ ~ allOk') \in BOOLEAN
      OBVIOUS
    <3>3. QED
      BY <1>2, <3>1, <3>2, Zenon DEF OpenDone
  <2>6. cur' = None /\ pc' = "adding"
    BY <1>2 DEF OpenDone
  <2>7. QED
    BY <1>2, <2>2, <2>3, <2>4, <2>5, <2>6
    DEF OpenDone, TypeOK, OpeningOne, kernelVars, fdsetVars
<1>3. CASE OpenFailed
  <2>1. it \in Conns /\ cur \in Socks
    BY <1>3 DEF OpenFailed, At, OpeningOne
  <2>2. /\ open' \in [Fds -> Socks \cup {None}]
        /\ broken' \subseteq Fds
        /\ allOk' \in BOOLEAN
        /\ deleting' \in [Conns -> Socks \cup {None}]
    BY <1>3, <2>1 DEF OpenFailed, TypeOK
  <2>3. /\ recon' \in [Conns -> Absent .. MaxRetry + 1]
        /\ due' \subseteq Conns /\ lost' \subseteq Conns
    <3>1. \/ /\ lost' = lost \cup {it}
             /\ recon' = [recon EXCEPT ![it] = Absent]
             /\ due' = due \ {it}
          \/ lost' = lost /\ recon' = recon /\ due' = due
      BY <1>3 DEF OpenFailed
    <3>2. QED
      BY <2>1, <3>1, Attempts DEF TypeOK
  <2>4. told' \in [Conns -> {"none", "connect", "broken", "failed"} \X {0, 1}]
    <3>1. Post(it, "failed") \/ told' = told
      BY <1>3 DEF OpenFailed
    <3>2. QED
      BY <2>1, <3>1, PostType DEF TypeOK
  <2>5. QED
    BY <1>3, <2>2, <2>3, <2>4
    DEF OpenFailed, TypeOK, OpeningOne, sockVars, fdsetVars
<1>4. CASE AddingDone
  <2>1. adding' \in [Conns -> Socks \cup {None}]
    BY <1>4 DEF AddingDone, NoEntries
  <2>2. pc' \in {"deleting", "sending"} /\ cur' = None
    BY <1>4 DEF AddingDone, At, OpeningOne
  <2>3. QED
    BY <1>4, <2>1, <2>2
    DEF AddingDone, TypeOK, OpeningOne, reconVars, flagVars, sockVars,
        kernelVars, fdsetVars, ghostVars
<1>5. CASE Opened
  <2>1. it \in Conns /\ cur \in Socks /\ fd[cur] \in Fds /\ pc' = "inserting"
    BY <1>5 DEF Opened, At, OpeningOne, TypeOK
  <2>2. {maxsock, fd[cur]} \subseteq Fds \cup {0}
    BY <2>1 DEF TypeOK
  <2>3. maxsock' \in Fds \cup {0}
    BY <1>5, <2>2, HighestOf DEF Opened
  <2>4. rfds' \subseteq Fds
    BY <1>5, <2>1 DEF Opened, TypeOK
  <2>5. QED
    BY <1>5, <2>1, <2>3, <2>4
    DEF Opened, TypeOK, OpeningOne, mapVars, reconVars, flagVars, sockVars,
        kernelVars, ghostVars
<1>6. QED
  BY <1>1, <1>2, <1>3, <1>4, <1>5

\* The net thread from the sends to the end of the pass.
LEMMA SendTypes ==
  ASSUME TypeOK, OpeningOne,
         SendHead \/ RemoveHead \/ SendNothing \/ SelectFailed \/ SelectReady
           \/ Dispatch \/ DispatchDone
  PROVE  TypeOK' /\ OpeningOne'
<1>1. ASSUME NEW c \in Conns, misrouted' \in {misrouted, Mixed(c)},
             \/ UNCHANGED <<rfds, allOk, deleting, recon, due, lost, told, sendq>>
             \/ CheckError(c)
      PROVE  /\ misrouted' \in BOOLEAN /\ rfds' \subseteq Fds /\ allOk' \in BOOLEAN
             /\ deleting' \in [Conns -> Socks \cup {None}]
             /\ recon' \in [Conns -> Absent .. MaxRetry + 1]
             /\ due' \subseteq Conns /\ lost' \subseteq Conns
             /\ told' \in [Conns -> {"none", "connect", "broken", "failed"} \X {0, 1}]
             /\ sendq' \in Seq(Conns)
  <2>1. Mixed(c) \in BOOLEAN
    BY DEF Mixed
  <2>2. QED
    BY <1>1, <2>1, CheckErrorType DEF TypeOK
<1>2. CASE SendHead
  <2>1. Head(sendq) \in Conns
    BY <1>2 DEF SendHead, Sendable, TypeOK
  <2> DEFINE c == Head(sendq)
  <2>2. /\ misrouted' \in {misrouted, Mixed(c)}
        /\ \/ UNCHANGED <<rfds, allOk, deleting, recon, due, lost, told, sendq>>
           \/ CheckError(c)
    BY <1>2 DEF SendHead
  <2> HIDE DEF c
  <2>3. QED
    BY <1>1, <1>2, <2>1, <2>2
    DEF SendHead, At, TypeOK, OpeningOne, sockVars, kernelVars, c
<1>3. CASE RemoveHead
  <2>1. sendq' \in Seq(Conns)
    BY <1>3 DEF RemoveHead, TypeOK
  <2>2. QED
    BY <1>3, <2>1
    DEF RemoveHead, At, TypeOK, OpeningOne, mapVars, reconVars, flagVars,
        sockVars, kernelVars, fdsetVars, ghostVars
<1>4. CASE SendNothing
  BY <1>4 DEF SendNothing, At, TypeOK, OpeningOne, mapVars, reconVars, flagVars,
              sockVars, kernelVars, fdsetVars, ghostVars
<1>5. CASE SelectFailed
  <2>1. /\ client' \in [Conns -> Socks \cup {None}]
        /\ closing' \in [Conns -> Socks \cup {None}]
    BY <1>5 DEF SelectFailed, RebuildFdset, NoEntries, TypeOK
  <2>2. up' \in [Socks -> BOOLEAN]
    BY <1>5 DEF SelectFailed, RebuildFdset, TypeOK
  <2>3. rfds' \subseteq Fds
    BY <1>5 DEF SelectFailed, RebuildFdset, TypeOK
  <2>4. QED
    BY <1>5, <2>1, <2>2, <2>3
    DEF SelectFailed, At, TypeOK, OpeningOne, reconVars, flagVars, kernelVars,
        ghostVars
<1>6. CASE SelectReady
  <2>1. ready' \subseteq Fds
    BY <1>6 DEF SelectReady, Watched, TypeOK
  <2>2. QED
    BY <1>6, <2>1
    DEF SelectReady, At, TypeOK, OpeningOne, mapVars, reconVars, flagVars,
        sockVars, kernelVars, fdsetVars, ghostVars
<1>7. CASE Dispatch
  <2> DEFINE c == First(Readable)
  <2>1. c \in Readable
    BY <1>7, FirstOf, Numbers DEF Dispatch, Readable, Entries
  <2> HIDE DEF c
  <2>2. c \in Conns
    BY <2>1 DEF Readable, Entries
  <2>3. /\ it' = c /\ misrouted' \in {misrouted, Mixed(c)}
        /\ \/ UNCHANGED <<rfds, allOk, deleting, recon, due, lost, told, sendq>>
           \/ CheckError(c)
    BY <1>7 DEF Dispatch, ErrorPassedOver, c
  <2>4. QED
    BY <1>1, <1>7, <2>2, <2>3
    DEF Dispatch, At, TypeOK, OpeningOne, sockVars, kernelVars
<1>8. CASE DispatchDone
  BY <1>8 DEF DispatchDone, At, TypeOK, OpeningOne, mapVars, reconVars, flagVars,
              sockVars, kernelVars, fdsetVars, ghostVars
<1>9. QED
  BY <1>2, <1>3, <1>4, <1>5, <1>6, <1>7, <1>8

\* Every step.
LEMMA NextTypes ==
  ASSUME TypeOK, OpeningOne, Next
  PROVE  TypeOK' /\ OpeningOne'
<1>1. Main \/ World \/ Run
  BY DEF Next
<1>2. CASE Run
  BY <1>2, RetryTypes, OpenTypes, SendTypes DEF Run
<1>3. QED
  BY <1>1, <1>2, MainTypes, WorldTypes

\* A step that changes nothing.
LEMMA StutterTypes ==
  ASSUME TypeOK, OpeningOne, UNCHANGED vars
  PROVE  TypeOK' /\ OpeningOne'
BY DEF TypeOK, OpeningOne, vars, netVars, mapVars, reconVars, flagVars, sockVars,
       kernelVars, fdsetVars, ghostVars

\* The initial state.
LEMMA InitTypes == Init => TypeOK /\ OpeningOne
<1> SUFFICES ASSUME Init
             PROVE  TypeOK /\ OpeningOne
  OBVIOUS
<1>1. recon \in [Conns -> Absent .. MaxRetry + 1]
  BY Attempts DEF Init
<1>2. sendq \in Seq(Conns)
  BY DEF Init
<1>3. told \in [Conns -> {"none", "connect", "broken", "failed"} \X {0, 1}]
  BY DEF Init
<1>4. QED
  BY <1>1, <1>2, <1>3 DEF Init, TypeOK, OpeningOne, NoEntries, None

\* All variables keep their types.
THEOREM TypeCorrect == Spec => []TypeOK
<1>1. TypeOK /\ OpeningOne /\ [Next]_vars => (TypeOK /\ OpeningOne)'
  BY NextTypes, StutterTypes
<1>2. QED
  BY InitTypes, <1>1, PTL DEF Spec

----------------------------------------------------------------------------
(* Safety.                                                                 *)

\* In the details no pointer dangles.
LEMMA DetailIsEnough ==
  ASSUME TypeOK, OpeningOne, Owned, Phased
  PROVE  NoDangling
<1>1. None \notin freed
  BY Numbers DEF TypeOK
<1>2. \A s \in freed : s \in Socks /\ who[s] = None /\ who[s] \notin Conns
  BY Numbers DEF TypeOK, Owned
<1>3. ASSUME NEW c \in Conns
      PROVE  client[c] \notin freed /\ adding[c] \notin freed /\ deleting[c] \notin freed
  BY <1>1, <1>2 DEF Owned
<1>4. cur \notin freed
  BY <1>1, <1>3 DEF OpeningOne, Phased
<1>5. QED
  BY <1>3, <1>4 DEF NoDangling

\* Steps that change nothing of this.
LEMMA SoundFrame ==
  ASSUME Sound,
         UNCHANGED <<pc, it, cur, ready, client, adding, deleting, closing, freed,
                     who, fd, rfds, told>>
  PROVE  Sound' /\ NoDangling' = NoDangling
<1>1. NoDangling' = NoDangling
  BY DEF NoDangling
<1>2. OneAdding' /\ OneSocketPerIndex'
  BY DEF Sound, OneAdding, OneSocketPerIndex
<1>3. Detail => Detail'
  BY DEF Detail, Owned, Phased, AllReported
<1>4. QED
  BY <1>1, <1>2, <1>3 DEF Sound

\* With one pending connect at most, an insertion evicts it and is then the only
\* one.
LEMMA Inserted ==
  ASSUME TypeOK, OneAdding, NEW c \in Conns, NEW s \in Socks, adding[c] = None,
         Insert(c, s)
  PROVE  /\ adding' = [d \in Conns |-> IF d = c THEN s ELSE None]
         /\ Evicted = {adding[d] : d \in Entries(adding)}
<1>1. Evicted = {adding[d] : d \in Entries(adding)}
  <2>1. CASE Entries(adding) = {}
    BY <2>1 DEF Evicted
  <2>2. CASE Entries(adding) # {}
    <3>1. First(Entries(adding)) \in Entries(adding)
      BY <2>2, FirstOf, Numbers DEF Entries
    <3>2. \A d \in Entries(adding) : d = First(Entries(adding))
      BY <3>1 DEF OneAdding, Entries
    <3>3. QED
      BY <2>2, <3>1, <3>2 DEF Evicted
  <2>3. QED
    BY <2>1, <2>2
<1>2. \A d \in Conns : adding[d] \in Evicted \/ adding[d] = None
  BY <1>1 DEF Entries
<1>3. QED
  BY <1>1, <1>2 DEF Insert

\* addConnect: if it evicts a socket that the net thread holds, that dangles, and
\* the details need not hold.
LEMMA AddConnectSound ==
  ASSUME TypeOK, OpeningOne, Sound, TypeOK', NEW c \in Conns, AddConnect(c)
  PROVE  Sound' /\ (~ AddsOverlap => NoDangling')
<1>1. PICK s \in Socks \ Referenced : Replace(Evicted, s, c) /\ Insert(c, s)
  BY DEF AddConnect
<1>2. /\ NoDangling /\ Detail /\ OneAdding
      /\ client[c] = None /\ adding[c] = None
  BY DEF AddConnect, IndexFree, Sound
<1>3. /\ UNCHANGED <<pc, it, cur, ready, client, deleting, closing, rfds, told>>
  BY DEF AddConnect, netVars, fdsetVars, ghostVars
<1>4. /\ adding' = [d \in Conns |-> IF d = c THEN s ELSE None]
      /\ Evicted = {adding[d] : d \in Entries(adding)}
  BY <1>1, <1>2, Inserted
<1>5. s \in Socks /\ s # None /\ s # cur
  BY <1>1, Numbers DEF Referenced
<1>6. \A d \in Conns : client[d] # s /\ deleting[d] # s
  BY <1>1 DEF Referenced
<1>7. OneAdding' /\ OneSocketPerIndex'
  BY <1>2, <1>3, <1>4 DEF OneAdding, OneSocketPerIndex, Sound
<1>8. ASSUME NoDangling'
      PROVE  Detail'
  <2>1. /\ freed' = (freed \cup Evicted) \ {s}
        /\ \A t \in Socks : who'[t] = IF t = s THEN c ELSE
                                      IF t \in Evicted THEN None ELSE who[t]
        /\ \A t \in Socks : t # s /\ t \notin Evicted => fd'[t] = fd[t]
    BY <1>1 DEF Replace
  <2>2. /\ cur \notin Evicted
        /\ \A d \in Conns : client[d] \notin Evicted /\ deleting[d] \notin Evicted
    BY <1>3, <1>5, <1>6, <1>8, <2>1 DEF NoDangling
  <2>3. Owned'
    <3>1. \A t \in freed' : who'[t] = None
      BY <1>2, <2>1 DEF Detail, Owned, TypeOK
    <3>2. ASSUME NEW d \in Conns
          PROVE  /\ client'[d] # None => who'[client'[d]] = d
                 /\ deleting'[d] # None => who'[deleting'[d]] = d
      BY <1>2, <1>3, <1>6, <2>1, <2>2 DEF Detail, Owned, TypeOK
    <3>3. ASSUME NEW d \in Conns
          PROVE  adding'[d] # None => who'[adding'[d]] = d
      BY <1>4, <1>5, <2>1
    <3>4. QED
      BY <3>1, <3>2, <3>3 DEF Owned
  <2>4. Phased'
    <3>1. pc \notin {"opening", "inserting"}
      BY <1>2, <1>4, <2>2, Numbers DEF Detail, Phased, OpeningOne, Entries
    <3>2. \A d \in Conns : deleting[d] # None => adding[d] # deleting[d]
      BY <1>4, <2>2 DEF Entries
    <3>3. pc = "adding" => \A d \in Conns : deleting[d] = None
      BY <1>2, <3>2 DEF Detail, Phased
    <3>4. \A d \in Conns : client[d] # None => fd'[client[d]] = fd[client[d]]
      BY <1>6, <2>1, <2>2 DEF TypeOK
    <3>5. \A d \in Conns : adding'[d] # None => d = c /\ client[d] = None /\ adding'[d] = s
      BY <1>2, <1>4
    <3>6. QED
      BY <1>2, <1>3, <1>6, <3>1, <3>3, <3>4, <3>5 DEF Detail, Phased
  <2>5. AllReported'
    BY <1>2, <1>3 DEF Detail, AllReported
  <2>6. QED
    BY <2>3, <2>4, <2>5 DEF Detail
<1>9. ~ AddsOverlap => NoDangling'
  <2>1. SUFFICES ASSUME ~ AddsOverlap
                 PROVE  NoDangling'
    OBVIOUS
  <2>2. Evicted = {}
    BY <2>1 DEF AddConnect, Evicted
  <2>3. freed' = freed \ {s}
    BY <1>1, <2>2 DEF Replace
  <2>4. \A d \in Conns : adding'[d] = s \/ adding'[d] = None
    BY <1>4
  <2>5. None \notin freed
    BY Numbers DEF TypeOK
  <2>6. QED
    BY <1>2, <1>3, <2>3, <2>4, <2>5 DEF NoDangling
<1>10. QED
  BY <1>7, <1>8, <1>9 DEF Sound

\* The other calls.
LEMMA MainSound ==
  ASSUME TypeOK, OpeningOne, Sound, TypeOK', Main
  PROVE  Sound' /\ (~ AddsOverlap => NoDangling')
<1>1. ASSUME NEW c \in Conns, RemoveConnect(c)
      PROVE  Sound' /\ NoDangling'
  <2>1. UNCHANGED <<pc, it, cur, ready, client, adding, deleting, freed, who, fd,
                    rfds, told>>
    BY <1>1 DEF RemoveConnect, netVars, sockVars
  <2>2. \A d \in Conns : closing'[d] # None => closing'[d] = client[d]
    BY <1>1 DEF RemoveConnect, Sound, OneSocketPerIndex, TypeOK
  <2>3. NoDangling' = NoDangling /\ NoDangling
    BY <1>1, <2>1 DEF NoDangling, RemoveConnect
  <2>4. OneAdding' /\ OneSocketPerIndex'
    BY <2>1, <2>2 DEF Sound, OneAdding, OneSocketPerIndex
  <2>5. Detail => Detail'
    BY <2>1 DEF Detail, Owned, Phased, AllReported
  <2>6. QED
    BY <2>3, <2>4, <2>5 DEF Sound
<1>2. ASSUME NEW c \in Conns, ReConnect(c)
      PROVE  Sound' /\ NoDangling'
  BY <1>2, SoundFrame DEF ReConnect, netVars, mapVars, sockVars, fdsetVars,
                          ghostVars
<1>3. ASSUME NEW c \in Conns, SendMessage(c)
      PROVE  Sound' /\ NoDangling'
  BY <1>3, SoundFrame DEF SendMessage, netVars, mapVars, sockVars, fdsetVars,
                          ghostVars
<1>4. ASSUME SetAutoConnect
      PROVE  Sound' /\ NoDangling'
  BY <1>4, SoundFrame DEF SetAutoConnect, netVars, mapVars, sockVars, fdsetVars,
                          ghostVars
<1>5. QED
  BY <1>1, <1>2, <1>3, <1>4, AddConnectSound DEF Main

\* Time and the peers.
LEMMA WorldSound ==
  ASSUME Sound, World
  PROVE  Sound' /\ NoDangling'
<1>1. ASSUME NEW c \in Conns, DelayOver(c)
      PROVE  Sound' /\ NoDangling'
  BY <1>1, SoundFrame DEF DelayOver, netVars, mapVars, sockVars, fdsetVars,
                          ghostVars
<1>2. ASSUME NEW f \in Fds, PeerGone(f)
      PROVE  Sound' /\ NoDangling'
  BY <1>2, SoundFrame DEF PeerGone, netVars, mapVars, sockVars, fdsetVars,
                          ghostVars
<1>3. QED
  BY <1>1, <1>2 DEF World

\* _check_deleting deletes an index's client, or the socket that failed for it,
\* and nothing else refers to either.
LEMMA CheckDeletingSound ==
  ASSUME TypeOK, OpeningOne, Sound, TypeOK', CheckDeleting
  PROVE  OneAdding' /\ OneSocketPerIndex' /\ Detail'
<1> DEFINE C == Entries(deleting)
           S == {IF client[c] # None THEN client[c] ELSE deleting[c] : c \in C}
<1>1. /\ pc = "deleting" /\ pc' = "reconnecting" /\ Detail /\ OneAdding
      /\ UNCHANGED <<it, cur, ready, adding, told>>
      /\ deleting' = NoEntries
  BY DEF CheckDeleting, At, Sound, ghostVars
<1>2. \A c \in Conns : ~ (client[c] # None /\ adding[c] # None)
  BY <1>1 DEF Sound, OneSocketPerIndex
<1>3. /\ client' = [c \in Conns |-> IF c \in C THEN None ELSE client[c]]
      /\ closing' = [c \in Conns |-> IF c \in C \cap Entries(client) THEN None
                                     ELSE closing[c]]
  BY DEF CheckDeleting, Unmap, Entries, TypeOK
<1>4. /\ \A s \in freed' : s \in freed \/ s \in S
      /\ \A s \in Socks : who'[s] = IF s \in S THEN None ELSE who[s]
  <2>1. Replace(S, None, None)
    BY DEF CheckDeleting
  <2> HIDE DEF S
  <2>2. \A s \in Socks : s # None
    BY Numbers
  <2>3. QED
    BY <2>1, <2>2 DEF Replace
<1>5. OneAdding'
  BY <1>1 DEF OneAdding
<1>6. OneSocketPerIndex'
  BY <1>1, <1>2, <1>3 DEF OneSocketPerIndex, Sound, NoEntries, Entries
<1>7. ASSUME NEW c \in Conns, NEW s \in S, client[c] = s \/ adding[c] = s
      PROVE  c \in C /\ client[c] = s
  <2>1. PICK d \in Conns :
          /\ deleting[d] # None
          /\ s = IF client[d] # None THEN client[d] ELSE deleting[d]
    BY DEF Entries
  <2>2. s # None /\ who[s] = d
    BY <1>1, <2>1 DEF Detail, Owned
  <2>3. d = c
    BY <1>1, <1>7, <2>2 DEF Detail, Owned
  <2>4. adding[c] = s => adding[c] # deleting[c]
    BY <1>1, <2>2 DEF Detail, Phased
  <2>5. QED
    BY <1>2, <1>7, <2>1, <2>2, <2>3, <2>4 DEF Entries
<1>8. Owned'
  <2>1. \A s \in freed' : who'[s] = None
    BY <1>1, <1>4 DEF Detail, Owned, TypeOK
  <2>2. ASSUME NEW c \in Conns
        PROVE  /\ client'[c] # None => who'[client'[c]] = c
               /\ adding'[c] # None => who'[adding'[c]] = c
               /\ deleting'[c] = None
    <3>1. deleting'[c] = None
      BY <1>1 DEF NoEntries
    <3>2. client'[c] # None => client'[c] = client[c] /\ client[c] \notin S
      BY <1>3, <1>7
    <3>3. adding[c] # None => adding[c] \notin S
      BY <1>2, <1>7
    <3> HIDE DEF S
    <3>4. QED
      BY <1>1, <1>4, <3>1, <3>2, <3>3 DEF Detail, Owned, TypeOK
  <2>3. QED
    BY <2>1, <2>2 DEF Owned
<1>9. Phased'
  BY <1>1 DEF Phased, NoEntries
<1>10. AllReported'
  BY <1>1, <1>3 DEF Detail, AllReported, Entries
<1>11. QED
  BY <1>5, <1>6, <1>8, <1>9, <1>10 DEF Detail

\* One retry: the client of the index goes, and the new socket, if there is one,
\* is the only one that is pending.
LEMMA RetryOneShape ==
  ASSUME TypeOK, OpeningOne, Sound, RetryOne
  PROVE  \E c \in Conns, S \in SUBSET Socks, s \in Socks \cup {None} :
    /\ pc = "retrying" /\ pc' = "retrying" /\ it' = c /\ Unmap({c})
    /\ Replace(S, s, IF s = None THEN None ELSE c)
    /\ client[c] # None => client[c] \in S
    /\ \A t \in S : \/ t = client[c]
                    \/ s # None /\ \E d \in Conns : adding[d] # None /\ t = adding[d]
    /\ IF s = None THEN adding' = adding
       ELSE /\ s \notin Referenced
            /\ adding' = [d \in Conns |-> IF d = c THEN s ELSE None]
<1> DEFINE c == First(Retryable)
           old == {client[c]} \ {None}
<1>1. c \in Conns
  BY FirstOf, Numbers DEF RetryOne, Retryable, TypeOK
<1>2. pc = "retrying" /\ pc' = "retrying" /\ it' = c /\ Unmap({c})
  BY DEF RetryOne, At
<1>3. old \subseteq Socks /\ Evicted \subseteq Socks
  BY <1>1, EvictedType DEF TypeOK
<1>4. /\ \A t \in old : t = client[c]
      /\ client[c] # None => client[c] \in old
  OBVIOUS
<1>5. CASE adding[c] # None
  <2>1. Replace(old, None, None) /\ adding' = adding
    BY <1>5 DEF RetryOne
  <2> HIDE DEF old, c
  <2>2. QED
    BY <1>1, <1>2, <1>3, <1>4, <2>1
<1>6. CASE adding[c] = None
  <2>1. PICK s \in Socks \ Referenced : Replace(old \cup Evicted, s, c) /\ Insert(c, s)
    BY <1>6 DEF RetryOne
  <2> DEFINE S == old \cup Evicted
  <2> HIDE DEF old, c
  <2>2. s # None
    BY <2>1, Numbers
  <2>3. /\ adding' = [d \in Conns |-> IF d = c THEN s ELSE None]
        /\ Evicted = {adding[d] : d \in Entries(adding)}
    BY <1>1, <1>6, <2>1, Inserted DEF Sound
  <2>4. /\ S \in SUBSET Socks
        /\ client[c] # None => client[c] \in S
        /\ \A t \in S : \/ t = client[c]
                        \/ \E d \in Conns : adding[d] # None /\ t = adding[d]
    BY <1>3, <1>4, <2>3 DEF Entries
  <2>5. Replace(S, s, IF s = None THEN None ELSE c)
    BY <2>1, <2>2
  <2> HIDE DEF S
  <2>6. QED
    BY <1>1, <1>2, <2>1, <2>2, <2>3, <2>4, <2>5
<1>7. QED
  BY <1>5, <1>6

\* _check_reconnecting, one entry.
LEMMA RetryOneSound ==
  ASSUME TypeOK, OpeningOne, Sound, TypeOK', RetryOne
  PROVE  OneAdding' /\ OneSocketPerIndex' /\ Detail'
<1>1. /\ pc = "retrying" /\ pc' = "retrying" /\ Detail /\ OneAdding
      /\ UNCHANGED <<cur, ready, deleting, told>>
      /\ deleting = NoEntries
  BY DEF RetryOne, At, Sound, Detail, Phased, ghostVars
<1>2. \A d \in Conns : ~ (client[d] # None /\ adding[d] # None)
  BY <1>1 DEF Sound, OneSocketPerIndex
<1>3. PICK c \in Conns, S \in SUBSET Socks, s \in Socks \cup {None} :
        /\ Unmap({c}) /\ Replace(S, s, IF s = None THEN None ELSE c)
        /\ \A t \in S : \/ t = client[c]
                        \/ s # None /\ \E d \in Conns : adding[d] # None /\ t = adding[d]
        /\ IF s = None THEN adding' = adding
           ELSE /\ s \notin Referenced
                /\ adding' = [d \in Conns |-> IF d = c THEN s ELSE None]
  BY RetryOneShape
<1>4. /\ client' = [d \in Conns |-> IF d = c THEN None ELSE client[d]]
      /\ \A d \in Conns : closing'[d] # None =>
           closing'[d] = closing[d] /\ ~ (d = c /\ client[d] # None)
  BY <1>3 DEF Unmap, Entries, TypeOK
<1>5. /\ \A t \in freed' : t # s /\ (t \in freed \/ t \in S)
      /\ \A t \in Socks : who'[t] = IF t = s THEN c ELSE IF t \in S THEN None ELSE who[t]
  BY <1>3, Numbers DEF Replace
<1>6. \A d \in Conns : client[d] # None => client[d] # s
  BY <1>3, Numbers DEF Referenced, TypeOK
<1>7. OneAdding'
  BY <1>1, <1>3, Numbers DEF OneAdding
<1>8. OneSocketPerIndex'
  <2>1. ASSUME NEW d \in Conns
        PROVE  ~ (client'[d] # None /\ adding'[d] # None)
    <3>1. s = None => adding' = adding
      BY <1>3, Numbers
    <3>2. client'[d] # None => client[d] # None /\ d # c
      BY <1>4
    <3>3. adding'[d] # None => adding[d] # None \/ d = c
      BY <1>3, <3>1
    <3>4. QED
      BY <1>2, <3>2, <3>3
  <2>2. deleting' = NoEntries
    BY <1>1
  <2>3. \A d \in Conns : closing'[d] # None => closing'[d] = client'[d]
    BY <1>4 DEF OneSocketPerIndex, Sound
  <2>4. QED
    BY <2>1, <2>2, <2>3 DEF OneSocketPerIndex, NoEntries
<1>9. Owned'
  <2>1. \A t \in freed' : who'[t] = None
    BY <1>1, <1>5 DEF Detail, Owned, TypeOK
  <2>2. ASSUME NEW d \in Conns, client'[d] # None
        PROVE  who'[client'[d]] = d
    <3>1. client'[d] = client[d] /\ d # c /\ client[d] # s /\ client[d] \in Socks
      BY <1>4, <1>6, <2>2 DEF TypeOK
    <3>2. who[client[d]] = d
      BY <1>1, <2>2, <3>1 DEF Detail, Owned
    <3>3. client[d] \notin S
      <4>1. client[d] # client[c]
        BY <1>1, <3>1, <3>2, <2>2 DEF Detail, Owned
      <4>2. \A e \in Conns : adding[e] # None => client[d] # adding[e]
        BY <1>1, <1>2, <3>1, <3>2, <2>2 DEF Detail, Owned
      <4>3. QED
        BY <1>3, <4>1, <4>2
    <3>4. QED
      BY <1>5, <3>1, <3>2, <3>3
  <2>3. ASSUME NEW d \in Conns, adding'[d] # None
        PROVE  who'[adding'[d]] = d
    <3>1. CASE s # None
      BY <1>3, <1>5, <2>3, <3>1
    <3>2. CASE s = None
      <4>1. adding'[d] = adding[d] /\ who[adding[d]] = d /\ adding[d] \in Socks
        BY <1>1, <1>3, <2>3, <3>2, Numbers DEF Detail, Owned, TypeOK
      <4>2. adding[d] \notin S
        BY <1>1, <1>2, <1>3, <2>3, <3>2, <4>1 DEF Detail, Owned
      <4>3. QED
        BY <1>5, <3>2, <4>1, <4>2, Numbers
    <3>3. QED
      BY <3>1, <3>2
  <2>4. \A d \in Conns : deleting'[d] = None
    BY <1>1 DEF NoEntries
  <2>5. QED
    BY <2>1, <2>2, <2>3, <2>4 DEF Owned
<1>10. Phased'
  BY <1>1 DEF Phased, NoEntries
<1>11. AllReported'
  BY <1>1, <1>4 DEF Detail, AllReported, NoEntries
<1>12. QED
  BY <1>7, <1>8, <1>9, <1>10, <1>11 DEF Detail

\* Where the net thread only goes on to its next phase.
LEMMA PhasesSound ==
  ASSUME TypeOK, OpeningOne, Sound, TypeOK',
         \/ MergeRequests \/ ClearRequests \/ RetryDone \/ AddingDone
         \/ RemoveHead \/ SendNothing \/ SelectReady \/ DispatchDone
  PROVE  OneAdding' /\ OneSocketPerIndex' /\ Detail'
<1>1. /\ Detail /\ OneAdding /\ OneSocketPerIndex
      /\ UNCHANGED <<client, deleting, closing, freed, who, fd, rfds, told>>
  BY DEF MergeRequests, ClearRequests, RetryDone, AddingDone, RemoveHead,
         SendNothing, SelectReady, DispatchDone, At, Sound, mapVars, sockVars,
         fdsetVars, ghostVars
<1>2. AllReported'
  BY <1>1 DEF Detail, AllReported
<1>3. CASE AddingDone
  <2>1. adding' = NoEntries /\ pc' \in {"deleting", "sending"} /\ pc = "adding"
    BY <1>3 DEF AddingDone, At
  <2>2. OneAdding' /\ OneSocketPerIndex' /\ Owned'
    BY <1>1, <2>1 DEF Detail, Owned, OneAdding, OneSocketPerIndex, NoEntries
  <2>3. Phased'
    BY <1>1, <2>1 DEF Detail, Phased, NoEntries
  <2>4. QED
    BY <1>2, <2>2, <2>3 DEF Detail
<1>4. CASE ~ AddingDone
  <2>1. /\ adding' = adding /\ pc \notin {"adding", "opening", "inserting"}
        /\ pc' \notin {"opening", "inserting"}
    BY <1>4 DEF MergeRequests, ClearRequests, Retrying, RetryDone, RemoveHead,
                SendNothing, SelectReady, DispatchDone, At, mapVars
  <2>2. OneAdding' /\ OneSocketPerIndex' /\ Owned'
    BY <1>1, <2>1 DEF Detail, Owned, OneAdding, OneSocketPerIndex
  <2>3. CASE MergeRequests \/ ClearRequests \/ RetryDone
    <3>1. /\ pc \in {"reconnecting", "merged", "retrying"}
          /\ pc' \in {"merged", "retrying", "adding"}
      BY <2>3 DEF MergeRequests, ClearRequests, Retrying, RetryDone, At
    <3>2. deleting = NoEntries
      BY <1>1, <3>1 DEF Detail, Phased
    <3>3. \A c \in Conns : client[c] # None => adding[c] = None
      BY <1>1, <3>1 DEF OneSocketPerIndex
    <3>4. Phased'
      BY <1>1, <2>1, <3>1, <3>2, <3>3 DEF Phased, NoEntries
    <3>5. QED
      BY <1>2, <2>2, <3>4 DEF Detail
  <2>4. CASE RemoveHead \/ SendNothing
    <3>1. pc \in {"sending", "removing"} /\ pc' = "selecting"
      BY <2>4 DEF RemoveHead, SendNothing, At
    <3>2. Phased'
      BY <1>1, <2>1, <3>1 DEF Detail, Phased
    <3>3. QED
      BY <1>2, <2>2, <3>2 DEF Detail
  <2>5. CASE SelectReady
    <3>1. /\ pc = "selecting" /\ pc' = "dispatching"
          /\ ready' \subseteq rfds
      BY <2>5 DEF SelectReady, At, Watched
    <3>2. Phased'
      BY <1>1, <2>1, <3>1 DEF Detail, Phased
    <3>3. QED
      BY <1>2, <2>2, <3>2 DEF Detail
  <2>6. CASE DispatchDone
    <3>1. pc = "dispatching" /\ pc' = "deleting"
      BY <2>6 DEF DispatchDone, At
    <3>2. Phased'
      BY <1>1, <2>1, <3>1 DEF Detail, Phased
    <3>3. QED
      BY <1>2, <2>2, <3>2 DEF Detail
  <2>7. QED
    BY <1>4, <2>3, <2>4, <2>5, <2>6
<1>5. QED
  BY <1>3, <1>4

\* _check_adding takes up a connect: nothing failed in this pass yet, since there
\* is only one.
LEMMA OpenStartSound ==
  ASSUME TypeOK, OpeningOne, Sound, TypeOK', OpenStart
  PROVE  OneAdding' /\ OneSocketPerIndex' /\ Detail'
<1> DEFINE c == First(Pending)
<1>1. c \in Pending
  BY FirstOf, Numbers DEF OpenStart, Pending, Entries
<1>2. /\ pc = "adding" /\ pc' = "opening" /\ Detail /\ OneAdding /\ OneSocketPerIndex
      /\ UNCHANGED <<ready, client, adding, deleting, closing, freed, who, rfds, told>>
      /\ it' = c /\ cur' = adding[c]
  BY DEF OpenStart, At, Sound, mapVars, fdsetVars, ghostVars
<1> HIDE DEF c
<1>3. c \in Conns /\ adding[c] # None /\ c > it /\ it \in Nat
  BY <1>1, Numbers DEF Pending, Entries, TypeOK
<1>4. \A d \in Conns : adding[d] # None => d = c
  BY <1>2, <1>3 DEF OneAdding
<1>5. client[c] = None /\ deleting[c] = None
  BY <1>2, <1>3, Numbers DEF Detail, Phased
<1>6. deleting = NoEntries
  BY <1>2, <1>4, <1>5 DEF Detail, Phased, NoEntries, TypeOK
<1>7. OneAdding' /\ OneSocketPerIndex'
  BY <1>2, <1>4, <1>5 DEF OneAdding, OneSocketPerIndex
<1>8. Owned'
  BY <1>2 DEF Detail, Owned
<1>9. Phased'
  BY <1>2, <1>5, <1>6 DEF Phased
<1>10. AllReported'
  BY <1>2 DEF Detail, AllReported
<1>11. QED
  BY <1>7, <1>8, <1>9, <1>10 DEF Detail

\* The connect succeeded, and the descriptor is watched.
LEMMA OpenedSound ==
  ASSUME TypeOK, OpeningOne, Sound, TypeOK', Opened
  PROVE  OneAdding' /\ OneSocketPerIndex' /\ Detail'
<1>1. /\ pc = "opening" /\ pc' = "inserting" /\ Detail /\ OneAdding /\ OneSocketPerIndex
      /\ UNCHANGED <<it, cur, ready, client, adding, deleting, closing, freed, who,
                     fd, told>>
  BY DEF Opened, At, Sound, mapVars, sockVars, ghostVars
<1>2. OneAdding' /\ OneSocketPerIndex' /\ Owned' /\ AllReported'
  BY <1>1 DEF Detail, OneAdding, OneSocketPerIndex, Owned, AllReported
<1>3. Phased'
  BY <1>1 DEF Detail, Phased
<1>4. QED
  BY <1>2, <1>3 DEF Detail

\* The socket becomes a client.
LEMMA OpenDoneSound ==
  ASSUME TypeOK, OpeningOne, Sound, TypeOK', OpenDone
  PROVE  OneAdding' /\ OneSocketPerIndex' /\ Detail'
<1>1. /\ pc = "inserting" /\ pc' = "adding" /\ Detail /\ OneAdding /\ OneSocketPerIndex
      /\ UNCHANGED <<it, ready, adding, deleting, closing, freed, who, fd>>
      /\ client' = [client EXCEPT ![it] = cur] /\ Post(it, "connect")
  BY DEF OpenDone, At, Sound
<1>2. it \in Conns /\ cur \in Socks /\ cur # None /\ it \in Nat
  BY <1>1, Numbers DEF OpeningOne
<1>3. adding[it] = cur /\ client[it] = None /\ deleting = NoEntries
  BY <1>1 DEF Detail, Phased
<1>4. \A d \in Conns : adding[d] # None => d = it
  BY <1>1, <1>2, <1>3 DEF OneAdding
<1>5. client'[it] = cur /\ \A d \in Conns : d # it => client'[d] = client[d]
  BY <1>1, <1>2 DEF TypeOK
<1>6. OneAdding' /\ OneSocketPerIndex'
  BY <1>1, <1>2, <1>3, <1>4, <1>5 DEF OneAdding, OneSocketPerIndex, NoEntries
<1>7. Owned'
  BY <1>1, <1>2, <1>3, <1>5 DEF Detail, Owned
<1>8. Phased'
  BY <1>1, <1>2, <1>3, <1>4, <1>5 DEF Phased, NoEntries
<1>9. AllReported'
  <2>1. told'[it][1] = "connect" /\ \A d \in Conns : d # it => told'[d] = told[d]
    BY <1>1, <1>2 DEF Post, TypeOK
  <2>2. QED
    BY <1>1, <1>5, <2>1 DEF Detail, AllReported
<1>10. QED
  BY <1>6, <1>7, <1>8, <1>9 DEF Detail

\* The connect failed.
LEMMA OpenFailedSound ==
  ASSUME TypeOK, OpeningOne, Sound, TypeOK', OpenFailed
  PROVE  OneAdding' /\ OneSocketPerIndex' /\ Detail'
<1>1. /\ pc = "opening" /\ pc' = "adding" /\ Detail /\ OneAdding /\ OneSocketPerIndex
      /\ UNCHANGED <<it, ready, client, adding, closing, freed, who, fd>>
      /\ deleting' = [deleting EXCEPT ![it] = cur]
      /\ Post(it, "failed") \/ told' = told
  BY DEF OpenFailed, At, Sound, sockVars
<1>2. it \in Conns /\ cur \in Socks /\ cur # None /\ it \in Nat
  BY <1>1, Numbers DEF OpeningOne
<1>3. adding[it] = cur /\ client[it] = None /\ deleting = NoEntries
  BY <1>1 DEF Detail, Phased
<1>4. \A d \in Conns : adding[d] # None => d = it
  BY <1>1, <1>2, <1>3 DEF OneAdding
<1>5. deleting'[it] = cur /\ \A d \in Conns : d # it => deleting'[d] = None
  BY <1>1, <1>2, <1>3 DEF NoEntries
<1>6. OneAdding' /\ OneSocketPerIndex'
  BY <1>1, <1>2, <1>3, <1>4, <1>5 DEF OneAdding, OneSocketPerIndex
<1>7. Owned'
  BY <1>1, <1>2, <1>3, <1>5 DEF Detail, Owned
<1>8. Phased'
  BY <1>1, <1>2, <1>3, <1>4, <1>5 DEF Phased
<1>9. AllReported'
  <2>1. \A d \in Conns : d # it => told'[d] = told[d]
    BY <1>1, <1>2 DEF Post, TypeOK
  <2>2. QED
    BY <1>1, <1>3, <1>5, <2>1 DEF Detail, AllReported, NoEntries
<1>10. QED
  BY <1>6, <1>7, <1>8, <1>9 DEF Detail

\* An error on a client, found by a send or by select.
LEMMA ErrorFound ==
  ASSUME TypeOK, NEW c \in Conns, CheckError(c)
  PROVE  /\ deleting'[c] = client[c] /\ \A d \in Conns : d # c => deleting'[d] = deleting[d]
         /\ rfds' = rfds \ {fd[client[c]]}
         /\ \A d \in Conns : d # c => told'[d] = told[d]
         /\ told'[c] # told[c] => told'[c][1] = "broken"
<1>1. deleting' = [deleting EXCEPT ![c] = client[c]] /\ rfds' = rfds \ {fd[client[c]]}
  BY DEF CheckError, OnDisconnected
<1>2. Post(c, "broken") \/ told' = told
  BY DEF CheckError, OnDisconnected
<1>3. QED
  BY <1>1, <1>2 DEF TypeOK, Post

\* A send, with or without an error.
LEMMA SendHeadSound ==
  ASSUME TypeOK, OpeningOne, Sound, TypeOK', SendHead
  PROVE  OneAdding' /\ OneSocketPerIndex' /\ Detail'
<1> DEFINE c == Head(sendq)
<1>1. /\ pc = "sending" /\ pc' = "removing" /\ Detail /\ OneAdding /\ OneSocketPerIndex
      /\ UNCHANGED <<it, cur, ready, client, adding, closing, freed, who, fd>>
      /\ c \in Conns /\ client[c] # None
      /\ UNCHANGED <<rfds, deleting, told>> \/ CheckError(c)
  BY DEF SendHead, Sendable, At, Sound, TypeOK, sockVars
<1> HIDE DEF c
<1>2. OneAdding'
  BY <1>1 DEF OneAdding
<1>3. \A d \in Conns : client[d] # None => adding[d] = None /\ deleting[d] = None
  BY <1>1 DEF Detail, Phased, OneSocketPerIndex
<1>4. CASE UNCHANGED <<rfds, deleting, told>>
  <2>1. OneSocketPerIndex' /\ Owned' /\ AllReported'
    BY <1>1, <1>3, <1>4 DEF Detail, OneSocketPerIndex, Owned, AllReported
  <2>2. Phased'
    BY <1>1, <1>3, <1>4 DEF Detail, Phased
  <2>3. QED
    BY <1>2, <2>1, <2>2 DEF Detail
<1>5. CASE CheckError(c)
  <2>1. /\ deleting'[c] = client[c] /\ \A d \in Conns : d # c => deleting'[d] = deleting[d]
        /\ rfds' = rfds \ {fd[client[c]]}
        /\ \A d \in Conns : d # c => told'[d] = told[d]
    BY <1>1, <1>5, ErrorFound
  <2>2. OneSocketPerIndex'
    BY <1>1, <1>3, <2>1 DEF OneSocketPerIndex
  <2>3. Owned'
    BY <1>1, <2>1 DEF Detail, Owned
  <2>4. Phased'
    BY <1>1, <1>3, <2>1 DEF Detail, Phased
  <2>5. AllReported'
    BY <1>1, <2>1 DEF Detail, AllReported
  <2>6. QED
    BY <1>2, <2>2, <2>3, <2>4, <2>5 DEF Detail
<1>6. QED
  BY <1>1, <1>4, <1>5

\* RebuildFdset.
LEMMA SelectFailedSound ==
  ASSUME TypeOK, OpeningOne, Sound, TypeOK', SelectFailed
  PROVE  OneAdding' /\ OneSocketPerIndex' /\ Detail'
<1>1. /\ pc = "selecting" /\ pc' = "deleting" /\ Detail /\ OneAdding /\ OneSocketPerIndex
      /\ UNCHANGED <<it, cur, ready, adding, deleting, freed, who, fd, told>>
      /\ closing' = NoEntries
  BY DEF SelectFailed, RebuildFdset, At, Sound, ghostVars
<1>2. \A c \in Conns : client'[c] # None => client'[c] = client[c]
  BY DEF SelectFailed, RebuildFdset
<1>3. OneAdding'
  BY <1>1 DEF OneAdding
<1>4. OneSocketPerIndex'
  BY <1>1, <1>2 DEF OneSocketPerIndex, NoEntries
<1>5. Owned'
  BY <1>1, <1>2 DEF Detail, Owned
<1>6. Phased'
  BY <1>1 DEF Detail, Phased
<1>7. AllReported'
  BY <1>1, <1>2 DEF Detail, AllReported
<1>8. QED
  BY <1>3, <1>4, <1>5, <1>6, <1>7 DEF Detail

\* The client whose descriptor is ready was not found broken before.
LEMMA ReadableIsFresh ==
  ASSUME TypeOK, Phased, pc = "dispatching", NEW c \in Readable
  PROVE  deleting[c] = None /\ client[c] # None
<1>1. c \in Conns /\ client[c] # None /\ c > it /\ fd[client[c]] \in ready
  BY DEF Readable, Entries
<1>2. c \in Nat /\ it \in Nat
  BY <1>1, Numbers DEF TypeOK
<1>3. QED
  BY <1>1, <1>2 DEF Phased

\* A client whose descriptor is ready, with or without an error.
LEMMA DispatchSound ==
  ASSUME TypeOK, OpeningOne, Sound, TypeOK', Dispatch
  PROVE  OneAdding' /\ OneSocketPerIndex' /\ Detail'
<1> DEFINE c == First(Readable)
<1>1. c \in Readable
  BY FirstOf, Numbers DEF Dispatch, Readable, Entries
<1>2. /\ pc = "dispatching" /\ pc' = "dispatching"
      /\ Detail /\ OneAdding /\ OneSocketPerIndex
      /\ UNCHANGED <<cur, ready, client, adding, closing, freed, who, fd>>
      /\ it' = c /\ (UNCHANGED <<rfds, deleting, told>> \/ CheckError(c))
  BY DEF Dispatch, ErrorPassedOver, At, Sound, sockVars
<1> HIDE DEF c
<1>3. c \in Conns /\ client[c] # None /\ c > it /\ c \in Nat /\ it \in Nat
  BY <1>1, Numbers DEF Readable, Entries, TypeOK
<1>4. \A d \in Conns : d <= it => d <= it'
  BY <1>2, <1>3, Numbers
<1>5. OneAdding'
  BY <1>2 DEF OneAdding
<1>6. \A d \in Conns : client[d] # None => adding[d] = None
  BY <1>2 DEF OneSocketPerIndex
<1>7. c <= it'
  BY <1>2, <1>3
<1>8. CASE UNCHANGED <<rfds, deleting, told>>
  <2>1. OneSocketPerIndex' /\ Owned' /\ AllReported'
    BY <1>2, <1>6, <1>8 DEF Detail, OneSocketPerIndex, Owned, AllReported
  <2>2. Phased'
    BY <1>2, <1>4, <1>8 DEF Detail, Phased
  <2>3. QED
    BY <1>5, <2>1, <2>2 DEF Detail
<1>9. CASE CheckError(c)
  <2>1. /\ deleting'[c] = client[c] /\ \A d \in Conns : d # c => deleting'[d] = deleting[d]
        /\ \A d \in Conns : d # c => told'[d] = told[d]
    BY <1>3, <1>9, ErrorFound
  <2>2. OneSocketPerIndex'
    BY <1>2, <1>6, <2>1 DEF OneSocketPerIndex
  <2>3. Owned'
    BY <1>2, <2>1 DEF Detail, Owned
  <2>4. Phased'
    BY <1>2, <1>4, <1>6, <1>7, <2>1 DEF Detail, Phased
  <2>5. AllReported'
    BY <1>2, <1>3, <2>1 DEF Detail, AllReported
  <2>6. QED
    BY <1>5, <2>2, <2>3, <2>4, <2>5 DEF Detail
<1>10. QED
  BY <1>2, <1>8, <1>9

----------------------------------------------------------------------------
(* The inductive invariant.                                                *)

\* What holds in every state, whether a pointer dangles in it or not.
Inv ==
  /\ TypeOK /\ OpeningOne /\ Sound
  /\ ~ AddsOverlap => NoDangling

\* The initial state.
LEMMA InitInv == Init => Inv
<1> SUFFICES ASSUME Init
             PROVE  Inv
  OBVIOUS
<1>1. TypeOK /\ OpeningOne
  BY InitTypes
<1>2. freed = {} /\ pc = "deleting"
  BY DEF Init
<1>3. \A c \in Conns : /\ client[c] = None /\ adding[c] = None
                       /\ deleting[c] = None /\ closing[c] = None
  BY DEF Init, NoEntries
<1>4. OneAdding /\ OneSocketPerIndex
  BY <1>3 DEF OneAdding, OneSocketPerIndex
<1>5. Owned /\ AllReported
  BY <1>2, <1>3 DEF Owned, AllReported
<1>6. Phased
  BY <1>2, <1>3 DEF Phased
<1>7. NoDangling
  BY <1>2 DEF NoDangling
<1>8. QED
  BY <1>1, <1>4, <1>5, <1>6, <1>7 DEF Inv, Sound, Detail

\* Every step of the net thread keeps the details.
LEMMA RunDetail ==
  ASSUME Inv, Run
  PROVE  OneAdding' /\ OneSocketPerIndex' /\ Detail'
<1>1. TypeOK /\ OpeningOne /\ Sound /\ TypeOK' /\ OpeningOne'
  BY NextTypes DEF Inv, Next
<1>2. QED
  BY <1>1, CheckDeletingSound, RetryOneSound, PhasesSound, OpenStartSound,
     OpenedSound, OpenDoneSound, OpenFailedSound, SendHeadSound, SelectFailedSound,
     DispatchSound
  DEF Run

\* Every step.
LEMMA NextInv ==
  ASSUME Inv, Next
  PROVE  Inv'
<1>1. TypeOK /\ OpeningOne /\ Sound /\ TypeOK' /\ OpeningOne'
  BY NextTypes DEF Inv
<1>2. CASE Main
  BY <1>1, <1>2, MainSound DEF Inv
<1>3. CASE World
  BY <1>1, <1>3, WorldSound DEF Inv
<1>4. CASE Run
  <2>1. OneAdding' /\ OneSocketPerIndex' /\ Detail'
    BY <1>4, RunDetail
  <2>2. NoDangling'
    <3>1. TypeOK /\ OpeningOne /\ Owned /\ Phased => NoDangling
      BY DetailIsEnough
    <3>2. (TypeOK /\ OpeningOne /\ Owned /\ Phased => NoDangling)'
      BY DetailIsEnough, PTL
    <3>3. QED
      BY <1>1, <2>1, <3>2 DEF Detail
  <2>3. QED
    BY <1>1, <2>1, <2>2 DEF Inv, Sound
<1>5. QED
  BY <1>2, <1>3, <1>4 DEF Next

\* A step that changes nothing.
LEMMA StutterInv ==
  ASSUME Inv, UNCHANGED vars
  PROVE  Inv'
<1>1. TypeOK' /\ OpeningOne'
  BY StutterTypes DEF Inv
<1>2. UNCHANGED <<pc, it, cur, ready, client, adding, deleting, closing, freed,
                  who, fd, rfds, told>>
  BY DEF vars, netVars, mapVars, sockVars, fdsetVars, ghostVars
<1>3. Sound' /\ NoDangling' = NoDangling
  BY <1>2, SoundFrame DEF Inv
<1>4. QED
  BY <1>1, <1>3 DEF Inv

\* The inductive invariant holds for every value of the constants.
THEOREM Invariance == Spec => []Inv
<1>1. Inv /\ [Next]_vars => Inv'
  BY NextInv, StutterInv
<1>2. QED
  BY InitInv, <1>1, PTL DEF Spec

\* Whatever the order of the calls and the net thread's steps, and however
\* many connections, an index has one live socket.
THEOREM OneSocket == Spec => []OneSocketPerIndex
<1>1. Inv => OneSocketPerIndex
  BY DEF Inv, Sound
<1>2. QED
  BY <1>1, Invariance, PTL

\* As long as addConnect is not called while a connect is pending, no map keeps a
\* pointer to a deleted socket.
THEOREM NoneDangles == ASSUME ~ AddsOverlap PROVE Spec => []NoDangling
<1>1. Inv => NoDangling
  BY DEF Inv
<1>2. QED
  BY <1>1, Invariance, PTL

----------------------------------------------------------------------------
(* The events.                                                             *)

\* Only an error on a client that was reported connected posts "broken".
LEMMA BrokenStep ==
  ASSUME Inv, Next, NEW c \in Conns, told'[c] # told[c], told'[c][1] = "broken"
  PROVE  told[c][1] = "connect"
<1>1. TypeOK /\ (NoDangling => Detail)
  BY DEF Inv, Sound
<1>2. ASSUME NEW d \in Conns, CheckError(d), client[d] # None, deleting[d] = None, Detail
      PROVE  told[c][1] = "connect"
  <2>1. c = d
    BY <1>1, <1>2, ErrorFound
  <2>2. QED
    BY <1>2, <2>1 DEF Detail, AllReported
<1>3. CASE Main \/ World
  BY <1>3 DEF Main, World, AddConnect, RemoveConnect, ReConnect, SendMessage,
              SetAutoConnect, DelayOver, PeerGone, ghostVars
<1>4. CASE SendHead
  <2>1. /\ Detail /\ pc = "sending" /\ Head(sendq) \in Conns /\ client[Head(sendq)] # None
        /\ told' = told \/ CheckError(Head(sendq))
    BY <1>1, <1>4 DEF SendHead, Sendable, At, TypeOK
  <2>2. deleting[Head(sendq)] = None
    BY <2>1 DEF Detail, Phased
  <2>3. QED
    BY <1>2, <2>1, <2>2
<1>5. CASE Dispatch
  <2>1. First(Readable) \in Readable
    BY <1>5, FirstOf, Numbers DEF Dispatch, Readable, Entries
  <2>2. /\ Detail /\ pc = "dispatching"
        /\ told' = told \/ CheckError(First(Readable))
    BY <1>1, <1>5 DEF Dispatch, ErrorPassedOver, At
  <2>3. First(Readable) \in Conns
    BY <2>1 DEF Readable, Entries
  <2>4. deleting[First(Readable)] = None /\ client[First(Readable)] # None
    BY <1>1, <2>1, <2>2, ReadableIsFresh DEF Detail
  <2>5. QED
    BY <1>2, <2>2, <2>3, <2>4
<1>6. CASE OpenDone
  <2>1. Post(it, "connect")
    BY <1>6 DEF OpenDone
  <2>2. QED
    BY <1>1, <2>1 DEF Post, TypeOK
<1>7. CASE OpenFailed
  <2>1. Post(it, "failed") \/ told' = told
    BY <1>7 DEF OpenFailed
  <2>2. QED
    BY <1>1, <2>1 DEF Post, TypeOK
<1>8. CASE \/ CheckDeleting \/ MergeRequests \/ ClearRequests \/ RetryOne
           \/ RetryDone \/ OpenStart \/ Opened \/ AddingDone \/ RemoveHead \/ SendNothing
           \/ SelectFailed \/ SelectReady \/ DispatchDone
  BY <1>8 DEF CheckDeleting, MergeRequests, ClearRequests, RetryOne, RetryDone,
     OpenStart, Opened, AddingDone, RemoveHead, SendNothing, SelectFailed,
     SelectReady, DispatchDone, ghostVars
<1>9. QED
  BY <1>3, <1>4, <1>5, <1>6, <1>7, <1>8 DEF Next, Run

\* A connection is never reported broken but after a connect.
THEOREM BrokenOnce == Spec => BrokenAfterConnect
<1>1. Inv /\ [Next]_vars =>
        [\A c \in Conns : told'[c] # told[c] /\ told'[c][1] = "broken"
                            => told[c][1] = "connect"]_vars
  BY BrokenStep
<1>2. QED
  BY <1>1, Invariance, PTL DEF Spec, BrokenAfterConnect

----------------------------------------------------------------------------
(* The attempts to reconnect.                                              *)

\* With one connection, the last attempt is counted in the same pass in which
\* the connect is tried, and its outcome erases the count.
Counted ==
  \A c \in Conns :
    /\ recon[c] <= MaxRetry
    /\ recon[c] = MaxRetry =>
         \/ pc = "retrying" /\ it = c /\ adding[c] # None
         \/ pc = "adding" /\ it < c /\ adding[c] # None
         \/ pc \in {"opening", "inserting"} /\ it = c

\* Steps that only forget attempts.
LEMMA CountedFrame ==
  ASSUME TypeOK, Counted, MaxRetry > 0, UNCHANGED <<pc, it>>,
         \A c \in Conns : recon'[c] \in {recon[c], 0, Absent},
         \A c \in Conns : adding[c] # None => adding'[c] # None
  PROVE  Counted'
<1>1. \A c \in Conns : /\ recon'[c] <= MaxRetry
                       /\ recon'[c] = MaxRetry => recon[c] = MaxRetry
  BY Numbers DEF Counted, Absent
<1>2. QED
  BY <1>1 DEF Counted

\* Where the phase is another, nothing is at its last attempt.
LEMMA CountedElsewhere ==
  ASSUME Counted, pc \notin {"retrying", "adding", "opening", "inserting"},
         MaxRetry > 0,
         \A c \in Conns : recon'[c] \in {recon[c], 0, Absent}
  PROVE  Counted'
<1>1. \A c \in Conns : recon[c] <= MaxRetry /\ recon[c] # MaxRetry
  BY DEF Counted
<1>2. \A c \in Conns : recon'[c] <= MaxRetry /\ recon'[c] # MaxRetry
  BY <1>1, Numbers DEF Absent
<1>3. QED
  BY <1>2 DEF Counted

\* Every step.
LEMMA CountedStep ==
  ASSUME MaxRetry > 0, \A c, d \in Conns : c = d, Inv, Counted, Next
  PROVE  Counted'
<1>1. TypeOK /\ OpeningOne /\ OneAdding /\ (NoDangling => Phased)
  BY DEF Inv, Sound, Detail
<1>2. ASSUME NEW c \in Conns, AddConnect(c)
      PROVE  Counted'
  <2>1. PICK s \in Socks : Insert(c, s) /\ UNCHANGED <<pc, it, recon>>
    BY <1>2 DEF AddConnect, netVars, reconVars
  <2>2. \A d \in Conns : adding'[d] = s /\ s # None
    BY <2>1, Numbers DEF Insert
  <2>3. QED
    BY <1>1, <2>1, <2>2, CountedFrame
<1>3. ASSUME NEW c \in Conns, RemoveConnect(c)
      PROVE  Counted'
  <2>1. UNCHANGED <<pc, it, adding>> /\ recon' = [recon EXCEPT ![c] = Absent]
    BY <1>3 DEF RemoveConnect, netVars
  <2>2. \A d \in Conns : recon'[d] \in {recon[d], 0, Absent}
    BY <1>1, <2>1 DEF TypeOK
  <2>3. QED
    BY <1>1, <2>1, <2>2, CountedFrame
<1>4. CASE \/ (\E c \in Conns : ReConnect(c) \/ SendMessage(c))
           \/ SetAutoConnect \/ World
  <2>1. UNCHANGED <<pc, it, recon, adding>>
    BY <1>4 DEF ReConnect, SendMessage, SetAutoConnect, World, DelayOver,
       PeerGone, netVars, mapVars, reconVars
  <2>2. QED
    BY <1>1, <2>1, CountedFrame
<1>5. CASE CheckDeleting \/ ClearRequests \/ RemoveHead \/ SendNothing
           \/ SelectFailed \/ SelectReady \/ DispatchDone
  <2>1. recon' = recon /\ pc \notin {"retrying", "adding", "opening", "inserting"}
    BY <1>5 DEF CheckDeleting, ClearRequests, RemoveHead, SendNothing,
       SelectFailed, SelectReady, DispatchDone, At, reconVars
  <2>2. QED
    BY <2>1, CountedElsewhere
<1>6. CASE MergeRequests
  <2>1. pc = "reconnecting" /\ \A c \in Conns : recon'[c] \in {recon[c], 0, Absent}
    BY <1>6 DEF MergeRequests, At
  <2>2. QED
    BY <2>1, CountedElsewhere
<1>7. CASE RetryOne
  <2> DEFINE c == First(Retryable)
  <2>1. c \in Retryable
    BY <1>1, <1>7, FirstOf, Numbers DEF RetryOne, Retryable, TypeOK
  <2>2. /\ pc = "retrying" /\ pc' = "retrying" /\ it' = c
        /\ recon' = [recon EXCEPT ![c] = @ + 1]
    BY <1>7 DEF RetryOne, At
  <2>3. adding'[c] # None
    <3>1. CASE adding[c] # None
      BY <1>7, <3>1 DEF RetryOne
    <3>2. CASE adding[c] = None
      <4>1. PICK s \in Socks : Insert(c, s)
        BY <1>7, <3>2 DEF RetryOne
      <4>2. c \in Conns
        BY <1>1, <2>1 DEF Retryable, TypeOK
      <4> HIDE DEF c
      <4>3. QED
        BY <4>1, <4>2, Numbers DEF Insert
    <3>3. QED
      BY <3>1, <3>2
  <2> HIDE DEF c
  <2>4. /\ c \in Conns /\ c > it /\ it \in Nat /\ c \in Nat
        /\ recon[c] <= MaxRetry /\ recon[c] \in Int
    BY <1>1, <2>1, Numbers DEF Retryable, TypeOK, Absent
  <2>5. recon[c] < MaxRetry
    BY <2>2, <2>4, Numbers DEF Counted
  <2>6. recon'[c] <= MaxRetry
    BY <1>1, <2>2, <2>4, <2>5, Numbers DEF TypeOK
  <2>7. QED
    BY <2>2, <2>3, <2>4, <2>6 DEF Counted
<1>8. CASE RetryDone
  <2>1. /\ pc = "retrying" /\ pc' = "adding" /\ it' = 0
        /\ UNCHANGED <<recon, adding>>
    BY <1>8 DEF RetryDone, At, mapVars, reconVars
  <2>2. \A c \in Conns : 0 < c
    BY Numbers
  <2>3. QED
    BY <2>1, <2>2 DEF Counted
<1>9. CASE OpenStart
  <2>1. First(Pending) \in Pending
    BY <1>9, FirstOf, Numbers DEF OpenStart, Pending, Entries
  <2>2. /\ pc = "adding" /\ pc' = "opening" /\ it' = First(Pending)
        /\ UNCHANGED <<recon, adding>>
    BY <1>9 DEF OpenStart, At, mapVars, reconVars
  <2>3. \A c \in Conns : c = First(Pending)
    BY <2>1 DEF Pending, Entries
  <2>4. QED
    BY <2>2, <2>3 DEF Counted
<1>10. CASE OpenDone
  <2>1. it \in Conns /\ recon' = [recon EXCEPT ![it] = Absent]
    BY <1>1, <1>10 DEF OpenDone, At, OpeningOne
  <2>2. \A c \in Conns : recon'[c] = Absent
    BY <1>1, <2>1 DEF TypeOK
  <2>3. QED
    BY <2>2, Numbers DEF Counted, Absent
<1>11. CASE OpenFailed
  <2>1. it \in Conns /\ pc = "opening"
    BY <1>1, <1>11 DEF OpenFailed, At, OpeningOne
  <2>2. recon' = [recon EXCEPT ![it] = Absent] \/ (~ GivesUp(it) /\ recon' = recon)
    BY <1>11 DEF OpenFailed
  <2>3. recon[it] <= MaxRetry /\ recon[it] \in Int
    BY <1>1, <2>1, Numbers DEF Counted, TypeOK, Absent
  <2>4. ~ GivesUp(it) => recon[it] # MaxRetry
    BY <2>3, Numbers DEF GivesUp
  <2>5. recon'[it] <= MaxRetry /\ recon'[it] # MaxRetry
    BY <1>1, <2>1, <2>2, <2>3, <2>4, Numbers DEF TypeOK, Absent
  <2>6. QED
    BY <2>1, <2>5 DEF Counted
<1>12. CASE AddingDone
  <2>1. Pending = {} /\ pc = "adding" /\ recon' = recon
    BY <1>12 DEF AddingDone, At, reconVars
  <2>2. \A c \in Conns : adding[c] = None \/ ~ (it < c)
    BY <1>1, <2>1, Numbers DEF Pending, Entries, TypeOK
  <2>3. \A c \in Conns : recon'[c] <= MaxRetry /\ recon'[c] # MaxRetry
    BY <2>1, <2>2 DEF Counted
  <2>4. QED
    BY <2>3 DEF Counted
<1>13. ASSUME NEW c \in Conns, CheckError(c)
       PROVE  \A d \in Conns : recon'[d] \in {recon[d], 0, Absent}
  <2>1. recon' = [recon EXCEPT ![c] = 0] \/ recon' = recon
    BY <1>13 DEF CheckError, OnDisconnected
  <2>2. QED
    BY <1>1, <2>1 DEF TypeOK
<1>14. CASE SendHead
  <2>1. /\ pc = "sending" /\ Head(sendq) \in Conns
        /\ recon' = recon \/ CheckError(Head(sendq))
    BY <1>1, <1>14 DEF SendHead, Sendable, At, TypeOK
  <2>2. QED
    BY <1>13, <2>1, CountedElsewhere
<1>15. CASE Dispatch
  <2>1. First(Readable) \in Readable
    BY <1>15, FirstOf, Numbers DEF Dispatch, Readable, Entries
  <2>2. First(Readable) \in Conns
    BY <2>1 DEF Readable, Entries
  <2>3. pc = "dispatching" /\ (recon' = recon \/ CheckError(First(Readable)))
    BY <1>15 DEF Dispatch, ErrorPassedOver, At
  <2>4. QED
    BY <1>13, <2>2, <2>3, CountedElsewhere
<1>16. CASE Opened
  <2>1. pc = "opening" /\ pc' = "inserting" /\ it' = it /\ recon' = recon
    BY <1>16 DEF Opened, At, reconVars
  <2>2. QED
    BY <2>1 DEF Counted
<1>17. QED
  BY <1>2, <1>3, <1>4, <1>5, <1>6, <1>7, <1>8, <1>9, <1>10, <1>11, <1>12, <1>14, <1>15,
     <1>16
  DEF Next, Main, Run

\* A program with one connection, and any maximum but zero, never makes more
\* attempts than the maximum: the retries of others cannot evict its own.
THEOREM Attempting ==
  ASSUME MaxRetry > 0, \A c, d \in Conns : c = d
  PROVE  Spec => []AttemptsBounded
<1>1. Init => Counted
  BY Numbers DEF Init, Counted, Absent
<1>2. ASSUME Counted, UNCHANGED vars
      PROVE  Counted'
  BY <1>2 DEF Counted, vars, netVars, mapVars, reconVars
<1>3. Inv /\ Counted /\ [Next]_vars => Counted'
  BY <1>2, CountedStep
<1>4. Counted => AttemptsBounded
  BY DEF Counted, AttemptsBounded
<1>5. QED
  BY <1>1, <1>3, <1>4, Invariance, PTL DEF Spec
================================================================================
