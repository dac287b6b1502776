# cxxlua_proto: the network layer in TLA+

The repository is a client-side network layer for a cocos2d game: C++ classes that
keep TCP connections on a thread of their own, and a Lua class that a game script
uses. These modules model its core, the TLC configurations check them on small
instances, and eight proof modules prove the safety properties for every value of the
constants: the lock-free queue with and without a reader that clears it, its other
mode, the framing of messages, the connections and their descriptors, the exit, the
script's view, and the lengths of packets.

Paths below are relative to `src/c++/uf/net` unless they start with `src/`.

## 1. The system

Two threads and no lock.

* The **main thread** runs the script and the frame callback. It calls
  `addConnect`, `removeConnect`, `reConnect`, `SendMessage` and `setAutoConnect`
  of `SocketManager` (through `NetManager` and `MsgProcessHandler`), and once per
  frame `NetManager::Update` takes one message or event from the receive queue.
* The **net thread** runs `SocketManager::Run`: delete what broke, retry what is
  due, open what was added (a blocking `connect`), send one message, `select`, and
  read the descriptors that are ready.

They share two ring queues (bytes of messages), five `std::map`s of connections
and some flags.

| component | state | operations | how it interacts |
|---|---|---|---|
| `CCircleQueue` (`messagequeue/circle_queue.cpp`) | a byte ring; the words head and tail in its first bytes | `append`, `get`, `pop`, `clear` | appended to by one thread, peeked and popped by the other |
| `CMessageQueue` (`messagequeue/message_queue.cpp`) | five rings, two of them installed | `PostMessage`, `PeekMessage`, `clear` | chooses a ring by type |
| `SocketManager` (`socket/SocketManager.cpp`) | maps of client, adding, deleting and closed sockets; of reconnecting, disconnected and requested addresses; fd sets; one receive buffer | the calls above; the phases of `Run` | both threads, with no lock |
| `BSDSocket`, `ClientSocket` | a descriptor, a connected flag | `open`, `Send`, `Recv`, `Close` | the kernel's calls |
| `NetManager` (`NetManager.cpp`) | a socket manager, an HTTP manager, one message buffer | forwards; `Update` | turns queue entries into callbacks |
| `MsgProcessHandler` (`MsgProcessHandler.cpp`) | send buffer, uncompress buffer, script handler | packet headers, callbacks to Lua | between `NetManager` and Lua |
| `NetSocket` (`src/lua/NetSocket.lua`) | one connection index, `_isConnected`, a listener | `connect`, `reconnect`, `close`, `destroy`, `sendMsg` | the script's view |
| `thread_ex` (`socket/Thread_t.h`) | a detached thread; `m_isRunning` of the manager ends its loop | `RunThread`; `~SocketManager` | the main thread starts it once and stops it at exit |
| `HttpManager`, `Downloader` | queues of requests and responses | request, peek | commented out, or never constructed |
| singletons, Lua bindings, build stubs | - | - | no logic of their own |

What is hard in it:

* the ring is written and read with no lock, and its reader also clears it;
* the main thread changes maps while the net thread is between two steps over them;
* a descriptor number outlives the descriptor (`removeConnect` closes it and leaves
  the socket in the client map);
* retries: a count tested in two places, a delay, one flag `m_bRetry` for all requests;
* one receive buffer and one offset serve all connections;
* a send queue that is shared, and cleared when any connection breaks;
* three limits on the length of a message, only two of them tested; a decode buffer
  that grows by retries;
* a send that waits as long as the peer does, on the thread that serves all connections;
* a destructor that sleeps for a second instead of joining the thread it stops.

`PROJECT.json` lists these at their lines with the properties that watch them, or the
reason that none does.

What makes each component correct:

* ring: no message lost, torn, repeated or reordered; the writer never touches what
  the reader still reads; full is never taken for empty; no small message refused for ever;
* socket manager: one live socket per index; no pointer to a deleted socket; every
  live connection watched; every end noticed; retries bounded and ending in an event; bytes labelled with
  the index of the peer they belong to;
* framing: what is posted are the peer's messages, whole and in order, however the
  reads split them;
* Lua layer: an object that says it is connected has a live connection or is about
  to hear of its end, one that has a live connection hears of it, and a destroyed
  object owns none; every request is answered once, whatever happens in between;
* packets: a message that was accepted is whole; what arrives compressed is decoded;
* exit: the thread hears that it must stop, and no connection stays open.

## 2. Modules

| module | models |
|---|---|
| `Fifo` | the abstract queue: what was sent is received, in order, whole, once |
| `CircleQueue` | `CCircleQueue` with a writer and a reader, at the byte level |
| `CircleQueueProofs`, `ClearedQueueProofs`, `ScrapQueueProofs`, `SocketManagerProofs`, `NetSocketProofs`, `RecvStreamProofs`, `PacketsProofs` | theorems about the modules they are named after |
| `ShutdownProofs` | theorems about the kernel's descriptors in `SocketManager`, and what is left of them at the exit in `Shutdown` |
| `ClearedQueue` | the send queue: `CircleQueue` (EXTENDS) with a reader that clears it |
| `ScrapQueue` | `CCircleQueue` in its other mode, where a node may straddle the end of the ring |
| `SocketManager` | both threads over the maps, the fd sets and the kernel's descriptors |
| `Shutdown` | the life of the net thread around `SocketManager` (EXTENDS): its creation, `~SocketManager` |
| `RecvStream` | `PostRecvMessageFrom`: the receive buffer and its packets |
| `NetSocket` | `NetSocket.lua`, `MsgProcessHandler` and `NetManager::Update` on top of `SocketManager` (EXTENDS) |
| `Session` | the abstract life of a script's object: idle, asked, up, gone |
| `Packets` | the lengths of packets in `MsgProcessHandler`: the limits of sending, the uncompress loop |
| `MCRecvStream`, `MCPackets` | instances: the message lengths and the constraint of one run, the lengths around each limit |

The other modules are instantiated by their configurations directly.

### CircleQueue

`head` and `tail` are the two words in the reserved bytes, the only words both
threads write or read while the other may change them. `mem[b]` says which byte of
which node the ring holds at `b`: byte `k` of node `i`, whose message has length `s`,
is `<<i, s, k>>`, so a torn or stale read is visible. A step is what a thread does
between two accesses to a word the other one writes:

| code | actions |
|---|---|
| `append2` up to the choice of a place | `StartAppend` |
| its `memcpy`s and the marker | `WriteNode` |
| `set_tail` | `Publish` |
| `get`: `get_boundary` / the length word | `GetBoundary` / `GetLength` (with `initialize` as `Recover`) |
| the caller reads or copies the message (`PM_NOREMOVE`, `PM_COPY`) | `TakeMessage` |
| `pop()` (which calls `get` again) | `Pop` |

`posted`, `popped` and `taken` are histories, and the refinement to `Fifo` maps
`sent` and `received` to the first and the last. This is the mode every queue of the
program is installed in (reserved words, no scrap). `m_iHead` and
`m_iTail`, the cached copies, are overwritten by every `get_boundary` and decide
nothing in this mode. A peek whose buffer is too short (`pop2`) drops the message;
the program never copies with `PM_COPY`. The steps are sequentially consistent, as
`InterlockedExchange` makes them in the WIN32 build.

### ClearedQueue

`clear` is `set_boundary(0, 0)`: two stores (`ClearHead`, `ClearTail`) by the net
thread, either between two messages (an error found by `select`) or after it peeked
a message and `Send` failed; in the latter case the `PM_REMOVE` that follows runs on
the cleared queue (`Remove`). `raced` remembers that some append overlapped a clear.

### ScrapQueue

`append1` and `pop1`, with no reserved words and nodes that go round the end. The
comment of `append` says that one thread reading and one writing need no lock, and
this mode has its own reasons for it: both sides compute sizes from the two offsets.

| code | actions |
|---|---|
| `append1` up to `get_boundary` / `get_freesize` / the copies / `set_tail` | `StartAppend` / `CheckFree` / `WriteNode` / `Publish` |
| `pop1` up to `get_codesize` / the length word and its tests / the copies / `set_head` | `StartPop` / `ReadLength` / `Copy` / `Release` |

`FreeSize` and `CodeSize` are the two functions over machine words of `Word` values.
The reader calls with buffers of several lengths; a message that is too long for one
is skipped, and counts as taken. `append1` reads the head twice, and `outside` remembers a
copy that left the ring because the reader passed the end in between: a behaviour the
run reaches, so `ImplementsFifo` and `LeavesUnlessOutside` are about what comes before.

### SocketManager

A socket is a number, and so is a descriptor; `open[f]` is the kernel's side (whose
descriptor `f` is), `fd[s]` what the object believes. `Close` acts on the number,
whoever has it; `CreateEx` may also return none. `rfds` and `maxsock` are what `select` is given; a connection is
noticed only through them. `told` is the last event posted for each connection,
with a bit that flips so that a repeated event is a change.

A call of the main thread is one action. The net thread's loop:

| code | actions |
|---|---|
| `_check_deleting` | `CheckDeleting` |
| `_check_reconnecting`: copy of the requests / their clear / each retry / end | `MergeRequests` / `ClearRequests` / `RetryOne` / `RetryDone` |
| `_check_adding`: `open` starts / succeeds, and the descriptor is watched / the socket is a client (`onConnect`) / `open` fails (`onConnectFailed`) / final `clear` and the empty test | `OpenStart` / `Opened` / `OpenDone` / `OpenFailed` / `AddingDone` |
| send of the head message / its removal / nothing to send | `SendHead` / `RemoveHead` / `SendNothing` |
| `sockes_select`: `EBADF` or timeout, then `rebuild_fdset` / something ready | `SelectFailed` / `SelectReady` |
| the loop over clients, `PostRecvMessageFrom`'s error path | `Dispatch` / `DispatchDone` |
| time, the peer | `DelayOver` / `PeerGone` |

`recv` returns 0 at the end of a stream and leaves errno as it was, so
`_check_error_on_sock` may find an `EWOULDBLOCK` of an earlier call there and do nothing
(`ErrorPassedOver`); the descriptor stays ready and is read again in the next pass.
`SendHead` is a `Send` that returns; while `InSend` holds the thread may be inside one that
does not. Two histories remember what a property cannot hold after: `reused`, a socket
got the number of a removed connection that is still a client, and `lowered`,
`removeConnect` recomputed `m_maxsock` between `Opened` and `OpenDone` and left it below
the new descriptor.

Abstracted: addresses (an index always means one peer), the content of messages (the
index only), the delay of a retry (over at some time), `m_connCount` (never read),
`m_wfds` (never set), exceptions on a descriptor (only logged). Once some map holds a
deleted socket the program's behaviour is undefined: `Next` stops there
(the conjunct `NoDangling` of every action), and the run that checks `NoDangling` sees the state.
`AddsOverlap` says whether the main thread calls `addConnect` while a connect is
pending: with it, `addConnect` deletes that socket, which the run `evicted_connect`
shows; the other runs look at what holds in a program that does not.

### Shutdown

`thread` is the net thread, `running` the flag `m_isRunning`, `dtor` how far
`~SocketManager` is. `NetStep` is a step of `Run` for a thread whose test of the flag,
at the start of a pass, let it through. `Stop` clears the flag; `WaitOver` is the end of
the sleep of a second, which outlasts a pass (100 ms in the pause without clients, otherwise
30 ms and less for `select`) unless a call of the pass waits: `connect`, the name
resolution in front of it, or `Send` (`Inside`). So it comes when the thread has ended or
is inside one of these. `FreeClients` closes and deletes the clients; what is in the other maps
is not closed. If the thread is still there then, it goes on over deleted memory, and
the model stops. `RunThread` may leave no thread behind: `pthread_create` returns an
error number, the code compares it with -1 and returns true anyway.

### Packets

Lengths only. Sending: `doSerializeMsg` cuts the message to what fits behind the header
in `m_pSendBuffer` (`Body`), `SocketManager::SendMessage` puts the index in front in
`m_pCodeBuffer` without a test, and the queue takes what its ring has room for
(`Takes`). Receiving: the decode buffer is made at five times the first packet, is
tripled as long as `uncompress` says that it is too short, five times at most per
packet, and is kept (`FirstBuffer`, `Enlarged`, `Kept`); then the packet is decoded,
dropped as damaged, or handed over as it came. A damaged packet is one whose error is
found after so many decoded bytes. zlib is external: it never expands by more than
`MaxRatio`, and its shortest body has 8 bytes.

### RecvStream

Byte `k` of stream `e` of connection `c` is `<<c, e, k>>`; a stream is a sequence of
messages that start with their length. A call of `PostRecvMessageFrom` makes one
read (`Recv`), because it is asked for exactly the room the buffer has and what a
shorter read leaves is taken off `len`; then each turn of the inner loop is an action:
a whole packet is posted (`PostPacket`), the rest is kept (`KeepRest`), or the queue
is full (`PostRefused`). `msg_len` is not initialized, so it starts with any value of
`Garbage` or what the last call left. A word made of bytes that are no length word
has any value of `Garbage` too. `spoiled` remembers that bytes of another stream met
a packet that was kept, that a post was refused, or that a read stopped within a
length word while `msg_len` was small.

### NetSocket

The script's calls are those of `SocketManager`, as `NetSocket.lua` makes them:
`connect` starts the net thread the first time (`InitNetManager`) and loses the result of
`addConnect`; `close` does nothing unless `_isConnected`; `destroy` also takes the
object out of `socketArr`. What the net thread posts is put into `events` in the same
step (`Steps` takes a step of `Run` and appends what `told` says was posted;
`StepWithMessage` is a read that yields a packet), and is lost when the queue is full.
`Update` takes one event, and `Deliver` hands it to the object, whose handlers of an
end call `close` again. The exception event is posted nowhere. What the listener of an object does is a call
of the script like any other. `asked` and `overflow`
are histories. With `Patient` the script asks for a connect or a reconnect only when
the object is not connected and the answer to the last one has come. For such a script
each object implements `Session`, through `inArr`, `isConnected` and `asked`.

## 3. Runs

| run | configuration | shows |
|---|---|---|
| `ring` | `MCCircleQueue` | `TypeOK`, `NoOverwrite`, `EqualOnlyWhenEmpty`, `EmptyTakesHalf`; the ring implements `Fifo` with liveness (`DeliversAll`) |
| `cleared_ring` | `MCClearedQueue` | order and emptiness survive clears that no append overlaps (`InOrderUnlessRaced`); a clear costs at most one later message (`ClearSkipsAtMostOne`) |
| `cleared_ring_race` | `MCClearedQueueRace` | `InOrder` is violated when one does |
| `scrap_ring` | `MCScrapQueue` | the other mode: `ReservedIsFree`, `InsideUnlessPassed`; it implements `Fifo` up to a copy that leaves the ring (`ImplementsFifo`), and everything leaves the queue (`LeavesUnlessOutside`) |
| `one_connection` | `MCOne` | all calls, one connection. Safety: `OneSocketPerIndex`, `AttemptsBounded`, `BrokenAfterConnect`. Under fairness, if sends return: a listed connection is retried to its end (`RetriedToTheEnd`), a connect is reported (`ReportedUnlessAuto`), an end is noticed (`EndIsNoticed`) |
| `shutdown` | `MCShutdown` | two connections with connects, removals and sends, from the start of the thread to its end: `NoDanglingBefore`, `ConnectedIsWatched`, `RightUnlessReused`; `StopIsHeard`, `NothingLeftOpen` |
| `descriptor_reuse` | `MCReuse` | `RightPeer` is violated after `removeConnect` |
| `evicted_connect` | `MCEvicted` | `NoDangling` is violated when connects overlap |
| `script_view` | `MCNetSocket` | `FlagIsTrue`, `LiveIsTold`, `DestroyedIsClosed`: the flag of an object against its connection; one answer for each request (`ImplementsSession`, `AskIsAnswered`) |
| `recv_frames` | `MCRecvStream` | `PacketsUnlessSpoiled`, `NothingHeldBack` for two streams read in every split |
| `packets` | `MCPackets` | `AcceptedIsWhole`, `FirstIsDecoded`, `RawAtMostThrice`, `BufferInProportion`, with the lengths of the program |
| `recv_mixed` | `MCRecvMixed` | `PacketsAreMessages` is violated by two streams in one buffer |

A run that expects a violation checks one property; the finding in `PROJECT.json`
quotes the comment or document it comes from. Each property of a passing run has a
mutant, an operator next to the one it changes, that makes the run fail.

### Bounds

* `MCCircleQueue`: 12 bytes, a length word of 2, messages of 1, 2 and 4 bytes, 6
  appends: the tail can stop 0, 1 or more bytes before the end (marker or not), the
  ring fills up, and it wraps round more than once. The theorems cover every other size.
* `MCClearedQueue`: 10 bytes, 4 appends, 2 clears: a clear can fall between any two
  steps of an append, and a second one can meet what the first left.
* `MCScrapQueue`: 13 bytes, a length word of 2, 3 reserved bytes, messages of 1, 4 and
  7 bytes, 5 appends, buffers of 4 and 8 bytes: every message is split at some place,
  the 7-byte one does not fit the short buffer, and the ring fills up.
* `SocketManager`: one connection with two retries (the code has 3), two messages in the
  send queue and every call; two connections (an eviction or a reuse needs two) with the
  calls the question needs.
* `Shutdown`: two connections, `addConnect`, `removeConnect` and `SendMessage`, and
  `MaxCalls` of 3 calls in all: two connects and a removal or a send between any two steps of
  the net thread, automatic reconnection on or off. Two descriptors: the number of the
  removed client is the one that the next connect gets.
  `NSocks` and `NFds` only bound numbers: no more sockets than these are in use at once with
  `AddsOverlap` false, and `CreateEx` may fail at any time anyway. `Api` selects the calls
  of a run, so that a run stays small and its counterexample short.
* `NetSocket`: one object; three events in the queue, so that a connect, a message and
  an end can wait at once, and a fourth is lost. What holds for any number of objects is
  proved (`Sessions`); `FlagIsTrue` does not hold for two (see below).
* `Packets`: `net-common.h`'s 128 KB buffers, the queue without its 64 bytes, the real
  factors, zlib's 1032; lengths on both sides of every limit; bodies from 8 bytes to the
  longest that fits a packet, with five sample
  lengths of the decoded body, the worst ratio among them (`Origs`).
* `RecvStream`: messages of 3, 5 and 4 bytes with a length word of 2 in a buffer of 6:
  one fits twice, one fits once, and every split of a message and of its length word
  is a read. `MaxBreaks` bounds the streams of a connection, `MaxPosts` what the main
  thread takes. `UpToSpoiled` ends a behaviour after the first call that spoiled the
  buffer, as what follows is no longer about messages.

Deadlock is not checked for the rings and the framing, which stop when their bounded
inputs are used up, nor for `NetSocket`, which stops when its only object is destroyed
before its first connect, nor for `Shutdown`, which stops at the exit. It is checked for `SocketManager`, whose net thread never stops.

### Fairness

* `CircleQueue!FairSpec`: weak fairness of the reader (the net thread and the frame
  callback poll for ever) and of an append that has begun. None of the decision to append.
* `ScrapQueue!FairSpec`: the same.
* `Shutdown!ShutFairSpec`: weak fairness of the net thread unless it is inside `Send`, and
  of the end of the destructor's sleep. None of the decision to exit.
* `SocketManager!FairSpec`: weak fairness of the net thread, which nothing stops while
  the program runs, unless it is inside `Send`, and of the passing of each retry's delay.
  None of the main thread or of the peers.
* `NetSocket!LuaFairSpec`: the same, and weak fairness of `Update`, which the scheduler
  calls in every frame. None of the script, nor of the arrival of a message.

The code does not guarantee more, and what the liveness properties need beyond it they
say: `SendsReturn` (a peer that stops reading does so for a time only; the socket is
blocking and `BSDSocket::Send` loops), and for `EndIsNoticed` also `ErrnoChanges` (an end
that is read in pass after pass is at last read with an errno that is not `EWOULDBLOCK`).
`StopIsHeard` needs neither: it names the calls the thread may wait in.

### Beyond the listed runs

The models also have behaviours that no listed run is about.

*A lost reconnect.* `onConnect` sets `m_bRetry` to false whenever every client is
connected and no retry is listed (`SocketManager.cpp:519`), and `_check_reconnecting`
looks at the requests only when the flag or automatic reconnection is on; it also
clears the requests after it copied them (line 714). A `reConnect` that meets either
is forgotten, although `SocketManager.h:161` says "reconnect after delaied seconds". No
property says that every request is tried, because it is not so: `RetriedToTheEnd` is about
the requests that are listed, as long as the list is looked at, and `AskIsAnswered` about
those that the net thread still has.

*Retries of several connections.* `AttemptsBounded` and `RetriedToTheEnd` are about one
connection. With two that retry at once, a retry evicted by another one is counted and not
made (the test is `<=` in `_check_reconnecting`), so that its count passes the maximum with
automatic reconnection on and nobody is told; and a connection removed while a read of it is due is taken for
a broken one and retried, because `removeConnect` leaves it in the client map. With
automatic reconnection on, a first connect that fails is neither retried nor reported:
`onConnectFailed` reports only when it gives up, and the index is in no retry map
(hence `ReportedUnlessAuto`).

*A peer that does not read.* `Send` waits on the net thread, so no connection is read,
opened, retried or sent to in the meantime. Likewise a message whose connection is
down stays at the head of the send queue and holds up those of the others (`SendNothing`).

*Connects that overlap.* With `AddsOverlap` true a connect may delete a pending one (the
run `evicted_connect`), and the `clear` at the end of `_check_adding` forgets one that was
added after the last entry was opened.

*A removal during an insertion.* Between `SocketManager.cpp:672` and 673 the new socket
counts in `m_maxsock` and is no client yet. A `removeConnect` of another connection that
comes in between recomputes `m_maxsock` without it: the new connection is live and is not
watched until the next time the number is computed. `ConnectedIsWatched` does not hold
after it (`lowered`).

*Two objects.* In `NetSocket` with two objects `FlagIsTrue` does not hold, although the
script waits for its answers. `close` shuts the descriptor of the first object and leaves
its socket in the client map; the connect of the second gets the same number; the deletion
or the retry of the first closes it again. The second then says that it is connected,
`RebuildFdset` marks its socket not up, and no event is posted. The cause is that of the
run `descriptor_reuse`.

*A script that does not wait.* In `NetSocket` with `Patient = FALSE`, `FlagIsTrue` does
not hold: a retry drops a connection that is up with no event, and the handler of an
old broken event closes the connection that has replaced the broken one.

*The other mode of the ring.* `append1` writes past the end of the ring when the reader
passes it between its two looks at the head (`outside`). With reserved words
(`bReserve`) this mode would also use the cached offsets, which the other thread does
not update, and a ring that is 64 bytes longer than its memory; with less than 8 bytes
`get_freesize` would wrap. No queue is installed so.

*Exit.* If the thread is inside `connect`, the name resolution or `Send` when the sleep of `~SocketManager` is over, or
starts only after its destructor has begun, it goes on with deleted clients and buffers.
Sockets in the adding and deleting maps are never deleted; those in the adding map have
no descriptor unless they are being opened. After `onCocos2dExit` a call of the script
goes through a null pointer (`m_bInited` stays true).

*Lengths.* A message of 131053 bytes or more is written up to 4 bytes past `m_pCodeBuffer`
before the queue refuses it: every message of that length gets no further
(`AcceptedIsWhole`). A packet that is handed over compressed looks to the script like any
other message. A compressed packet with an empty body would make a buffer of no bytes that
no tripling enlarges; zlib does not make one. `doSerializeMsg` sets `hdr.sid`, a member
that is commented out in `package.head.h`.

## 4. Proofs

TLAPS checks the theorems below for every value of the constants that the named
assumptions of the modules allow. None of the invariants is inductive as it stands; each
part says what had to be added, and TLC checked each strengthening on a run's instance
before it was proved.

### The ring: `CircleQueueProofs`, `ClearedQueueProofs`

For every `ValidSize`, `HeadLen`, `Sizes` and `MaxPosts` (a length word of at least one
byte that fits in the ring, messages of at least one byte as `append2` demands):

* `TypeCorrect`, `NeverOverwrites`, `FullIsNotEmpty`, `EmptyTakesAnyHalf`: the four
  invariants of the run `ring`;
* `Implements`: every step is a step of `Fifo` or leaves its variables alone.

`NoOverwrite` needs to know where queued nodes are, which needs the chain of nodes from
`head` to `tail`, and that the reader finds the first one, which needs the bytes in
memory to be whole. `IInv == Ring /\ Reader`, and `Ring` is the conjunction of:

* `Chain`: a queued node starts where the one before it ends (`Before`), or at 0 because
  it did not fit there; the first one starts from `head`, and the last ends at `tail`;
* `Layout`: queued nodes do not overlap, with `head` beyond `tail` or not;
* `Claim`: the place the writer chose is free of them, whatever was released since;
* `Contents`: every queued node is whole in memory, with a marker in front of a wrap
  when there is room for one;
* `Found`: what the reader has found is the first queued node;
* `TypeOK` and `EqualOnlyWhenEmpty`.

`Reader` says how the histories agree: what was taken is what was released, and the
message being popped. The two are apart because `Ring` says nothing of nodes that are
gone, however they went, so it is also what a clear leaves behind. There is a lemma per
action (`RingStep` combines them); the facts between them (`FirstQueued`, `GetFinds`,
`Wrapped`, `PlaceIsFree`) say that `get` finds the first node, that what does not
continue the chain has wrapped, and that the writer's bytes are of no queued node.

`ClearedQueueProofs` has `OrderSurvives` and `SkipsAtMostOne`, the invariants of the run
`cleared_ring`. As long as no append overlapped a clear (`raced`), `ClearInv` holds:
outside a clear `Ring` does, within one the writer is outside `append` (`RingOrClear`);
what was taken is whole, in order and gone (`InStep`); and `Paid`: the messages skipped,
and the one the next `pop` will skip if a clear took away the node it was to release
(`Owed`), are no more than the clears.

`ScrapQueueProofs`: `TypeCorrect`, `ReservedStaysFree`, `CopiesInside` and `Implements`
(`ImplementsFifo`), for every size of the ring, the length word, the reserve and the
messages. What the ring holds is not needed for the first three. `IInv` says what each thread may rely on while the other one
runs: the bytes the writer counted are still free (`Room`), those the reader counted are
still queued (`Credit`), and the head has not passed the tail since the writer first read
it (`Passed`). `SizesAreRight` is the lemma about `get_freesize` and `get_codesize`: with
the reserve free, the subtraction over machine words gives the true number, and the two
are each other's complement.

`Implements` needs it (`FullInv`). `Nodes` says that there are numbers `e[i]`, the bytes of
the first `i` nodes, with which every offset has a place in the stream of all bytes ever
appended: that of the head, and how far ahead of it the offset lies round the ring
(`Place`). In these terms the end of the ring disappears: the nodes not released lie end
to end from the head to the tail, each whole (`Whole`), and so does the one about to be
published, unless its copy left the ring. `Reading` says that the reader is at the first of
them and that the tail it read is not short of its end, so no message is found corrupt
(`ReadsFirst`) and a copy in one part is only made of a message in one part (`CopyFull`);
`InOrder` that what it took are the first nodes. `NodeReleased` and `WriteNodeFull` are the
two places where the ring matters: moving the head leaves every place but those behind it
as it was, and what the writer fills has no place of a node.

### Connections: `SocketManagerProofs`, `ShutdownProofs`

For any set of connections, any choice of calls (`Api`) and any bounds:

* `TypeCorrect`, `OneSocket` (`OneSocketPerIndex`), `BrokenOnce` (`BrokenAfterConnect`);
* `NoneDangles` (`NoDangling`), where `addConnect` is not called while a connect is
  pending. Without that hypothesis the run `evicted_connect` refutes it;
* `Attempting` (`AttemptsBounded`), for one connection and a maximum of at least one.
  With two the retry of one evicts that of the other, which is counted all the same.

The invariant `Inv` is `TypeOK`, `OpeningOne` (a socket is being opened in one phase
only), and `Sound`: one connect is pending at most (`OneAdding`), one socket for each
index, and `Detail` as long as no pointer dangles. It cannot hold after: the socket of a
dangling pointer may be made again for another index. `Detail` is `Owned` (a socket in a
map was made for the index it is listed under), `Phased` (what each phase of the net
thread knows of the maps: that nothing is deleting while a connect is tried, that a client
that is deleting is not read again, which sockets an iterator has passed) and
`AllReported` (the last event of a client that is not deleting is its connect).
`NoDangling` follows because a socket is deleted only in the phase in which `Phased`
leaves it in no other map. `AttemptsBounded` needs `Counted`: the last attempt is counted
in the pass in which it is made, and its outcome erases the count.

The first half of `ShutdownProofs` has `OpenOwned`, for all calls: every open descriptor belongs to a
client that was not removed, or to the socket being opened, so none is lost. The converse,
for all calls too, is `Numbered`: until a socket gets the number of a removed client
(`reused`), no two clients have the same one, a client's descriptor is open and its own
unless it was removed (`OwnDescriptors`), and it is in the set and not above `m_maxsock`
unless that was `lowered` (`AllWatched`). Hence `Watching` (`ConnectedIsWatched`) and
`NoneMisrouted` (`RightUnlessReused`): the reuse of such a number is the only way to a
wrong peer, and the run `descriptor_reuse` takes it.

The second half carries both invariants through the life of the thread (`ShutInv`):
`ShutTypeCorrect`, `AllClosed` (`NothingLeftOpen`: when the thread has ended before the
destructor frees the clients, `pc` is outside `open`, so `OpenOwned` says that every open
descriptor is of a client), `NoneDanglesBefore`, and `WatchingBefore`
(`ConnectedIsWatched` again, for all calls).

### The script: `NetSocketProofs`

* `LuaInvariance`, `LuaTypeCorrect`: the invariant of the sockets holds under the calls
  `NetSocket` makes, for any script, any number of objects and any length of the queue.
* `Sessions` (`ImplementsSession`): for a script that waits for its answers (`Patient`),
  whether connects overlap or not and whatever the queue loses, every object implements
  `Session`. It rests on `Answered`: an object has one request waiting or one answer in
  the queue, never both and never two (`OneAnswer`), and asked for it (`Said`). The
  refinement mapping is `StatusOf`: gone, up, asked or idle, from `inArr`, `isConnected`
  and `asked`.
* `FlagsAreTrue` (`FlagIsTrue`): for one connection and a `Patient` script, as long as
  no event was lost. `OwnOpen` says
  that the descriptor of a client is open and its own, `Flagged` that what an object says,
  or will say when an event reaches it, is true or followed by the event of the end. Each
  hypothesis is needed (section 3, beyond the listed runs).

### Framing: `RecvStreamProofs`

For any lengths of messages longer than the length word and not longer than the buffer,
any buffer, receive queue, connections, breaks and splits of the streams:

* `TypeCorrect` (`TypeOK`): the buffer is never written beyond its end, spoiled or not;
* `FramesAreMessages` (`PacketsUnlessSpoiled`) and `NothingIsHeldBack`
  (`NothingHeldBack`), the two invariants of the run `recv_frames`.

`IInv` is `Typed`, which always holds, and `Sound` as long as nothing has spoiled the
buffer. `Typed` adds to the types where the buffer ends between two calls and within
one. `Sound` is `PacketsAreMessages` and

* `Kept`: what was read of a stream is the messages posted of it and the bytes that wait
  (`Held`), which are the stream's bytes behind those messages, less than a message
  between two calls. The length word at `pStart` is therefore one of the stream's, and
  its value the length of the next message (`NextMessage`);
* `Past` and `Begun`: no packet and no byte that waits is of a stream still to come, so a
  new connection begins with neither;
* `Short`: bytes too few for a length word do not pass for a packet, because the
  `msg_len` that is left from before is larger.

Where a message ends is a recursive function of its number (`StreamEnd`); `StreamEnds`
and `EndsGrow` show, in the way described under Packets, that it is defined and grows,
so that an offset determines a message. `NothingHeldBack` counts the packets of a stream
among all that were posted, hence `OneMore`: a post adds one to its stream and leaves
the others and the order as they were.

### Packets: `PacketsProofs`

* `SendKeepsWhole`: what is accepted is whole, for every length and for all buffers at
  least as long as the queue (`LimitAssumption`).
* `BufferFits` (`BufferInProportion`): for every factor, growth and number of tries, the
  decode buffer is never longer than its first packet and one enlargement of the longest
  content explain. The loop is a recursive function of the number of turns; that it is
  defined, grows and stops at the first length that suffices is shown by looking at the
  least turn where it would not be (`LeastNumber`, `CountingUp`, from the library's
  well-founded minimum).
* `FirstFits` (`FirstIsDecoded`): where the tries are enough for one byte at zlib's highest
  ratio, the packet that makes the buffer is decoded. With 5 times, 5 tripled enlargements
  and 1032, they are: 1215. `MCPackets` has TLC evaluate that (`EnoughAssumption`).
* `RawIsRare` (`RawAtMostThrice`): where three times the tries take the first buffer of
  the shortest body to what the longest can decode to, at most three packets are handed
  over compressed, of any number. The three is that of the program's lengths, which
  `MCPackets` has TLC evaluate for all bodies from 8 to 524272 bytes
  (`RareAssumption`). A packet is handed over only after all its tries, and what it asked
  for is no more than the longest will, so that the buffer has climbed that one loop by all
  the tries of each (`Climbed`); after three it is at the end.

### Only model-checked

* What needs fairness or ENABLED, which the prover does not treat: `DeliversAll`,
  `LeavesUnlessOutside`, and the leads-to properties of `one_connection`, `shutdown` and
  `script_view`.

These are all the properties of the runs that no theorem states: the invariants, the
action properties and the three refinements, as far as they are safety, are proved.

## 5. Not modelled

* `_sendTo`, `clearSocket`, `test`: no caller. `IPforConnIndex`, `PortForConnIndex`:
  only look things up. `EINTR` of `select`: the next pass does the same.
* The order of plain stores on a weakly ordered machine (builds without WIN32).
* Data races inside one `std::map` operation.
* The choice among the five queues of `CMessageQueue`: two are installed, each named by
  its callers.
* `HttpManager`: the bodies of its requests and of `process_http_response` are commented
  out, so the queue that `NetManager::Update` polls is always empty.
* `Downloader`: never constructed, since `NetManager::Download` returns false. As it is
  written, `getLocalFileSize` answers 0, so that a file that is not empty would be
  fetched for ever, and an `append` just before its thread ends would not be seen.
* `setAutoConnect` is bound to Lua, but `NetSocket.lua` does not call it: `NetSocket`
  has it off, `SocketManager` has both.
* The setters of `MsgProcessHandler` and the registration of its Lua handler; singletons,
  Lua bindings, build stubs: no behaviour of their own.

## 6. Plan

Modelled and checked, in the order of importance: `Fifo`, `CircleQueue`, `ClearedQueue`;
`SocketManager`; `RecvStream`; `NetSocket` and `Session`; `Shutdown`; `ScrapQueue`;
`Packets`. Proved: section 4, which leaves the liveness properties. What could be added to
the models is in section 5: each part has no caller, no logic of its own, or is undefined
behaviour of the program.
