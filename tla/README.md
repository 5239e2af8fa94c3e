# PandaRC in TLA+

PandaRC is a remote-control program: a Windows client captures its screen and
streams the changed rectangles, a relay server passes them on, and another
client draws them. This directory holds TLA+ specifications translated from
that code, the TLC configurations that check them on small instances, and
TLAPS proofs of the properties that should hold for instances of every size.
The repository has no design documents and no tests for this code; its
statements of intent are the comments in the headers, its log messages, its
assertions, and for ENet the tutorial that comes with it.

## The system

| part | source | state it keeps | operations |
|---|---|---|---|
| relay server | `Server/source/Room`, `Server/source/Server.cpp` | users (`m_oUserMap`, peer, room list), rooms (`m_oRoomMap`, heap objects), room id counter | LOGIN, BUILD, UNBUILD, FRAME_SYNC, connect, disconnect; one thread |
| network | `Common/Network/Network.cpp` over ENet | client peer, server host, per-slot data pointer | Connect, Send2Server/Send2Client, Update, Close |
| ENet | `3rd/enet-master` | peers, channels, windows of sequence numbers, lists of commands | connect and its handshake, send, receive, acknowledge, time out |
| protocol | `Common/Network/Protocol.h`, `Cmd.h` | none | packed packets, frame header only in packet 0 |
| client GUI | `Client/PandaRC.cpp`, `GLClientViewer.cpp` | login flag, user id, viewers, room maps, queue of net messages, streaming handler | login, build, dispatch of one message per timer tick, viewer close, paint |
| client net thread | `Client/QNetThread.cpp` | `m_isConnected`, connect callback, `m_oMutex` | connect, run, sendMsg, sendMsgRaw, OnConnect/OnReceive/OnDisconnect |
| client frame thread | `Client/QFrameThread.cpp` | server and client frame lists under `m_pdMutex` | run, addServerFrame, addClientFrame, getClientFrame |
| capture pipeline | `Client/desktop`, `desktip-ipc`, `region`, `mirror-driver` | update container under `UpdateKeeper`, frame buffers, three detector threads | detect, addChangedRegion, addCopyRect, extract, filter |
| mirror driver | `MirrorDriverClient.cpp`, `Win32MirrorScreenDriver.cpp`, `MirrorScreenDriver.cpp` | driver state flags, ring of changes | open, load, connect, poll, unload, close |
| threads | `Client/thread`, `win-system/WindowsEvent.cpp` | active/terminated flags, list of dead threads | resume, wait, terminate, deleteDeadThreads |
| logger | `3rd/logger/Logger.cpp` | list of lines, lock, pipe | Init, Print, LogThread, Terminate |
| common library | `Common/DataStruct`, `Common/TimerMgr`, `Include/Network/MailBox.h`, ... | queues, heaps, locks, timers | linked into neither server nor client |

Interactions. The client GUI calls the net thread (`sendMsg`), the net thread
calls back into the GUI object (`onReceiveNetMsg`) and into the login callback;
detector threads push frames into the frame thread, which sends them through
the net thread; received frames go GUI -> frame thread -> paint signal -> GUI.
Between machines everything goes through the relay: channel 0 carries requests
and replies, channel 1 frames, each reliable and ordered on its own.

What is hard about it:

* the server frees rooms but keeps their map entries, so later packets reach
  freed or reused memory;
* a connection may be dropped without notice and time out much later, while the
  same user is already back on another slot;
* the client has three locks (`m_oMutex`, `m_netMsgMutex`, `m_pdMutex`) that
  three threads take in three different orders;
* the frame queues are shared by all viewers and a paint signal is emitted only
  when a list is moved;
* three detector threads run the same listener concurrently over one extractor
  that says it is called from one place, and start before it is finished;
* the picture a viewer draws is the sum of changes that passed through two
  lists, packets and a relay, while rooms come and go;
* thread life cycle flags are written both by the thread and by its creator;
* notifications (the logger's pipe, the mail box's byte, a condition) are sent
  only when a list was empty;
* ENet's numbers come round while late copies are still on the network.

What makes each part correct: user and slot bindings agree; a relayed frame
only reaches viewers of the streamer that sent it and never touches a dead
room; rooms end for a cause, and both ends know the same rooms; client threads
never wait on each other for ever; a received frame is drawn in the end, once
and in order, and what is drawn is what was sent; the extracted update
covers what changed on the screen; no thread object is deleted under its
thread; nobody sleeps beside work; a channel delivers each packet once and in
order.

## Modules

| module | what it is | lines of code it stands for |
|---|---|---|
| `RoomMgr` | the relay server; implements `Relay` | `RoomMgr.cpp`, `Room`, `User`, `Network.cpp` |
| `Relay` | what the relay promises: who is in, which rooms are open, where frames go | |
| `ClientThreads` | GUI, net, frame and detector threads over the client's three locks | `PandaRC.cpp`, `QNetThread.cpp`, `QFrameThread.cpp` |
| `FrameQueue` | received frames from the packet to the window; implements `FrameFifo` | `QFrameThread.cpp`, `GLClientViewer.cpp` |
| `FrameFifo` | the promise: accepted frames are drawn once and in order | |
| `Session` | several clients' logins and rooms, the server of `RoomMgr`, and the connections between them | `PandaRC.cpp`, `QNetThread.cpp`, `Network.cpp` |
| `Sharing` | a screen shared from the sharing client's frame list to the windows: the pictures | `UpdateHandlerServer.cpp`, `QFrameThread.cpp`, `PandaRC.cpp`, `GLClientViewer.cpp` |
| `UpdatePipeline` | driver's ring, keeper, filter and copy, by three detector threads at once | `UpdateHandlerImpl.cpp`, `UpdateHandlerServer.cpp`, `MirrorScreenDriver.cpp`, the detectors |
| `UpdateKeeper` | the container of changes, the window that moved and the copy it makes, point by point | `UpdateKeeper.cpp`, `CopyRectDetector.cpp`, `FrameBuffer.cpp` |
| `UpdateFilter` | the comparison of a region with the back buffer, in blocks | `UpdateFilter.cpp` |
| `Regions` | rectangles, regions as sets of points, clipping of a copy | `Rect.h`, `Region.cpp` |
| `ThreadLife` | threads that end on their own and the collector that deletes them | `Thread.cpp`, `ThreadCollector.cpp` |
| `Logger` | Print, the log thread and Terminate | `Logger.cpp` |
| `MirrorDriver` | the driver switched on and off, with calls that fail | `MirrorDriverClient.cpp` |
| `RWLock`, `ReadersWriter` | the spinning readers-writer lock, and what such a lock promises | `RWLock.h` |
| `MsgQueue` | a queue with a mutex and a condition | `MsgQueue.h` |
| `MailBox` | a list with a byte for who sleeps, over a socket or an eventfd | `MailBox.h`, `XSignal.h` |
| `HeapArray`, `MinHeap`, `TimerMgr` | the heap, its operations, and the timers over it | `MinHeap.h`, `TimerMgr.cpp` |
| `EnetChannel`, `ReliablePipe` | reliable packets over a bad network, and the pipe they make | `peer.c`, `protocol.c` |
| `EnetConnect` | ENet's handshake over several attempts, and a restart of the server | `protocol.c`, `host.c`, `peer.c` |
| `MC...` | instances for TLC | |
| `...Proofs` | the theorems | |

Operators named `...Mutant` (and a few others whose comment says so) stand
right before the definition they vary. They are wrong on purpose: replacing the
definition by them must make a property fail, which shows that the property
depends on that piece of code.

### RoomMgr

One action per packet handler of `RoomMgr::OnReceive` and per event of
`Network::Update`; the server is single-threaded, so a handler is one step.
`userMap`, `roomMap` and `roomList` are the server's tables, `peerData` is
`ENetPeer::data`, `userPeer` is `User::m_poPeer`. `heap` maps memory blocks to
`Room` objects or `NULL`, because `UNBUILD_REQ` deletes the object and leaves
its address in `m_oRoomMap`: with the heap explicit, a stale entry is either
dangling (`Dangling`) or names a newer room that was given the same block, as
the allocator may do. `crashed` is set where the code uses freed memory or a
null pointer; afterwards nothing happens. `sent` holds the packets the last
step queued, since which packets leave is what `Relay` speaks about.

The room id counter stops at `BuildLimit`. The code takes ids modulo 2^31-1;
the assumption `BuildLimit <= MaxRoomID` says that the wrap is not reached.
Beyond it a new room takes over the map entry of an open one, so
`LiveRoomsListed` would not hold: the bound is part of the claim, and a server
that opens a room per second needs 68 years to reach it.

The environment is the client of this repository. A connection sends at most
one `LOGIN_REQ`, because `loginReq` is only called from the connect callback
(slot state `"asked"`); everything else may come in any order from any slot,
logged in or not.

### ClientThreads

A step is what a thread does between two lock operations. `pc` names the
place, after the function the thread is in; `Holds` and `Wants` give the
places where a lock is held and waited for, and `owner` is set only by
`Acquire` and `Release`, so that the two agree is something to prove. The locks
are Windows critical sections and recursive; the one place that relies on it
is the connect callback, which sends under the lock its thread already holds.

`dispatchNetMsg` handles a message under `m_netMsgMutex` throughout: unpacking
frames, opening a window, deleting the update handler. Deleting the handler
joins its threads, first the cursor detectors and then the mirror driver's
(`Win32MirrorScreenDriver::terminateDetection`), while these may be waiting for
`m_pdMutex`. `closeEvent` kills the net and frame threads without regard to
their locks; the application lives on while viewer windows are open, so the
GUI's steps go on.

Locks inside the update handler (`m_updContLocMut`, `m_fbLocMut`) are left out:
no code path takes one of the three shared locks while holding them.

### FrameQueue

`clientList`, `oneFrame`, `viewer` (the map entry with key 1, the only key the
code uses), `asClientRoom` are the code's variables. `posted` counts, per
window, slot calls that Qt has queued: the signal is emitted in the frame
thread, the windows live in the GUI thread, so the connection is a queued one,
and deleting a window removes its calls. `drawn` is the history of drawn
frames. The drawing loop takes `m_pdMutex` once per frame, so it is one action
per frame, and the frame thread may run in between.

### Session

The server is an instance of `RoomMgr` and its variables are the session's: each
request in the queue `up[p]` of a slot is handled by one of `RoomMgr`'s actions,
and what that puts into `sent` goes into the queues `down[c]`. The theorem
`SessionRunsTheServer` states that the composition is faithful: what the clients
do to the server is a behaviour of `RoomMgr`. `link[p]` is the client whose
connection occupies a slot, `peer[c]` the slot a client uses. A connection
breaks on each side alone: `OnClientDisconnect`, `OnServerDisconnect`, and the
reset in `Network::Connect`, which tells the server nothing. `isConnected`,
`netMsgList`, `bLogin`, `userID`, `asServerRoom` and `asClientRoom` are the
clients' fields; `DispatchNetMsg` handles one message, as a tick of the timer
does. `overlapped` and `unheard` are history variables: `RoomsAgree` needs them to
name the two cases in which the code does not keep the sides together.

### Sharing

One client shares a row of tiles with any number of viewers. `AddServerFrame`
is a detector that puts a frame into the sharing client's list
(`UpdateHandlerServer.cpp:55-74`): while the handler exists, any frame, at any
time, since three detectors do it side by side; what they copy is
`UpdatePipeline`'s matter. A frame carries for each of its tiles how many frames
of the tile were queued up to it, so newer and older mean the order of queueing
here, not the order of copying. `UpdateServer` is the frame thread's packing of
the list into FRAME_SYNC packets (`Protocol.h`), `FrameSync` the relay,
`OnFrameSync` the viewer's unpacking, `DrawFrame` the window. Joining and leaving
are a BUILD and an UNBUILD that travel on channel 0, so they may overtake frames
or be overtaken; the handler is made when the first room opens and deleted with
the last.

### The capture pipeline

`UpdatePipeline` has the threads and the constructors. The mirror detector reads
the driver's ring (`ring`, `counter`, `lastCounter`) into `keeper`, the cursor
detectors set `flag`, and each of the three then runs the whole way: `Extract`
takes the keeper together with the move of a window that `getCopiedRegion` found,
`Filter` repeats the move in the back buffer `fb` and compares under `m_fbLocMut`
(or, when the screen cannot be grabbed, repeats the move and returns),
`TestAbsolute` and `ClearAbsolute` are the unlocked test and clearing of
`m_absoluteRect`, and `CopyUpper`, `CopyLower` and `AddServerFrame` copy each
rectangle of the changed and then of the copied region out of the back buffer
without the mutex, in two halves, and queue the frame. The constructor asks for
the first full update in two steps, and `UpdateHandlerServer` stores its pointer
last, while the detectors already run; one that calls through the pointer before
takes the action `Crash`. The content of an area is the number of times it was
painted; `best` is the newest content a frame showed whole, `last` the last frame
queued, and `shared` are the areas of a thread's container that another thread
had in its own at the same time.

`UpdateKeeper` and `UpdateFilter` have what is one step there, at the level of
points. In `UpdateKeeper` programs paint, which the driver reports, and a window
is moved, which nobody reports until the next update asks `CopyRectDetector`
(every `extract` does, `UpdateHandlerImpl.cpp:60`): `Extracted` is the clipping
and correction of the move and what `addCopyRect` makes of the changed region,
and `SendUpdate` repeats the copy in the back buffer, compares and sends. The
window may be anywhere, beside the screen as well, and overlap its old place.
`UpdateFilter` is the scan in blocks, which skips half a block after a row that
differs.

### Behind the program

`Logger`: the lock is held across the write to the pipe, and the write blocks
when the pipe is full; the step that queues and the step that writes are two.
`ThreadLife`: `resume` runs the thread first and notes that it is active
afterwards. `MirrorDriver`: every call of Windows may fail and the code goes
on; `system` outlives the object that switched it.

### The common library

Neither program links it. It is modelled because it is the repository's own
concurrent code: one step of `RWLock` is one atomic operation, of `MsgQueue` and
`MailBox` what is done under the lock. The timers' callbacks may register and
remove timers in the middle of `ExecuteTimer`. `HeapArray` has the heap's array
operations, with the two loops of `FilterUp` and `FilterDown` as functions on the
places they pass; `MinHeap` is the class by itself and `TimerMgr` uses the same
operations, ranking timers by `m_nExpireTime`. `PutBack` is the loop at the end of
`ExecuteTimer`.

### ENet

`EnetChannel` is one direction of a connection: `wire` and `acks` are the
datagrams under way, any of which may be lost, delivered late or again;
commands are numbered modulo `Windows * WindowSize`, 2^16 in the code. A packet
is one command, or one for each fragment; `Ends` gives the number of each packet's
last. `held` is the receiver's `incomingReliableCommands`. The model is shown to
implement `ReliablePipe`, which is what `Session` and `Sharing` take a channel to be.
`EnetChannelAssumption` says what this takes. Half of the windows stay free, as in
the code. A copy is late by less than `Lifetime` commands, and with the size of its
packet that is at most `(Free + 1) * WindowSize + 2`, 36,866 in the code: this is
an assumption about the network. No packet has more than `WindowSize + 1`
commands, 4,097 in the code, about 5.6 MB: this is one about the program, since ENet
lets packets be 32 MB (`host.c:103`) and have a million fragments. Both are exact:
on the instance of the run `network`, given a few packets more, TLC finds
`ChannelSafe` violated with a `Lifetime` one higher, and with a packet of
`WindowSize + 2` commands. A frame would have to reach that size compressed.
`EnetConnect` is the handshake: the network is the set of all that was ever
sent, so anything may arrive at any time and again. It assumes one thing about
age: the copies of a CONNECT do not outlast a slot's time-out (31.5 s with the
defaults); the client waits 5 s for an answer. The session number of two bits is
`SessionCount`, 4 in the code.

## Runs

A run with several subjects checks one of them in each behaviour: the variable
`subject` of its MC module is chosen in the initial state and the other modules'
variables keep their initial values. That keeps a component's questions
together without multiplying its parts' states.

| run | instance | distinct states |
|---|---|---|
| `roommgr` | 3 users, 3 slots, 2 blocks, 3 room ids | 27,725 up to symmetry |
| `roommgr_unbuild` | 2 users, 2 slots, 2 blocks, 3 room ids | stops at the violation |
| `clientthreads` | 2 cursor detectors, mirror detector, 2 rooms, 1 message | 187,596 up to symmetry |
| `clientthreads_live` | mirror detector only, 1 room, 1 message | 17,736 |
| `framequeue` | 3 windows, 2 rooms, 4 frames, packets of 2 | 444,381 |
| `session` | 2 clients, 2 users, 2 slots, 2 blocks, 2 room ids, 2 connections and 2 windows of a client, 1 message in a queue | 1.4 million up to symmetry |
| `sharing` | 2 viewers, 2 tiles, 2 frames of each, 2 joins | 1.21 million up to symmetry |
| `capture` | see below | 1.38 million, the pipeline up to symmetry |
| `background` | logger: 2 printers of 2 lines, pipe of 2 bytes, a warning at every second line; collector: 3 threads; driver: 3 lives, 5 failures | 100,314 |
| `common` | lock: 3 threads; queue: 3 fetchers, 4 messages; timers: 3 timers, time up to 3; heap: 5 elements with 3 keys | 276,998 |
| `network` | mail box: 2 senders, 5 messages, over a socket of 2 bytes and over an eventfd; channel: 12 numbers in 6 windows, packets of one and two commands, either 5 packets (7 commands) with up to 5 commands at once, or 12 packets (15 commands, more than a lap) with few at once; handshake: 2 slots, 4 attempts, 1 restart | 145,939 |
| `live` | sharing: 1 viewer, 1 tile; login: 1 client, 3 slots, 3 connections; pipeline: 1 area, 2 threads; channel: 2 packets; mail box: 3 messages | 15,495 |

`capture`: the pipeline on two areas, a ring of 2 and 2 paints of an area, in
three parts: `threads`, all three detectors on a finished handler without window
moves; `moves`, the mirror detector and one cursor detector with windows moved
between the areas in both directions, and a screen that can or cannot be grabbed;
`early`, the same two detectors reporting from the constructor on. The keeper on a
square of two by two, paints of one point and of the whole, and a window of two
points that may be on it, stick out of it or be beside it, with two changes between
updates. The filter in blocks of 4 on every difference that pictures of 9 by 1, 5
by 2 and 2 by 6 can have.

What the properties say:

| property | meaning |
|---|---|
| `PeerBinding` | user and slot point at each other |
| `RoomTables` | `ListedRoomsLive`: every id on a streamer's list leads to the live room of that id; `LiveRoomsListed`: no live room is off its list |
| `CrashCause` | only a build that names an unknown user and an unbuild of a deleted room bring the server down |
| `ImplementsRelay` | refinement of `Relay` |
| `DeadlockIsLockCycle` | the one set of threads that can block each other for ever |
| `NoDetectorWithoutHandler` | no detector runs after its handler is gone |
| `GUIReturns` | the GUI thread gets back to its event loop, except in that cycle and behind a lock orphaned by `closeEvent` |
| `NoDanglingViewer`, `BatchIsSignalled`, `ImplementsFifo`, `FramesDrawn` | the window map, the paint signal, order and number of the frames, and that they are drawn |
| `LoginMeansBound`, `AcceptedIsBound` | on a client's first connection its flag means it is logged in; a login accepted on the present connection is one the server has, however often the client connects |
| `RoomsAgree` | `StreamerKnowsRooms`: the streamer's rooms and the answers under way give the server's list; `NoRoomWithoutWindow`: a viewer without a window keeps no room |
| `InStep`, `NeverBack`, `HandlerForRooms` | once nothing is under way a window shows the frame of a tile that was queued last; it never goes back to one queued before; the streamer has a handler exactly if it has a room |
| `ChangeOnItsWay` | while the screen can be grabbed, a content no frame has shown whole is in the ring, the keeper, or a thread's hands |
| `UnsharedInStep` | a frame sent by a thread that shared the area with no other is of one moment, and shows the screen once the area's changes are handed over |
| `KeeperExact` | `KeeperTypeOK`, `NothingLost`: where the frames do not show the screen the next update will, except for what a window brought that came with nothing recorded |
| `FilterExact` | `NoDifferenceMissed`, `OnlyDifferences` (each rectangle is tight and within the region), `SentOnce` (no two overlap) |
| `LoggerSafe` | types, `NoLostWakeup`, `LinesKept` (no line lost, doubled or overtaken), `DueIsWritten`, `LateLines` (shutdown) |
| `CollectorSafe` | types, `RunningIsKept`, `AllEnded`: no object deleted under its thread, none left running |
| `DriverSafe` | types, `LeavesItOff`, `ReadsWhatIsMapped`: a clean life leaves the driver off, whatever failed before it; what is read is mapped |
| `AllReturn` | lines are written, Terminate and the collector's destructor return, except where a full pipe stops the logger (`PipeLock`, `ReaderGone`) |
| `ImplementsLock` | `RWLock` refines `ReadersWriter` |
| `LibrarySafe` | the lock's count; `QueueSafe`: each message fetched once, a signal for each; the timers are in one place, run once a pass, in order, and not after removal; the heap's root is least |
| `LibraryServes` | a writer and somebody among those waiting gets the lock, a message is fetched |
| `MailSafe` | types, messages in order, nobody asleep beside a message |
| `ChannelSafe`, `IsPipe` | packets whole, once, in order; nothing forgotten; the window counts; refinement of `ReliablePipe` |
| `HandshakeSafe` | no datagram of an old connection is taken, no attempt holds two slots, both ends mean the same connection, the program knows exactly the connected slots |
| `FrameIsShown`, `LoginSucceeds`, `PaintIsSent`, `NetworkDelivers` | what happens in the end |

Why these bounds are enough to be interesting. Two heap blocks and three room
ids let a room be deleted, its block reused and the old id asked for again,
with a third room still open; three users let one be streamer and viewer at
once and a third be involved in neither. In `ClientThreads` two rooms
distinguish "a room is gone" from "the last room is gone". One undispatched
message is enough to have the GUI handle a message while the net thread
delivers the next. Three windows let one be closed while two others are older
and newer. Four frames in packets of two make two batches, one of them growing
while the other is drawn. In `Session` two connections of a client give stale
answers, stale slots and refused logins; `Company` bounds the pair: either both
clients connect once, or one of them does all the limits allow while the other
stays away. Two tiles let a frame cover one of another's, and leave a window too
small for the next. Two paints and three threads are what it takes for a frame to
be copied in halves of different age and for an older one to be queued last. Two
bytes fill the logger's pipe with two printers at work. A window of two points on a
square of two by two may overlap its old place, be clipped on either side of the
copy, or leave nothing to copy. The filter's pictures have blocks cut off at an edge and a row
that is skipped. Four attempts are as many as ENet's two-bit session number
tells apart. The loop that PandaRC makes of timers and heaps is small enough to
be exhausted at three and five.

Symmetry is used for safety runs only, and only over values that the modules
compare for equality. `CHECK_DEADLOCK FALSE` is set where stopping is real:
after a crash of the server, in the lock cycle of the client, when all windows
are used up, when a program has ended, and when a bounded history is at its end.

## Fairness

`GUIReturns` assumes that a thread that does not wait goes on, and strong
fairness for taking a lock. Critical sections are not fair by themselves; what
justifies it is that each competing thread sleeps without the lock between two
uses (1 ms in `QNetThread::run`, 200 ms in `QFrameThread::run`, 10 ms and more
in the detectors). Loops over the frames of a packet and the rectangles of an
update end. `connect` returns: ENet waits five seconds at most. No fairness is
assumed for events from outside: messages, clicks, screen changes, exceptions.

`FramesDrawn` assumes that the GUI finishes its handler, that the frame thread
wakes up, and that queued calls are delivered (strongly, as Qt sends posted
events in each round of its loop).

`FrameIsShown`: timers run and packets arrive, each weakly fair; no detector need
queue a frame and nobody need join or leave. `PaintIsSent`: while the client is up
the constructor goes on, every thread that has something to do is scheduled, and
the mirror detector wakes every 200 ms. The cursor need not change, so no report of
a cursor detector is assumed: what is painted is sent, but what the screen showed
before is sent only once some detector reports to the finished handler.

`LoginSucceeds`: the user tries again and again and after a while waits for an
answer before the next try; after a while connections that both sides have no
longer break (`<>[][~...]`); those that only one side has do time out.
`NetworkDelivers`: ENet's sender sends and times out; losses come to an end, but
may go on for any finite time. A network that loses everything for ever
disconnects, which is another module's matter.

`AllReturn`: the log thread and a printer that waits for the lock go on, weakly; a
thread asked to end does. Weak fairness is enough for the lock: printers print
finitely many lines, so that it is free for good in the end unless its holder
waits for room in the pipe, which is the case `PipeLock` excepts.
`LibraryServes`: a spinning thread is scheduled and whoever has the lock
releases it; a woken thread gets the mutex; somebody fetches.

## What the checks found

* A second `UNBUILD_REQ` for a room that was closed can close another room
  (`roommgr_unbuild`). `Protocol.h:58` documents the reply's `code` as success
  or failure of the room it names; here it reports success for a room that did
  not exist any more.
* `CrashCause`: the server dies in just two cases, a build that names a user
  without a `User` object and an unbuild of a deleted room whose block is free.
  The second needs no misbehaviour: the streamer disconnects, then the viewer
  closes its window.
* The client can deadlock in exactly one way, `LockCycle`: net thread in
  `OnReceive` (holding `m_oMutex`), frame thread in `sendMsgRaw` (holding
  `m_pdMutex`), GUI handling a message (holding `m_netMsgMutex`) that needs
  `m_pdMutex` itself or joins a detector that does. Dropping any of the three
  nested acquisitions removes it.
* A window opened with the build button after the last window was closed over
  an undrawn batch stays blank: `updateClient` returns early as long as the batch
  is there and nobody is told. `BatchIsSignalled` therefore speaks of windows
  opened by `BUILD_RET`, which draw what waits when they open.
* `bLogin` is never cleared (`PandaRC.cpp:146`): after a disconnect the login box
  refuses to log in again, and a second click before `LOGIN_RET` is handled lets
  the first answer set the flag while the server refuses the second.
  `LoginMeansBound` therefore speaks of a client's first connection, and
  `AcceptedIsBound` of the answers themselves.
* `StreamerKnowsRooms` has an exception: rooms built while the streamer was off
  line are listed by the server and relayed to, and nobody tells the client.
* With three detectors a frame may mix two states of the back buffer and an
  older frame may follow a newer one, so that the last frame need not show the
  screen: `onUpdate` copies without `m_fbLocMut` (`UpdateHandlerServer.cpp:60`),
  and `UpdateHandler.h:77-78` relies on a single caller of `extract`
  (`UpdateHandlerImpl.cpp:68`). `ChangeOnItsWay` still holds, and `UnsharedInStep`
  says that it takes two threads with the same area in their containers at once.
  The mirror detector reports all paints, but a cursor detector's extract may take
  them out of the keeper (`onUpdate` tests the keeper, not who filled it), and a
  window move or `m_absoluteRect` puts an area into a container beside it.
* The detectors start inside the constructor (`UpdateHandlerImpl.cpp:41`), and
  the cursor detectors report before they sleep for the first time
  (`CursorShapeDetector.cpp:45-57`). A report may come before
  `UpdateHandlerServer` has stored `m_updateHandler` (`UpdateHandlerServer.cpp:31`)
  and go through a pointer that is not initialised; the part `early` has these
  reports. Or it clears `m_absoluteRect` (`UpdateHandlerImpl.cpp:81`) between lines
  44 and 45 of the constructor, which then adds an empty rectangle to the keeper:
  the comment at line 43, "Force first update with full screen grab", is then not
  met. `ChangeOnItsWay` excepts just the areas concerned (`Untold`).
* The first full update waits for a report: the call that would send it is
  commented out (`UpdateHandlerImpl.cpp:46`).
* When a move leaves nothing to copy, because the window comes from outside the
  screen, `addCopyRect` returns (`UpdateKeeper.cpp:90-92`) before it records the
  difference, "because without update detectors this information loses
  irretrievably", as its comment at lines 97-99 says. `CopyRectDetector` does
  report such moves, of a minimised window restored for one. The same goes for a
  window that was moved away, painted there and is back in its place at the next
  extract. Unless the driver logs those pixels itself, they
  stay unsent until something else touches them; `missed` in `UpdateKeeper` are
  exactly these points, and `NothingLost` says that nothing else is lost.
* `UpdateKeeper` takes the copy out of the changed region before it carries the
  changes under the source along (`UpdateKeeper.cpp:117`): when source and
  destination overlap, a change drops out of the region. It does no harm, as the
  filter compares the copied region with the screen as well (`UpdateFilter.cpp:58`):
  `KeeperExact` has overlapping moves.
* The logger stops for good when its pipe is full: a printer waits in its write
  with the lock held (`Logger.cpp:185`) and the log thread, the only reader, waits
  for the lock (`Logger.cpp:204`); or the log thread has seen `m_bTerminate` and
  ended, and Terminate waits in its own write (`Logger.cpp:66`). `AllReturn` excepts
  the two cases by name. The pipe of an operating system is large, and the log
  thread reads a byte whenever it has found the list empty; it takes a long series
  of lines that each meet an empty list while the thread is still writing.
* The mail box drops its byte when the socket is full
  (`MailBox.h:67`), which is harmless: the bytes already there wake the reader.
  `MsgQueue` has a maximum but only prints a message when it is reached
  (`MsgQueue.h:101`). A timer id may come round to one in use
  (`TimerMgr.cpp:44`).
* `Thread::m_active` is written by the thread and by `resume` without a lock
  (`Thread.h:89`, `Thread.cpp:83`): a thread that ends at once stays "active" and
  is kept until the collector is destroyed. Nothing is deleted too early.
* "Mirror driver is unloaded" is printed whatever the calls returned
  (`MirrorDriverClient.cpp:343`); the next life that succeeds repairs it.
* ENet. The session number of two bits comes round: of the parts of
  `HandshakeSafe`, `OwnDatagramsOnly`, `NoGhostConnected` and `EndsAgree` hold for
  as many attempts to connect as there are numbers, which is proved, and fail once
  the number has come round and a datagram of the first attempt is still on the
  network: TLC finds each of the three violated with one attempt more;
  `OneSlotEach` and `ProgramKnows` held there as far as the search went. A stale VERIFY_CONNECT (`protocol.c:952`) ends the next
  attempt. A copy of a command, or an old command sent again, can be taken for a new
  one when copies are later than `EnetChannelAssumption` allows or a packet has
  more than 4,097 fragments; up to there the channel is proved safe. A sender that is many windows
  ahead of a lost acknowledgement is refused the repetition each time
  (`peer.c:598`), so `AllAcknowledged` is checked within a few windows. A first
  command held back by its window holds back all channels (`protocol.c:1553`).

No document or comment of the repository says otherwise about most of these, so
they are recorded as exact statements that hold, with the exception in their
text, rather than as violations.

## Proofs

TLAPS checks the following for every value of the constants that meets the
modules' named assumptions. The assumptions say that constants are of their
kind (numbers, sets without the null value); four say more: `BuildLimit <=
MaxRoomID` above, the finiteness of the fetchers and lock threads, whose numbers
are counted, `1 % Many # 0` for the logger's 1024, and `EnetChannelAssumption`. Two
theorems, and no others, have a hypothesis of their own, each the point up to which
numbers have not come round: `MaxConnects <= SessionCount` and `MaxTimers <= MaxId`.

`RoomMgrProofs`. `TypeCorrect`; `PeerBindingHolds` (inductive with the types);
`RoomTablesHold`, from the invariant `RoomInv`, which adds that ids in use do
not exceed the counter and that every listed id leads through the map to a live
room of that id and owner: without the id bound a new room could overwrite an
old entry, without the owner a deletion could clean the wrong list.
`CrashCauseHolds` is an action property that follows from the same invariant:
frames and disconnects only use listed rooms. `RoomMgrImplementsRelay` maps
rooms to live heap objects and shows one lemma per handler.

`ClientThreadsProofs`. The inductive invariant says that a thread owns exactly
the locks its place holds (`Ownership`) and that during a join the handler
exists and joined detectors stay ended (`Joining`). Three lemmas (`Take`, `Drop`,
`Move`) preserve the former for any step of that shape; each action is then an
instance. `DeadlockIsLockCycleHolds` follows chains of waits: the only place
where the owner of `m_oMutex` waits is `OnReceive`, of `m_pdMutex` it is
`sendMsgRaw`, of `m_netMsgMutex` it is the GUI's message handling, so every
deadlocked set contains all three. It holds for any set of detectors.

`SessionProofs`. Each step of the clients is shown to be a step of the server
or to leave it alone, by one lemma per way a request is handled
(`DrivesServer`); `SessionRunsTheServer` follows, and with it everything proved
of the server (`SameServer` lets the theorems of `RoomMgrProofs` be cited for the
instance). `AcceptedIsBoundHolds` and `LoginMeansBoundHolds` come from
`LoginInv`: besides the two properties it says that a connection the server knows
occupies its slot, that a client that never connected has heard nothing, and
that on a first connection every accepting answer not handled yet is for the
user the server has bound to the slot.

`RoomsAgreeHolds` is the longest argument. `Replay` says which rooms a client has
once it handled the answers under way: a room is open if an answer opened it, or
it was open before, and no later answer closes it. Two lemmas say what handling
the first answer (`ReplayTail`) and queueing more (`ReplayJoined`) change. The
invariant `RoomsInv` has three parts. A user off line hears of none of its rooms
(`OffLineUnheard`), so a login starts from nothing known and nothing owed. Ids
that a client has, is about to get or never heard of were issued
(`KnownIssued`, `UnheardIssued`), so a new room is new to everyone; without this a
viewer could refuse its window. And for a client on its first connection `Knows`
states the streamer's half room by room, `Views` the viewer's: each room it has
on the server is promised by an answer under way, has the window, or its closing
is under way (`Awaited`). The server's handlers are brought down to four effects
(`HandledAs`), and the tables of `RoomMgrProofs` (`TablesHold`) tell which room an
id leads to: as long as no block of a closed room is used again
(`BlocksDistinct`), a closing is reported to the streamer of the room it closed.

`SharingProofs`. `HandlerForRoomsHolds` follows from `RoomInv`: the rooms the
sharing client will know, after all it is still to be told, are the relay's.
`NeverBackHolds` needs the order of everything under way to a window: the frames
drawn, waiting, in packets, at the relay and in the streamer's list are sorted
by number tile by tile (`OrderInv`, `PictureInv`, `WindowInv`). `InStepHolds` adds that
the last number given is under way, came, or is lost to the viewer (`FollowInv`), and
that what came last is drawn or waits (`DrawnInv`). Nothing is assumed of who queues
which frame when.

`CaptureProofs`. `ChangeOnItsWay` does not say why an area whose back buffer is
up to date, but which no frame shows, is still sent: the invariant follows a
content through two stages. `NotFiltered`: where the back buffer differs from the
screen, the area is in the ring, the keeper or a container before its filter.
`NotSent`: where it agrees and no frame shows it, some thread that has filtered holds
the area and has copied nothing else of it so far. The second depends on the filter
comparing what was moved: repeating a move writes an area that is in the container
(`FilterIs`), so whoever has made the back buffer agree will send it. What
`m_absoluteRect` does only adds to containers, so the race on it does no harm.
`UnsharedInStepHolds` needs to say when a thread's copy is up to date although others
filter: two threads that hold an area both know it as shared (`Apart`), a thread that
does not share the area it copies has copied what the back buffer has
(`CopiedApart`), and a last frame sent alone is what the back buffer has, or the area
is with a thread that will send it (`LastIsBuffer`).

The keeper: `KeeperExactHolds`, with no assumption on moves. `ClipIs` says what the
two clippings and two corrections of a copy leave: the points of the moved window that
are on the screen and were before. From it `ExtractedIs`: an update checks all that was
reported, and all of the window if anything could be copied; whatever overlap does to
the changed region happens inside the copied one. `UpdateIs` says that the back buffer
and the frames then show the screen where it was checked, and `KeeperInv` ties both
together between updates.

The filter: `FilterIsSafe`, for any screen, difference, region and block size. Its
steps leave nothing to an invariant: a single step does all the work, and the
proof is about what the functions of `UpdateFilter.cpp` compute. One predicate
carries it through all of them: `Exact(U, P)`, the rectangles `U` are tight, lie
within the region `P`, hold all of `P` that differs, and no two overlap. It holds of
a trimmed rectangle (`SubRectIs`), of a run of blocks from its first differing row
(`RunRectIs`), of a row of blocks (`BandIs`: every block that differs is in exactly
one run, `RunThere` and `RunsApart`), of a big rectangle cut into such rows
(`BigRects`), of the scan with its skipped rows (`ScanRowGood`), and of the
rectangles of the region (`FoundIsExact`, with `RectsCover` and `RectsApart` for
`Region::getRectVector`); `ExactUnion` and `ExactBoth` put neighbours together. The
scan is a recursive function of the row: that there is one (`ScanIsThere`) and that
it is exact from every row on (`ScanExact`) is shown by a least counterexample,
counted from the bottom (`LeastNumber`). A skipped row is never lost since the
rectangle is only closed at a row that does not differ at all, which it leaves out.

`BackgroundProofs`. For the logger, `NoLostWakeup` is inductive with the types.
`DueIsWritten` needs where the lines are that were queued when Terminate came
(`DueKept`), `LateLines` that a printer whose line is left is not about to queue
another (`OneLate`). `LinesAreKept` is about order: `Numbered` says that a line
handed over has a number its printer has used, and a smaller one while the
printer waits for the lock, so the line that is queued next comes after all of
that printer's; five lemmas about heads, tails and appended sequences carry the
order from list to hand to output. Together they are `LoggerIsSafe`. For the
collector, `Life` relates the owner's, the thread's and the collector's progress
(`CollectorIsSafe`); for the driver, `CleanLife` says what a life without failure
has reached by each step (`DriverIsSafe`).

`CommonProofs`. The readers-writer lock: the counter is the number of threads
that announced themselves, the flag has an owner, and both together exclude;
`Refinement` maps places in the code to the abstract lock's sets. The message
queue: `QueueIsSafe`; no message is on the list twice, which makes the count of
fetches a matter of sets, and there are at least as many woken threads as
messages while somebody waits.

The heap: `HeapIsSafe`, from `HeapInv`: the array is without repetition, has the
elements that are inside, and none ranks before its parent. `FilterUp` is shown to
move places `1 .. i` only (`RiseIs`, by induction on `i`), `FilterDown` places from
`i` on (`SinkIs`, by induction on the distance to the end). `Remove` and `Update`
leave an array that is in order except that one element may have to move either
way (`OrderedBut`); `Settled` tries both, and only one of them moves anything.
Induction over a data structure is stated with sets instead of operators: the
numbers that have the property make a set (`AllNumbers`). That the functions exist
at all, which a recursive definition does not say, is shown the same way
(`UpIsThere`, `DownIsThere`).

The timers: `TimersAreSafe`, from `TimerInv`, which TLC checked on the run's states
before it was proved. `Placed`: a timer that was registered is freed, in the heap's
array or in the cache, in one of them only, and the map has exactly those that are
not cancelled. `MarkedAreDue`: a cancelled timer was given a time in the past, so it
is not left behind a timer that is not due; this is what makes the `Update` in
`RemoveTimer` necessary. `PassGoesOn`: what ran is in the cache or is the timer whose
callback runs, so it cannot run again in the pass, and what was due at the start
and neither ran nor was cancelled is still in the array and due. When the pass ends
the root is not due, hence by the heap's order nothing is, hence nothing due was
left out. `MaxTimers <= MaxId` says that the ids have not come round; after that a
new timer takes over the map entry of an old one, as noted above. With the lock and
the queue this is `LibraryIsSafe`, all that the run `common` checks of safety apart
from `ImplementsLock`, which is `Refinement`.

`NetworkProofs`. The frames: `BatchIsSignalled` is not inductive, as closing a
window takes its queued calls away. The invariant `EachIsSignalled` says that every
window opened by `BUILD_RET` has a call of its own. `FrameQueueImplementsFifo` rests
on two lemmas about concatenation. The mail box: `MailIsSafe`, of which
`NeverAsleep` needs no more than the types, for any socket size.

The handshake: `HandshakeIsSafe` holds for any number of slots, session numbers
and restarts under one hypothesis, `MaxConnects <= SessionCount`, which the
findings show to be exact. All datagrams ever sent stay in the network, so the
invariant has to say what tells old ones from new. `NoWrap`: the session number
lags behind the number of the attempt, so that it has not come round. `Grows`: the
session number of a connection the client completed is below that of any later
one. `NotBehind`: a slot serves no connection older than one it has answered. A
datagram that a slot takes has its session number, so by `Grows` it is not of an
older connection, and by `NotBehind` not of a newer one. `ClientWaits` and `Heard`
say which datagrams there are at all: none of an attempt before it is completed,
and each of a connection that a slot has verified.

The channel: `ChannelIsSafe` and `ChannelImplementsPipe` hold for any number of
windows of any size and any packets within `EnetChannelAssumption`. Both ends
decide by numbers modulo the round, so the invariant has to keep everything
compared within less than a round. `SpreadInv`: the sender is at most `Free`
windows past a command it waits for, and less than `Free` past what was delivered.
That holds because a window is begun only when those ahead are counted empty, so
`WindowsCounted` is part of the induction, and it in turn needs that an
acknowledgement removes the command it is for and no other. `LateInv`: nor is it
more than `Free + 1` windows past the packet of any copy under way.
`ForgottenInv`: a command whose acknowledgement is under way, or that the sender
has forgotten, is with the receiver for good. `ListsInv`: the sender's two lists
are disjoint and without repetition, hold all that was not sent yet, and each
channel's new commands are in order. `ReceiverInv`: the entries of the receiver's
list are packets in their order, each later than the last delivered one and within
half a round of it, so that the search from the end of the list finds the one
place an entry belongs and the head is dispatched exactly if it is the next
packet. `ChannelImplementsPipe` then asks of each step only that it gives one
packet to one channel (`Given`) or delivers more on one and no more than was given
(`DeliversMore`).

Only model-checked:

* liveness (`GUIReturns`, `FramesDrawn`, `AllReturn`, `LibraryServes`,
  `FrameIsShown`, `LoginSucceeds`, `PaintIsSent`, `NetworkDelivers`): the proof
  system has no rule for fairness;
* the violation of `roommgr_unbuild`.

## Not modelled

Painting and scaling, keyboard and mouse (handlers without state), compression
(a frame that does not unzip is skipped), Windows API calls of the detectors,
the kernel's mirror driver, ENet's unreliable packets, bandwidth and throttle,
the limit on the data in flight, the creation of hosts, `CopyRectDetector`'s
search for the largest of several moved windows (the keeper's window is the one it
would report), the frames that hold the cursor, the grab optimizer's choice of rectangles, the logger's
synchronous mode. The video region is always empty, the excluded region is never set
and the border never changes after construction, so they are not in the models;
`setFullUpdateRequested` and `addUpdateContainer` have no callers, and the part of
`extract` that applies new screen properties is not reached. The Lua, HTTP, CSV and word filter libraries that neither
program calls. `CircleQueue`, `PureList`, `SyncMap`, `Ranking`, hashes and encodings
of the common library: sequential helpers without callers. QTPanda, a separate
tool, except for the mail box it shares. Vendored code (TightVNC's tree, zlib,
mongoose, curl, mysql and lua headers), nine tenths of the repository's lines:
the client has its own changed copies of what it uses of TightVNC, and those
are modelled.

Nothing in the tree calls `MsgQueue`, `RWLock`, `TimerMgr` or `Logger::Terminate`;
the modules model them as their interfaces say they may be called.

## Plan

Every safety property of the runs, and every refinement, is proved. What the
project does not say yet:

1. what happens to room ids that have come round (`RoomMgr.cpp:23`) and to a frame
   packet with more rectangles than its 16-bit counter holds (`Protocol.h:120`);
2. a ring of changes that the driver laps between two looks
   (`MirrorScreenDriver.cpp:174`).
