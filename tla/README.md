# Verification of the P2P channel: TLA+ models, TLC runs and TLAPS proofs

This directory models the concurrent core of libp2pchannel: the peer slots of
the P2P adapter engine (`src/src/p2p/src/p2p_adapter.c`) under the publisher
and subscriber applications, the threads and queues of a session from start to
stop (`p2p_signaling.c`, `p2p_packet_queue.c`, `p2pav.c`), the video path from
the capture thread to the decoder, and the signaling server
(`src/src/signaling_server`, Go) under the sessions of its clients. Modules are
checked with TLC on small instances; their safety properties are proved with
TLAPS for all values of the constants.

## 1. The system

One *publisher* captures, encodes and sends media; up to 4 *subscribers*
receive it. A *signaling server* puts them in touch: each client keeps one
server-sent-events (SSE) connection open for what it is told, and sends what it
has to say in POST requests. Per subscriber, the two ends run an ICE agent
(libjuice), on top of it a QUIC connection (xquic), and in that a MOQ session.

    publisher app --calls--> engine --packets--> ICE ==network== ICE -> engine <--calls-- subscriber app
        |   ^ SSE events                                                          SSE events ^   |
        +-POST--> signaling server (store + pub/sub) ------------------------------------->--+   |
                                  ^-----------------------------POST-----------------------------+

### Components

| Component | Code | State | Operations | Module |
|---|---|---|---|---|
| Adapter engine | `p2p_adapter.c` | `peers[4]` (state, agent, connection, session, request flags), `peer_count`, receive queue | add/remove peer, ICE callbacks, xquic callbacks, QUIC start, restart, idle check, deferred removal | `PeerEngine` |
| Publisher application | `p2p_client.c` | the signaling handler in progress | peer_joined, request_offer, peer_left; ICE callbacks that ask for removal | `PublisherApp` |
| Subscriber application | `p2p_peer.c` | pending publisher, reconnect flag, main loop | ICE offer, full reconnect, watchdog | `SubscriberApp` |
| Signaling server, memory mode | `handler/*.go`, `store/memory.go`, `pubsub/local.go` | peers' records, rooms, event channels, handlers in flight | SSE connection, create/join/leave room, forward | `SignalServer` |
| Signaling client | `p2p_signaling.c` | connection, outstanding request; flags, connections and mutexes, threads | connect, create/join, post, disconnect; the SSE reader and its handlers | `SignalClients` (towards the server), `Session` (its threads) |
| Asynchronous POST ring | `p2p_signaling.c` 241-294 | 32 slots, head, tail | enqueue, drain | `PostRing`, in `Session` |
| Packet queue | `p2p_packet_queue.c` | ring with head, tail and count | init, push, pop, destroy | `PacketQueue`, in `Session` |
| Media path | `p2p_adapter.c` 588-641 and 1187-1234, `p2p_client.c`, `p2p_peer.c`, `p2pav.c` | frame queue, cached key frame, subscription, pause flags, wait for a key frame, jitter buffer | number and push, flush, subscribe, request a key frame, pause, receive, watchdog, show | `MediaPath` |
| `p2pav` session API | `p2pav.c` | as the applications, and a statistics thread | start, stop, send, receive, key frame requests | `Session`, `MediaPath` |
| Redis store and pub/sub | `store/redis.go`, `pubsub/redis.go` | JSON values in Redis | as the memory store, without atomicity | planned |
| Room manager | `room/manager.go` | | not used by `main.go` | no |
| Tokens, TURN, configuration, admin | `auth`, `turn`, `config`, `middleware`, `admin_handler.go` | none | | no: sequential and stateless |
| TLS, capture, codecs, rendering | `p2p_tls.c`, `p2p_av_*.c`, `p2p_sdl_*.c` | devices, sockets | | only how a POST and a read of the SSE connection end (`Session`); the rest is I/O |
| libjuice, xquic, mbedtls | `src/third_party` | | | the callbacks the adapter sees, and what becomes of frames in a MOQ track (`MediaPath`) |

### What is hard

- The slots are written without a lock by the engine thread, one libjuice
  thread per agent, the signaling thread and the application's main loop. The
  request flags (`needs_quic_start`, `needs_quic_restart`, `needs_ice_restart`,
  `needs_removal`) carry work between them, and `peer_count++`/`--` is done by
  two of them.
- Slots are reused, and the end of a QUIC connection is reported long after
  the slot went to another connection, or to another subscriber.
- Slots are not compacted, but most engine loops stop at `peer_count`.
- QUIC restarts, ICE restarts, full reconnects and a watchdog retry what may
  still be going on.
- The signaling server locks each store operation, not the handlers that
  combine them, and identifies connections by peer id only: a peer that returns
  quickly has two connections, the older of which is still to be cleaned up.
- Events are dropped when a channel is not registered or full.
- A session has up to six threads. Stopping it joins them one after the other,
  and between two joins frees what those that still run may be using: the
  connections, the mutexes, the packet queue, the engine.
- The two queues between these threads wrap around and fill up; one counts its
  items, the other leaves a slot unused to tell full from empty.
- Every frame has a stream of its own, so frames overtake each other and get
  lost; queues drop their oldest or newest frame; connections end with frames
  queued. The decoder must still get each frame after its predecessor, or wait
  for a key frame, but not for ever: requests for one are lost, too.
- Pausing is a message without an answer, about a flag that outlives the
  connection it was sent on.

Every hazard found while reading, with its line and the property that covers
it or the reason none does yet, is in `PROJECT.json` under "hazards".

### What makes each component correct

- engine: a slot never keeps a reference to a connection or session that xquic
  destroyed; a request flag is served; `peer_count` stays in range; an emptied
  slot can be used again.
- publisher: one slot per subscriber; a dead peer is removed.
- subscriber: at most one live connection, the current one.
- server: room capacity; a departure deletes only the peer's own room; a
  channel always has its reader; seats are on record and are freed.
- client sessions: what the client was told of its room is so; the publisher
  hears of exactly who comes and goes, in that order.
- threads of a session: nobody uses what was released; stopping ends and leaves
  nothing behind; the other side gets the description before what needs it; the
  queues are bounded FIFO queues and what is queued is served.
- media path: frames stay with their connection, leave in order and never go
  back; a frame is decoded only after its predecessor; waits for key frames end;
  the publisher pauses exactly when it was told to.

## 2. Modules

- **`PeerEngine`**: the slots and the engine thread. `phase` and `cursor` say
  where `engine_thread_func` is: `recv` (`process_recv_queue`), `start`
  (`process_quic_start`), `idle` (`process_manual_idle_check`), `restart`
  (`process_quic_restart`), `reap` (the deferred removals) and `main`
  (`xqc_engine_main_logic` and the timers). A loop iteration, an ICE state
  change or an xquic callback is one action; the read and the write of
  `peer_count` are two. `p2p_engine_remove_peer` comes in pieces, in the order of
  its writes: `DropSession`, `DropConn`, `DestroyAgent`, `Vacate`. In the engine
  thread, where xquic's callbacks run too, they are one step (`RemovePeer`) up to
  the one at which the slot can be given away; erasing the id (`ReapForget`) and
  `peer_count` follow. A connection is a number that is free again when xquic
  has destroyed it, as its memory is; a MOQ session has the number of its
  connection. The module has actions but no `Next`.
- **`PeerTable`**: what the engine promises of its slots, as a table of who has
  a slot and which connection is its own: `Admit` (into an empty slot, nobody
  twice), `Evict`, `Establish`, `GiveUp`, `Destroy`, each about one slot or one
  connection. `PeerEngine` states the refinement (`Table`, with `who` the ids of
  the slots that have an agent, `link` their `xqc_conn`, `live` what xquic has).
- **`PublisherApp`** adds the signaling thread of `p2p_client.c`. A handler
  that finds, removes, adds and gathers is cut into those steps (`sse.at`), and
  so is the removal: between any two of its writes the engine may accept or close
  a connection of the slot, and the agent may report until it is destroyed.
  Adding may be refused or fail, after the id was written (`AddPeerFails`).
- **`SubscriberApp`** adds the signaling thread and the main loop of
  `p2p_peer.c`.
- **`SignalServer`**: `meta` and `rooms` are the memory store, `chans` the
  local pub/sub, `queues` the events in each connection's channel, and `work`
  says how far each request's goroutine is. A step is one store operation or one
  published event, because that is what the locks make atomic. `ServerNext`
  serves any request from anybody.
- **`SignalClients`** composes the server with the sessions of the C clients:
  connect (the SSE answer is flushed before the registration, so the POST may
  overtake it), the synchronous `create_room` or `join_room`, disconnect, crash.
  Each crash and each early return uses up one of the connects that are left.
- **`BoundedFifo`**: what a queue between threads promises: `Put`, `Take` and, by
  its owner, `Drop`.
- **`PostRing`**, **`PacketQueue`**: the two rings as operators on a record, with
  `RingContents` and `QueueContents`, the sequences they stand for.
- **`Session`** composes both rings with the threads that use them: `main` (start,
  connect, reconnect, disconnect, stop), `worker` (`post_worker_func`), `reader`
  (`sse_thread_func` and the handlers it runs), `ice` (the libjuice thread),
  `stats` (`stats_thread_func`), `engine`. `app` says which program this is:
  `cli` (`p2p_client.c`, `p2p_peer.c`, which send candidates through the ring) or
  `pub`/`sub` (`p2pav.c`, which posts them itself and has the statistics thread).
  `link` is `p2p_signaling_client_t`, which each connect clears with its ring
  (`ClearClient`, the `memset`), `poster` the thread that holds
  `post_mutex`, `told` what the server knows before the description. The module
  states that the rings implement `BoundedFifo` (`PostFifo`, `PacketFifo`:
  `INSTANCE BoundedFifo WITH` the contents and whether the owner has it open).
- **`MediaPath`**: video to one subscriber over one connection after another,
  for `cli` and `av` programs. `enc` and `hello` are the two threads that number
  frames (capture, and the engine in `on_quic_connected`), each in two steps;
  `queue` is the slot's frame queue with, for each frame, the connection it was
  queued for; `track` the groups and frames of xquic's video track: whether the
  present group was given up (`given`), and the frames in flight as a set, since
  they overtake each other; `dejit` xquic's buffer on the other side; `sub`,
  `clock` the wait for a key frame; `jitter` what
  waits to be shown.
- **`MCPublisher`**, **`MCSignalServer`** add symmetry and a bound on requests;
  the other modules are run as they are.
- **`PeerEngineProofs`**, **`PublisherProofs`**, **`SubscriberProofs`**,
  **`SignalServerProofs`**, **`SignalClientsProofs`**, **`SignalHeardProofs`**,
  **`SessionProofs`**, **`MediaProofs`**: the proofs.

Operators marked `\* mutant` are deliberate mistakes: each property is known to
fail when one of them replaces the definition that follows it. No specification
uses them.

### Abstractions

Time is left out: a timeout may fire whenever the code would let it (but for
`MediaPath`, see below). Packets carry no bytes; what a packet does to xquic
(accept, handshake done, close, nothing) is chosen when it is processed. In
`PeerEngine` tracks and subscriptions go with their session. TURN credentials,
tokens, SDP and candidates are not modelled. On the server, the cached offer
(written, never read), node ids (one node in memory mode) and timestamps are
left out, and a publication looks the channel up and sends in one step: if the
channel is replaced in between, the event is lost, as it is when the channel is
full.

Two things about a removal on the signaling thread are below the grain of the
model: `xqc_moq_session_destroy` runs before the slot's pointer is cleared
(`p2p_adapter.c:1096`), so the engine thread may flush frames to a session that is
being destroyed; and `juice_destroy` before `ice_agent` is (1105), so two threads
that remove the same peer at once may both destroy its agent.
`NoDanglingSession` says to which connection a slot's session belongs, not that
nobody is in it at the moment it goes. `PeerEngine` takes `ConnCloseNotify` where
`xqc_engine_main_logic` runs, for packets and timers: `xqc_connect` and
`xqc_conn_close` destroy no connection. `xqc_moq_session_create` has no failure on
the server (it fails for a client, or for a transport other than QUIC), and
libjuice reports no state "disconnected".

`Session` has one remote peer whose agent makes one candidate. A POST succeeds or
fails, and may take as long as it likes: `p2p_tls.c` sets no timeout. The main
thread's calls are its steps, cut where it waits for another thread or releases
something. Locking a mutex that was destroyed is taken to work, as it does on
common platforms; what is released at the same time is what `NoUseAfterFree`
looks at.

`MediaPath` leaves out audio and data, which take the same queue but wait for
nothing, and bitrate adaptation. A frame is one message, fits the buffers and can
be decoded. Time passes in steps of the watchdog, and the constants keep the
order of the code's timeouts (1 s, 5 s, 15 s), which is all the code compares; a
pass of the watchdog is one step. xquic's part is modelled from its MOQ code
(`src/third_party/xquic/moq/moq_media`)
as far as the programs can see it: a stream per frame, whose streams are reset
when frames are overdue or a key frame is asked for, by which the present group
may be given up until the next key frame; a buffer that hands on key frames at
once and others right after their predecessor, and whose timer asks for a key
frame by itself.

## 3. Runs

| Run | Instance | Shows |
|---|---|---|
| `PublisherHandover` | 1 slot, 2 subscribers, 2 connections, events unbounded | types, `NoDanglingConn`, `NoDanglingSession`; liveness `RemovalServed` |
| `PublisherPair` | 2 slots, 2 subscribers, 1 connection, 3 events | `UniquePeerIds`; refinement `TableSpec` |
| `Subscriber` | 1 slot, 1 publisher, 2 connections | types, dangling references, `LiveIsCurrent`, `EmptySlotReusable`; refinement `TableSpec`; liveness `QuicStartServed` |
| `SignalServer` | 2 peers, 2 rooms, 2 SSE connections, 1 POST handler, 3 requests, rooms of 1, channels of 1 | types and channel capacity, `RoomCapacity`, `OwnRoomOnly`, `NoDeadChannel` |
| `Clients` | publisher and subscriber, 2 SSE connections and 2 POST handlers, 4 connects between them, with crashes and early returns | `HostedRoomExists`, `SeatsOnRecord`, `NoGhostHeard`; liveness `SeatFreed`, `ChannelsReleased` |
| `Session` | all three programs; ring of 3 slots, packet queue of 2, 2 packets, 2 connects, 2 events | types, `NoUseAfterFree`, `SignalOrder`, `StoppedClean`; refinements `PostFifoSpec`, `PacketFifoSpec`; liveness `Stops`, `QueuedTaken` |
| `MediaPath` | both kinds of program; frame queue of 2, jitter buffer of 2, 4 frame numbers, 2 connections, 2 presses of the video button, timeouts 1 < 2 < 3 | types, `NoStaleFrame`, `SendOrder`, `Forward`, `WaitBounded`, `PauseAgrees`; action properties `Grounded`, `ShownInOrder` |
| `PublisherRestart`, `PublisherSuperseded`, `PublisherAccepted`, `SubscriberWatchdog`, `LateCleanup` | smallest instance | expected violations, section 5 |

`RemovalServed` and `QuicStartServed` say that a request is taken up. What comes
of it is for the other properties: a removal is the table's `Evict`, and a start
that was asked for in a slot that is no longer ICE_CONNECTED is dropped, as the
code does.

`MediaPath` and `PublisherPair` are the largest, with some 8 million states each.

### Bounds, and why they are enough

- `MaxSubscribers` is 4 in the code. One slot is enough for what happens within
  a slot: two subscribers and two connections take it over from each other. Two
  slots show what happens between slots (holes below `peer_count`, a removal in
  one slot while the other is filled). The safety properties are proved for any
  number.
- `MaxConns` = 2: the current and the superseded connection of a slot. A third
  would be a second superseded one, to which the callbacks react alike.
- `MaxEvents` = 3 in `PublisherPair`: two joins and one more event. The other
  publisher runs have no bound (0 means none).
- `MaxPosts`, `MaxConnects` bound requests and sessions: enough to create, join
  and be refused, leave, and come back to what the first session left behind.
- `ChanCap` is 64 in the code. With 1, every queue is full at once
  (`SignalServer`). In `Clients` it is 9, so that no event about
  membership is dropped: three events for each of three joins reach the
  publisher at most. `NoGhostHeard` is about order, and is indeed violated when
  a full channel drops a `peer_left`.
- `PostQueueSize` is 32 in the code, `QueueCapacity` 2048. A ring of 3 slots
  holds 2 messages, one for an agent's candidate and one for its end; the third
  message of a session finds it full. Both rings wrap around in a run. The
  refinements are proved for any size.
- `MaxConnects` = 2 and `MaxEvents` = 2 in `Session`: a connect that fails and one
  that succeeds, or a session and a reconnect; an event during the session and one
  while it is stopped.
- `FrameQueueCap` and `JitterSize` of 2: the queue drops its oldest, the jitter
  buffer its newest frame. `MaxFrames` = 4: a key frame, one that is lost, one
  that shows the gap, and a key frame that ends the wait. `MaxSessions` = 2: a
  frame queued for the first connection meets the second. `MaxToggles` = 2: off
  and on again. All of it but the order of the timeouts is arbitrary in the proofs.
- Deadlock is checked except in `Clients`, `Session` and `MediaPath`, where
  clients, connections or frames really come to an end.

### Fairness

Weak fairness of the engine loop: `engine_thread_func` runs until
`p2p_engine_stop`. Strong fairness of `RecvDone`: the receive queue is found
empty again and again, since xquic's flow control bounds what is in flight.
Without it the drain loop of `process_recv_queue` could keep the engine from
everything else, which is listed as a property of the network, not of the code.
That is all `RemovalServed` and `QuicStartServed` need (`PublisherEngineSpec`,
`SubscriberEngineSpec`): the other threads may stop where they are. The violated
liveness properties are refuted with more: weak fairness of handlers that were
begun and of the subscriber's main loop, which are plain loops of a running
thread. `SubscriberDrainSpec` adds that xquic
destroys closed connections, which its timers ensure. On the server, weak
fairness of each goroutine (Go schedules them, and no step blocks) and of
`ConnectionEnds`: a context is cancelled or a ping fails when the client has
gone. In `Session`, weak fairness of each thread's own steps, once begun, and
strong fairness of `LockPost`: `post_mutex` is handed on to whoever waits for it.
That a POST ends is assumed too, with whatever result: the server answers or the
connection breaks. Since `p2p_tls.c` sets no timeout, `Stops` rests on this; a
server that keeps the connection open and never answers stops it. `MediaPath` has
no fairness: `WaitBounded` counts the watchdog's steps. Nothing is assumed of
the network, of ICE, of other peers or of what
clients decide to do.

## 4. Proofs

For every value of the constants:

| Theorem | Says |
|---|---|
| `PublisherTypes`, `SubscriberTypes` | type correctness; in particular `peer_count` stays in range although two threads change it without a lock |
| `PublisherConnsExist`, `SubscriberConnsExist` | `NoDanglingConn` |
| `PublisherSessionsExist`, `SubscriberSessionsExist` | `NoDanglingSession` |
| `PublisherOneSlotEach` | `UniquePeerIds` |
| `SubscriberOneLiveConn`, `SubscriberSlotsReusable` | `LiveIsCurrent`, `EmptySlotReusable` |
| `PublisherTable`, `SubscriberTable` | `TableSpec`: the engine under each application implements `PeerTable` |
| `ServerTypes`, `ServerRoomCapacity`, `ServerOwnRooms`, `ServerChannels` | the four invariants of the server |
| `ClientsTypes` | when a client has a connection and a request |
| `ClientsHostedRoom`, `ClientsSeats` | `HostedRoomExists`, `SeatsOnRecord` |
| `ClientsNoGhost`, `ClientsNoGhostRoomy` | `NoGhostHeard`, where the publisher's channel is large enough, or where it is never too full |
| `SessionTypesOK`, `SessionNoUseAfterFree`, `SessionStoppedClean` | `SessionTypeOK`, `NoUseAfterFree`, `StoppedClean`, for the three programs |
| `SessionSignalOrder` | `SignalOrder`, for the three programs |
| `SessionPostFifo`, `SessionPacketFifo` | `SessionSpec` implements `BoundedFifo`, twice |
| `MediaTypes`, `MediaNoStaleFrame`, `MediaSendOrder`, `MediaForward`, `MediaWaitBounded`, `MediaPauseAgrees` | the invariants of the media path |
| `MediaGrounded`, `MediaShownInOrder` | its two action properties |
| `ClientsUseServer` | `ClientsSpec => ServerSpec`: the clients ask nothing of the server that the server's specification does not allow, so the server's theorems hold with them |

*Engine.* The inductive invariant `EngineInv` is type correctness with what
ties slots and connections together: a slot's connection is not free and knows
the slot, a session belongs to a connection that still exists, and the removal
in progress is at an existing slot. Each action that changes one slot is an
instance of `SlotUpdate`. The
publisher adds what its handler knows at each step (`HandlerInv`): in
particular that the count it loaded was below the limit, without which
`peer_count` could leave its range. `UniquePeerIds` is not inductive: between
the search for a peer and its addition the signaling thread relies on nobody
else adding it (`NotYetThere`). For the subscriber, `LiveIsCurrent` needs that
only it starts connections and that every path to a new connection has given up
the old one (`LiveInv`).

For the refinement, a lemma says what giving a slot a new record does to the
table (`TableUpdate`), and five say which records make which step of it. Most
steps of the engine change the request flags and states only, so they stutter;
the end of a connection is `Destroy` because no slot but its own holds it
(`NoDanglingConn`). `Admit` is the one step that needs more than `EngineInv`:
`NotYetThere` for the publisher, and for the subscriber, whose only adder is the
signaling thread, that the publisher it did not find is still in no slot. The
table does not promise that an empty slot has no connection: a packet taken from
the queue before the removal may still be accepted in the emptied slot.

*Server.* The store changes only through its own operations
(`StepsChangeStore`), so `OwnRoomOnly` and `RoomCapacity` are proved over those.
`OwnRoomOnly` is inductive because a room is created only if there is none,
joining clears the publisher's role, and two publishers on record cannot claim
the same room; `RoomCapacity` because `JoinRoom` counts under the lock under
which it adds. `NoDeadChannel` needs that a connection stays in a subscribed
stage until it takes its channel away (`SubscribedKept`). `WorkInv` says that a
handler about to use its room has one; without it types are not preserved.

*Clients.* `OrderlyInv` holds as long as there was no fault. `ConnsInv`: a peer has
one connection in progress at most, the one its client is on, or one that the
client has left and that is being cleaned up. `PostsInv`: a request at the server
is one whose client waits for the answer, so nobody is seated after having left.
`SeatsInv`: seats are on record, and a room that is gone has none. `HostInv`: from
the moment `create_room` has succeeded, the room is the publisher's.
`HostedRoomExists` and `SeatsOnRecord` follow.

`NoGhostHeard` relates what the publisher has read to a room that others change,
through a channel two goroutines fill. `HeardInv`: about a peer whose seat is
free, or is freed by the next step of its connection, every `peer_joined` that
was read or is still in the channel has a `peer_left` behind it (`Cancelled`).
`JoinInv` and `LeaveInv` say who is still to announce what: whoever announces a
join is seated, and the end of a connection frees the seat only after it told
the publisher. That holds only if the `peer_left` is not dropped, as the code
does when the channel is full (`pubsub/local.go:47`). Hence the two theorems:
`ClientsNoGhostRoomy` has it for every behaviour in which the channel has room
whenever a leave is announced, and `ClientsNoGhost` for every behaviour if
`EventsFit`, a channel with room for three events of each of the `MaxConnects - 1`
connections other than the publisher's. It counts (`CountInv`): the events that
subscribers may yet cause (`Owing`) and the unread ones are together no more than
three for each of those connections. The run's constants satisfy `EventsFit`; so
does the code's channel of 64 for 21 connections of subscribers within one session
of the publisher. Beyond that it depends on how fast the publisher reads.

*Session.* `SessionInv` is type correctness with two parts. `QueuesInv`: `count`
is what lies between head and tail of the packet queue, and the ring holds
messages wherever it says it does. `ThreadsInv`: who holds `post_mutex` is a
thread that is in the middle of a POST (`PosterInv`); a thread runs, and what it
uses is open, exactly in those states of the main thread between its start and
its join (`MainInv`, with `Open`, `WithWorker` while the worker runs, `Parting`
once it is joined, `Apart` when nothing is left); the engine and its queue outlive
the agents and the statistics thread (`EngineInv`). `NoUseAfterFree` and
`StoppedClean` follow at once. For the refinements a lemma for each operation
of a ring says what it does to the contents; every other step leaves them alone
or is the owner's. `SignalOrder` takes what the ring holds (`OrderInv`): with the
ring, the next message to be posted is the description until that is settled, and
it is queued before the agent has anything to say (`RingOrder`); in `p2pav.c` the
reader posts it before there is an agent, or the agent's own thread posts it
between the candidates and the end (`SenderOrder`).

*Media path.* `MediaInv` has eight parts, each kept by every step. `GroupsInv`: the
groups begun, the frames queued and those about to be queued do not
outnumber the numbers given. `ConnInv`: with `OwnFrames`, the frames in the queue
are of the present connection once frames are written, because `DropUnsubscribed`
empties the queue between a connection's start and the subscription.
`ControlInv`: the last message on its way about the video button is what the
subscriber wants. `WaitInv`: `Left`, a bound on how much longer the wait can last,
which the watchdog's requests do not raise, though they put the timeout off.
`OrderInv`: from the frame the subscriber took last, over those handed on, in
flight and in the queue, to those being numbered, every number is `Before` the
next; this gives `SendOrder` and `Forward`. `GroundInv`: what xquic's buffer handed
on last is what the subscriber looked at last. `JitterInv`: what is held in the
jitter buffer is no older than what was shown. The proof also showed that on one
connection a gap is seen only at a key frame: xquic hands on another frame only
right after its predecessor. So in `p2p_peer.c` it is the watchdog alone that
starts a wait.

*Assumptions.* Only those the modules declare: at least one slot and
connection, null values outside the sets they complete, a finite set of peers,
SSE connections and requests disjoint, positive capacities, the order of the
media path's timeouts, and the role and mode each application is built with. TLC
evaluates them in each run.

`ClientsNoGhost` and `ClientsNoGhostRoomy` have the hypotheses described above.

*Only model-checked:* the liveness properties (`RemovalServed`, `QuicStartServed`,
`SeatFreed`, `ChannelsReleased`, `Stops`, `QueuedTaken`): fairness and ENABLED are
out of the prover's reach. Every other property of a passing run is a theorem. No
recursive operator is used.

## 5. Where the code differs from what it says

Each is a run that TLC finds violated.

- `PublisherRestart`: an ICE restart asked for in a slot at or beyond
  `peer_count` is never handed to the application (`p2p_adapter.c:698`), though
  the flag means "app must re-negotiate via signaling".
- `PublisherSuperseded`: the late close of a superseded connection destroys the
  MOQ session of its successor (`p2p_adapter.c:445`), though it is to "time out
  naturally".
- `PublisherAccepted`: `p2p_peer_start_quic` drops the session of a connection
  accepted before it ran (`p2p_adapter.c:1314`), a case the code provides for.
- `SubscriberWatchdog`: the 15-second watchdog asks for a QUIC restart in a
  state in which the request is not taken up (`p2p_peer.c:1041`).
- `LateCleanup`: the cleanup of a publisher's previous SSE connection deletes
  the room of its new session (`sse_handler.go:65`), which the publisher was
  told exists.

Seen while modelling, without a run:

- Engine. When `xqc_connect` fails the slot is FAILED (`p2p_adapter.c:1353`, which
  `PeerEngine` has): nothing tries again until a new offer or the end of ICE.
- Removal. The "safe point" of the deferred removal (`p2p_adapter.c:793`) is not
  one: the slot is IDLE before its id is erased (1118, `ReapForget`), and a peer
  the signaling thread adds in between loses its id. It cannot be found again, and
  the next announcement of it takes a second slot. That is why `UniquePeerIds` is
  about slots that are known by an id.
- Applications. The 30-second branch of the watchdog cannot be reached, since the
  15-second branch clears the time it looks at (`p2p_peer.c:1043`).
- Signaling. A subscriber that joined the room of a publisher which then
  restarts may be announced to the new session though it holds no seat. A
  `request_offer` can follow the `peer_left` of the same subscriber
  (`p2p_signaling.c:640`). When the SSE connection breaks, nothing connects again.
- Stopping. In `p2pav.c` the agents' threads may be in a POST while
  `p2p_signaling_disconnect` frees the connection (`p2p_signaling.c:649`): the
  agents are destroyed after it. `NoUseAfterFree` leaves these threads out. The
  reader and the agents may also lock the ring's mutex after it was destroyed,
  between their look at the flag and the lock (`p2p_signaling.c:246`): the model
  has that step, takes the lock to work, and finds the message in a ring that the
  next connect clears.
- First picture. `on_quic_connected` queues the cached key frame before anybody
  can have subscribed, and the flush that follows drops it;
  `docs/design-p2p-av.md` and `docs/design-xquic-ice.md` describe it as sent at
  once. Since it gets a new number, the next frame would look like its
  successor though it is not: `p2p_peer.c` would decode it.
- Waits. Each request of the watchdog restarts the time by which the 5-second
  wait is measured (`p2p_peer.c:1031`), so it ends only some 20 s after the last
  frame. That is why `WaitBounded` has the bound it has.
- Pausing. `video_paused` and `audio_paused` are not reset when a peer is removed,
  added or reconnected: a lost VIDEO_START leaves the publisher paused, and
  no property covers that. While
  its video is off, `p2p_peer.c` counts frames as received without decoding them.
  `PauseAgrees` and `Grounded` make these exceptions.
- Frame 1 passes xquic's buffer also without frame 0: there is no predecessor to
  compare with. An oversize key frame ends the wait and is then dropped
  (`p2p_peer.c`, the reassembly). `p2p_client.c` takes no lock around numbering and
  queueing, so `SendOrder` is about `p2pav.c` only.
- xquic may ask for a key frame while the engine flushes a frame queue whose mutex
  is held (`p2pav.c:948`): an application that answers the callback by sending
  video locks that mutex again.

## 6. Not modelled

- Redis mode (`store/redis.go`, `pubsub/redis.go`): planned.
- Audio and data channels: they use the frame queue without the waits of video.
  Fragmentation is left out of the media path: it changes no decision but the
  drop of a frame that is too large.
- `request_offer` in `SignalClients`; `leave_room`, which no program here sends
  (`SignalServer` has the server's side).
- `p2pav.c` removing a peer on the signaling thread (`peer_left`, `kick_peer`),
  the stale channel pointers after a slot is reused, and the start of the
  capture thread in `p2p_client.c`, which two callbacks may begin at once.
- The start and end of the engine together with its peers (`Session` has the
  engine's threads and queue, not its slots).
- The room manager (`room/manager.go`) is not used by `main.go`. Tokens, TURN,
  configuration and the admin pages are sequential and keep no state. TLS,
  capture, codecs and rendering are I/O. libjuice, xquic and mbedtls are
  vendored; their callbacks are modelled where the programs receive them, and of
  xquic's MOQ code what decides which frames arrive.
  Examples, tests and deployment files were read as documentation.

## 7. Plan

1. `P2pavApp`: `PeerEngine` with `DeferRemoval = FALSE` under the handlers of
   `p2pav.c`, which have no duplicate check and remove peers while the engine
   loop runs.
2. `SignalClients` with `request_offer` and `leave_room`; composed with
   `PublisherApp` through `heard`, so that signaling events come from the server.
3. `RedisStore`: read-modify-write steps against the memory store.
4. Audio beside video in the frame queue; several subscribers of one publisher.
5. Proofs: action properties of the engine (who may set and clear a flag); what
   remains of `HostedRoomKept` after a fault.

New runs take the place of existing ones where one will do for both.
