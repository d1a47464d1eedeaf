---------------------------- MODULE SignalServer ----------------------------
(***************************************************************************)
(* The signaling server in memory mode (src/src/signaling_server): the     *)
(* handlers of handler/sse_handler.go and handler/signal_handler.go over   *)
(* store/memory.go and pubsub/local.go.                                    *)
(*                                                                         *)
(* A goroutine runs each request: an SSE connection, which registers its   *)
(* channel, writes events until it ends, and cleans up after itself in     *)
(* deferred calls; or a POST, which calls the store and publishes events.  *)
(* Store and pub/sub operations lock, handlers do not, so a step is one    *)
(* store operation or one published event.  Requests are answered to       *)
(* anyone: SignalClients says what the project's clients ask for.          *)
(*                                                                         *)
(* Abstractions.  Tokens, admin handlers, the cached offer (nobody reads   *)
(* it) and node ids (one node) are left out.  full_offer, full_answer and  *)
(* the ICE messages are one kind of forwarded event.  Publish looks the    *)
(* channel up and sends to it in one step; if the channel is replaced in   *)
(* between, the event is lost, as it is when the channel is full.          *)
(***************************************************************************)
EXTENDS Naturals, Sequences, FiniteSets

CONSTANTS
  Peers,           \* peer ids
  Rooms,           \* room ids
  SseConns,        \* GET /v1/events requests that are served at once
  Requests,        \* POST /v1/signal requests that are served at once
  MaxSubscribers,  \* Config.MaxSubscribers
  ChanCap          \* capacity of an SSE connection's channel (64)

NoPeer == "no peer"
NoRoom == "no room"
NoConn == "no connection"

ASSUME PeersAssumption == IsFiniteSet(Peers) /\ NoPeer \notin Peers
ASSUME RoomsAssumption == NoRoom \notin Rooms
ASSUME WorkersAssumption ==
  NoConn \notin SseConns /\ SseConns \cap Requests = {}
ASSUME SubscribersAssumption == MaxSubscribers \in Nat
ASSUME ChanAssumption == ChanCap \in Nat \ {0}

Workers == SseConns \cup Requests

VARIABLES
  meta,    \* MemoryStore.peers: peer -> its PeerMeta
  rooms,   \* MemoryStore.rooms: room -> publisher and subscribers
  chans,   \* LocalPubSub.peers: peer -> the connection whose channel it is
  queues,  \* SSE connection -> the events in its channel
  work     \* request -> how far its handler is

store == <<meta, rooms>>
svars == <<meta, rooms, chans, queues, work>>

Unknown == [known |-> FALSE, room |-> NoRoom, publisher |-> FALSE]
NoSuchRoom == [publisher |-> NoPeer, subs |-> {}]
Free == [at |-> "free", peer |-> NoPeer, room |-> NoRoom,
         publisher |-> FALSE, tell |-> {}, ok |-> FALSE]

EventTypes == {"turn_credentials", "peer_joined", "publisher_ready",
               "peer_left", "forwarded"}
Event(type, p) == [type |-> type, about |-> p]
Events == [type : EventTypes, about : Peers]

SseStages == {"register", "subscribe", "open", "look", "find", "tell",
              "unregister", "unsubscribe"}
PostStages == {"create_room", "create", "join_room", "join", "turn", "joined",
               "ready", "look", "find", "tell", "leave", "reply"}

WorkRecord ==
  [at : SseStages \cup PostStages \cup {"free"},
   peer : Peers \cup {NoPeer},
   room : Rooms \cup {NoRoom},   \* the request's, or peer.RoomID as read
   publisher : BOOLEAN,          \* peer.IsPublisher as read
   tell : SUBSET Peers,          \* who is still to be told
   ok : BOOLEAN]                 \* the status of the reply

ServerTypeOK ==
  /\ meta \in [Peers -> [known : BOOLEAN, room : Rooms \cup {NoRoom},
                         publisher : BOOLEAN]]
  /\ rooms \in [Rooms -> [publisher : Peers \cup {NoPeer}, subs : SUBSET Peers]]
  /\ chans \in [Peers -> SseConns \cup {NoConn}]
  /\ queues \in [SseConns -> Seq(Events)]
  /\ \A c \in SseConns : Len(queues[c]) <= ChanCap
  /\ work \in [Workers -> WorkRecord]

ServerInit ==
  /\ meta = [p \in Peers |-> Unknown]
  /\ rooms = [r \in Rooms |-> NoSuchRoom]
  /\ chans = [p \in Peers |-> NoConn]
  /\ queues = [c \in SseConns |-> << >>]
  /\ work = [w \in Workers |-> Free]

Exists(r) == rooms[r].publisher # NoPeer
Peer(w) == work[w].peer

(* A handler goes on to its next stage; the locals it no longer reads are  *)
(* dropped.                                                                *)
Stage(w, at) == [Free EXCEPT !.at = at, !.peer = Peer(w)]
GoTo(w, at) == work' = [work EXCEPT ![w] = Stage(w, at)]
Answer(w, ok) == work' = [work EXCEPT ![w] = [Stage(w, "reply") EXCEPT !.ok = ok]]

-----------------------------------------------------------------------------
(* MemoryStore.                                                            *)

(* RegisterPeer and EnsurePeer: a peer that is known keeps its room.       *)
EnsurePeerAnew(p) ==  \* mutant
  meta' = [meta EXCEPT ![p] = [Unknown EXCEPT !.known = TRUE]] /\ UNCHANGED rooms
EnsurePeer(p) == meta' = [meta EXCEPT ![p].known = TRUE] /\ UNCHANGED rooms

CreateRoom(r, p) ==
  /\ rooms' = [rooms EXCEPT ![r] = [publisher |-> p, subs |-> {}]]
  /\ meta' = IF meta[p].known
             THEN [meta EXCEPT ![p].room = r, ![p].publisher = TRUE] ELSE meta

JoinableAtLimit(r) ==  \* mutant
  Exists(r) /\ Cardinality(rooms[r].subs) <= MaxSubscribers
Joinable(r) == Exists(r) /\ Cardinality(rooms[r].subs) < MaxSubscribers

JoinRoomKeepsRole(r, p) ==  \* mutant
  /\ rooms' = [rooms EXCEPT ![r].subs = @ \cup {p}]
  /\ meta' = IF meta[p].known THEN [meta EXCEPT ![p].room = r] ELSE meta
JoinRoom(r, p) ==
  /\ rooms' = [rooms EXCEPT ![r].subs = @ \cup {p}]
  /\ meta' = IF meta[p].known
             THEN [meta EXCEPT ![p].room = r, ![p].publisher = FALSE] ELSE meta

(* The rooms without p: a publisher takes its room with it.                *)
RoomsWithoutAny(p) ==  \* mutant
  LET r == meta[p].room IN
  IF r \in Rooms /\ meta[p].known THEN [rooms EXCEPT ![r] = NoSuchRoom] ELSE rooms
RoomsWithout(p) ==
  LET r == meta[p].room IN
  IF r = NoRoom \/ ~meta[p].known THEN rooms
  ELSE IF ~Exists(r) THEN rooms
  ELSE IF meta[p].publisher THEN [rooms EXCEPT ![r] = NoSuchRoom]
  ELSE [rooms EXCEPT ![r].subs = @ \ {p}]

(* LeaveRoom: the role is reset only if the room was still there.          *)
LeaveRoom(p) ==
  LET left == [meta[p] EXCEPT !.room = NoRoom] IN
  /\ rooms' = RoomsWithout(p)
  /\ meta' = IF meta[p].room = NoRoom \/ ~meta[p].known THEN meta
             ELSE IF Exists(meta[p].room)
                  THEN [meta EXCEPT ![p] = [left EXCEPT !.publisher = FALSE]]
                  ELSE [meta EXCEPT ![p] = left]

UnregisterKeepsSeat(p) ==  \* mutant
  meta' = [meta EXCEPT ![p] = Unknown] /\ UNCHANGED rooms
UnregisterPeer(p) ==
  rooms' = RoomsWithout(p) /\ meta' = [meta EXCEPT ![p] = Unknown]

-----------------------------------------------------------------------------
(* LocalPubSub.Publish: a peer without a channel, or with a full one,      *)
(* misses the event.                                                       *)
ReachesFull(p) == chans[p] # NoConn  \* mutant
Reaches(p) == chans[p] # NoConn /\ Len(queues[chans[p]]) < ChanCap

Publish(p, e) ==
  queues' = IF p \in Peers /\ Reaches(p)
            THEN [queues EXCEPT ![chans[p]] = Append(@, e)] ELSE queues

-----------------------------------------------------------------------------
(* HandleSSE.                                                              *)
OpenSse(c, p) ==
  /\ work[c] = Free
  /\ work' = [work EXCEPT ![c] = [Free EXCEPT !.at = "register", !.peer = p]]
  /\ UNCHANGED <<store, chans, queues>>

SseRegister(c) ==
  /\ work[c].at = "register"
  /\ EnsurePeer(Peer(c))
  /\ GoTo(c, "subscribe")
  /\ UNCHANGED <<chans, queues>>

SseSubscribe(c) ==
  /\ work[c].at = "subscribe"
  /\ chans' = [chans EXCEPT ![Peer(c)] = c]
  /\ GoTo(c, "open")
  /\ UNCHANGED <<store, queues>>

Deliver(c) ==
  /\ work[c].at = "open" /\ queues[c] # << >>
  /\ queues' = [queues EXCEPT ![c] = Tail(@)]
  /\ UNCHANGED <<store, chans, work>>

(* The client went away, or a write failed: the deferred calls run.        *)
SseEndsUntold(c) ==  \* mutant
  /\ work[c].at = "open"
  /\ GoTo(c, "unregister")
  /\ UNCHANGED <<store, chans, queues>>
SseEnds(c) ==
  /\ work[c].at = "open"
  /\ GoTo(c, "look")
  /\ UNCHANGED <<store, chans, queues>>

SseUnregister(c) ==
  /\ work[c].at = "unregister"
  /\ UnregisterPeer(Peer(c))
  /\ GoTo(c, "unsubscribe")
  /\ UNCHANGED <<chans, queues>>

(* UnregisterPeer of LocalPubSub removes the peer's channel, whichever     *)
(* connection it belongs to.                                               *)
SseUnsubscribeForgotten(c) ==  \* mutant
  /\ work[c].at = "unsubscribe"
  /\ queues' = [queues EXCEPT ![c] = << >>]
  /\ work' = [work EXCEPT ![c] = Free]
  /\ UNCHANGED <<store, chans>>
SseUnsubscribe(c) ==
  /\ work[c].at = "unsubscribe"
  /\ chans' = [chans EXCEPT ![Peer(c)] = NoConn]
  /\ queues' = [queues EXCEPT ![c] = << >>]
  /\ work' = [work EXCEPT ![c] = Free]
  /\ UNCHANGED store

-----------------------------------------------------------------------------
(* Telling the others that a peer leaves: the same steps in the deferred   *)
(* call of HandleSSE and in handleLeaveRoom.                               *)
LastStep(w) == IF w \in SseConns THEN "unregister" ELSE "leave"

LookUp(w) ==
  LET m == meta[Peer(w)] IN
  /\ work[w].at = "look"
  /\ IF m.known /\ m.room # NoRoom
     THEN work' = [work EXCEPT ![w].at = "find", ![w].room = m.room,
                               ![w].publisher = m.publisher]
     ELSE GoTo(w, LastStep(w))
  /\ UNCHANGED <<store, chans, queues>>

FindRoom(w) ==
  LET r == rooms[work[w].room]
      others == IF work[w].publisher THEN r.subs ELSE {r.publisher}
  IN
  /\ work[w].at = "find"
  /\ IF Exists(work[w].room) /\ others # {}
     THEN work' = [work EXCEPT ![w] = [Stage(w, "tell") EXCEPT !.tell = others]]
     ELSE GoTo(w, LastStep(w))
  /\ UNCHANGED <<store, chans, queues>>

Tell(w) ==
  /\ work[w].at = "tell"
  /\ \E p \in work[w].tell :
       /\ Publish(p, Event("peer_left", Peer(w)))
       /\ IF work[w].tell = {p} THEN GoTo(w, LastStep(w))
          ELSE work' = [work EXCEPT ![w].tell = @ \ {p}]
  /\ UNCHANGED <<store, chans>>

-----------------------------------------------------------------------------
(* HandleSignal.                                                           *)
Post(q, kind, p, r) ==
  /\ work[q] = Free
  /\ work' = [work EXCEPT ![q] = [Free EXCEPT !.at = kind, !.peer = p, !.room = r]]
  /\ UNCHANGED <<store, chans, queues>>

(* handleCreateRoom and handleJoinRoom call EnsurePeer first. *)
PostEnsure(q) ==
  /\ work[q].at \in {"create_room", "join_room"}
  /\ EnsurePeer(Peer(q))
  /\ work' = [work EXCEPT
       ![q].at = IF @ = "create_room" THEN "create" ELSE "join"]
  /\ UNCHANGED <<chans, queues>>

PostCreate(q) ==
  /\ work[q].at = "create"
  /\ IF Exists(work[q].room)
     THEN UNCHANGED store /\ Answer(q, FALSE)
     ELSE CreateRoom(work[q].room, Peer(q)) /\ Answer(q, TRUE)
  /\ UNCHANGED <<chans, queues>>

PostJoin(q) ==
  LET r == work[q].room IN
  /\ work[q].at = "join"
  /\ IF Joinable(r)
     THEN /\ JoinRoom(r, Peer(q))
          /\ work' = [work EXCEPT
               ![q] = [Stage(q, "turn") EXCEPT !.tell = {rooms[r].publisher}]]
     ELSE UNCHANGED store /\ Answer(q, FALSE)
  /\ UNCHANGED <<chans, queues>>

(* The publisher is sent TURN credentials and then the subscriber's id;    *)
(* the subscriber is sent the publisher's.                                 *)
PostTurn(q) ==
  /\ work[q].at = "turn"
  /\ \E p \in work[q].tell : Publish(p, Event("turn_credentials", p))
  /\ work' = [work EXCEPT ![q].at = "joined"]
  /\ UNCHANGED <<store, chans>>

PostJoined(q) ==
  /\ work[q].at = "joined"
  /\ \E p \in work[q].tell : Publish(p, Event("peer_joined", Peer(q)))
  /\ work' = [work EXCEPT ![q].at = "ready"]
  /\ UNCHANGED <<store, chans>>

PostReady(q) ==
  /\ work[q].at = "ready"
  /\ \E p \in work[q].tell : Publish(Peer(q), Event("publisher_ready", p))
  /\ Answer(q, TRUE)
  /\ UNCHANGED <<store, chans>>

PostLeave(q) ==
  /\ work[q].at = "leave"
  /\ LeaveRoom(Peer(q))
  /\ Answer(q, TRUE)
  /\ UNCHANGED <<chans, queues>>

Reply(q) ==
  /\ work[q].at = "reply"
  /\ work' = [work EXCEPT ![q] = Free]
  /\ UNCHANGED <<store, chans, queues>>

(* handleICEForward, handleICECandidate, handleFullOffer, handleFullAnswer *)
Forward(from, to) ==
  /\ Publish(to, Event("forwarded", from))
  /\ UNCHANGED <<store, chans, work>>

-----------------------------------------------------------------------------
SseStep(c) ==
  \/ SseRegister(c) \/ SseSubscribe(c) \/ SseUnregister(c) \/ SseUnsubscribe(c)
  \/ LookUp(c) \/ FindRoom(c) \/ Tell(c)

PostStep(q) ==
  \/ PostEnsure(q) \/ PostCreate(q) \/ PostJoin(q) \/ PostTurn(q)
  \/ PostJoined(q) \/ PostReady(q) \/ PostLeave(q)
  \/ LookUp(q) \/ FindRoom(q) \/ Tell(q)

ServerNext ==
  \/ \E c \in SseConns :
       \/ SseStep(c) \/ Deliver(c) \/ SseEnds(c)
       \/ \E p \in Peers : OpenSse(c, p)
  \/ \E q \in Requests :
       \/ PostStep(q) \/ Reply(q)
       \/ \E p \in Peers :
            \/ Post(q, "look", p, NoRoom)
            \/ \E r \in Rooms, kind \in {"create_room", "join_room"} :
                 Post(q, kind, p, r)
  \/ \E p, t \in Peers : Forward(p, t)

ServerSpec == ServerInit /\ [][ServerNext]_svars
-----------------------------------------------------------------------------
(* No room ever holds more subscribers than the server allows, though      *)
(* joins, leaves and disconnections are handled at once.                   *)
RoomCapacity ==
  \A r \in Rooms : Cardinality(rooms[r].subs) <= MaxSubscribers

(* A peer on record as a room's publisher is the publisher of that very    *)
(* room, and the room exists: a peer that leaves or disconnects takes no   *)
(* room with it but its own, whatever rooms it created or joined before.   *)
OwnRoomOnly ==
  \A p \in Peers :
    meta[p].publisher /\ meta[p].room # NoRoom
      => rooms[meta[p].room].publisher = p

(* A registered channel belongs to a connection of that peer that has not  *)
(* ended: no event goes into a channel whose reader is gone for good.      *)
NoDeadChannel ==
  \A p \in Peers : chans[p] # NoConn =>
    work[chans[p]].peer = p /\ work[chans[p]].at \notin {"free", "register", "subscribe"}
=============================================================================
