------------------------- MODULE SignalServerProofs -------------------------
(***************************************************************************)
(* The safety of the signaling server for any number of peers, rooms and   *)
(* requests in flight.  The store is changed by its own operations only,   *)
(* so what holds of rooms and peers is proved of those (StoreChange); the  *)
(* channels and the handlers' locals are followed action by action.        *)
(***************************************************************************)
EXTENDS SignalServer, FiniteSetTheorems, TLAPS

StoreTyped ==
  /\ meta \in [Peers -> [known : BOOLEAN, room : Rooms \cup {NoRoom},
                         publisher : BOOLEAN]]
  /\ rooms \in [Rooms -> [publisher : Peers \cup {NoPeer}, subs : SUBSET Peers]]

ChansTyped ==
  /\ chans \in [Peers -> SseConns \cup {NoConn}]
  /\ queues \in [SseConns -> Seq(Events)]
  /\ \A c \in SseConns : Len(queues[c]) <= ChanCap

WorkTyped == work \in [Workers -> WorkRecord]

(* A handler that runs has a peer, and one that is about to use its room   *)
(* has one.                                                                *)
RoomStages == {"create_room", "create", "join_room", "join", "find"}
WorkInv ==
  \A w \in Workers :
    /\ work[w].at # "free" => work[w].peer \in Peers
    /\ work[w].at \in RoomStages => work[w].room \in Rooms

StoreInv == StoreTyped /\ OwnRoomOnly /\ RoomCapacity
HandlersInv == WorkTyped /\ WorkInv
ServerInv == StoreInv /\ ChansTyped /\ HandlersInv /\ NoDeadChannel

LEMMA TypeIsTyped == ServerTypeOK <=> StoreTyped /\ ChansTyped /\ WorkTyped
BY DEF ServerTypeOK, StoreTyped, ChansTyped, WorkTyped

LEMMA StageTyped ==
  ASSUME WorkTyped, NEW w \in Workers,
         NEW at \in SseStages \cup PostStages \cup {"free"}
  PROVE  /\ Stage(w, at) \in WorkRecord
         /\ Stage(w, at).at = at
         /\ Stage(w, at).peer = work[w].peer
         /\ Stage(w, at).room = NoRoom
BY DEF WorkTyped, WorkRecord, Stage, Free, Peer

-----------------------------------------------------------------------------
(* What a step may do to the store.                                        *)
StoreChange ==
  \/ UNCHANGED store
  \/ \E p \in Peers :
       \/ EnsurePeer(p) \/ LeaveRoom(p) \/ UnregisterPeer(p)
       \/ \E r \in Rooms :
            \/ ~Exists(r) /\ CreateRoom(r, p)
            \/ Joinable(r) /\ JoinRoom(r, p)

LEMMA StepsChangeStore ==
  ASSUME HandlersInv, [ServerNext]_svars
  PROVE  StoreChange
<1> USE DEF HandlersInv, WorkInv, Workers, Peer, RoomStages
<1>1. CASE UNCHANGED svars
  BY <1>1 DEF svars, StoreChange, store
<1>2. CASE \E c \in SseConns : SseStep(c)
  <2> PICK c \in SseConns : SseStep(c) BY <1>2
  <2>1. CASE SseRegister(c)
    BY <2>1 DEF SseRegister, StoreChange
  <2>2. CASE SseUnregister(c)
    BY <2>2 DEF SseUnregister, StoreChange
  <2>3. CASE SseSubscribe(c) \/ SseUnsubscribe(c) \/ LookUp(c) \/ FindRoom(c) \/ Tell(c)
    BY <2>3 DEF SseSubscribe, SseUnsubscribe, LookUp, FindRoom, Tell, StoreChange
  <2> QED BY <2>1, <2>2, <2>3 DEF SseStep
<1>3. CASE \E q \in Requests : PostStep(q)
  <2> PICK q \in Requests : PostStep(q) BY <1>3
  <2>1. CASE PostEnsure(q)
    BY <2>1 DEF PostEnsure, StoreChange
  <2>2. CASE PostCreate(q)
    BY <2>2 DEF PostCreate, StoreChange
  <2>3. CASE PostJoin(q)
    BY <2>3 DEF PostJoin, StoreChange
  <2>4. CASE PostLeave(q)
    BY <2>4 DEF PostLeave, StoreChange
  <2>5. CASE \/ PostTurn(q) \/ PostJoined(q) \/ PostReady(q)
             \/ LookUp(q) \/ FindRoom(q) \/ Tell(q)
    BY <2>5 DEF PostTurn, PostJoined, PostReady, LookUp, FindRoom, Tell, StoreChange
  <2> QED BY <2>1, <2>2, <2>3, <2>4, <2>5 DEF PostStep
<1>4. CASE \/ \E c \in SseConns : \/ Deliver(c) \/ SseEnds(c)
                                  \/ \E p \in Peers : OpenSse(c, p)
           \/ \E q \in Requests :
                \/ Reply(q)
                \/ \E p \in Peers :
                     \/ Post(q, "look", p, NoRoom)
                     \/ \E r \in Rooms, kind \in {"create_room", "join_room"} :
                          Post(q, kind, p, r)
           \/ \E p, t \in Peers : Forward(p, t)
  BY <1>4 DEF Deliver, SseEnds, OpenSse, Reply, Post, Forward, StoreChange
<1> QED BY <1>1, <1>2, <1>3, <1>4 DEF ServerNext

LEMMA StoreTypedKept ==
  ASSUME StoreTyped, StoreChange
  PROVE  StoreTyped'
<1> USE DEF StoreTyped
<1>1. CASE UNCHANGED store
  BY <1>1 DEF store
<1>2. ASSUME NEW p \in Peers, EnsurePeer(p) PROVE StoreTyped'
  BY <1>2 DEF EnsurePeer
<1>3. ASSUME NEW p \in Peers PROVE
        RoomsWithout(p) \in [Rooms -> [publisher : Peers \cup {NoPeer}, subs : SUBSET Peers]]
  BY DEF RoomsWithout, NoSuchRoom, Exists
<1>4. ASSUME NEW p \in Peers, LeaveRoom(p) PROVE StoreTyped'
  BY <1>3, <1>4 DEF LeaveRoom
<1>5. ASSUME NEW p \in Peers, UnregisterPeer(p) PROVE StoreTyped'
  BY <1>3, <1>5 DEF UnregisterPeer, Unknown
<1>6. ASSUME NEW p \in Peers, NEW r \in Rooms, CreateRoom(r, p) PROVE StoreTyped'
  BY <1>6 DEF CreateRoom
<1>7. ASSUME NEW p \in Peers, NEW r \in Rooms, JoinRoom(r, p) PROVE StoreTyped'
  BY <1>7 DEF JoinRoom
<1> QED BY <1>1, <1>2, <1>4, <1>5, <1>6, <1>7 DEF StoreChange

(* A publisher on record is alone in claiming its room, so the operations  *)
(* that delete a room delete their caller's.                               *)
LEMMA OwnRoomKept ==
  ASSUME StoreTyped, OwnRoomOnly, StoreChange
  PROVE  OwnRoomOnly'
<1> USE RoomsAssumption, PeersAssumption DEF StoreTyped, OwnRoomOnly
<1>1. CASE UNCHANGED store
  BY <1>1 DEF store
<1>2. ASSUME NEW p \in Peers, EnsurePeer(p) PROVE OwnRoomOnly'
  BY <1>2 DEF EnsurePeer
<1>3. ASSUME NEW p \in Peers, NEW o \in Peers, o # p,
             meta[o].publisher, meta[o].room # NoRoom
      PROVE  RoomsWithout(p)[meta[o].room].publisher = o
  BY <1>3 DEF RoomsWithout, Exists
<1>4. ASSUME NEW p \in Peers, LeaveRoom(p) PROVE OwnRoomOnly'
  <2>1. \A o \in Peers : o # p => meta'[o] = meta[o]
    BY <1>4 DEF LeaveRoom
  <2>2. \/ meta'[p].room = NoRoom
        \/ meta' = meta /\ rooms' = rooms
    BY <1>4 DEF LeaveRoom, RoomsWithout
  <2> QED BY <1>3, <1>4, <2>1, <2>2 DEF LeaveRoom
<1>5. ASSUME NEW p \in Peers, UnregisterPeer(p) PROVE OwnRoomOnly'
  BY <1>3, <1>5 DEF UnregisterPeer, Unknown
<1>6. ASSUME NEW p \in Peers, NEW r \in Rooms, ~Exists(r), CreateRoom(r, p)
      PROVE  OwnRoomOnly'
  BY <1>6 DEF CreateRoom, Exists
<1>7. ASSUME NEW p \in Peers, NEW r \in Rooms, JoinRoom(r, p) PROVE OwnRoomOnly'
  BY <1>7 DEF JoinRoom
<1> QED BY <1>1, <1>2, <1>4, <1>5, <1>6, <1>7 DEF StoreChange

LEMMA RoomCapacityKept ==
  ASSUME StoreTyped, RoomCapacity, StoreChange
  PROVE  RoomCapacity'
<1> USE DEF StoreTyped, RoomCapacity
<1>0. ASSUME NEW S \in SUBSET Peers
      PROVE  /\ IsFiniteSet(S) /\ Cardinality(S) \in Nat
             /\ \A x : Cardinality(S \cup {x}) <= Cardinality(S) + 1
             /\ \A x : Cardinality(S \ {x}) <= Cardinality(S)
  BY PeersAssumption, FS_Subset, FS_AddElement, FS_RemoveElement, FS_CardinalityType
<1>1. CASE UNCHANGED store
  BY <1>1 DEF store
<1>2. ASSUME NEW p \in Peers, EnsurePeer(p) PROVE RoomCapacity'
  BY <1>2 DEF EnsurePeer
<1>3. ASSUME NEW p \in Peers, NEW r \in Rooms
      PROVE  Cardinality(RoomsWithout(p)[r].subs) <= MaxSubscribers
  <2>1. /\ rooms[r].subs \in SUBSET Peers
        /\ Cardinality(rooms[r].subs) <= MaxSubscribers
    OBVIOUS
  <2>2. \/ RoomsWithout(p)[r].subs = rooms[r].subs
        \/ RoomsWithout(p)[r].subs = rooms[r].subs \ {p}
        \/ RoomsWithout(p)[r].subs = {}
    BY DEF RoomsWithout, NoSuchRoom, Exists
  <2>3. Cardinality({}) <= MaxSubscribers
    BY FS_EmptySet, SubscribersAssumption
  <2>4. /\ Cardinality(rooms[r].subs \ {p}) <= Cardinality(rooms[r].subs)
        /\ Cardinality(rooms[r].subs \ {p}) \in Nat
        /\ Cardinality(rooms[r].subs) \in Nat
    <3>1. rooms[r].subs \ {p} \in SUBSET Peers
      BY <2>1
    <3> QED BY <1>0, <2>1, <3>1
  <2>5. Cardinality(rooms[r].subs \ {p}) <= MaxSubscribers
    BY <2>1, <2>4, SubscribersAssumption
  <2>6. CASE RoomsWithout(p)[r].subs = rooms[r].subs
    BY <2>1, <2>6, Zenon
  <2>7. CASE RoomsWithout(p)[r].subs = rooms[r].subs \ {p}
    BY <2>5, <2>7, Zenon
  <2>8. CASE RoomsWithout(p)[r].subs = {}
    BY <2>3, <2>8, Zenon
  <2> QED BY <2>2, <2>6, <2>7, <2>8
<1>4. ASSUME NEW p \in Peers, LeaveRoom(p) PROVE RoomCapacity'
  BY <1>3, <1>4 DEF LeaveRoom
<1>5. ASSUME NEW p \in Peers, UnregisterPeer(p) PROVE RoomCapacity'
  BY <1>3, <1>5 DEF UnregisterPeer
<1>6. ASSUME NEW p \in Peers, NEW r \in Rooms, CreateRoom(r, p) PROVE RoomCapacity'
  BY <1>6, FS_EmptySet, SubscribersAssumption DEF CreateRoom
<1>7. ASSUME NEW p \in Peers, NEW r \in Rooms, Joinable(r), JoinRoom(r, p)
      PROVE  RoomCapacity'
  <2>1. /\ rooms[r].subs \in SUBSET Peers
        /\ Cardinality(rooms[r].subs) < MaxSubscribers
    BY <1>7 DEF Joinable
  <2>2. /\ Cardinality(rooms[r].subs \cup {p}) <= Cardinality(rooms[r].subs) + 1
        /\ Cardinality(rooms[r].subs \cup {p}) \in Nat
        /\ Cardinality(rooms[r].subs) \in Nat
    <3>1. rooms[r].subs \cup {p} \in SUBSET Peers
      BY <2>1
    <3> QED BY <1>0, <2>1, <3>1
  <2>3. Cardinality(rooms[r].subs \cup {p}) <= MaxSubscribers
    BY <2>1, <2>2, SubscribersAssumption
  <2>4. \A s \in Rooms : rooms'[s].subs =
          IF s = r THEN rooms[r].subs \cup {p} ELSE rooms[s].subs
    BY <1>7 DEF JoinRoom
  <2> QED BY <2>3, <2>4
<1> QED BY <1>1, <1>2, <1>4, <1>5, <1>6, <1>7 DEF StoreChange

LEMMA StoreInvKept ==
  ASSUME StoreInv, HandlersInv, [ServerNext]_svars
  PROVE  StoreInv'
BY StepsChangeStore, StoreTypedKept, OwnRoomKept, RoomCapacityKept DEF StoreInv

-----------------------------------------------------------------------------
(* The handlers' locals.                                                   *)
LEMMA WorkerKept ==
  ASSUME HandlersInv, NEW w \in Workers, NEW rec \in WorkRecord,
         rec.at # "free" => rec.peer \in Peers,
         rec.at \in RoomStages => rec.room \in Rooms,
         work' = [work EXCEPT ![w] = rec]
  PROVE  HandlersInv'
BY DEF HandlersInv, WorkTyped, WorkInv

LEMMA GoToKept ==
  ASSUME HandlersInv, NEW w \in Workers, work[w].at # "free",
         NEW at \in (SseStages \cup PostStages \cup {"free"}) \ RoomStages,
         GoTo(w, at)
  PROVE  HandlersInv'
<1>1. Stage(w, at) \in WorkRecord /\ Stage(w, at).at = at
      /\ Stage(w, at).peer \in Peers
  BY StageTyped DEF HandlersInv, WorkInv
<1> QED BY <1>1, WorkerKept DEF GoTo

LEMMA AnswerKept ==
  ASSUME HandlersInv, NEW w \in Workers, work[w].at # "free",
         NEW ok \in BOOLEAN, Answer(w, ok)
  PROVE  HandlersInv'
<1>1. [Stage(w, "reply") EXCEPT !.ok = ok] \in WorkRecord
  BY StageTyped DEF HandlersInv, WorkRecord, PostStages
<1>2. /\ [Stage(w, "reply") EXCEPT !.ok = ok].at = "reply"
      /\ [Stage(w, "reply") EXCEPT !.ok = ok].peer \in Peers
  BY StageTyped DEF HandlersInv, WorkInv, WorkRecord, PostStages
<1> QED BY <1>1, <1>2, WorkerKept DEF Answer, RoomStages

(* FindRoom reads ids out of an existing room only. *)
LEMMA LeavingKept ==
  ASSUME StoreTyped, HandlersInv, NEW w \in Workers,
         LookUp(w) \/ FindRoom(w) \/ Tell(w)
  PROVE  HandlersInv'
<1>1. LastStep(w) \in (SseStages \cup PostStages \cup {"free"}) \ RoomStages
  BY DEF LastStep, SseStages, PostStages, RoomStages
<1>2. CASE LookUp(w)
  <2>1. CASE GoTo(w, LastStep(w))
    BY <1>1, <1>2, <2>1, GoToKept DEF LookUp
  <2>2. CASE /\ meta[Peer(w)].room # NoRoom
             /\ work' = [work EXCEPT ![w].at = "find", ![w].room = meta[Peer(w)].room,
                                     ![w].publisher = meta[Peer(w)].publisher]
    <3> DEFINE rec == [work[w] EXCEPT !.at = "find", !.room = meta[Peer(w)].room,
                                      !.publisher = meta[Peer(w)].publisher]
    <3>1. work[w] \in WorkRecord /\ work[w].peer \in Peers
      BY <1>2 DEF LookUp, HandlersInv, WorkTyped, WorkInv
    <3>2. meta[Peer(w)].room \in Rooms /\ meta[Peer(w)].publisher \in BOOLEAN
      BY <2>2, <3>1 DEF StoreTyped, Peer
    <3>3. rec \in WorkRecord /\ rec.peer \in Peers /\ rec.room \in Rooms
      BY <3>1, <3>2 DEF WorkRecord, SseStages
    <3>4. work' = [work EXCEPT ![w] = rec]
      BY <2>2 DEF HandlersInv, WorkTyped
    <3> QED BY <3>3, <3>4, WorkerKept
  <2> QED BY <1>2, <2>1, <2>2 DEF LookUp
<1>3. CASE FindRoom(w)
  <2> DEFINE r == rooms[work[w].room]
             others == IF work[w].publisher THEN r.subs ELSE {r.publisher}
             rec == [Stage(w, "tell") EXCEPT !.tell = others]
  <2>1. CASE GoTo(w, LastStep(w))
    BY <1>1, <1>3, <2>1, GoToKept DEF FindRoom
  <2>2. CASE Exists(work[w].room) /\ work' = [work EXCEPT ![w] = rec]
    <3>1. work[w].room \in Rooms /\ work[w].peer \in Peers
      BY <1>3 DEF FindRoom, HandlersInv, WorkInv, RoomStages
    <3>2. others \in SUBSET Peers
      BY <2>2, <3>1 DEF StoreTyped, Exists
    <3>3. /\ Stage(w, "tell") \in WorkRecord
          /\ Stage(w, "tell").at = "tell" /\ Stage(w, "tell").peer = work[w].peer
      BY StageTyped DEF HandlersInv, SseStages
    <3>4. rec \in WorkRecord /\ rec.at = "tell" /\ rec.peer \in Peers
      <4> HIDE DEF others
      <4> QED BY <3>1, <3>2, <3>3 DEF WorkRecord
    <3> QED
      <4> HIDE DEF rec
      <4> QED BY <2>2, <3>4, WorkerKept DEF RoomStages
  <2> QED BY <1>3, <2>1, <2>2 DEF FindRoom
<1>4. CASE Tell(w)
  <2> PICK p \in work[w].tell :
        IF work[w].tell = {p} THEN GoTo(w, LastStep(w))
        ELSE work' = [work EXCEPT ![w].tell = @ \ {p}]
    BY <1>4 DEF Tell
  <2>1. CASE GoTo(w, LastStep(w))
    BY <1>1, <1>4, <2>1, GoToKept DEF Tell
  <2>2. CASE work' = [work EXCEPT ![w].tell = @ \ {p}]
    BY <1>4, <2>2 DEF Tell, HandlersInv, WorkTyped, WorkInv, WorkRecord, RoomStages
  <2> QED BY <2>1, <2>2
<1> QED BY <1>2, <1>3, <1>4

LEMMA SseStepKept ==
  ASSUME StoreTyped, HandlersInv, NEW c \in SseConns, SseStep(c)
  PROVE  HandlersInv'
<1>0. /\ c \in Workers
      /\ {"subscribe", "open", "unsubscribe"}
           \subseteq (SseStages \cup PostStages \cup {"free"}) \ RoomStages
  BY DEF Workers, SseStages, PostStages, RoomStages
<1>1. CASE SseRegister(c)
  BY <1>0, <1>1, GoToKept DEF SseRegister
<1>2. CASE SseSubscribe(c)
  BY <1>0, <1>2, GoToKept DEF SseSubscribe
<1>3. CASE SseUnregister(c)
  BY <1>0, <1>3, GoToKept DEF SseUnregister
<1>4. CASE SseUnsubscribe(c)
  <2>1. Free \in WorkRecord /\ Free.at = "free"
    BY DEF Free, WorkRecord
  <2> QED BY <1>0, <1>4, <2>1, WorkerKept DEF SseUnsubscribe, RoomStages
<1>5. CASE LookUp(c) \/ FindRoom(c) \/ Tell(c)
  BY <1>0, <1>5, LeavingKept
<1> QED BY <1>1, <1>2, <1>3, <1>4, <1>5 DEF SseStep

LEMMA PostStepKept ==
  ASSUME StoreTyped, HandlersInv, NEW q \in Requests, PostStep(q)
  PROVE  HandlersInv'
<1>0. q \in Workers
  BY DEF Workers
<1> USE <1>0
<1>1. CASE PostEnsure(q)
  BY <1>1 DEF PostEnsure, HandlersInv, WorkTyped, WorkInv, WorkRecord, RoomStages, PostStages
<1>2. CASE PostCreate(q)
  BY <1>2, AnswerKept DEF PostCreate
<1>3. CASE PostJoin(q)
  <2> DEFINE rec == [Stage(q, "turn") EXCEPT !.tell = {rooms[work[q].room].publisher}]
  <2>1. CASE Answer(q, FALSE)
    BY <1>3, <2>1, AnswerKept DEF PostJoin
  <2>2. CASE Joinable(work[q].room) /\ work' = [work EXCEPT ![q] = rec]
    <3>1. work[q].room \in Rooms /\ work[q].peer \in Peers
      BY <1>3 DEF PostJoin, HandlersInv, WorkInv, RoomStages
    <3>2. rooms[work[q].room].publisher \in Peers
      BY <2>2, <3>1 DEF StoreTyped, Joinable, Exists
    <3>3. /\ Stage(q, "turn") \in WorkRecord
          /\ Stage(q, "turn").at = "turn" /\ Stage(q, "turn").peer = work[q].peer
      BY StageTyped DEF HandlersInv, PostStages
    <3>4. rec \in WorkRecord /\ rec.at = "turn" /\ rec.peer \in Peers
      BY <3>1, <3>2, <3>3 DEF WorkRecord
    <3> QED
      <4> HIDE DEF rec
      <4> QED BY <2>2, <3>4, WorkerKept DEF RoomStages
  <2> QED BY <1>3, <2>1, <2>2 DEF PostJoin
<1>4. CASE PostTurn(q) \/ PostJoined(q)
  BY <1>4 DEF PostTurn, PostJoined, HandlersInv, WorkTyped, WorkInv, WorkRecord,
              RoomStages, PostStages
<1>5. CASE PostReady(q) \/ PostLeave(q)
  BY <1>5, AnswerKept DEF PostReady, PostLeave
<1>6. CASE LookUp(q) \/ FindRoom(q) \/ Tell(q)
  BY <1>6, LeavingKept
<1> QED BY <1>1, <1>2, <1>3, <1>4, <1>5, <1>6 DEF PostStep

LEMMA HandlersInvKept ==
  ASSUME StoreTyped, HandlersInv, [ServerNext]_svars
  PROVE  HandlersInv'
<1>0. SseConns \subseteq Workers /\ Requests \subseteq Workers
  BY DEF Workers
<1>1. CASE UNCHANGED work
  BY <1>1 DEF HandlersInv, WorkTyped, WorkInv
<1>2. ASSUME NEW c \in SseConns, SseEnds(c) PROVE HandlersInv'
  <2>1. "look" \in (SseStages \cup PostStages \cup {"free"}) \ RoomStages
    BY DEF SseStages, RoomStages
  <2> QED BY <1>0, <1>2, <2>1, GoToKept DEF SseEnds
<1>3. ASSUME NEW c \in SseConns, NEW p \in Peers, OpenSse(c, p) PROVE HandlersInv'
  <2> DEFINE rec == [Free EXCEPT !.at = "register", !.peer = p]
  <2>1. rec \in WorkRecord /\ rec.at = "register" /\ rec.peer = p
    BY DEF Free, WorkRecord, SseStages
  <2> HIDE DEF rec
  <2>2. work' = [work EXCEPT ![c] = rec]
    BY <1>3 DEF OpenSse, rec
  <2> QED BY <1>0, <2>1, <2>2, WorkerKept DEF RoomStages
<1>4. ASSUME NEW q \in Requests, Reply(q) PROVE HandlersInv'
  <2>1. Free \in WorkRecord /\ Free.at = "free"
    BY DEF Free, WorkRecord
  <2> QED BY <1>0, <1>4, <2>1, WorkerKept DEF Reply, RoomStages
<1>5. ASSUME NEW q \in Requests, NEW p \in Peers,
             NEW kind \in {"look", "create_room", "join_room"},
             NEW r \in Rooms \cup {NoRoom}, kind = "look" \/ r \in Rooms,
             Post(q, kind, p, r)
      PROVE  HandlersInv'
  <2> DEFINE rec == [Free EXCEPT !.at = kind, !.peer = p, !.room = r]
  <2>1. rec \in WorkRecord /\ rec.at = kind /\ rec.peer = p /\ rec.room = r
    BY DEF Free, WorkRecord, SseStages, PostStages
  <2> HIDE DEF rec
  <2>2. work' = [work EXCEPT ![q] = rec]
    BY <1>5 DEF Post, rec
  <2>3. "look" \notin RoomStages
    BY DEF RoomStages
  <2> QED BY <1>0, <1>5, <2>1, <2>2, <2>3, WorkerKept
<1>6. ASSUME NEW c \in SseConns, Deliver(c) PROVE UNCHANGED work
  BY <1>6 DEF Deliver
<1>7. ASSUME NEW p \in Peers, NEW t \in Peers, Forward(p, t) PROVE UNCHANGED work
  BY <1>7 DEF Forward
<1> QED BY <1>1, <1>2, <1>3, <1>4, <1>5, <1>6, <1>7, SseStepKept, PostStepKept
        DEF ServerNext, svars

-----------------------------------------------------------------------------
(* The channels.                                                           *)
LEMMA PublishKept ==
  ASSUME ChansTyped, NEW p, NEW e \in Events, Publish(p, e), UNCHANGED chans
  PROVE  ChansTyped'
<1>1. CASE ~(p \in Peers /\ Reaches(p))
  BY <1>1 DEF ChansTyped, Publish
<1>2. CASE p \in Peers /\ Reaches(p)
  <2> DEFINE c == chans[p]
  <2>1. c \in SseConns /\ Len(queues[c]) < ChanCap /\ queues[c] \in Seq(Events)
    BY <1>2 DEF ChansTyped, Reaches
  <2>2. /\ Append(queues[c], e) \in Seq(Events)
        /\ Len(Append(queues[c], e)) <= ChanCap
    BY <2>1, ChanAssumption
  <2>3. queues' = [queues EXCEPT ![c] = Append(queues[c], e)]
    BY <1>2 DEF Publish
  <2> HIDE DEF c
  <2> QED BY <2>1, <2>2, <2>3 DEF ChansTyped
<1> QED BY <1>1, <1>2

LEMMA ChansTypedKept ==
  ASSUME ChansTyped, HandlersInv, [ServerNext]_svars
  PROVE  ChansTyped'
<1>0. ASSUME NEW type \in EventTypes, NEW p \in Peers PROVE Event(type, p) \in Events
  BY DEF Event, Events
<1>1. CASE UNCHANGED <<chans, queues>>
  BY <1>1 DEF ChansTyped
<1>2. ASSUME NEW w \in Workers, Tell(w) PROVE ChansTyped'
  <2>1. work[w].peer \in Peers
    BY <1>2 DEF Tell, HandlersInv, WorkInv
  <2>2. Event("peer_left", Peer(w)) \in Events
    BY <1>0, <2>1 DEF EventTypes, Peer
  <2> QED BY <1>2, <2>2, PublishKept DEF Tell
<1>3. ASSUME NEW q \in Requests, PostTurn(q) \/ PostJoined(q) \/ PostReady(q)
      PROVE  ChansTyped'
  <2>1. /\ work[q].peer \in Peers
        /\ work[q].tell \subseteq Peers
    BY <1>3 DEF PostTurn, PostJoined, PostReady, HandlersInv, WorkTyped, WorkInv,
                WorkRecord, Workers
  <2>2. \E t, p \in Peers, type \in EventTypes : Publish(t, Event(type, p))
    BY <1>3, <2>1 DEF PostTurn, PostJoined, PostReady, EventTypes, Peer
  <2>3. UNCHANGED chans
    BY <1>3 DEF PostTurn, PostJoined, PostReady
  <2> QED BY <1>0, <2>2, <2>3, PublishKept
<1>4. ASSUME NEW p \in Peers, NEW t \in Peers, Forward(p, t) PROVE ChansTyped'
  BY <1>0, <1>4, PublishKept DEF Forward, EventTypes
<1>5. ASSUME NEW c \in SseConns, Deliver(c) PROVE ChansTyped'
  <2>1. /\ queues[c] \in Seq(Events) /\ queues[c] # << >>
        /\ Len(queues[c]) <= ChanCap
    BY <1>5 DEF ChansTyped, Deliver
  <2>2. Tail(queues[c]) \in Seq(Events) /\ Len(Tail(queues[c])) <= ChanCap
    BY <2>1, ChanAssumption
  <2> QED BY <1>5, <2>2 DEF ChansTyped, Deliver
<1>6. ASSUME NEW c \in SseConns, SseSubscribe(c) PROVE ChansTyped'
  BY <1>6 DEF ChansTyped, SseSubscribe
<1>7. ASSUME NEW c \in SseConns, SseUnsubscribe(c) PROVE ChansTyped'
  <2>1. << >> \in Seq(Events) /\ Len(<< >>) <= ChanCap
    BY ChanAssumption
  <2> QED BY <1>7, <2>1 DEF ChansTyped, SseUnsubscribe
<1>8. ASSUME NEW c \in SseConns, SseStep(c) PROVE ChansTyped'
  <2>1. CASE SseRegister(c) \/ SseUnregister(c) \/ LookUp(c) \/ FindRoom(c)
    BY <1>1, <2>1 DEF SseRegister, SseUnregister, LookUp, FindRoom
  <2> QED BY <1>2, <1>6, <1>7, <1>8, <2>1 DEF SseStep, Workers
<1>9. ASSUME NEW q \in Requests, PostStep(q) PROVE ChansTyped'
  <2>1. CASE \/ PostEnsure(q) \/ PostCreate(q) \/ PostJoin(q) \/ PostLeave(q)
             \/ LookUp(q) \/ FindRoom(q)
    BY <1>1, <2>1 DEF PostEnsure, PostCreate, PostJoin, PostLeave, LookUp, FindRoom
  <2> QED BY <1>2, <1>3, <1>9, <2>1 DEF PostStep, Workers
<1>10. ASSUME NEW w \in Workers,
              \/ SseEnds(w) \/ Reply(w)
              \/ \E p \in Peers : OpenSse(w, p)
              \/ \E p, r, kind : Post(w, kind, p, r)
       PROVE  ChansTyped'
  BY <1>1, <1>10 DEF SseEnds, Reply, OpenSse, Post
<1>11. CASE ServerNext
  BY <1>4, <1>5, <1>8, <1>9, <1>10, <1>11 DEF ServerNext, Workers
<1> QED BY <1>1, <1>11 DEF svars

(* The stages in which a connection's channel may be registered.           *)
Subscribed(c) == work[c].at \notin {"free", "register", "subscribe"}

(* A connection whose channel may be registered stays so, for the same     *)
(* peer, until it takes the channel away.                                  *)
LEMMA SubscribedKept ==
  ASSUME HandlersInv, [ServerNext]_svars, NEW c \in SseConns, Subscribed(c),
         ~SseUnsubscribe(c)
  PROVE  Subscribed(c)' /\ work'[c].peer = work[c].peer
<1> USE DEF Subscribed
<1>0. /\ c \in Workers /\ c \notin Requests
      /\ \A at \in SseStages \cup PostStages \cup {"free"} :
           Stage(c, at).at = at /\ Stage(c, at).peer = work[c].peer
  BY StageTyped, WorkersAssumption DEF HandlersInv, Workers
<1>1. CASE work'[c] = work[c]
  BY <1>1
<1>2. ASSUME NEW w \in Workers, w # c,
             NEW rec, work' = [work EXCEPT ![w] = rec]
      PROVE  work'[c] = work[c]
  BY <1>0, <1>2 DEF HandlersInv, WorkTyped
<1>3. ASSUME NEW at \in SseStages, GoTo(c, at) PROVE work'[c] = Stage(c, at)
  BY <1>0, <1>3 DEF GoTo, HandlersInv, WorkTyped
<1>4. LastStep(c) = "unregister"
  BY DEF LastStep
<1>5. CASE SseStep(c)
  <2>1. CASE SseUnregister(c)
    BY <1>0, <1>3, <2>1 DEF SseUnregister, SseStages
  <2>2. CASE LookUp(c)
    BY <1>0, <1>3, <1>4, <2>2 DEF LookUp, SseStages, HandlersInv, WorkTyped, WorkRecord
  <2>3. CASE FindRoom(c)
    <3>1. CASE GoTo(c, LastStep(c))
      BY <1>0, <1>3, <1>4, <3>1 DEF SseStages
    <3>2. ASSUME NEW S, work' = [work EXCEPT ![c] = [Stage(c, "tell") EXCEPT !.tell = S]]
          PROVE  Subscribed(c)' /\ work'[c].peer = work[c].peer
      <4>1. /\ Stage(c, "tell") \in WorkRecord
            /\ Stage(c, "tell").at = "tell" /\ Stage(c, "tell").peer = work[c].peer
        BY <1>0, StageTyped DEF HandlersInv, SseStages
      <4>2. work'[c] = [Stage(c, "tell") EXCEPT !.tell = S]
        BY <1>0, <3>2 DEF HandlersInv, WorkTyped
      <4> QED BY <4>1, <4>2 DEF WorkRecord
    <3> QED BY <2>3, <3>1, <3>2 DEF FindRoom
  <2>4. CASE Tell(c)
    BY <1>0, <1>3, <1>4, <2>4 DEF Tell, SseStages, HandlersInv, WorkTyped, WorkRecord
  <2> QED BY <1>5, <2>1, <2>2, <2>3, <2>4 DEF SseStep, SseRegister, SseSubscribe
<1>6. CASE SseEnds(c)
  BY <1>0, <1>3, <1>6 DEF SseEnds, SseStages
<1>7. ASSUME NEW w \in Workers, w # c, SseStep(w) \/ PostStep(w)
      PROVE  work'[c] = work[c]
  <2>1. CASE SseRegister(w) \/ SseSubscribe(w) \/ SseUnregister(w) \/ SseUnsubscribe(w)
    BY <1>2, <1>7, <2>1 DEF SseRegister, SseSubscribe, SseUnregister, SseUnsubscribe, GoTo
  <2>2. CASE LookUp(w) \/ FindRoom(w) \/ Tell(w)
    BY <1>2, <1>7, <2>2 DEF LookUp, FindRoom, Tell, GoTo
  <2>3. CASE \/ PostEnsure(w) \/ PostCreate(w) \/ PostJoin(w) \/ PostTurn(w)
             \/ PostJoined(w) \/ PostReady(w) \/ PostLeave(w)
    BY <1>2, <1>7, <2>3 DEF PostEnsure, PostCreate, PostJoin, PostTurn, PostJoined,
         PostReady, PostLeave, GoTo, Answer
  <2> QED BY <1>7, <2>1, <2>2, <2>3 DEF SseStep, PostStep
<1>8. ASSUME NEW w \in Workers, w # c,
             \/ SseEnds(w) \/ Reply(w)
             \/ \E p : OpenSse(w, p)
             \/ \E p, r, kind : Post(w, kind, p, r)
      PROVE  work'[c] = work[c]
  BY <1>2, <1>8 DEF SseEnds, Reply, OpenSse, Post, GoTo
<1>9. ASSUME NEW p, OpenSse(c, p) PROVE FALSE
  BY <1>9 DEF OpenSse, Free
<1>10. ASSUME NEW w, Deliver(w) PROVE work'[c] = work[c]
  BY <1>10 DEF Deliver
<1>11. ASSUME NEW p, NEW t, Forward(p, t) PROVE work'[c] = work[c]
  BY <1>11 DEF Forward
<1>12. CASE UNCHANGED svars
  BY <1>1, <1>12 DEF svars
<1>13. CASE ServerNext
  BY <1>0, <1>1, <1>5, <1>6, <1>7, <1>8, <1>9, <1>10, <1>11, <1>13 DEF ServerNext, Workers
<1> QED BY <1>12, <1>13

LEMMA ChanChange ==
  ASSUME ChansTyped, HandlersInv, [ServerNext]_svars
  PROVE  \/ UNCHANGED chans /\ \A c \in SseConns : ~SseUnsubscribe(c)
         \/ \E c \in SseConns : SseSubscribe(c) \/ SseUnsubscribe(c)
<1>1. CASE \E c \in SseConns : SseUnsubscribe(c)
  BY <1>1
<1>2. CASE UNCHANGED chans
  BY <1>1, <1>2
<1>3. ASSUME NEW w, LookUp(w) \/ FindRoom(w) \/ Tell(w) \/ PostStep(w)
      PROVE  UNCHANGED chans
  BY <1>3 DEF PostStep, LookUp, FindRoom, Tell, PostEnsure, PostCreate, PostJoin, PostTurn,
       PostJoined, PostReady, PostLeave
<1>4. ASSUME NEW c \in SseConns, SseStep(c), ~SseSubscribe(c), ~SseUnsubscribe(c)
      PROVE  UNCHANGED chans
  BY <1>3, <1>4 DEF SseStep, SseRegister, SseUnregister
<1>5. ASSUME NEW w,
             \/ SseEnds(w) \/ Reply(w) \/ Deliver(w)
             \/ \E p : OpenSse(w, p)
             \/ \E p, r, kind : Post(w, kind, p, r)
      PROVE  UNCHANGED chans
  BY <1>5 DEF SseEnds, Reply, OpenSse, Post, Deliver
<1>6. ASSUME NEW p, NEW t, Forward(p, t) PROVE UNCHANGED chans
  BY <1>6 DEF Forward
<1> QED BY <1>1, <1>2, <1>3, <1>4, <1>5, <1>6 DEF ServerNext, svars

LEMMA NoDeadChannelKept ==
  ASSUME ChansTyped, HandlersInv, NoDeadChannel, [ServerNext]_svars
  PROVE  NoDeadChannel'
<1>0. ASSUME NEW p \in Peers, chans[p] # NoConn
      PROVE  /\ chans[p] \in SseConns
             /\ work[chans[p]].peer = p /\ Subscribed(chans[p])
  BY <1>0 DEF ChansTyped, NoDeadChannel, Subscribed
<1>1. CASE UNCHANGED chans /\ \A c \in SseConns : ~SseUnsubscribe(c)
  BY <1>0, <1>1, SubscribedKept DEF NoDeadChannel, Subscribed
<1>2. ASSUME NEW c \in SseConns, SseSubscribe(c) PROVE NoDeadChannel'
  <2>1. /\ c \in Workers /\ work[c].peer \in Peers
        /\ Stage(c, "open").at = "open" /\ Stage(c, "open").peer = work[c].peer
    BY <1>2, StageTyped DEF SseSubscribe, HandlersInv, WorkInv, Workers, SseStages
  <2>2. /\ work' = [work EXCEPT ![c] = Stage(c, "open")]
        /\ chans' = [chans EXCEPT ![work[c].peer] = c]
    BY <1>2 DEF SseSubscribe, GoTo, Peer
  <2>3. \A p \in Peers : chans[p] # c
    BY <1>0, <1>2, WorkersAssumption DEF SseSubscribe, Subscribed
  <2> QED BY <1>0, <2>1, <2>2, <2>3
          DEF NoDeadChannel, Subscribed, ChansTyped, HandlersInv, WorkTyped
<1>3. ASSUME NEW c \in SseConns, SseUnsubscribe(c) PROVE NoDeadChannel'
  <2>1. /\ work' = [work EXCEPT ![c] = Free]
        /\ chans' = [chans EXCEPT ![work[c].peer] = NoConn]
    BY <1>3 DEF SseUnsubscribe, Peer
  <2>2. ASSUME NEW p \in Peers, chans'[p] # NoConn
        PROVE  chans'[p] = chans[p] /\ chans[p] # c
    BY <1>0, <2>1, <2>2 DEF ChansTyped
  <2> QED BY <1>0, <2>1, <2>2 DEF NoDeadChannel, Subscribed, HandlersInv, WorkTyped
<1> QED BY <1>1, <1>2, <1>3, ChanChange

-----------------------------------------------------------------------------
LEMMA ServerInitInv == ServerInit => ServerInv
<1> SUFFICES ASSUME ServerInit PROVE ServerInv
  OBVIOUS
<1>1. StoreInv
  <2>1. StoreTyped /\ OwnRoomOnly
    BY DEF ServerInit, StoreTyped, OwnRoomOnly, Unknown, NoSuchRoom
  <2>2. \A r \in Rooms : rooms[r].subs = {}
    BY DEF ServerInit, NoSuchRoom
  <2>3. RoomCapacity
    BY <2>2, FS_EmptySet, SubscribersAssumption DEF RoomCapacity
  <2> QED BY <2>1, <2>3 DEF StoreInv
<1>2. ChansTyped /\ NoDeadChannel
  <2>1. << >> \in Seq(Events) /\ Len(<< >>) <= ChanCap
    BY ChanAssumption
  <2> QED BY <2>1 DEF ServerInit, ChansTyped, NoDeadChannel
<1>3. HandlersInv
  BY DEF ServerInit, HandlersInv, WorkTyped, WorkInv, WorkRecord, Free, RoomStages
<1> QED BY <1>1, <1>2, <1>3 DEF ServerInv

LEMMA ServerNextInv == ServerInv /\ [ServerNext]_svars => ServerInv'
BY StoreInvKept, ChansTypedKept, HandlersInvKept, NoDeadChannelKept DEF ServerInv, StoreInv

(* Whatever is asked of the server, in whatever order, by whomever.        *)
THEOREM ServerInvariant == ServerSpec => []ServerInv
BY ServerInitInv, ServerNextInv, PTL DEF ServerSpec

(* The variables keep their types, and no channel takes more events than   *)
(* it has room for: LocalPubSub.Publish drops instead.                     *)
THEOREM ServerTypes == ServerSpec => []ServerTypeOK
<1>1. ServerInv => ServerTypeOK
  BY TypeIsTyped DEF ServerInv, StoreInv, HandlersInv
<1> QED BY <1>1, ServerInvariant, PTL

(* No room holds more subscribers than MaxSubscribers, however joins,      *)
(* leaves and disconnections interleave: JoinRoom counts under its lock.   *)
THEOREM ServerRoomCapacity == ServerSpec => []RoomCapacity
<1>1. ServerInv => RoomCapacity
  BY DEF ServerInv, StoreInv
<1> QED BY <1>1, ServerInvariant, PTL

(* A peer on record as publisher of a room is that room's publisher, so    *)
(* LeaveRoom and UnregisterPeer never delete another peer's room.          *)
THEOREM ServerOwnRooms == ServerSpec => []OwnRoomOnly
<1>1. ServerInv => OwnRoomOnly
  BY DEF ServerInv, StoreInv
<1> QED BY <1>1, ServerInvariant, PTL

(* A registered channel always has its reader, which is the peer's own     *)
(* connection: HandleSSE takes it away before it returns.                  *)
THEOREM ServerChannels == ServerSpec => []NoDeadChannel
<1>1. ServerInv => NoDeadChannel
  BY DEF ServerInv
<1> QED BY <1>1, ServerInvariant, PTL
=============================================================================
