------------------------ MODULE SignalClientsProofs ------------------------
(***************************************************************************)
(* The clients ask nothing of the server that SignalServer does not allow  *)
(* for, so what is proved of the server holds with them, whether they are  *)
(* orderly or not.  Of orderly clients, more is proved: what each of them  *)
(* has open at the server at each point of its session (OrderlyInv), and   *)
(* from it that a publisher has the room it was told of and that whoever   *)
(* has a seat is on record.                                                *)
(***************************************************************************)
EXTENDS SignalClients, SignalServerProofs

LEMMA ClientTypes ==
  ASSUME ClientsTypeOK, NEW p \in Peers,
         NEW rec \in [at : {"off", "connected", "asked", "in"},
                      conn : SseConns \cup {NoConn},
                      req : Requests \cup {NoRequest}],
         rec.at = "off" <=> rec.conn = NoConn,
         rec.at = "asked" <=> rec.req # NoRequest,
         client' = [client EXCEPT ![p] = rec],
         heard' \subseteq Peers,
         returned' \in BOOLEAN, orderly' \in BOOLEAN, spent' \in 0 .. MaxConnects
  PROVE  ClientsTypeOK'
BY DEF ClientsTypeOK

LEMMA ClientsTypeKept ==
  ASSUME ClientsTypeOK, ServerTypeOK, [ClientsNext]_allvars
  PROVE  ClientsTypeOK'
<1> USE ClientsAssumption, RequestsAssumption, WorkersAssumption
<1>1. CASE UNCHANGED cvars
  BY <1>1 DEF ClientsTypeOK, cvars
<1>2. ASSUME NEW p \in Peers PROVE Forget(p) => heard' \subseteq Peers /\ returned' \in BOOLEAN
  BY DEF Forget, ClientsTypeOK
<1>3. /\ heard \subseteq Peers /\ returned \in BOOLEAN /\ orderly \in BOOLEAN
      /\ spent \in 0 .. MaxConnects
      /\ Spend(1) \/ Spend(2) => spent' \in 0 .. MaxConnects
  BY DEF ClientsTypeOK, Spend
<1>4. ASSUME NEW p \in Peers, Connect(p) PROVE ClientsTypeOK'
  <2> PICK c \in SseConns :
        client' = [client EXCEPT ![p] = [Off EXCEPT !.at = "connected", !.conn = c]]
    BY <1>4 DEF Connect
  <2> DEFINE rec == [Off EXCEPT !.at = "connected", !.conn = c]
  <2>1. /\ rec \in [at : {"off", "connected", "asked", "in"},
                    conn : SseConns \cup {NoConn}, req : Requests \cup {NoRequest}]
        /\ rec.at = "connected" /\ rec.conn # NoConn /\ rec.req = NoRequest
    BY DEF Off
  <2>2. /\ heard' \subseteq Peers /\ returned' \in BOOLEAN /\ orderly' \in BOOLEAN
        /\ spent' \in 0 .. MaxConnects
    BY <1>3, <1>4 DEF Connect
  <2> HIDE DEF rec
  <2>3. client' = [client EXCEPT ![p] = rec]
    BY DEF rec
  <2> QED BY <2>1, <2>2, <2>3, ClientTypes
<1>5. ASSUME NEW p \in Peers, Ask(p) PROVE ClientsTypeOK'
  BY <1>5 DEF Ask, ClientsTypeOK
<1>6. ASSUME NEW p \in Peers, Answered(p) PROVE ClientsTypeOK'
  BY <1>6 DEF Answered, ClientsTypeOK
<1>7. ASSUME NEW p \in Peers, Disconnect(p) \/ Crash(p) PROVE ClientsTypeOK'
  <2>1. /\ Off \in [at : {"off", "connected", "asked", "in"},
                    conn : SseConns \cup {NoConn}, req : Requests \cup {NoRequest}]
        /\ Off.at = "off" /\ Off.conn = NoConn /\ Off.req = NoRequest
    BY DEF Off
  <2> QED BY <1>2, <1>3, <1>7, <2>1, ClientTypes DEF Disconnect, Crash
<1>8. ASSUME NEW c \in SseConns, Receive(c) PROVE ClientsTypeOK'
  <2>1. Head(queues[c]) \in Events
    BY <1>8 DEF Receive, Deliver, ServerTypeOK
  <2>2. heard' \subseteq Peers
    BY <1>3, <1>8, <2>1 DEF Receive, Events
  <2> QED BY <1>8, <2>2 DEF Receive, ClientsTypeOK
<1>9. ASSUME NEW w, ReplyUnread(w) \/ ConnectionEnds(w) \/ Serve(w) PROVE UNCHANGED cvars
  BY <1>9 DEF ReplyUnread, ConnectionEnds, Serve
<1>10. UNCHANGED allvars => UNCHANGED cvars
  BY DEF allvars, cvars
<1> QED BY <1>1, <1>4, <1>5, <1>6, <1>7, <1>8, <1>9, <1>10 DEF ClientsNext

LEMMA ClientsStepServer ==
  ASSUME ClientsTypeOK, [ClientsNext]_allvars
  PROVE  [ServerNext]_svars
<1> USE ClientsAssumption DEF Workers
<1>1. CASE UNCHANGED allvars
  BY <1>1 DEF allvars
<1>2. ASSUME NEW p \in Peers, Connect(p) PROVE ServerNext
  BY <1>2 DEF Connect, ServerNext
<1>3. ASSUME NEW p \in Peers, Ask(p) PROVE ServerNext
  <2> PICK q \in Requests :
        Post(q, IF p = Publisher THEN "create_room" ELSE "join_room", p, Room)
    BY <1>3 DEF Ask
  <2> QED BY DEF ServerNext
<1>4. ASSUME NEW p \in Peers, Answered(p) PROVE ServerNext
  <2>1. client[p].req \in Requests
    BY <1>4 DEF ClientsTypeOK, Answered
  <2> QED BY <1>4, <2>1 DEF Answered, ServerNext
<1>5. ASSUME NEW p \in Peers, Disconnect(p) \/ Crash(p) PROVE UNCHANGED svars
  BY <1>5 DEF Disconnect, Crash
<1>6. ASSUME NEW q \in Requests, ReplyUnread(q) PROVE ServerNext
  BY <1>6 DEF ReplyUnread, ServerNext
<1>7. ASSUME NEW c \in SseConns, Receive(c) \/ ConnectionEnds(c) PROVE ServerNext
  BY <1>7 DEF Receive, ConnectionEnds, ServerNext
<1>8. ASSUME NEW w \in Workers, Serve(w) PROVE ServerNext
  BY <1>8, WorkersAssumption DEF Serve, ServerNext
<1> QED BY <1>1, <1>2, <1>3, <1>4, <1>5, <1>6, <1>7, <1>8 DEF ClientsNext

LEMMA ClientsInitInv == ClientsInit => ServerInit /\ ServerInv /\ ClientsTypeOK
<1>1. ClientsInit => ServerInit
  BY DEF ClientsInit
<1>2. ClientsInit => ClientsTypeOK
  <2>1. ClientsInit => returned \in BOOLEAN /\ orderly \in BOOLEAN
    BY DEF ClientsInit
  <2>2. ClientsInit => ClientsTypeOK \/ ~(returned \in BOOLEAN /\ orderly \in BOOLEAN)
    BY ClientsAssumption, RequestsAssumption DEF ClientsInit, ClientsTypeOK, Off
  <2> QED BY <2>1, <2>2
<1> QED BY <1>1, <1>2, ServerInitInv

LEMMA ClientsNextInv ==
  ServerInv /\ ClientsTypeOK /\ [ClientsNext]_allvars
    => [ServerNext]_svars /\ ServerInv' /\ ClientsTypeOK'
<1>1. ServerInv => ServerTypeOK
  BY TypeIsTyped DEF ServerInv, StoreInv, HandlersInv
<1> QED BY <1>1, ClientsTypeKept, ClientsStepServer, ServerNextInv

(* A client has a connection exactly while it is on, and a request exactly *)
(* while it waits for one's answer.                                        *)
THEOREM ClientsTypes == ClientsSpec => []ClientsTypeOK
<1>1. ServerInv /\ ClientsTypeOK /\ [ClientsNext]_allvars => (ServerInv /\ ClientsTypeOK)'
  BY ClientsNextInv
<1> QED BY <1>1, ClientsInitInv, PTL DEF ClientsSpec

(* The clients and the server together implement the server on its own.    *)
THEOREM ClientsUseServer == ClientsSpec => ServerSpec
<1>1. ServerInv /\ ClientsTypeOK /\ [ClientsNext]_allvars => (ServerInv /\ ClientsTypeOK)'
  BY ClientsNextInv
<1>2. ServerInv /\ ClientsTypeOK /\ [ClientsNext]_allvars => [ServerNext]_svars
  BY ClientsNextInv
<1> QED BY <1>1, <1>2, ClientsInitInv, PTL DEF ClientsSpec, ServerSpec
-----------------------------------------------------------------------------
(* What holds while the run is orderly.                                    *)

(* A peer has one connection at the server, the one its client is on; or   *)
(* its client is off, and the server has yet to finish with the last one.  *)
Busy(w) == work[w].at # "free"
Tied(c) ==
  /\ work[c].at \in SseStages
  /\ client[Peer(c)].conn \in {c, NoConn}
  /\ client[Peer(c)].conn = c => work[c].at \in {"register", "subscribe", "open"}
ConnsInv ==
  /\ \A c \in SseConns : Busy(c) => Tied(c)
  /\ \A c, d \in SseConns : Busy(c) /\ Busy(d) /\ Peer(c) = Peer(d) => c = d
  /\ \A p \in Peers : client[p].conn # NoConn =>
       Busy(client[p].conn) /\ Peer(client[p].conn) = p

(* A request is some client's that waits for its answer: the publisher     *)
(* creates the room, the others join it, nobody asks to leave.             *)
JoinStages == {"join_room", "join", "turn", "joined", "ready", "reply"}
Asked(q) ==
  /\ client[Peer(q)].req = q
  /\ work[q].at \in (IF Peer(q) = Publisher THEN {"create_room", "create", "reply"}
                     ELSE JoinStages)
  /\ work[q].at \in RoomStages => work[q].room = Room
  /\ work[q].at \in {"create", "join"} => meta[Peer(q)].known
PostsInv ==
  /\ \A q \in Requests : Busy(q) => Asked(q)
  /\ \A p \in Peers : client[p].req # NoRequest =>
       Busy(client[p].req) /\ Peer(client[p].req) = p

(* The publisher alone is on record as one and owns the room; all seats    *)
(* are on record, and there are none in a room that is gone.               *)
SeatsInv ==
  /\ rooms[Room].publisher \in {NoPeer, Publisher}
  /\ ~Exists(Room) => rooms[Room].subs = {}
  /\ \A p \in Peers : meta[p].publisher => p = Publisher
  /\ \A p \in Peers : meta[p].room \in {NoRoom, Room}
  /\ Publisher \notin rooms[Room].subs
  /\ \A p \in rooms[Room].subs :
       meta[p].known /\ meta[p].room = Room /\ ~meta[p].publisher

(* What create_room answers is true from then on.                          *)
Hosting ==
  \/ client[Publisher].at = "in"
  \/ client[Publisher].at = "asked" /\ work[client[Publisher].req].at = "reply"
HostInv == Hosting => rooms[Room].publisher = Publisher

OrderlyInv == ConnsInv /\ PostsInv /\ SeatsInv /\ HostInv

-----------------------------------------------------------------------------
(* A step of a handler changes that handler's locals and nobody else's.    *)
LEMMA SseMoves ==
  ASSUME HandlersInv, NEW c \in SseConns, SseStep(c) \/ SseEnds(c)
  PROVE  /\ \A v \in Workers \ {c} : work'[v] = work[v]
         /\ Busy(c)
         /\ work[c].at = "unsubscribe" => work'[c] = Free
         /\ work[c].at # "unsubscribe" => work'[c].peer = work[c].peer
         /\ <<work[c].at, work'[c].at>> \in
              {<<"register", "subscribe">>, <<"subscribe", "open">>, <<"open", "look">>,
               <<"look", "find">>, <<"look", "unregister">>,
               <<"find", "tell">>, <<"find", "unregister">>,
               <<"tell", "tell">>, <<"tell", "unregister">>,
               <<"unregister", "unsubscribe">>, <<"unsubscribe", "free">>}
<1>0. /\ c \in Workers /\ work \in [Workers -> WorkRecord] /\ work[c] \in WorkRecord
      /\ \A at \in SseStages :
           Stage(c, at).at = at /\ Stage(c, at).peer = work[c].peer
           /\ Stage(c, at) \in WorkRecord
      /\ LastStep(c) = "unregister"
  BY StageTyped DEF HandlersInv, WorkTyped, Workers, LastStep
<1> USE DEF GoTo, Busy
<1>1. CASE SseRegister(c)
  BY <1>0, <1>1 DEF SseRegister, SseStages
<1>2. CASE SseSubscribe(c)
  BY <1>0, <1>2 DEF SseSubscribe, SseStages
<1>3. CASE SseEnds(c)
  BY <1>0, <1>3 DEF SseEnds, SseStages
<1>4. CASE SseUnregister(c)
  BY <1>0, <1>4 DEF SseUnregister, SseStages
<1>5. CASE SseUnsubscribe(c)
  BY <1>0, <1>5 DEF SseUnsubscribe, Free
<1>6. CASE LookUp(c)
  BY <1>0, <1>6 DEF LookUp, SseStages, WorkRecord
<1>7. CASE FindRoom(c)
  BY <1>0, <1>7 DEF FindRoom, SseStages, WorkRecord
<1>8. CASE Tell(c)
  BY <1>0, <1>8 DEF Tell, SseStages, WorkRecord
<1> QED BY <1>1, <1>2, <1>3, <1>4, <1>5, <1>6, <1>7, <1>8 DEF SseStep

LEMMA PostMoves ==
  ASSUME HandlersInv, NEW q \in Requests, PostStep(q),
         work[q].at \in JoinStages \cup {"create_room", "create"}
  PROVE  /\ \A v \in Workers \ {q} : work'[v] = work[v]
         /\ work'[q].peer = work[q].peer
         /\ work[q].at \in {"create_room", "join_room"} => work'[q].room = work[q].room
         /\ <<work[q].at, work'[q].at>> \in
              {<<"create_room", "create">>, <<"join_room", "join">>,
               <<"create", "reply">>, <<"join", "reply">>, <<"join", "turn">>,
               <<"turn", "joined">>, <<"joined", "ready">>, <<"ready", "reply">>}
<1>0. /\ q \in Workers /\ work \in [Workers -> WorkRecord] /\ work[q] \in WorkRecord
      /\ \A at \in {"turn", "reply"} :
           Stage(q, at).at = at /\ Stage(q, at).peer = work[q].peer
           /\ Stage(q, at) \in WorkRecord
  BY StageTyped DEF HandlersInv, WorkTyped, Workers, PostStages
<1> USE DEF Answer, JoinStages
<1>1. CASE PostEnsure(q)
  BY <1>0, <1>1 DEF PostEnsure, WorkRecord
<1>2. CASE PostCreate(q)
  BY <1>0, <1>2 DEF PostCreate, WorkRecord
<1>3. CASE PostJoin(q)
  BY <1>0, <1>3 DEF PostJoin, WorkRecord
<1>4. CASE PostTurn(q)
  BY <1>0, <1>4 DEF PostTurn, WorkRecord
<1>5. CASE PostJoined(q)
  BY <1>0, <1>5 DEF PostJoined, WorkRecord
<1>6. CASE PostReady(q)
  BY <1>0, <1>6 DEF PostReady, WorkRecord
<1>7. CASE PostLeave(q) \/ LookUp(q) \/ FindRoom(q) \/ Tell(q)
  BY <1>7 DEF PostLeave, LookUp, FindRoom, Tell
<1> QED BY <1>1, <1>2, <1>3, <1>4, <1>5, <1>6, <1>7 DEF PostStep

LEMMA OneServed ==
  ASSUME HandlersInv, NEW v \in Workers
  PROVE  /\ \A c \in SseConns : \A p : OpenSse(c, p) =>
              /\ work[c].at = "free" /\ work'[c].at = "register" /\ work'[c].peer = p
              /\ v # c => work'[v] = work[v]
         /\ \A q \in Requests : \A kind, p, r : Post(q, kind, p, r) =>
              /\ work[q].at = "free"
              /\ work'[q].at = kind /\ work'[q].peer = p /\ work'[q].room = r
              /\ v # q => work'[v] = work[v]
         /\ \A q \in Requests : Reply(q) =>
              /\ work[q].at = "reply" /\ work'[q].at = "free"
              /\ v # q => work'[v] = work[v]
<1>0. work \in [Workers -> WorkRecord] /\ SseConns \subseteq Workers /\ Requests \subseteq Workers
  BY DEF HandlersInv, WorkTyped, Workers
<1>1. ASSUME NEW c \in SseConns, NEW p, OpenSse(c, p)
      PROVE  /\ work[c].at = "free" /\ work'[c].at = "register" /\ work'[c].peer = p
             /\ v # c => work'[v] = work[v]
  BY <1>0, <1>1 DEF OpenSse, Free
<1>2. ASSUME NEW q \in Requests, NEW kind, NEW p, NEW r, Post(q, kind, p, r)
      PROVE  /\ work[q].at = "free"
             /\ work'[q].at = kind /\ work'[q].peer = p /\ work'[q].room = r
             /\ v # q => work'[v] = work[v]
  BY <1>0, <1>2 DEF Post, Free
<1>3. ASSUME NEW q \in Requests, Reply(q)
      PROVE  /\ work[q].at = "reply" /\ work'[q].at = "free"
             /\ v # q => work'[v] = work[v]
  BY <1>0, <1>3 DEF Reply, Free
<1> QED BY <1>1, <1>2, <1>3

(* Every step of an orderly run.                                           *)
OrderlyStep ==
  \/ \E p \in Peers :
       (Connect(p) /\ ~Served(p)) \/ Ask(p) \/ Answered(p) \/ Disconnect(p)
  \/ \E c \in SseConns : Receive(c) \/ ConnectionEnds(c)
  \/ \E w \in Workers : Serve(w)
  \/ UNCHANGED allvars

LEMMA StaysOrderly ==
  ASSUME ClientsTypeOK, HandlersInv, orderly => PostsInv, [ClientsNext]_allvars, orderly'
  PROVE  orderly /\ OrderlyStep
<1>0. orderly \in BOOLEAN
  BY DEF ClientsTypeOK
<1>1. ASSUME NEW q \in Requests, ReplyUnread(q) PROVE orderly /\ FALSE
  <2>1. orderly /\ Busy(q)
    BY <1>1 DEF ReplyUnread, cvars, Reply, Busy
  <2>2. work[q].peer \in Peers
    BY <2>1 DEF HandlersInv, WorkInv, Busy, Workers
  <2> QED BY <1>1, <2>1, <2>2 DEF ReplyUnread, PostsInv, Asked, Peer
<1>2. ASSUME NEW p \in Peers, Crash(p) PROVE FALSE
  BY <1>2 DEF Crash
<1>3. ASSUME NEW p \in Peers, Connect(p) PROVE orderly /\ ~Served(p)
  BY <1>0, <1>3 DEF Connect
<1>4. ASSUME NEW p \in Peers, Ask(p) \/ Answered(p) \/ Disconnect(p) PROVE orderly
  BY <1>4 DEF Ask, Answered, Disconnect
<1>5. ASSUME NEW w, Receive(w) \/ ConnectionEnds(w) \/ Serve(w) PROVE orderly
  BY <1>5 DEF Receive, ConnectionEnds, Serve, cvars
<1>6. UNCHANGED allvars => orderly
  BY DEF allvars, cvars
<1> QED BY <1>1, <1>2, <1>3, <1>4, <1>5, <1>6 DEF ClientsNext, OrderlyStep

(* Connections.                                                            *)
LEMMA ConnsApart ==
  ASSUME ConnsInv, \A c \in SseConns : work'[c] = work[c],
         \A p \in Peers : client'[p].conn = client[p].conn,
         HandlersInv, ClientsTypeOK
  PROVE  ConnsInv'
<1>1. ASSUME NEW c \in SseConns, Busy(c) PROVE work[c].peer \in Peers
  BY <1>1 DEF HandlersInv, WorkInv, Busy, Workers
<1>2. ASSUME NEW p \in Peers, client[p].conn # NoConn PROVE client[p].conn \in SseConns
  BY <1>2 DEF ClientsTypeOK
<1> QED BY <1>1, <1>2 DEF ConnsInv, Busy, Tied, Peer

LEMMA ConnsKept ==
  ASSUME HandlersInv, ClientsTypeOK, ConnsInv, PostsInv, OrderlyStep
  PROVE  ConnsInv'
<1>0. /\ \A c \in SseConns : c \in Workers /\ c \notin Requests
      /\ \A q \in Requests : q \in Workers /\ q \notin SseConns
      /\ NoConn \notin SseConns
      /\ \A c \in SseConns : Busy(c) => work[c].peer \in Peers
      /\ \A p \in Peers : client[p].conn # NoConn => client[p].conn \in SseConns
      /\ client \in [Peers -> [at : {"off", "connected", "asked", "in"},
                           conn : SseConns \cup {NoConn},
                           req : Requests \cup {NoRequest}]]
  BY WorkersAssumption DEF Workers, HandlersInv, WorkInv, Busy, ClientsTypeOK
<1>1. ASSUME NEW p \in Peers, Connect(p), ~Served(p) PROVE ConnsInv'
  <2> PICK c \in SseConns :
        /\ OpenSse(c, p)
        /\ client' = [client EXCEPT ![p] = [Off EXCEPT !.at = "connected", !.conn = c]]
    BY <1>1, Zenon DEF Connect
  <2>1. /\ work[c].at = "free" /\ work'[c].at = "register" /\ work'[c].peer = p
        /\ \A d \in SseConns : d # c => work'[d] = work[d]
    BY <1>0, OneServed
  <2>2. /\ client'[p].conn = c /\ \A o \in Peers : o # p => client'[o] = client[o]
    BY <1>0 DEF Off
  <2>3. \A d \in SseConns : Busy(d) => work[d].peer # p
    BY <1>0, <1>1 DEF Served, Busy, Peer, Free
  <2> QED BY <1>0, <2>1, <2>2, <2>3 DEF ConnsInv, Busy, Tied, Peer, SseStages
<1>2. ASSUME NEW p \in Peers, Ask(p) PROVE ConnsInv'
  <2> PICK q \in Requests :
        /\ Post(q, IF p = Publisher THEN "create_room" ELSE "join_room", p, Room)
        /\ client' = [client EXCEPT ![p].at = "asked", ![p].req = q]
    BY <1>2 DEF Ask
  <2> QED BY <1>0, OneServed, ConnsApart
<1>3. ASSUME NEW p \in Peers, Answered(p) PROVE ConnsInv'
  <2>1. client[p].req \in Requests
    BY <1>3 DEF Answered, ClientsTypeOK
  <2>2. \A c \in SseConns : work'[c] = work[c]
    BY <1>0, <1>3, <2>1, OneServed DEF Answered
  <2>3. \A o \in Peers : client'[o].conn = client[o].conn
    BY <1>0, <1>3 DEF Answered
  <2> QED BY <2>2, <2>3, ConnsApart
<1>4. ASSUME NEW p \in Peers, Disconnect(p) PROVE ConnsInv'
  <2>1. client'[p].conn = NoConn /\ \A o \in Peers : o # p => client'[o] = client[o]
    BY <1>0, <1>4 DEF Disconnect, Off
  <2>2. UNCHANGED work
    BY <1>4 DEF Disconnect, svars
  <2> QED BY <1>0, <2>1, <2>2 DEF ConnsInv, Busy, Tied, Peer
<1>5. ASSUME NEW c \in SseConns, Receive(c) PROVE ConnsInv'
  BY <1>5, ConnsApart DEF Receive, Deliver
<1>6. ASSUME NEW c \in SseConns, SseStep(c) \/ ConnectionEnds(c), UNCHANGED cvars
      PROVE ConnsInv'
  <2>1. /\ \A d \in SseConns : d # c => work'[d] = work[d]
        /\ Busy(c) /\ UNCHANGED client
    BY <1>0, <1>6, SseMoves DEF ConnectionEnds, cvars
  <2>2. /\ work'[c].at \in SseStages \cup {"free"}
        /\ work'[c].at # "free" => work'[c].peer = work[c].peer
    BY <1>6, SseMoves DEF ConnectionEnds, SseStages
  <2>3. ASSUME client[Peer(c)].conn = c
        PROVE  work'[c].at \in {"register", "subscribe", "open"}
    <3>1. work[c].at \in {"register", "subscribe", "open"} /\ work[c].peer \in Peers
      BY <1>0, <2>1, <2>3 DEF ConnsInv, Tied
    <3>2. SseStep(c)
      BY <1>6, <2>3, <3>1 DEF ConnectionEnds, Peer
    <3>3. work[c].at # "open"
      BY <3>2 DEF SseStep, SseRegister, SseSubscribe, SseUnregister, SseUnsubscribe,
                  LookUp, FindRoom, Tell
    <3> QED BY <3>1, <3>2, <3>3, SseMoves
  <2> QED BY <1>0, <2>1, <2>2, <2>3 DEF ConnsInv, Busy, Tied, Peer
<1>7. ASSUME NEW q \in Requests, PostStep(q), UNCHANGED cvars PROVE ConnsInv'
  <2>1. Busy(q)
    BY <1>7 DEF PostStep, PostEnsure, PostCreate, PostJoin, PostTurn, PostJoined,
                PostReady, PostLeave, LookUp, FindRoom, Tell, Busy
  <2>2. \A c \in SseConns : work'[c] = work[c]
    BY <1>0, <1>7, <2>1, PostMoves DEF PostsInv, Asked, JoinStages
  <2> QED BY <1>7, <2>2, ConnsApart DEF cvars
<1>8. ASSUME NEW w \in Workers, Serve(w) PROVE ConnsInv'
  BY <1>0, <1>6, <1>7, <1>8 DEF Serve, Workers
<1>9. UNCHANGED allvars => ConnsInv'
  BY ConnsApart DEF allvars, svars, cvars
<1> QED BY <1>1, <1>2, <1>3, <1>4, <1>5, <1>6, <1>8, <1>9 DEF OrderlyStep, ConnectionEnds

(* Requests.                                                               *)
LEMMA AskerConnected ==
  ASSUME HandlersInv, ClientsTypeOK, ConnsInv, PostsInv,
         NEW q \in Requests, Busy(q), NEW c \in SseConns, Busy(c), Peer(c) = Peer(q)
  PROVE  work[c].at \in {"register", "subscribe", "open"}
<1>1. Peer(q) \in Peers /\ client[Peer(q)].req = q /\ q # NoRequest
  BY RequestsAssumption DEF HandlersInv, WorkInv, Workers, Busy, Peer, PostsInv, Asked
<1>2. client[Peer(q)].at = "asked"
  BY <1>1 DEF ClientsTypeOK
<1>3. client[Peer(q)].conn # NoConn /\ client[Peer(q)].conn \in SseConns
  BY <1>1, <1>2 DEF ClientsTypeOK
<1>4. client[Peer(q)].conn = c
  BY <1>1, <1>3 DEF ConnsInv
<1> QED BY <1>4 DEF ConnsInv, Tied

(* A peer whose request is being served stays on record.                   *)
LEMMA AskerKnown ==
  ASSUME HandlersInv, StoreTyped, ClientsTypeOK, ConnsInv, PostsInv,
         [ServerNext]_svars,
         NEW q \in Requests, Busy(q), meta[Peer(q)].known
  PROVE  meta'[Peer(q)].known
<1>0. Peer(q) \in Peers
  BY DEF HandlersInv, WorkInv, Workers, Busy, Peer
<1>1. CASE UNCHANGED meta
  BY <1>1
<1>2. ASSUME NEW p \in Peers, NEW r \in Rooms,
             EnsurePeer(p) \/ LeaveRoom(p) \/ CreateRoom(r, p) \/ JoinRoom(r, p)
      PROVE  meta'[Peer(q)].known
  <2>1. CASE EnsurePeer(p)
    BY <1>0, <2>1 DEF StoreTyped, EnsurePeer
  <2>2. CASE LeaveRoom(p)
    BY <1>0, <2>2 DEF StoreTyped, LeaveRoom
  <2>3. CASE CreateRoom(r, p)
    BY <1>0, <2>3 DEF StoreTyped, CreateRoom
  <2>4. CASE JoinRoom(r, p)
    BY <1>0, <2>4 DEF StoreTyped, JoinRoom
  <2> QED BY <1>2, <2>1, <2>2, <2>3, <2>4
<1>3. ASSUME NEW c \in SseConns, SseUnregister(c) PROVE meta'[Peer(q)].known
  <2>1. Peer(c) # Peer(q)
    BY <1>3, AskerConnected DEF SseUnregister, Busy
  <2> QED BY <1>0, <1>3, <2>1 DEF SseUnregister, UnregisterPeer, StoreTyped
<1>4. ASSUME NEW c \in SseConns, SseStep(c) PROVE meta'[Peer(q)].known
  <2>1. CASE SseRegister(c)
    <3>1. Peer(c) \in Peers
      BY <2>1 DEF SseRegister, HandlersInv, WorkInv, Workers, Peer
    <3> QED BY <1>0, <2>1, <3>1 DEF SseRegister, EnsurePeer, StoreTyped
  <2>2. CASE SseSubscribe(c) \/ SseUnsubscribe(c) \/ LookUp(c) \/ FindRoom(c) \/ Tell(c)
    BY <1>1, <2>2 DEF SseSubscribe, SseUnsubscribe, LookUp, FindRoom, Tell, store
  <2> QED BY <1>3, <1>4, <2>1, <2>2 DEF SseStep
<1>5. ASSUME NEW s \in Requests, PostStep(s) PROVE meta'[Peer(q)].known
  <2>0. /\ Peer(s) \in Peers
        /\ work[s].at \in RoomStages => work[s].room \in Rooms
    BY <1>5 DEF HandlersInv, WorkInv, Workers, Peer, PostStep, PostEnsure, PostCreate,
         PostJoin, PostTurn, PostJoined, PostReady, PostLeave, LookUp, FindRoom, Tell
  <2>1. CASE PostEnsure(s)
    BY <1>0, <2>0, <2>1 DEF PostEnsure, EnsurePeer, StoreTyped
  <2>2. CASE PostCreate(s) \/ PostJoin(s)
    <3>1. Peer(s) \in Peers /\ work[s].room \in Rooms
      BY <2>0, <2>2 DEF PostCreate, PostJoin, RoomStages
    <3>2. \/ UNCHANGED meta
          \/ CreateRoom(work[s].room, Peer(s)) \/ JoinRoom(work[s].room, Peer(s))
      BY <2>2 DEF PostCreate, PostJoin, store
    <3> QED BY <1>1, <1>2, <3>1, <3>2
  <2>4. CASE PostLeave(s)
    BY <2>0, <1>2, <2>4, ClientsAssumption DEF PostLeave
  <2>3. CASE PostTurn(s) \/ PostJoined(s) \/ PostReady(s) \/ LookUp(s) \/ FindRoom(s) \/ Tell(s)
    BY <1>1, <2>3 DEF PostTurn, PostJoined, PostReady, LookUp, FindRoom, Tell, store
  <2> QED BY <1>5, <2>1, <2>2, <2>3, <2>4 DEF PostStep
<1>6. ASSUME NEW w, SseEnds(w) \/ Reply(w) \/ Deliver(w) PROVE UNCHANGED meta
  BY <1>6 DEF SseEnds, Reply, Deliver, store
<1>8. ASSUME NEW w, NEW p, OpenSse(w, p) PROVE UNCHANGED meta
  BY <1>8 DEF OpenSse, store
<1>9. ASSUME NEW w, NEW p, NEW r, NEW kind, Post(w, kind, p, r) PROVE UNCHANGED meta
  BY <1>9 DEF Post, store
<1>7. ASSUME NEW p \in Peers, NEW t \in Peers, Forward(p, t) PROVE UNCHANGED meta
  BY <1>7 DEF Forward, store
<1> QED BY <1>1, <1>4, <1>5, <1>6, <1>7, <1>8, <1>9 DEF ServerNext, svars

LEMMA PostsApart ==
  ASSUME HandlersInv, ClientsTypeOK, PostsInv,
         \A q \in Requests : work'[q] = work[q],
         \A p \in Peers : client'[p].req = client[p].req,
         \A q \in Requests : Busy(q) /\ meta[Peer(q)].known => meta'[Peer(q)].known
  PROVE  PostsInv'
<1>1. ASSUME NEW q \in Requests, Busy(q) PROVE work[q].peer \in Peers
  BY <1>1 DEF HandlersInv, WorkInv, Busy, Workers
<1>2. ASSUME NEW p \in Peers, client[p].req # NoRequest PROVE client[p].req \in Requests
  BY <1>2 DEF ClientsTypeOK
<1> QED BY <1>1, <1>2 DEF PostsInv, Busy, Asked, Peer

LEMMA PostsKept ==
  ASSUME HandlersInv, StoreTyped, ClientsTypeOK, ConnsInv, PostsInv,
         [ServerNext]_svars, OrderlyStep
  PROVE  PostsInv'
<1>0. /\ \A c \in SseConns : c \in Workers /\ c \notin Requests
      /\ \A q \in Requests : q \in Workers /\ q \notin SseConns
      /\ NoRequest \notin Requests
      /\ \A q \in Requests : Busy(q) => work[q].peer \in Peers
      /\ \A p \in Peers : client[p].req # NoRequest => client[p].req \in Requests
      /\ client \in [Peers -> [at : {"off", "connected", "asked", "in"},
                           conn : SseConns \cup {NoConn},
                           req : Requests \cup {NoRequest}]]
      /\ \A p \in Peers : client[p].at = "asked" <=> client[p].req # NoRequest
      /\ \A q \in Requests : Busy(q) /\ meta[Peer(q)].known => meta'[Peer(q)].known
  BY AskerKnown, WorkersAssumption, RequestsAssumption
     DEF Workers, HandlersInv, WorkInv, Busy, ClientsTypeOK
<1>1. ASSUME NEW p \in Peers, Connect(p) PROVE PostsInv'
  <2> PICK c \in SseConns :
        /\ OpenSse(c, p)
        /\ client' = [client EXCEPT ![p] = [Off EXCEPT !.at = "connected", !.conn = c]]
    BY <1>1, Zenon DEF Connect
  <2>1. \A q \in Requests : work'[q] = work[q]
    BY <1>0, OneServed
  <2>2. \A o \in Peers : client'[o].req = client[o].req
    <3>1. client[p].req = NoRequest
      BY <1>0, <1>1 DEF Connect
    <3> QED BY <1>0, <3>1 DEF Off
  <2> QED BY <1>0, <2>1, <2>2, PostsApart
<1>2. ASSUME NEW p \in Peers, Ask(p) PROVE PostsInv'
  <2> PICK q \in Requests :
        /\ Post(q, IF p = Publisher THEN "create_room" ELSE "join_room", p, Room)
        /\ client' = [client EXCEPT ![p].at = "asked", ![p].req = q]
    BY <1>2, Zenon DEF Ask
  <2>1. /\ work[q].at = "free"
        /\ work'[q].at = IF p = Publisher THEN "create_room" ELSE "join_room"
        /\ work'[q].peer = p /\ work'[q].room = Room
        /\ \A s \in Requests : s # q => work'[s] = work[s]
    BY <1>0, OneServed
  <2>2. /\ client'[p].req = q /\ client[p].req = NoRequest
        /\ \A o \in Peers : o # p => client'[o] = client[o]
    BY <1>0, <1>2 DEF Ask
  <2> QED BY <1>0, <2>1, <2>2 DEF PostsInv, Busy, Asked, Peer, JoinStages
<1>3. ASSUME NEW p \in Peers, Answered(p) PROVE PostsInv'
  <2> DEFINE q == client[p].req
  <2>1. q \in Requests
    BY <1>3 DEF Answered, ClientsTypeOK
  <2>2. /\ work'[q].at = "free"
        /\ \A s \in Requests : s # q => work'[s] = work[s]
    BY <1>0, <1>3, <2>1, OneServed DEF Answered
  <2>3. client'[p].req = NoRequest /\ \A o \in Peers : o # p => client'[o] = client[o]
    BY <1>0, <1>3 DEF Answered
  <2> HIDE DEF q
  <2>4. \A s \in Requests : Busy(s) /\ s # q => Peer(s) # p
    BY DEF PostsInv, Asked, q
  <2> QED BY <1>0, <2>1, <2>2, <2>3, <2>4 DEF PostsInv, Busy, Asked, Peer, q
<1>4. ASSUME NEW p \in Peers, Disconnect(p) PROVE PostsInv'
  <2>1. client[p].req = NoRequest
    BY <1>0, <1>4 DEF Disconnect
  <2>2. \A o \in Peers : client'[o].req = client[o].req
    BY <1>0, <1>4, <2>1 DEF Disconnect, Off
  <2> QED BY <1>0, <1>4, <2>2, PostsApart DEF Disconnect, svars
<1>5. ASSUME NEW c \in SseConns, Receive(c) PROVE PostsInv'
  BY <1>0, <1>5, PostsApart DEF Receive, Deliver
<1>6. ASSUME NEW c \in SseConns, SseStep(c) \/ SseEnds(c), UNCHANGED cvars PROVE PostsInv'
  BY <1>0, <1>6, SseMoves, PostsApart DEF cvars
<1>7. ASSUME NEW q \in Requests, PostStep(q), UNCHANGED cvars PROVE PostsInv'
  <2>1. Busy(q)
    BY <1>7 DEF PostStep, PostEnsure, PostCreate, PostJoin, PostTurn, PostJoined,
                PostReady, PostLeave, LookUp, FindRoom, Tell, Busy
  <2>2. /\ Asked(q) /\ Peer(q) \in Peers /\ UNCHANGED client
        /\ work[q].at \in JoinStages \cup {"create_room", "create"}
    BY <1>0, <1>7, <2>1 DEF PostsInv, Asked, JoinStages, cvars, Peer
  <2>3. /\ \A s \in Requests : s # q => work'[s] = work[s]
        /\ work'[q].peer = work[q].peer
        /\ work[q].at \in {"create_room", "join_room"} => work'[q].room = work[q].room
        /\ <<work[q].at, work'[q].at>> \in
              {<<"create_room", "create">>, <<"join_room", "join">>,
               <<"create", "reply">>, <<"join", "reply">>, <<"join", "turn">>,
               <<"turn", "joined">>, <<"joined", "ready">>, <<"ready", "reply">>}
    BY <1>0, <1>7, <2>2, PostMoves
  <2>4. work[q].at \in {"create_room", "join_room"} => meta'[Peer(q)].known
    <3>1. ASSUME work[q].at \in {"create_room", "join_room"} PROVE PostEnsure(q)
      BY <1>7, <3>1 DEF PostStep, PostCreate, PostJoin, PostTurn, PostJoined,
                PostReady, PostLeave, LookUp, FindRoom, Tell
    <3> QED BY <2>2, <3>1 DEF PostEnsure, EnsurePeer, StoreTyped
  <2>5. Asked(q)' /\ Busy(q)'
    BY <2>2, <2>3, <2>4 DEF Asked, Busy, JoinStages, RoomStages, Peer
  <2>6. ASSUME NEW s \in Requests, s # q, Busy(s)' PROVE Asked(s)'
    BY <1>0, <2>2, <2>3, <2>6 DEF PostsInv, Asked, Busy, Peer
  <2>7. ASSUME NEW p \in Peers, client'[p].req # NoRequest
        PROVE  Busy(client[p].req)' /\ Peer(client[p].req)' = p
    BY <1>0, <2>2, <2>3, <2>5, <2>7 DEF PostsInv, Busy, Peer
  <2> QED BY <2>2, <2>5, <2>6, <2>7 DEF PostsInv
<1>8. ASSUME NEW w \in Workers, Serve(w) PROVE PostsInv'
  BY <1>0, <1>6, <1>7, <1>8 DEF Serve, Workers
<1>9. UNCHANGED allvars => PostsInv'
  BY <1>0, PostsApart DEF allvars, svars, cvars
<1> QED BY <1>1, <1>2, <1>3, <1>4, <1>5, <1>6, <1>8, <1>9 DEF OrderlyStep, ConnectionEnds

(* The room and its seats.                                                 *)
OrderlyChange ==
  \/ UNCHANGED store
  \/ \E p \in Peers : EnsurePeer(p)
  \/ \E c \in SseConns : Peer(c) \in Peers /\ SseUnregister(c)
  \/ ~Exists(Room) /\ CreateRoom(Room, Publisher) /\ meta[Publisher].known
  \/ \E q \in Requests :
       /\ PostJoin(q) /\ Peer(q) \in Peers \ {Publisher}
       /\ Joinable(Room) /\ JoinRoom(Room, Peer(q)) /\ meta[Peer(q)].known

LEMMA OrderlyStore ==
  ASSUME HandlersInv, PostsInv, ClientsTypeOK, OrderlyStep
  PROVE  OrderlyChange
<1> USE DEF OrderlyChange
<1>1. ASSUME NEW p \in Peers, Connect(p) PROVE OrderlyChange
  BY <1>1 DEF Connect, OpenSse
<1>2. ASSUME NEW p \in Peers, Ask(p) PROVE OrderlyChange
  BY <1>2 DEF Ask, Post
<1>3. ASSUME NEW p \in Peers, Answered(p) PROVE OrderlyChange
  BY <1>3 DEF Answered, Reply
<1>4. ASSUME NEW p \in Peers, Disconnect(p) PROVE OrderlyChange
  BY <1>4 DEF Disconnect, svars, store
<1>5. ASSUME NEW c \in SseConns, Receive(c) \/ ConnectionEnds(c) PROVE OrderlyChange
  BY <1>5 DEF Receive, Deliver, ConnectionEnds, SseEnds
<1>6. ASSUME NEW w, LookUp(w) \/ FindRoom(w) \/ Tell(w) PROVE OrderlyChange
  BY <1>6 DEF LookUp, FindRoom, Tell
<1>7. ASSUME NEW c \in SseConns, SseStep(c) PROVE OrderlyChange
  <2>1. SseRegister(c) \/ SseUnregister(c) => Peer(c) \in Peers
    BY DEF SseRegister, SseUnregister, HandlersInv, WorkInv, Workers, Peer
  <2> QED BY <1>6, <1>7, <2>1 DEF SseStep, SseRegister, SseSubscribe, SseUnsubscribe
<1>8. ASSUME NEW q \in Requests, PostStep(q) PROVE OrderlyChange
  <2>1. Busy(q)
    BY <1>8 DEF PostStep, PostEnsure, PostCreate, PostJoin, PostTurn, PostJoined,
                PostReady, PostLeave, LookUp, FindRoom, Tell, Busy
  <2>2. Asked(q) /\ Peer(q) \in Peers
    BY <2>1 DEF PostsInv, HandlersInv, WorkInv, Workers, Busy, Peer
  <2>3. CASE PostEnsure(q)
    BY <2>2, <2>3 DEF PostEnsure
  <2>4. CASE PostCreate(q)
    BY <2>2, <2>4 DEF PostCreate, Asked, RoomStages, JoinStages
  <2>5. CASE PostJoin(q)
    BY <2>2, <2>5 DEF PostJoin, Asked, RoomStages
  <2>6. CASE PostLeave(q)
    BY <2>2, <2>6 DEF PostLeave, Asked, JoinStages
  <2>7. CASE PostTurn(q) \/ PostJoined(q) \/ PostReady(q)
    BY <2>7 DEF PostTurn, PostJoined, PostReady
  <2> QED BY <1>6, <1>8, <2>3, <2>4, <2>5, <2>6, <2>7 DEF PostStep
<1>9. ASSUME NEW w \in Workers, Serve(w) PROVE OrderlyChange
  BY <1>7, <1>8, <1>9 DEF Serve, Workers
<1>10. UNCHANGED allvars => OrderlyChange
  BY DEF allvars, svars, store
<1> QED BY <1>1, <1>2, <1>3, <1>4, <1>5, <1>9, <1>10 DEF OrderlyStep

(* A peer that leaves the store is seated according to its record, which   *)
(* is what frees the seat.                                                 *)
LEMMA SeatsKept ==
  ASSUME StoreTyped, SeatsInv, OrderlyChange
  PROVE  SeatsInv'
<1> USE ClientsAssumption, RoomsAssumption, PeersAssumption DEF StoreTyped, SeatsInv, Exists
<1>1. CASE UNCHANGED store
  BY <1>1 DEF store
<1>2. ASSUME NEW p \in Peers, EnsurePeer(p) PROVE SeatsInv'
  BY <1>2 DEF EnsurePeer
<1>3. ASSUME NEW c \in SseConns, Peer(c) \in Peers, SseUnregister(c) PROVE SeatsInv'
  <2> DEFINE p == Peer(c)
  <2>1. /\ meta' = [meta EXCEPT ![p] = Unknown]
        /\ rooms' = RoomsWithout(p) /\ p \in Peers
    BY <1>3 DEF SseUnregister, UnregisterPeer
  <2> HIDE DEF p
  <2>2. meta'[p] = Unknown /\ \A o \in Peers \ {p} : meta'[o] = meta[o]
    BY <2>1
  <2>3. \/ rooms'[Room] = NoSuchRoom
        \/ /\ rooms'[Room].publisher = rooms[Room].publisher
           /\ rooms'[Room].subs = rooms[Room].subs \ {p}
        \/ rooms'[Room] = rooms[Room] /\ p \notin rooms[Room].subs
    BY <2>1 DEF RoomsWithout
  <2> QED BY <2>1, <2>2, <2>3 DEF Unknown, NoSuchRoom
<1>4. CASE ~Exists(Room) /\ CreateRoom(Room, Publisher)
  BY <1>4 DEF CreateRoom
<1>5. ASSUME NEW p \in Peers \ {Publisher}, Joinable(Room), JoinRoom(Room, p),
             meta[p].known
      PROVE  SeatsInv'
  <2>1. /\ meta'[p].known /\ meta'[p].room = Room /\ ~meta'[p].publisher
        /\ \A o \in Peers \ {p} : meta'[o] = meta[o]
    BY <1>5 DEF JoinRoom
  <2>2. /\ rooms'[Room].subs = rooms[Room].subs \cup {p}
        /\ rooms'[Room].publisher = rooms[Room].publisher
    BY <1>5 DEF JoinRoom
  <2> QED BY <1>5, <2>1, <2>2 DEF Joinable
<1> QED BY <1>1, <1>2, <1>3, <1>4, <1>5 DEF OrderlyChange

(* Only the publisher's own disconnection deletes its room.                *)
LEMMA HostStays ==
  ASSUME StoreTyped, ClientsTypeOK, ConnsInv, SeatsInv, OrderlyChange,
         client[Publisher].at # "off", rooms[Room].publisher = Publisher
  PROVE  rooms'[Room].publisher = Publisher
<1> USE ClientsAssumption, RoomsAssumption, PeersAssumption DEF StoreTyped, SeatsInv, Exists
<1>1. CASE UNCHANGED store
  BY <1>1 DEF store
<1>2. ASSUME NEW p \in Peers, EnsurePeer(p) PROVE rooms'[Room].publisher = Publisher
  BY <1>2 DEF EnsurePeer
<1>3. ASSUME NEW c \in SseConns, Peer(c) \in Peers, SseUnregister(c)
      PROVE  rooms'[Room].publisher = Publisher
  <2>1. Peer(c) # Publisher
    <3>1. SUFFICES ASSUME Peer(c) = Publisher PROVE FALSE
      OBVIOUS
    <3>2. client[Publisher].conn # NoConn /\ client[Publisher].conn \in SseConns
      BY DEF ClientsTypeOK
    <3>3. client[Publisher].conn = c
      BY <1>3, <3>1, <3>2 DEF ConnsInv, SseUnregister, Busy
    <3> QED BY <1>3, <3>1, <3>3 DEF ConnsInv, SseUnregister, Busy, Tied
  <2>2. ~meta[Peer(c)].publisher
    BY <1>3, <2>1
  <2> QED BY <1>3, <2>2 DEF SseUnregister, UnregisterPeer, RoomsWithout
<1>4. CASE CreateRoom(Room, Publisher)
  BY <1>4 DEF CreateRoom
<1>5. ASSUME NEW p \in Peers, JoinRoom(Room, p) PROVE rooms'[Room].publisher = Publisher
  BY <1>5 DEF JoinRoom
<1> QED BY <1>1, <1>2, <1>3, <1>4, <1>5 DEF OrderlyChange

LEMMA ClientChanges ==
  ASSUME ClientsTypeOK, NEW p \in Peers
  PROVE  /\ Connect(p) \/ Ask(p) \/ Answered(p) \/ Disconnect(p) =>
              \E rec : client' = [client EXCEPT ![p] = rec]
         /\ Connect(p) => client'[p].at = "connected"
         /\ Disconnect(p) => client'[p].at = "off"
<1> USE DEF ClientsTypeOK
<1>1. ASSUME Connect(p)
      PROVE  client'[p].at = "connected" /\ \E rec : client' = [client EXCEPT ![p] = rec]
  <2> PICK c \in SseConns :
        client' = [client EXCEPT ![p] = [Off EXCEPT !.at = "connected", !.conn = c]]
    BY <1>1, Zenon DEF Connect
  <2> QED BY DEF Off
<1>2. ASSUME Ask(p) PROVE \E rec : client' = [client EXCEPT ![p] = rec]
  <2> PICK q \in Requests :
        client' = [client EXCEPT ![p].at = "asked", ![p].req = q]
    BY <1>2, Zenon DEF Ask
  <2>1. client' = [client EXCEPT ![p] = [client[p] EXCEPT !.at = "asked", !.req = q]]
    OBVIOUS
  <2> QED BY <2>1
<1>3. ASSUME Answered(p) PROVE \E rec : client' = [client EXCEPT ![p] = rec]
  <2> DEFINE at == IF work[client[p].req].ok \/ p = Publisher THEN "in" ELSE "connected"
  <2>1. client' = [client EXCEPT ![p] = [client[p] EXCEPT !.at = at, !.req = NoRequest]]
    BY <1>3 DEF Answered
  <2> QED BY <2>1
<1>4. ASSUME Disconnect(p)
      PROVE  client'[p].at = "off" /\ \E rec : client' = [client EXCEPT ![p] = rec]
  BY <1>4 DEF Disconnect, Off
<1> QED BY <1>1, <1>2, <1>3, <1>4

LEMMA HostKept ==
  ASSUME StoreTyped, HandlersInv, ClientsTypeOK, OrderlyInv, OrderlyStep
  PROVE  HostInv'
<1>0. /\ Publisher \in Peers /\ Room \in Rooms
      /\ client \in [Peers -> [at : {"off", "connected", "asked", "in"},
                           conn : SseConns \cup {NoConn},
                           req : Requests \cup {NoRequest}]]
      /\ \A p \in Peers : client[p].at = "asked" <=> client[p].req # NoRequest
      /\ \A p \in Peers : client[p].req # NoRequest => client[p].req \in Requests
      /\ \A q \in Requests : q \in Workers /\ q \notin SseConns
  BY ClientsAssumption, WorkersAssumption DEF ClientsTypeOK, Workers
<1> DEFINE P == Publisher
           q == client[P].req
<1>1. OrderlyChange
  BY OrderlyStore DEF OrderlyInv
<1>2. ASSUME Hosting PROVE HostInv'
  <2>1. client[P].at # "off" /\ rooms[Room].publisher = P
    BY <1>2 DEF OrderlyInv, HostInv, Hosting
  <2> QED BY <1>1, <2>1, HostStays DEF OrderlyInv, HostInv
<1>3. CASE client'[P] = client[P] /\ (client[P].at = "asked" => work'[q] = work[q])
  BY <1>2, <1>3 DEF HostInv, Hosting
<1>4. CASE client'[P].at \notin {"in", "asked"}
  BY <1>4 DEF HostInv, Hosting
<1>5. ASSUME NEW p \in Peers, p # P,
             Connect(p) \/ Ask(p) \/ Answered(p) \/ Disconnect(p)
      PROVE  HostInv'
  <2>1. \E rec : client' = [client EXCEPT ![p] = rec]
    BY <1>5, ClientChanges
  <2>3. client'[P] = client[P]
    BY <1>0, <1>5, <2>1
  <2>2. ASSUME client[P].at = "asked" PROVE work'[q] = work[q]
    <3>1. q \in Requests /\ Busy(q) /\ Peer(q) = P
      BY <1>0, <2>2 DEF OrderlyInv, PostsInv
    <3>2. CASE Connect(p)
      BY <1>0, <3>1, <3>2, OneServed DEF Connect
    <3>3. CASE Ask(p)
      BY <1>0, <3>1, <3>3, OneServed DEF Ask, Busy
    <3>4. CASE Answered(p)
      <4>1. client[p].req \in Requests /\ client[p].req # q
        BY <1>0, <1>5, <3>1, <3>4 DEF Answered, OrderlyInv, PostsInv
      <4> QED BY <1>0, <3>1, <3>4, <4>1, OneServed DEF Answered
    <3>5. CASE Disconnect(p)
      BY <3>5 DEF Disconnect, svars
    <3> QED BY <1>5, <3>2, <3>3, <3>4, <3>5
  <2> QED BY <1>3, <2>2, <2>3
<1>6. CASE Connect(P) \/ Disconnect(P)
  <2>1. client'[P].at \in {"connected", "off"}
    BY <1>0, <1>6, ClientChanges
  <2> QED BY <1>4, <2>1
<1>7. CASE Ask(P)
  <2> PICK s \in Requests :
        /\ Post(s, IF P = Publisher THEN "create_room" ELSE "join_room", P, Room)
        /\ client' = [client EXCEPT ![P].at = "asked", ![P].req = s]
    BY <1>7, Zenon DEF Ask
  <2>1. client'[P].at = "asked" /\ client'[P].req = s /\ work'[s].at = "create_room"
    BY <1>0, OneServed
  <2> QED BY <2>1 DEF HostInv, Hosting
<1>8. CASE Answered(P)
  BY <1>2, <1>8 DEF Answered, Hosting
<1>9. ASSUME NEW c \in SseConns, Receive(c) \/ ConnectionEnds(c) \/ SseStep(c),
             UNCHANGED client
      PROVE  HostInv'
  <2>1. \A s \in Requests : work'[s] = work[s]
    BY <1>0, <1>9, SseMoves DEF Receive, Deliver, ConnectionEnds
  <2> QED BY <1>0, <1>3, <1>9, <2>1
<1>10. ASSUME NEW s \in Requests, PostStep(s), UNCHANGED client PROVE HostInv'
  <2>0. /\ Busy(s) /\ Asked(s)
        /\ work[s].at \in JoinStages \cup {"create_room", "create"}
        /\ work[s].at \in RoomStages => work[s].room = Room
    <3>1. Busy(s)
      BY <1>10 DEF PostStep, PostEnsure, PostCreate, PostJoin, PostTurn, PostJoined,
                PostReady, PostLeave, LookUp, FindRoom, Tell, Busy
    <3> QED BY <3>1 DEF OrderlyInv, PostsInv, Asked, JoinStages
  <2>1. CASE q # s
    <3>1. client[P].at = "asked" => work'[q] = work[q]
      BY <1>0, <1>10, <2>0, <2>1, PostMoves
    <3> QED BY <1>3, <1>10, <3>1
  <2>2. CASE q = s /\ work'[q].at # "reply"
    BY <1>2, <1>10, <2>2 DEF HostInv, Hosting
  <2>3. CASE q = s /\ work'[q].at = "reply"
    <3>1. Peer(s) = P
      BY <1>0, <2>3, RequestsAssumption DEF OrderlyInv, PostsInv
    <3>2. work[s].at = "create"
      BY <1>10, <2>0, <2>3, <3>1, PostMoves DEF Asked
    <3>3. PostCreate(s) /\ work[s].room = Room
      BY <1>10, <2>0, <3>2 DEF PostStep, PostEnsure, PostJoin, PostTurn, PostJoined,
                PostReady, PostLeave, LookUp, FindRoom, Tell, RoomStages
    <3>4. rooms'[Room].publisher = P
      <4>1. CASE Exists(Room)
        BY <3>3, <4>1 DEF PostCreate, store, Exists, OrderlyInv, SeatsInv
      <4>2. CASE ~Exists(Room)
        BY <1>0, <3>1, <3>3, <4>2 DEF PostCreate, CreateRoom, StoreTyped
      <4> QED BY <4>1, <4>2
    <3> QED BY <3>4 DEF HostInv
  <2> QED BY <2>1, <2>2, <2>3
<1>11. ASSUME NEW w \in Workers, Serve(w) PROVE HostInv'
  <2>1. UNCHANGED client
    BY <1>11 DEF Serve, cvars
  <2> QED BY <1>9, <1>10, <1>11, <2>1 DEF Serve, Workers
<1>12. CASE UNCHANGED allvars
  BY <1>3, <1>12 DEF allvars, svars, cvars
<1>13. ASSUME NEW c \in SseConns, Receive(c) \/ ConnectionEnds(c) PROVE HostInv'
  BY <1>9, <1>13 DEF Receive, ConnectionEnds, cvars
<1> QED BY <1>5, <1>6, <1>7, <1>8, <1>11, <1>12, <1>13 DEF OrderlyStep

LEMMA OrderlyInit == ClientsInit => OrderlyInv
<1> SUFFICES ASSUME ClientsInit PROVE OrderlyInv
  OBVIOUS
<1>1. /\ \A w \in Workers : ~Busy(w)
      /\ \A p \in Peers : client[p].conn = NoConn /\ client[p].req = NoRequest
                          /\ client[p].at = "off"
      /\ SseConns \subseteq Workers /\ Requests \subseteq Workers
      /\ Publisher \in Peers /\ Room \in Rooms
  BY ClientsAssumption DEF ClientsInit, ServerInit, Busy, Free, Off, Workers
<1>2. ConnsInv /\ PostsInv
  BY <1>1 DEF ConnsInv, PostsInv
<1>3. SeatsInv /\ HostInv
  BY <1>1 DEF ClientsInit, ServerInit, SeatsInv, HostInv, Hosting, NoSuchRoom, Unknown
<1> QED BY <1>2, <1>3 DEF OrderlyInv

ClientsInv == ServerInv /\ ClientsTypeOK /\ (orderly => OrderlyInv)

LEMMA ClientsInvKept ==
  ASSUME ClientsInv, [ClientsNext]_allvars
  PROVE  ClientsInv'
<1>1. ServerInv' /\ ClientsTypeOK' /\ [ServerNext]_svars
  BY ClientsNextInv DEF ClientsInv
<1>2. StoreTyped /\ HandlersInv /\ ClientsTypeOK
  BY DEF ClientsInv, ServerInv, StoreInv
<1>3. ASSUME orderly' PROVE OrderlyInv'
  <2>1. orderly /\ OrderlyStep
    BY <1>2, <1>3, StaysOrderly DEF ClientsInv, OrderlyInv
  <2>2. OrderlyInv
    BY <2>1 DEF ClientsInv
  <2>3. OrderlyChange
    BY <1>2, <2>1, <2>2, OrderlyStore DEF OrderlyInv
  <2>4. ConnsInv' /\ PostsInv' /\ SeatsInv'
    BY <1>1, <1>2, <2>1, <2>2, <2>3, ConnsKept, PostsKept, SeatsKept DEF OrderlyInv
  <2> QED BY <1>2, <2>1, <2>2, <2>4, HostKept DEF OrderlyInv
<1> QED BY <1>1, <1>3 DEF ClientsInv

LEMMA ClientsInvariant == ClientsSpec => []ClientsInv
<1>1. ClientsInit => ClientsInv
  BY ClientsInitInv, OrderlyInit DEF ClientsInv
<1>2. ClientsInv /\ [ClientsNext]_allvars => ClientsInv'
  BY ClientsInvKept
<1> QED BY <1>1, <1>2, PTL DEF ClientsSpec

(* In an orderly run, a publisher that was told its room exists, though    *)
(* create_room may have met another peer's or its own previous room, has   *)
(* that room until it leaves: the server handles disconnections late and   *)
(* in any order, but none of them is of this publisher's connection.       *)
THEOREM ClientsHostedRoom == ClientsSpec => []HostedRoomExists
<1>1. ClientsInv => HostedRoomExists
  BY DEF ClientsInv, OrderlyInv, HostInv, Hosting, HostedRoomExists, HostedRoomKept
<1> QED BY <1>1, ClientsInvariant, PTL

(* In an orderly run, whoever has a seat is on record as having it, so the *)
(* disconnection that comes later frees it, though create_room and         *)
(* join_room may overtake the registration of the connection.              *)
THEOREM ClientsSeats == ClientsSpec => []SeatsOnRecord
<1>1. ClientsInv => SeatsOnRecord
  BY DEF ClientsInv, OrderlyInv, SeatsInv, SeatsOnRecord
<1> QED BY <1>1, ClientsInvariant, PTL
=============================================================================
