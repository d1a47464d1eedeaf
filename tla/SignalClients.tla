--------------------------- MODULE SignalClients ---------------------------
(***************************************************************************)
(* The signaling server with the clients of p2p_client.c (a publisher) and *)
(* p2p_peer.c (subscribers): p2p_signaling_connect, the synchronous        *)
(* create_room or join_room of its on_connected callback, and the end of a *)
(* session by p2p_signaling_disconnect or by a crash.                      *)
(*                                                                         *)
(* The answer to the SSE request is flushed before the handler registers   *)
(* anything, so the client's POST may overtake the registration.  A server *)
(* connection ends some time after the client has gone.  A run is orderly  *)
(* as long as clients connect again only when the server is done with      *)
(* their previous connection, which the pause of p2p_peer.c:1003 makes     *)
(* likely, and never crash; with Faults they may do both.                  *)
(*                                                                         *)
(* Left out: forwarded offers, answers and candidates, which change        *)
(* neither store nor membership; and connections that break on their own.  *)
(***************************************************************************)
EXTENDS SignalServer

CONSTANTS
  Publisher,    \* the peer id of the publisher
  Room,         \* the room it creates
  Faults,       \* whether clients may crash and return early
  MaxConnects   \* bound: the connections and the faults of all clients

ASSUME ClientsAssumption ==
  Publisher \in Peers /\ Room \in Rooms /\ Faults \in BOOLEAN /\ MaxConnects \in Nat

VARIABLES
  client,    \* peer -> its p2p_signaling_client_t
  heard,     \* the subscribers peer_joined and peer_left leave the publisher with
  returned,  \* the publisher has ended a session
  orderly,   \* there was no fault so far
  spent      \* connections and faults so far

cvars == <<client, heard, returned, orderly, spent>>
allvars == <<svars, cvars>>

NoRequest == "no request"
ASSUME RequestsAssumption == NoRequest \notin Requests

Off == [at |-> "off", conn |-> NoConn, req |-> NoRequest]

ClientsTypeOK ==
  /\ client \in [Peers -> [at : {"off", "connected", "asked", "in"},
                           conn : SseConns \cup {NoConn},
                           req : Requests \cup {NoRequest}]]
  /\ \A p \in Peers :
       /\ client[p].at = "off" <=> client[p].conn = NoConn
       /\ client[p].at = "asked" <=> client[p].req # NoRequest
  /\ heard \subseteq Peers
  /\ returned \in BOOLEAN /\ orderly \in BOOLEAN
  /\ spent \in 0 .. MaxConnects

ClientsInit ==
  /\ ServerInit
  /\ client = [p \in Peers |-> Off]
  /\ heard = {}
  /\ returned = FALSE /\ orderly = TRUE /\ spent = 0

Served(p) == \E w \in Workers : work[w] # Free /\ Peer(w) = p

(* A new session knows no subscribers. *)
Forget(p) ==
  /\ heard' = IF p = Publisher THEN {} ELSE heard
  /\ returned' = (returned \/ p = Publisher)

Spend(n) == spent + n <= MaxConnects /\ spent' = spent + n

(* Returning before the server is done with the last connection is a fault. *)
Connect(p) ==
  /\ client[p].at = "off"
  /\ Served(p) => Faults
  /\ Spend(IF Served(p) THEN 2 ELSE 1)
  /\ orderly' = (orderly /\ ~Served(p))
  /\ UNCHANGED returned
  /\ \E c \in SseConns :
       /\ OpenSse(c, p)
       /\ client' = [client EXCEPT ![p] = [Off EXCEPT !.at = "connected", !.conn = c]]
  /\ UNCHANGED heard

Ask(p) ==
  /\ client[p].at = "connected"
  /\ \E q \in Requests :
       /\ Post(q, IF p = Publisher THEN "create_room" ELSE "join_room", p, Room)
       /\ client' = [client EXCEPT ![p].at = "asked", ![p].req = q]
  /\ UNCHANGED <<heard, returned, orderly, spent>>

(* The publisher takes a conflict for success; a subscriber asks again.    *)
AnsweredKeepsRequest(p) ==  \* mutant
  LET q == client[p].req IN
  /\ client[p].at = "asked" /\ work[q].at = "reply"
  /\ Reply(q)
  /\ client' = [client EXCEPT
       ![p].at = IF work[q].ok \/ p = Publisher THEN "in" ELSE "connected"]
  /\ UNCHANGED <<heard, returned, orderly, spent>>
Answered(p) ==
  LET q == client[p].req IN
  /\ client[p].at = "asked" /\ work[q].at = "reply"
  /\ Reply(q)
  /\ client' = [client EXCEPT
       ![p].at = IF work[q].ok \/ p = Publisher THEN "in" ELSE "connected",
       ![p].req = NoRequest]
  /\ UNCHANGED <<heard, returned, orderly, spent>>

(* From the main loop, which runs once p2p_signaling_connect has returned; *)
(* a subscriber may have given up asking by then.                          *)
Disconnect(p) ==
  /\ client[p].at = "in" \/ (client[p].at = "connected" /\ p # Publisher)
  /\ client' = [client EXCEPT ![p] = Off]
  /\ Forget(p)
  /\ UNCHANGED <<svars, orderly, spent>>

(* The process ends; a request it has sent is served all the same.         *)
Crash(p) ==
  /\ Faults /\ client[p].at # "off"
  /\ Spend(1)
  /\ orderly' = FALSE
  /\ client' = [client EXCEPT ![p] = Off]
  /\ Forget(p)
  /\ UNCHANGED svars

ReplyUnread(q) ==
  /\ \A p \in Peers : client[p].req # q
  /\ Reply(q)
  /\ UNCHANGED cvars

(* The server writes an event out; the client reads it if it is there.     *)
Receive(c) ==
  /\ Deliver(c)
  /\ LET e == Head(queues[c]) IN
     heard' = IF client[Publisher].conn # c THEN heard
              ELSE IF e.type = "peer_joined" THEN heard \cup {e.about}
              ELSE IF e.type = "peer_left" THEN heard \ {e.about}
              ELSE heard
  /\ UNCHANGED <<client, returned, orderly, spent>>

ConnectionEnds(c) ==
  /\ \A p \in Peers : client[p].conn # c
  /\ SseEnds(c)
  /\ UNCHANGED cvars

Serve(w) ==
  /\ IF w \in SseConns THEN SseStep(w) ELSE PostStep(w)
  /\ UNCHANGED cvars

ClientsNext ==
  \/ \E p \in Peers :
       Connect(p) \/ Ask(p) \/ Answered(p) \/ Disconnect(p) \/ Crash(p)
  \/ \E q \in Requests : ReplyUnread(q)
  \/ \E c \in SseConns : Receive(c) \/ ConnectionEnds(c)
  \/ \E w \in Workers : Serve(w)

ClientsSpec == ClientsInit /\ [][ClientsNext]_allvars

(* The server's goroutines run on, and it notices that a client has gone:  *)
(* its request context is cancelled, or a ping fails.                      *)
Fairness ==
  /\ \A w \in Workers : WF_allvars(Serve(w))
  /\ \A c \in SseConns : WF_allvars(ConnectionEnds(c))

ClientsFairSpec == ClientsSpec /\ Fairness
-----------------------------------------------------------------------------
(* A publisher that create_room has told that its room exists, made for it *)
(* or "already exists, reusing", has that room as long as it stays.  It    *)
(* does not once there was a fault.                                        *)
HostedRoomKept ==
  client[Publisher].at = "in" => rooms[Room].publisher = Publisher

(* HostedRoomKept holds of clients that leave cleanly and return late.     *)
HostedRoomExists == orderly => HostedRoomKept

(* Whoever has a seat is on record as sitting there: the record is what a  *)
(* later leave_room or disconnection frees the seat by.                    *)
SeatsOnRecord ==
  orderly => \A p \in rooms[Room].subs :
    meta[p].known /\ meta[p].room = Room /\ ~meta[p].publisher

(* When the server has nothing left to do or to deliver, a publisher that  *)
(* has not restarted has heard of nobody who is not in its room: peer_left *)
(* comes after the peer_joined it takes back.  (To a restarted one, a join *)
(* of its previous room may still be announced.)                           *)
Quiet ==
  /\ \A w \in Workers : work[w].at \in {"free", "open"}
  /\ \A c \in SseConns : queues[c] = << >>
NoGhostHeard ==
  orderly /\ Quiet /\ client[Publisher].at = "in" /\ ~returned
    => heard \subseteq rooms[Room].subs

(* A subscriber that left cleanly gets out of the room. *)
SeatFreed ==
  \A p \in Peers \ {Publisher} :
    client[p].at = "off" ~> p \notin rooms[Room].subs \/ ~orderly

(* When all clients are gone, by whatever end, so are their channels.      *)
ChannelsReleased ==
  (\A p \in Peers : client[p].at = "off")
    ~> \/ \A p \in Peers : chans[p] = NoConn
       \/ \E p \in Peers : client[p].at # "off"
=============================================================================
