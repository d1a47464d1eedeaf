-------------------------- MODULE SignalHeardProofs --------------------------
(***************************************************************************)
(* What an orderly publisher hears of its subscribers.  Of each of them it *)
(* is sent a peer_joined by the subscriber's POST and a peer_left by the   *)
(* end of the subscriber's connection, by different goroutines, over a     *)
(* channel that drops what it has no room for.  The proof follows, for     *)
(* each peer that is not in the room, what the publisher has read and what *)
(* it has yet to read; and it counts what the connections of subscribers   *)
(* may yet put into the channel, so that no peer_left is dropped.          *)
(***************************************************************************)
EXTENDS SignalClientsProofs, SequenceTheorems

(* The events in the publisher's channel.                                  *)
Mail == IF client[Publisher].conn = NoConn THEN << >> ELSE queues[client[Publisher].conn]

(* Whether a peer_left follows every peer_joined about p that is in s, and *)
(* the one that was read before s if there was one (was).                  *)
Cancelled(was, s, p) ==
  /\ was => \E j \in 1 .. Len(s) : s[j] = Event("peer_left", p)
  /\ \A i \in 1 .. Len(s) : s[i] = Event("peer_joined", p) =>
       \E j \in i + 1 .. Len(s) : s[j] = Event("peer_left", p)

(* p's seat is free, or is freed by the next step of p's connection.       *)
Absent(p) ==
  \/ p \notin rooms[Room].subs
  \/ \E c \in SseConns : work[c].at = "unregister" /\ Peer(c) = p

(* An event goes only into a channel that is registered.                   *)
UnreadInv == \A c \in SseConns : ~Subscribed(c) => queues[c] = << >>

(* Until the publisher ends its session, it is on one connection, and it   *)
(* has heard nothing before that is registered.                            *)
StayInv ==
  /\ \A c \in SseConns : Busy(c) /\ Peer(c) = Publisher => client[Publisher].conn = c
  /\ chans[Publisher] = NoConn => heard = {} /\ Mail = << >>

(* Whoever leaves tells the publisher, whoever joins does so seated.       *)
LeaveInv ==
  \A c \in SseConns :
    /\ work[c].at = "find" => work[c].room = Room /\ ~work[c].publisher
    /\ work[c].at = "tell" => work[c].tell = {Publisher}
JoinInv ==
  \A q \in Requests : work[q].at \in {"turn", "joined", "ready"} =>
    Peer(q) \in rooms[Room].subs /\ work[q].tell = {Publisher}

HeardInv == \A p \in Peers : Absent(p) => Cancelled(p \in heard, Mail, p)

GhostInv == StayInv /\ LeaveInv /\ JoinInv /\ HeardInv

(* There is room for the next peer_left.                                   *)
TellFits ==
  (\E c \in SseConns : work[c].at = "tell") /\ chans[Publisher] # NoConn
    => Len(Mail) < ChanCap

-----------------------------------------------------------------------------
(* Sequences of events.                                                    *)
LEMMA CancelledAppend ==
  ASSUME NEW s \in Seq(Events), NEW p, NEW e, e # Event("peer_joined", p),
         NEW was \in BOOLEAN, Cancelled(was, s, p)
  PROVE  Cancelled(was, Append(s, e), p)
<1>1. /\ Len(Append(s, e)) = Len(s) + 1 /\ Append(s, e)[Len(s) + 1] = e
      /\ \A i \in 1 .. Len(s) : Append(s, e)[i] = s[i]
      /\ Len(s) \in Nat
  OBVIOUS
<1> QED BY <1>1 DEF Cancelled

LEMMA CancelledByLeft ==
  ASSUME NEW s \in Seq(Events), NEW p, NEW was \in BOOLEAN
  PROVE  Cancelled(was, Append(s, Event("peer_left", p)), p)
<1> DEFINE e == Event("peer_left", p)
<1>1. /\ Len(Append(s, e)) = Len(s) + 1 /\ Append(s, e)[Len(s) + 1] = e
      /\ \A i \in 1 .. Len(s) : Append(s, e)[i] = s[i]
      /\ Len(s) \in Nat
  OBVIOUS
<1>2. e # Event("peer_joined", p)
  BY DEF Event
<1> HIDE DEF e
<1>3. Len(s) + 1 \in 1 .. Len(Append(s, e))
  BY <1>1
<1>4. ASSUME NEW i \in 1 .. Len(Append(s, e)), Append(s, e)[i] = Event("peer_joined", p)
      PROVE  Len(s) + 1 \in i + 1 .. Len(Append(s, e))
  BY <1>1, <1>2, <1>4
<1>5. Cancelled(was, Append(s, e), p)
  BY <1>1, <1>3, <1>4 DEF Cancelled, e
<1> QED BY <1>5 DEF e

LEMMA CancelledRead ==
  ASSUME NEW s \in Seq(Events), s # << >>, NEW p,
         NEW was \in BOOLEAN, NEW now \in BOOLEAN, Cancelled(was, s, p),
         now => \/ Head(s) = Event("peer_joined", p)
                \/ was /\ Head(s) # Event("peer_left", p)
  PROVE  Cancelled(now, Tail(s), p)
<1>1. /\ Len(s) \in Nat /\ Len(s) >= 1 /\ Head(s) = s[1]
      /\ Len(Tail(s)) = Len(s) - 1
      /\ \A i \in 1 .. Len(s) - 1 : Tail(s)[i] = s[i + 1]
  BY HeadTailProperties, EmptySeq
<1>2. ASSUME now PROVE \E j \in 1 .. Len(Tail(s)) : Tail(s)[j] = Event("peer_left", p)
  <2>1. PICK j \in 1 .. Len(s) : s[j] = Event("peer_left", p) /\ j > 1
    <3>1. CASE Head(s) = Event("peer_joined", p)
      <4>1. PICK j \in 1 + 1 .. Len(s) : s[j] = Event("peer_left", p)
        BY <1>1, <3>1 DEF Cancelled
      <4> QED BY <1>1, <4>1
    <3>2. CASE was /\ Head(s) # Event("peer_left", p)
      BY <1>1, <3>2 DEF Cancelled
    <3> QED BY <1>2, <3>1, <3>2
  <2>2. j - 1 \in 1 .. Len(Tail(s)) /\ Tail(s)[j - 1] = s[j]
    BY <1>1, <2>1
  <2> QED BY <2>1, <2>2
<1>3. ASSUME NEW i \in 1 .. Len(Tail(s)), Tail(s)[i] = Event("peer_joined", p)
      PROVE  \E j \in i + 1 .. Len(Tail(s)) : Tail(s)[j] = Event("peer_left", p)
  <2>1. i + 1 \in 1 .. Len(s) /\ s[i + 1] = Event("peer_joined", p)
    BY <1>1, <1>3
  <2>2. PICK j \in (i + 1) + 1 .. Len(s) : s[j] = Event("peer_left", p)
    BY <2>1 DEF Cancelled
  <2>3. j - 1 \in i + 1 .. Len(Tail(s)) /\ Tail(s)[j - 1] = s[j]
    BY <1>1, <2>2
  <2> QED BY <2>2, <2>3
<1> QED BY <1>2, <1>3 DEF Cancelled

-----------------------------------------------------------------------------
(* Channels.                                                               *)
LEMMA PublishReaches ==
  ASSUME ChansTyped, HandlersInv, NoDeadChannel, NEW p, NEW e, Publish(p, e),
         NEW c \in SseConns, queues'[c] # queues[c]
  PROVE  p \in Peers /\ chans[p] = c /\ Subscribed(c) /\ work[c].peer = p
BY DEF Publish, Reaches, ChansTyped, NoDeadChannel, Subscribed

LEMMA QueueChange ==
  ASSUME ChansTyped, HandlersInv, NoDeadChannel, [ServerNext]_svars,
         NEW c \in SseConns, queues'[c] # queues[c]
  PROVE  Subscribed(c) \/ SseUnsubscribe(c)
<1>1. ASSUME NEW p, NEW e, Publish(p, e) PROVE Subscribed(c)
  BY <1>1, PublishReaches
<1>2. CASE UNCHANGED queues
  BY <1>2
<1>3. ASSUME NEW w, Tell(w) PROVE Subscribed(c)
  BY <1>1, <1>3 DEF Tell
<1>4. ASSUME NEW w, PostTurn(w) \/ PostJoined(w) \/ PostReady(w) PROVE Subscribed(c)
  BY <1>1, <1>4 DEF PostTurn, PostJoined, PostReady
<1>5. ASSUME NEW d \in SseConns, Deliver(d) PROVE Subscribed(c)
  <2>1. c = d
    BY <1>5 DEF Deliver, ChansTyped
  <2> QED BY <1>5, <2>1 DEF Deliver, Subscribed
<1>6. ASSUME NEW d \in SseConns, SseUnsubscribe(d) PROVE SseUnsubscribe(c)
  <2>1. c = d
    BY <1>6 DEF SseUnsubscribe, ChansTyped
  <2> QED BY <1>6, <2>1
<1>7. ASSUME NEW d \in SseConns, SseStep(d) PROVE Subscribed(c) \/ SseUnsubscribe(c)
  <2>1. CASE SseRegister(d) \/ SseSubscribe(d) \/ SseUnregister(d) \/ LookUp(d) \/ FindRoom(d)
    BY <1>2, <2>1 DEF SseRegister, SseSubscribe, SseUnregister, LookUp, FindRoom
  <2> QED BY <1>3, <1>6, <1>7, <2>1 DEF SseStep
<1>8. ASSUME NEW q, PostStep(q) PROVE Subscribed(c)
  <2>1. CASE PostEnsure(q) \/ PostCreate(q) \/ PostJoin(q) \/ PostLeave(q)
             \/ LookUp(q) \/ FindRoom(q)
    BY <1>2, <2>1 DEF PostEnsure, PostCreate, PostJoin, PostLeave, LookUp, FindRoom
  <2> QED BY <1>3, <1>4, <1>8, <2>1 DEF PostStep
<1>9. ASSUME NEW w, SseEnds(w) \/ Reply(w) PROVE UNCHANGED queues
  BY <1>9 DEF SseEnds, Reply
<1>10. ASSUME NEW w, NEW p, OpenSse(w, p) PROVE UNCHANGED queues
  BY <1>10 DEF OpenSse
<1>11. ASSUME NEW w, NEW p, NEW r, NEW kind, Post(w, kind, p, r) PROVE UNCHANGED queues
  BY <1>11 DEF Post
<1>12. ASSUME NEW p, NEW t, Forward(p, t) PROVE Subscribed(c)
  BY <1>1, <1>12 DEF Forward
<1> QED BY <1>2, <1>5, <1>7, <1>8, <1>9, <1>10, <1>11, <1>12 DEF ServerNext, svars

LEMMA UnreadKept ==
  ASSUME ServerInv, UnreadInv, [ServerNext]_svars
  PROVE  UnreadInv'
<1>0. ChansTyped /\ HandlersInv /\ NoDeadChannel
  BY DEF ServerInv
<1>1. ASSUME NEW c \in SseConns, ~Subscribed(c)' PROVE queues'[c] = << >>
  <2>1. CASE SseUnsubscribe(c)
    BY <1>0, <2>1 DEF SseUnsubscribe, ChansTyped
  <2>2. CASE ~SseUnsubscribe(c)
    <3>1. ~Subscribed(c)
      BY <1>0, <1>1, <2>2, SubscribedKept
    <3> QED BY <1>0, <2>2, <3>1, QueueChange DEF UnreadInv
  <2> QED BY <2>1, <2>2
<1> QED BY <1>1 DEF UnreadInv

LEMMA PublisherConn ==
  ASSUME ServerInv, ClientsTypeOK, OrderlyInv, StayInv
  PROVE  /\ client[Publisher].conn \in SseConns \cup {NoConn} /\ NoConn \notin SseConns
         /\ client[Publisher].conn # NoConn =>
              Busy(client[Publisher].conn) /\ Peer(client[Publisher].conn) = Publisher
         /\ chans[Publisher] \in {NoConn, client[Publisher].conn}
         /\ \A c \in SseConns : Busy(c) /\ Peer(c) = Publisher =>
              work[c].at \in {"register", "subscribe", "open"}
         /\ Mail \in Seq(Events) /\ Len(Mail) <= ChanCap
<1>1. /\ client[Publisher].conn \in SseConns \cup {NoConn} /\ NoConn \notin SseConns
      /\ Publisher \in Peers
  BY ClientsAssumption, WorkersAssumption DEF ClientsTypeOK
<1>2. ASSUME chans[Publisher] # NoConn PROVE chans[Publisher] = client[Publisher].conn
  BY <1>1, <1>2 DEF ServerInv, NoDeadChannel, ChansTyped, StayInv, Busy, Peer
<1>3. \A c \in SseConns : Busy(c) /\ Peer(c) = Publisher =>
        work[c].at \in {"register", "subscribe", "open"}
  BY <1>1 DEF StayInv, OrderlyInv, ConnsInv, Tied
<1>4. << >> \in Seq(Events) /\ Len(<< >>) <= ChanCap
  BY ChanAssumption
<1>5. Mail \in Seq(Events) /\ Len(Mail) <= ChanCap
  BY <1>1, <1>4 DEF Mail, ServerInv, ChansTyped
<1>6. client[Publisher].conn # NoConn =>
        Busy(client[Publisher].conn) /\ Peer(client[Publisher].conn) = Publisher
  BY <1>1 DEF OrderlyInv, ConnsInv
<1> QED BY <1>1, <1>2, <1>3, <1>5, <1>6

(* An event for the publisher goes to the end of its channel or nowhere.   *)
MailPut(e) ==
  /\ heard' = heard
  /\ IF chans[Publisher] # NoConn /\ Len(Mail) < ChanCap THEN Mail' = Append(Mail, e)
                                                        ELSE Mail' = Mail

LEMMA PublishMail ==
  ASSUME ServerInv, ClientsTypeOK, OrderlyInv, StayInv,
         NEW p \in Peers, NEW e, Publish(p, e), client' = client, heard' = heard
  PROVE  IF p = Publisher THEN MailPut(e) ELSE Mail' = Mail
<1>0. chans \in [Peers -> SseConns \cup {NoConn}] /\ queues \in [SseConns -> Seq(Events)]
  BY DEF ServerInv, ChansTyped
<1>1. CASE p = Publisher
  <2>1. CASE chans[p] # NoConn
    <3>1. chans[p] = client[p].conn /\ Mail = queues[chans[p]] /\ chans[p] \in SseConns
      BY <1>0, <1>1, <2>1, PublisherConn DEF Mail
    <3> QED BY <1>0, <1>1, <2>1, <3>1 DEF MailPut, Mail, Publish, Reaches
  <2>2. CASE chans[p] = NoConn
    BY <1>1, <2>2 DEF MailPut, Mail, Publish, Reaches
  <2> QED BY <1>1, <2>1, <2>2
<1>2. CASE p # Publisher
  <2>1. client[Publisher].conn # NoConn => queues'[client[Publisher].conn] = queues[client[Publisher].conn]
    <3>1. SUFFICES ASSUME client[Publisher].conn # NoConn,
                          queues'[client[Publisher].conn] # queues[client[Publisher].conn]
                   PROVE  FALSE
      OBVIOUS
    <3>2. work[client[Publisher].conn].peer = p
      BY <3>1, PublishReaches, PublisherConn DEF ServerInv
    <3> QED BY <1>2, <3>1, <3>2, PublisherConn DEF Peer
  <2> QED BY <1>2, <2>1 DEF Mail
<1> QED BY <1>1, <1>2

LEMMA MailTell ==
  ASSUME ServerInv, ClientsTypeOK, OrderlyInv, StayInv, LeaveInv,
         NEW c \in SseConns, Tell(c), UNCHANGED cvars
  PROVE  MailPut(Event("peer_left", Peer(c))) /\ work'[c].at = "unregister"
<1>1. work[c].tell = {Publisher} /\ Publisher \in Peers
  BY ClientsAssumption DEF Tell, LeaveInv
<1>2. Publish(Publisher, Event("peer_left", Peer(c)))
  BY <1>1 DEF Tell
<1>3. GoTo(c, LastStep(c))
  BY <1>1 DEF Tell
<1>4. work'[c].at = "unregister"
  BY <1>3, StageTyped DEF GoTo, LastStep, ServerInv, HandlersInv, WorkTyped, Workers, SseStages
<1> QED BY <1>1, <1>2, <1>4, PublishMail DEF cvars

(* A connection starts with an empty channel.                              *)
LEMMA ConnectMail ==
  ASSUME ClientsTypeOK, UnreadInv, NEW p \in Peers, Connect(p)
  PROVE  Mail' = Mail /\ heard' = heard
<1>0. /\ client \in [Peers -> [at : {"off", "connected", "asked", "in"},
                           conn : SseConns \cup {NoConn},
                           req : Requests \cup {NoRequest}]]
      /\ \A o \in Peers : client[o].at = "off" <=> client[o].conn = NoConn
      /\ Publisher \in Peers /\ NoConn \notin SseConns
  BY ClientsAssumption, WorkersAssumption DEF ClientsTypeOK
<1> PICK c \in SseConns :
      /\ OpenSse(c, p)
      /\ client' = [client EXCEPT ![p] = [Off EXCEPT !.at = "connected", !.conn = c]]
  BY Zenon DEF Connect
<1>1. UNCHANGED queues /\ heard' = heard
  BY DEF OpenSse, Connect
<1>2. CASE p # Publisher
  <2>1. client'[Publisher].conn = client[Publisher].conn
    BY <1>0, <1>2
  <2> HIDE DEF Mail
  <2>2. Mail' = Mail
    BY <1>1, <2>1 DEF Mail
  <2> QED BY <1>1, <2>2
<1>3. CASE p = Publisher
  <2>1. Mail = << >>
    BY <1>0, <1>3 DEF Mail, Connect
  <2>2. queues[c] = << >>
    BY DEF OpenSse, UnreadInv, Subscribed, Free
  <2>3. client'[Publisher].conn = c
    BY <1>0, <1>3 DEF Off
  <2>4. Mail' = << >>
    BY <1>1, <2>2, <2>3 DEF Mail
  <2> QED BY <1>1, <2>1, <2>4
<1> QED BY <1>2, <1>3

LEMMA MailMoves ==
  ASSUME ServerInv, ClientsTypeOK, OrderlyInv, UnreadInv, StayInv, LeaveInv, JoinInv,
         OrderlyStep, ~returned', returned \in BOOLEAN
  PROVE  \/ Mail' = Mail /\ heard' = heard
         \/ \E c \in SseConns : /\ Tell(c) /\ UNCHANGED cvars
                                /\ MailPut(Event("peer_left", Peer(c)))
         \/ \E q \in Requests : /\ PostTurn(q) /\ UNCHANGED cvars
                                /\ MailPut(Event("turn_credentials", Publisher))
         \/ \E q \in Requests : /\ PostJoined(q) /\ UNCHANGED cvars
                                /\ MailPut(Event("peer_joined", Peer(q)))
         \/ /\ Mail # << >> /\ Mail' = Tail(Mail)
            /\ heard' = IF Head(Mail).type = "peer_joined" THEN heard \cup {Head(Mail).about}
                        ELSE IF Head(Mail).type = "peer_left" THEN heard \ {Head(Mail).about}
                        ELSE heard
<1> DEFINE P == Publisher
           Goal == \/ Mail' = Mail /\ heard' = heard
                   \/ \E c \in SseConns : /\ Tell(c) /\ UNCHANGED cvars
                                          /\ MailPut(Event("peer_left", Peer(c)))
                   \/ \E q \in Requests : /\ PostTurn(q) /\ UNCHANGED cvars
                                          /\ MailPut(Event("turn_credentials", P))
                   \/ \E q \in Requests : /\ PostJoined(q) /\ UNCHANGED cvars
                                          /\ MailPut(Event("peer_joined", Peer(q)))
                   \/ /\ Mail # << >> /\ Mail' = Tail(Mail)
                      /\ heard' = IF Head(Mail).type = "peer_joined" THEN heard \cup {Head(Mail).about}
                                  ELSE IF Head(Mail).type = "peer_left" THEN heard \ {Head(Mail).about}
                                  ELSE heard
<1>0. /\ P \in Peers
      /\ client \in [Peers -> [at : {"off", "connected", "asked", "in"},
                           conn : SseConns \cup {NoConn},
                           req : Requests \cup {NoRequest}]]
      /\ \A p \in Peers : client[p].at = "off" <=> client[p].conn = NoConn
      /\ queues \in [SseConns -> Seq(Events)]
      /\ SseConns \subseteq Workers
  BY ClientsAssumption DEF ClientsTypeOK, ServerInv, ChansTyped, Workers
<1>1. CASE UNCHANGED queues /\ client'[P].conn = client[P].conn /\ heard' = heard
  BY <1>1 DEF Mail
<1>2. ASSUME NEW p \in Peers, Connect(p) PROVE Goal
  BY <1>2, ConnectMail
<1>3. ASSUME NEW p \in Peers, Ask(p) PROVE Goal
  <2> PICK q \in Requests :
        /\ Post(q, IF p = Publisher THEN "create_room" ELSE "join_room", p, Room)
        /\ client' = [client EXCEPT ![p].at = "asked", ![p].req = q]
    BY <1>3, Zenon DEF Ask
  <2>1. client'[P].conn = client[P].conn
    BY <1>0
  <2> QED BY <1>1, <1>3, <2>1 DEF Ask, Post
<1>4. ASSUME NEW p \in Peers, Answered(p) PROVE Goal
  <2>1. client'[P].conn = client[P].conn
    BY <1>0, <1>4 DEF Answered
  <2> QED BY <1>1, <1>4, <2>1 DEF Answered, Reply
<1>5. ASSUME NEW p \in Peers, Disconnect(p) PROVE Goal
  <2>1. p # P /\ heard' = heard
    BY <1>5 DEF Disconnect, Forget
  <2>2. client'[P] = client[P]
    BY <1>0, <1>5, <2>1 DEF Disconnect
  <2> QED BY <1>1, <1>5, <2>1, <2>2 DEF Disconnect, svars
<1>6. ASSUME NEW c \in SseConns, Receive(c) PROVE Goal
  <2>1. UNCHANGED client /\ queues' = [queues EXCEPT ![c] = Tail(@)] /\ queues[c] # << >>
    BY <1>6 DEF Receive, Deliver
  <2>2. CASE client[P].conn = c
    <3>1. Mail = queues[c] /\ Mail' = Tail(queues[c])
      BY <1>0, <2>1, <2>2, PublisherConn DEF Mail
    <3> QED BY <1>6, <2>1, <2>2, <3>1 DEF Receive
  <2>3. CASE client[P].conn # c
    <3>1. Mail' = Mail
      BY <1>0, <2>1, <2>3 DEF Mail
    <3> QED BY <1>6, <2>3, <3>1 DEF Receive
  <2> QED BY <2>2, <2>3
<1>7. ASSUME NEW c \in SseConns, ConnectionEnds(c) PROVE Goal
  BY <1>1, <1>7 DEF ConnectionEnds, SseEnds, cvars
<1>8. ASSUME NEW c \in SseConns, SseStep(c), UNCHANGED cvars PROVE Goal
  <2>1. CASE SseRegister(c) \/ SseSubscribe(c) \/ SseUnregister(c) \/ LookUp(c) \/ FindRoom(c)
    BY <1>1, <1>8, <2>1 DEF SseRegister, SseSubscribe, SseUnregister, LookUp, FindRoom, cvars
  <2>2. CASE SseUnsubscribe(c)
    <3>1. client[P].conn # c
      BY <2>2, PublisherConn DEF SseUnsubscribe, Busy
    <3> QED BY <1>0, <1>8, <2>2, <3>1 DEF SseUnsubscribe, Mail, cvars
  <2>3. CASE Tell(c)
    BY <1>8, <2>3, MailTell
  <2> QED BY <1>8, <2>1, <2>2, <2>3 DEF SseStep
<1>9. ASSUME NEW q \in Requests, PostStep(q), UNCHANGED cvars PROVE Goal
  <2>0. Asked(q) /\ Busy(q) /\ Peer(q) \in Peers
    <3>1. Busy(q)
      BY <1>9 DEF PostStep, PostEnsure, PostCreate, PostJoin, PostTurn, PostJoined,
                  PostReady, PostLeave, LookUp, FindRoom, Tell, Busy
    <3> QED BY <3>1 DEF OrderlyInv, PostsInv, ServerInv, HandlersInv, WorkInv, Workers,
                        Busy, Peer
  <2>1. CASE PostEnsure(q) \/ PostCreate(q) \/ PostJoin(q)
    BY <1>1, <1>9, <2>1 DEF PostEnsure, PostCreate, PostJoin, cvars
  <2>2. CASE PostLeave(q) \/ LookUp(q) \/ FindRoom(q) \/ Tell(q)
    BY <2>0, <2>2 DEF PostLeave, LookUp, FindRoom, Tell, Asked, JoinStages
  <2>3. CASE PostTurn(q)
    <3>1. Publish(P, Event("turn_credentials", P))
      BY <2>3 DEF PostTurn, JoinInv
    <3> QED BY <1>0, <1>9, <2>3, <3>1, PublishMail DEF cvars
  <2>4. CASE PostJoined(q)
    <3>1. Publish(P, Event("peer_joined", Peer(q)))
      BY <2>4 DEF PostJoined, JoinInv
    <3> QED BY <1>0, <1>9, <2>4, <3>1, PublishMail DEF cvars
  <2>5. CASE PostReady(q)
    <3>1. Peer(q) # P
      BY <2>0, <2>5 DEF PostReady, Asked
    <3>2. PICK t \in work[q].tell : Publish(Peer(q), Event("publisher_ready", t))
      BY <2>5 DEF PostReady
    <3> QED BY <1>9, <2>0, <3>1, <3>2, PublishMail DEF cvars
  <2> QED BY <1>9, <2>1, <2>2, <2>3, <2>4, <2>5 DEF PostStep
<1>10. ASSUME NEW w \in Workers, Serve(w) PROVE Goal
  BY <1>8, <1>9, <1>10 DEF Serve, Workers
<1>11. UNCHANGED allvars => Goal
  BY <1>1 DEF allvars, svars, cvars
<1> QED
  <2>1. Goal
    <3> HIDE DEF Goal
    <3> QED BY <1>2, <1>3, <1>4, <1>5, <1>6, <1>7, <1>10, <1>11 DEF OrderlyStep
  <2> QED BY <2>1

-----------------------------------------------------------------------------
(* Seats and connections.                                                  *)

(* While the publisher stays, a seat is freed only by the end of its       *)
(* holder's connection.                                                    *)
LEMMA SeatLost ==
  ASSUME ServerInv, ClientsTypeOK, OrderlyInv, StayInv, OrderlyStep,
         NEW p \in rooms[Room].subs, p \notin rooms'[Room].subs
  PROVE  \E c \in SseConns : work[c].at = "unregister" /\ Peer(c) = p
<1>0. /\ StoreTyped /\ Room \in Rooms
      /\ OrderlyChange
  BY ClientsAssumption, OrderlyStore DEF ServerInv, StoreInv, OrderlyInv
<1>1. CASE UNCHANGED store
  BY <1>1 DEF store
<1>2. ASSUME NEW o \in Peers, EnsurePeer(o) PROVE FALSE
  BY <1>2 DEF EnsurePeer
<1>3. ASSUME NEW c \in SseConns, Peer(c) \in Peers, SseUnregister(c)
      PROVE  work[c].at = "unregister" /\ Peer(c) = p
  <2>1. work[c].at = "unregister" /\ Peer(c) # Publisher
    BY <1>3, PublisherConn DEF SseUnregister, Busy
  <2>2. ~meta[Peer(c)].publisher
    BY <1>3, <2>1 DEF OrderlyInv, SeatsInv
  <2>3. rooms' = RoomsWithout(Peer(c))
    BY <1>3 DEF SseUnregister, UnregisterPeer
  <2>4. p \in rooms'[Room].subs \/ p = Peer(c)
    BY <1>0, <2>2, <2>3 DEF RoomsWithout, StoreTyped
  <2> QED BY <2>1, <2>4
<1>4. CASE ~Exists(Room)
  BY <1>4 DEF OrderlyInv, SeatsInv
<1>5. ASSUME NEW o, JoinRoom(Room, o) PROVE FALSE
  BY <1>0, <1>5 DEF JoinRoom, StoreTyped
<1> QED BY <1>0, <1>1, <1>2, <1>3, <1>4, <1>5 DEF OrderlyChange

(* What each connection does in a step.                                    *)
LEMMA ConnMoves ==
  ASSUME ServerInv, ClientsTypeOK, OrderlyInv, OrderlyStep, NEW c \in SseConns
  PROVE  \/ work'[c] = work[c]
         \/ SseStep(c) /\ UNCHANGED cvars
         \/ ConnectionEnds(c)
         \/ \E p \in Peers : Connect(p) /\ ~Served(p) /\ OpenSse(c, p)
                             /\ client'[p].conn = c /\ client'[p].at = "connected"
<1>0. /\ \A d \in SseConns : d \in Workers /\ d \notin Requests
      /\ \A q \in Requests : q \in Workers /\ q \notin SseConns
      /\ HandlersInv
      /\ client \in [Peers -> [at : {"off", "connected", "asked", "in"},
                           conn : SseConns \cup {NoConn},
                           req : Requests \cup {NoRequest}]]
  BY WorkersAssumption DEF Workers, ServerInv, ClientsTypeOK
<1>1. ASSUME NEW p \in Peers, Connect(p), ~Served(p), work'[c] # work[c]
      PROVE  OpenSse(c, p) /\ client'[p].conn = c /\ client'[p].at = "connected"
  <2> PICK d \in SseConns :
        /\ OpenSse(d, p)
        /\ client' = [client EXCEPT ![p] = [Off EXCEPT !.at = "connected", !.conn = d]]
    BY <1>1, Zenon DEF Connect
  <2>1. d = c
    BY <1>0, <1>1, OneServed
  <2> QED BY <1>0, <2>1 DEF Off
<1>2. ASSUME NEW p \in Peers, Ask(p) PROVE work'[c] = work[c]
  BY <1>0, <1>2, OneServed DEF Ask
<1>3. ASSUME NEW p \in Peers, Answered(p) PROVE work'[c] = work[c]
  <2>1. client[p].req \in Requests
    BY <1>3 DEF Answered, ClientsTypeOK
  <2> QED BY <1>0, <1>3, <2>1, OneServed DEF Answered
<1>4. ASSUME NEW p \in Peers, Disconnect(p) PROVE work'[c] = work[c]
  BY <1>4 DEF Disconnect, svars
<1>5. ASSUME NEW d \in SseConns, Receive(d) PROVE work'[c] = work[c]
  BY <1>5 DEF Receive, Deliver
<1>6. ASSUME NEW d \in SseConns, d # c, SseStep(d) \/ ConnectionEnds(d)
      PROVE  work'[c] = work[c]
  BY <1>0, <1>6, SseMoves DEF ConnectionEnds
<1>7. ASSUME NEW q \in Requests, PostStep(q) PROVE work'[c] = work[c]
  <2>1. Busy(q)
    BY <1>7 DEF PostStep, PostEnsure, PostCreate, PostJoin, PostTurn, PostJoined,
                PostReady, PostLeave, LookUp, FindRoom, Tell, Busy
  <2> QED BY <1>0, <1>7, <2>1, PostMoves DEF OrderlyInv, PostsInv, Asked, JoinStages
<1>8. ASSUME NEW w \in Workers, Serve(w)
      PROVE  work'[c] = work[c] \/ (SseStep(c) /\ UNCHANGED cvars)
  BY <1>0, <1>6, <1>7, <1>8 DEF Serve, Workers
<1>9. UNCHANGED allvars => work'[c] = work[c]
  BY DEF allvars, svars
<1> QED BY <1>1, <1>2, <1>3, <1>4, <1>5, <1>6, <1>8, <1>9 DEF OrderlyStep

(* What each request does in a step.                                       *)
LEMMA RequestMoves ==
  ASSUME ServerInv, ClientsTypeOK, OrderlyInv, OrderlyStep, NEW q \in Requests
  PROVE  \/ work'[q] = work[q]
         \/ PostStep(q) /\ Asked(q) /\ Busy(q) /\ UNCHANGED cvars
         \/ \E p \in Peers : /\ Ask(p) /\ client'[p].req = q /\ client'[p].at = "asked"
                             /\ work'[q].at \in {"create_room", "join_room"}
         \/ \E p \in Peers : Answered(p) /\ client[p].req = q /\ work'[q].at = "free"
<1>0. /\ \A d \in SseConns : d \in Workers /\ d \notin Requests
      /\ \A s \in Requests : s \in Workers /\ s \notin SseConns
      /\ HandlersInv
      /\ client \in [Peers -> [at : {"off", "connected", "asked", "in"},
                           conn : SseConns \cup {NoConn},
                           req : Requests \cup {NoRequest}]]
  BY WorkersAssumption DEF Workers, ServerInv, ClientsTypeOK
<1>1. ASSUME NEW p \in Peers, Connect(p) PROVE work'[q] = work[q]
  BY <1>0, <1>1, OneServed DEF Connect
<1>2. ASSUME NEW p \in Peers, Ask(p), work'[q] # work[q]
      PROVE  /\ client'[p].req = q /\ client'[p].at = "asked"
             /\ work'[q].at \in {"create_room", "join_room"}
  <2> PICK s \in Requests :
        /\ Post(s, IF p = Publisher THEN "create_room" ELSE "join_room", p, Room)
        /\ client' = [client EXCEPT ![p].at = "asked", ![p].req = s]
    BY <1>2, Zenon DEF Ask
  <2>1. s = q
    BY <1>0, <1>2, OneServed
  <2>2. work'[q].at = IF p = Publisher THEN "create_room" ELSE "join_room"
    BY <1>0, <2>1, OneServed
  <2> QED BY <1>0, <2>1, <2>2
<1>3. ASSUME NEW p \in Peers, Answered(p), work'[q] # work[q]
      PROVE  client[p].req = q /\ work'[q].at = "free"
  <2>1. client[p].req \in Requests
    BY <1>3 DEF Answered, ClientsTypeOK
  <2> QED BY <1>0, <1>3, <2>1, OneServed DEF Answered
<1>4. ASSUME NEW p \in Peers, Disconnect(p) PROVE work'[q] = work[q]
  BY <1>4 DEF Disconnect, svars
<1>5. ASSUME NEW d \in SseConns, Receive(d) PROVE work'[q] = work[q]
  BY <1>5 DEF Receive, Deliver
<1>6. ASSUME NEW d \in SseConns, SseStep(d) \/ ConnectionEnds(d)
      PROVE  work'[q] = work[q]
  BY <1>0, <1>6, SseMoves DEF ConnectionEnds
<1>7. ASSUME NEW s \in Requests, PostStep(s)
      PROVE  Asked(s) /\ Busy(s) /\ (s # q => work'[q] = work[q])
  <2>1. Busy(s)
    BY <1>7 DEF PostStep, PostEnsure, PostCreate, PostJoin, PostTurn, PostJoined,
                PostReady, PostLeave, LookUp, FindRoom, Tell, Busy
  <2> QED BY <1>0, <1>7, <2>1, PostMoves DEF OrderlyInv, PostsInv, Asked, JoinStages
<1>8. ASSUME NEW w \in Workers, Serve(w)
      PROVE  work'[q] = work[q] \/ (PostStep(q) /\ Asked(q) /\ Busy(q) /\ UNCHANGED cvars)
  BY <1>0, <1>6, <1>7, <1>8 DEF Serve, Workers
<1>9. UNCHANGED allvars => work'[q] = work[q]
  BY DEF allvars, svars
<1> QED BY <1>1, <1>2, <1>3, <1>4, <1>5, <1>6, <1>8, <1>9 DEF OrderlyStep

-----------------------------------------------------------------------------
(* The invariant is kept.                                                  *)
LEMMA PublisherStays ==
  ASSUME ClientsTypeOK, OrderlyStep, ~returned', returned \in BOOLEAN, ~Connect(Publisher)
  PROVE  client'[Publisher].conn = client[Publisher].conn
<1> DEFINE P == Publisher
<1>0. /\ P \in Peers
      /\ client \in [Peers -> [at : {"off", "connected", "asked", "in"},
                           conn : SseConns \cup {NoConn},
                           req : Requests \cup {NoRequest}]]
  BY ClientsAssumption DEF ClientsTypeOK
<1>1. ASSUME NEW p \in Peers, p # P,
             Connect(p) \/ Ask(p) \/ Answered(p) \/ Disconnect(p)
      PROVE  client'[P] = client[P]
  BY <1>0, <1>1, ClientChanges
<1>2. ~Disconnect(P)
  BY DEF Disconnect, Forget
<1>3. Ask(P) \/ Answered(P) => client'[P].conn = client[P].conn
  BY <1>0 DEF Ask, Answered
<1>4. ASSUME NEW w, Receive(w) \/ ConnectionEnds(w) \/ Serve(w) PROVE UNCHANGED client
  BY <1>4 DEF Receive, ConnectionEnds, Serve, cvars
<1>5. UNCHANGED allvars => UNCHANGED client
  BY DEF allvars, cvars
<1> QED BY <1>1, <1>2, <1>3, <1>4, <1>5 DEF OrderlyStep

LEMMA StayKept ==
  ASSUME ServerInv, ClientsTypeOK, OrderlyInv, UnreadInv, StayInv, LeaveInv, JoinInv,
         OrderlyStep, [ServerNext]_svars, ~returned', returned \in BOOLEAN
  PROVE  StayInv'
<1> DEFINE P == Publisher
<1>0. /\ P \in Peers
      /\ client \in [Peers -> [at : {"off", "connected", "asked", "in"},
                           conn : SseConns \cup {NoConn},
                           req : Requests \cup {NoRequest}]]
      /\ \A p \in Peers : client[p].at = "off" <=> client[p].conn = NoConn
      /\ chans \in [Peers -> SseConns \cup {NoConn}] /\ NoConn \notin SseConns
      /\ HandlersInv /\ ChansTyped
  BY ClientsAssumption, WorkersAssumption DEF ClientsTypeOK, ServerInv, ChansTyped
<1>1. ASSUME client[P].conn # NoConn PROVE client'[P].conn = client[P].conn
  <2>1. Connect(P) => client[P].at = "off"
    BY Zenon DEF Connect
  <2> QED BY <1>0, <1>1, <2>1, PublisherStays
<1>2. ASSUME NEW c \in SseConns, Busy(c)', Peer(c)' = P PROVE client'[P].conn = c
  <2>1. CASE work'[c] = work[c]
    BY <1>0, <1>1, <1>2, <2>1 DEF StayInv, Busy, Peer
  <2>2. CASE SseStep(c)
    <3>1. Busy(c) /\ Peer(c) = P
      BY <1>0, <1>2, <2>2, SseMoves DEF Busy, Peer, Free
    <3> QED BY <1>0, <1>1, <3>1 DEF StayInv
  <2>3. CASE ConnectionEnds(c)
    <3>1. Busy(c) /\ Peer(c) = P
      BY <1>0, <1>2, <2>3, SseMoves DEF Busy, Peer, ConnectionEnds, SseEnds
    <3> QED BY <1>0, <2>3, <3>1 DEF StayInv, ConnectionEnds
  <2>4. ASSUME NEW p \in Peers, OpenSse(c, p), client'[p].conn = c PROVE client'[P].conn = c
    <3>1. Peer(c)' = p
      BY <1>0, <2>4, OneServed DEF Peer, Workers
    <3> QED BY <1>2, <2>4, <3>1
  <2> QED BY <2>1, <2>2, <2>3, <2>4, ConnMoves
<1>3. ASSUME chans'[P] = NoConn PROVE heard' = {} /\ Mail' = << >>
  <2>1. chans[P] = NoConn
    <3>1. ASSUME NEW c \in SseConns, SseSubscribe(c) PROVE chans[P] = NoConn
      BY <1>0, <1>3, <3>1 DEF SseSubscribe
    <3>2. ASSUME NEW c \in SseConns, SseUnsubscribe(c) PROVE chans[P] = NoConn
      <4>1. Peer(c) # P
        BY <3>2, PublisherConn DEF SseUnsubscribe, Busy
      <4> QED BY <1>0, <1>3, <3>2, <4>1 DEF SseUnsubscribe
    <3> QED BY <1>0, <1>3, <3>1, <3>2, ChanChange
  <2>2. heard = {} /\ Mail = << >>
    BY <2>1 DEF StayInv
  <2> QED BY <2>1, <2>2, MailMoves DEF MailPut
<1> QED BY <1>2, <1>3 DEF StayInv

LEMMA LeaveKept ==
  ASSUME ServerInv, ClientsTypeOK, OrderlyInv, StayInv, LeaveInv, OrderlyStep
  PROVE  LeaveInv'
<1> SUFFICES ASSUME NEW c \in SseConns
             PROVE  /\ work'[c].at = "find" => work'[c].room = Room /\ ~work'[c].publisher
                    /\ work'[c].at = "tell" => work'[c].tell = {Publisher}
  BY DEF LeaveInv
<1>0. /\ c \in Workers /\ work \in [Workers -> WorkRecord] /\ work[c] \in WorkRecord
      /\ HandlersInv /\ StoreTyped
      /\ \A at \in SseStages : Stage(c, at).at = at /\ Stage(c, at) \in WorkRecord
      /\ LastStep(c) = "unregister" /\ "unregister" \in SseStages /\ "tell" \in SseStages
  BY StageTyped DEF ServerInv, StoreInv, HandlersInv, WorkTyped, Workers, LastStep, SseStages
<1>1. CASE work'[c] = work[c]
  BY <1>1 DEF LeaveInv
<1>2. CASE OpenSse(c, work'[c].peer) \/ ConnectionEnds(c)
  <2>1. work'[c].at \notin {"find", "tell"}
    BY <1>0, <1>2, OneServed, SseMoves DEF ConnectionEnds, SseEnds
  <2> QED BY <2>1
<1>3. CASE LookUp(c)
  <2>1. CASE GoTo(c, LastStep(c))
    BY <1>0, <2>1 DEF GoTo
  <2>2. CASE /\ meta[Peer(c)].room # NoRoom
             /\ work' = [work EXCEPT ![c].at = "find", ![c].room = meta[Peer(c)].room,
                                     ![c].publisher = meta[Peer(c)].publisher]
    <3>1. Peer(c) \in Peers /\ Busy(c)
      BY <1>0, <1>3 DEF LookUp, HandlersInv, WorkInv, Peer, Busy
    <3>2. Peer(c) # Publisher
      BY <1>3, <3>1, PublisherConn DEF LookUp
    <3>3. meta[Peer(c)].room = Room /\ ~meta[Peer(c)].publisher
      BY <2>2, <3>1, <3>2 DEF OrderlyInv, SeatsInv
    <3> QED BY <1>0, <2>2, <3>3 DEF WorkRecord
  <2> QED BY <1>3, <2>1, <2>2 DEF LookUp
<1>4. CASE FindRoom(c)
  <2>1. CASE GoTo(c, LastStep(c))
    BY <1>0, <2>1 DEF GoTo
  <2>2. CASE /\ Exists(work[c].room)
             /\ work' = [work EXCEPT ![c] = [Stage(c, "tell") EXCEPT
                  !.tell = IF work[c].publisher THEN rooms[work[c].room].subs
                           ELSE {rooms[work[c].room].publisher}]]
    <3>1. work[c].room = Room /\ ~work[c].publisher
      BY <1>4 DEF FindRoom, LeaveInv
    <3>2. rooms[Room].publisher = Publisher
      BY <2>2, <3>1 DEF Exists, OrderlyInv, SeatsInv
    <3> QED BY <1>0, <2>2, <3>1, <3>2 DEF WorkRecord
  <2> QED BY <1>4, <2>1, <2>2 DEF FindRoom
<1>5. CASE Tell(c)
  <2>1. work[c].tell = {Publisher}
    BY <1>5 DEF Tell, LeaveInv
  <2>2. GoTo(c, LastStep(c))
    BY <1>5, <2>1 DEF Tell
  <2> QED BY <1>0, <2>2 DEF GoTo
<1>6. CASE SseRegister(c) \/ SseSubscribe(c) \/ SseUnregister(c) \/ SseUnsubscribe(c)
  <2>1. work'[c].at \notin {"find", "tell"}
    BY <1>0, <1>6, SseMoves
       DEF SseStep, SseRegister, SseSubscribe, SseUnregister, SseUnsubscribe
  <2> QED BY <2>1
<1> QED
  <2>1. ASSUME NEW p \in Peers, OpenSse(c, p) PROVE p = work'[c].peer
    BY <1>0, <2>1, OneServed
  <2> QED BY <1>1, <1>2, <1>3, <1>4, <1>5, <1>6, <2>1, ConnMoves DEF SseStep

LEMMA JoinKept ==
  ASSUME ServerInv, ClientsTypeOK, OrderlyInv, StayInv, JoinInv, OrderlyStep
  PROVE  JoinInv'
<1> SUFFICES ASSUME NEW q \in Requests, work'[q].at \in {"turn", "joined", "ready"}
             PROVE  Peer(q)' \in rooms'[Room].subs /\ work'[q].tell = {Publisher}
  BY DEF JoinInv
<1>0. /\ q \in Workers /\ work \in [Workers -> WorkRecord] /\ work[q] \in WorkRecord
      /\ HandlersInv /\ StoreTyped /\ Room \in Rooms
      /\ Stage(q, "turn").at = "turn" /\ Stage(q, "turn") \in WorkRecord
      /\ Stage(q, "turn").peer = work[q].peer
  BY StageTyped, ClientsAssumption
     DEF ServerInv, StoreInv, HandlersInv, WorkTyped, Workers, PostStages
<1>1. ASSUME Busy(q), Peer(q) \in rooms[Room].subs PROVE Peer(q) \in rooms'[Room].subs
  <2>1. SUFFICES ASSUME Peer(q) \notin rooms'[Room].subs PROVE FALSE
    OBVIOUS
  <2>2. PICK c \in SseConns : work[c].at = "unregister" /\ Peer(c) = Peer(q)
    BY <1>1, <2>1, SeatLost
  <2> QED BY <1>0, <1>1, <2>2, AskerConnected DEF OrderlyInv, Busy
<1>2. CASE work'[q] = work[q]
  BY <1>1, <1>2 DEF JoinInv, Peer, Busy
<1>3. CASE PostStep(q) /\ Asked(q) /\ Busy(q)
  <2>1. /\ work[q].at \in {"join", "turn", "joined"}
        /\ work'[q].peer = work[q].peer
    BY <1>0, <1>3, PostMoves DEF Asked, JoinStages
  <2>2. CASE PostJoin(q)
    <3>1. work[q].room = Room
      BY <1>3, <2>2 DEF PostJoin, Asked, RoomStages
    <3>2. CASE Joinable(Room)
      <4>1. rooms[Room].publisher = Publisher
        BY <3>2 DEF Joinable, Exists, OrderlyInv, SeatsInv
      <4>2. /\ JoinRoom(Room, Peer(q))
            /\ work' = [work EXCEPT ![q] = [Stage(q, "turn") EXCEPT !.tell = {Publisher}]]
        BY <2>2, <3>1, <3>2, <4>1 DEF PostJoin
      <4>3. Peer(q) \in rooms'[Room].subs
        BY <1>0, <4>2 DEF JoinRoom, StoreTyped
      <4> QED BY <1>0, <2>1, <4>2, <4>3 DEF WorkRecord, Peer
    <3>3. CASE ~Joinable(Room)
      <4>1. Answer(q, FALSE)
        BY <2>2, <3>1, <3>3 DEF PostJoin
      <4>2. work'[q].at = "reply"
        BY <1>0, <4>1, StageTyped DEF Answer, HandlersInv, WorkRecord, PostStages
      <4> QED BY <4>2
    <3> QED BY <3>2, <3>3
  <2>3. CASE PostTurn(q) \/ PostJoined(q)
    <3>1. Peer(q) \in rooms[Room].subs /\ work[q].tell = {Publisher}
      BY <2>3 DEF PostTurn, PostJoined, JoinInv
    <3>2. work'[q].tell = work[q].tell
      BY <1>0, <2>3 DEF PostTurn, PostJoined, WorkRecord
    <3> QED BY <1>1, <1>3, <2>1, <3>1, <3>2 DEF Peer
  <2> QED BY <1>3, <2>1, <2>2, <2>3 DEF PostStep, PostEnsure, PostCreate, PostReady, PostLeave,
                                       LookUp, FindRoom, Tell
<1> QED BY <1>2, <1>3, RequestMoves

LEMMA AbsentBefore ==
  ASSUME ServerInv, ClientsTypeOK, OrderlyInv, StayInv, LeaveInv, OrderlyStep,
         NEW p \in Peers, Absent(p)'
  PROVE  Absent(p) \/ \E c \in SseConns : Tell(c) /\ UNCHANGED cvars /\ Peer(c) = p
<1>0. HandlersInv /\ StoreTyped /\ SseConns \subseteq Workers
  BY DEF ServerInv, StoreInv, Workers
<1>1. CASE p \notin rooms'[Room].subs
  BY <1>1, SeatLost DEF Absent
<1>2. ASSUME NEW c \in SseConns, work'[c].at = "unregister", Peer(c)' = p
      PROVE  Absent(p) \/ (Tell(c) /\ UNCHANGED cvars /\ Peer(c) = p)
  <2>1. CASE work'[c] = work[c]
    BY <1>2, <2>1 DEF Absent, Peer
  <2>2. CASE SseStep(c) /\ UNCHANGED cvars
    <3>1. work[c].at \in {"look", "find", "tell"} /\ Peer(c) = p /\ Busy(c)
      BY <1>0, <1>2, <2>2, SseMoves DEF Peer
    <3>2. p # Publisher
      BY <3>1, PublisherConn
    <3>3. CASE LookUp(c)
      <4>1. ~meta[p].known \/ meta[p].room = NoRoom
        <5>1. CASE meta[p].known /\ meta[p].room # NoRoom
          <6>1. work'[c].at = "find"
            BY <1>0, <3>1, <3>3, <5>1 DEF LookUp, HandlersInv, WorkTyped, WorkRecord
          <6> QED BY <1>2, <6>1
        <5> QED BY <5>1
      <4>2. p \notin rooms[Room].subs
        BY <4>1, ClientsAssumption, RoomsAssumption DEF OrderlyInv, SeatsInv
      <4> QED BY <4>2 DEF Absent
    <3>4. CASE FindRoom(c)
      <4>1. work[c].room = Room /\ ~work[c].publisher
        BY <3>4 DEF FindRoom, LeaveInv
      <4>2. CASE Exists(Room)
        <5>1. work' = [work EXCEPT ![c] = [Stage(c, "tell") EXCEPT
                                             !.tell = {rooms[Room].publisher}]]
          BY <3>4, <4>1, <4>2 DEF FindRoom
        <5>2. work'[c].at = "tell"
          BY <1>0, <5>1, StageTyped DEF HandlersInv, WorkTyped, WorkRecord, SseStages
        <5> QED BY <1>2, <5>2
      <4>3. CASE ~Exists(Room)
        BY <4>3 DEF Absent, OrderlyInv, SeatsInv
      <4> QED BY <4>2, <4>3
    <3>5. CASE Tell(c)
      BY <2>2, <3>1, <3>5
    <3> QED BY <2>2, <3>1, <3>3, <3>4, <3>5
            DEF SseStep, SseRegister, SseSubscribe, SseUnregister, SseUnsubscribe
  <2>3. CASE ConnectionEnds(c)
    BY <1>0, <1>2, <2>3, SseMoves DEF ConnectionEnds, SseEnds
  <2>4. ASSUME NEW o \in Peers, OpenSse(c, o) PROVE FALSE
    BY <1>0, <1>2, <2>4, OneServed
  <2> QED BY <2>1, <2>2, <2>3, <2>4, ConnMoves
<1> QED BY <1>1, <1>2 DEF Absent

LEMMA HeardKept ==
  ASSUME ServerInv, ClientsTypeOK, OrderlyInv, UnreadInv, GhostInv, TellFits,
         OrderlyStep, ~returned', returned \in BOOLEAN
  PROVE  HeardInv'
<1> SUFFICES ASSUME NEW p \in Peers, Absent(p)'
             PROVE  Cancelled(p \in heard', Mail', p)
  BY DEF HeardInv
<1> USE DEF GhostInv
<1>0. /\ Mail \in Seq(Events)
      /\ (p \in heard) \in BOOLEAN /\ (p \in heard') \in BOOLEAN
  BY PublisherConn
<1>1. ASSUME NEW c \in SseConns, Tell(c), UNCHANGED cvars, Peer(c) = p
      PROVE  Cancelled(p \in heard', Mail', p)
  <2>1. MailPut(Event("peer_left", p))
    BY <1>1, MailTell
  <2>2. CASE chans[Publisher] # NoConn
    <3>1. Len(Mail) < ChanCap
      BY <1>1, <2>2 DEF TellFits, Tell
    <3>2. Mail' = Append(Mail, Event("peer_left", p)) /\ heard' = heard
      BY <2>1, <2>2, <3>1 DEF MailPut
    <3> QED BY <1>0, <3>2, CancelledByLeft
  <2>3. CASE chans[Publisher] = NoConn
    <3>1. Mail' = << >> /\ heard' = {}
      BY <2>1, <2>3 DEF MailPut, StayInv
    <3> QED BY <3>1 DEF Cancelled
  <2> QED BY <2>2, <2>3
<1>2. ASSUME Absent(p) PROVE Cancelled(p \in heard', Mail', p)
  <2>0. Cancelled(p \in heard, Mail, p)
    BY <1>2 DEF HeardInv
  <2>1. CASE Mail' = Mail /\ heard' = heard
    BY <2>0, <2>1
  <2>2. ASSUME NEW e, e # Event("peer_joined", p), MailPut(e)
        PROVE  Cancelled(p \in heard', Mail', p)
    <3>1. heard' = heard /\ (Mail' = Append(Mail, e) \/ Mail' = Mail)
      BY <2>2 DEF MailPut
    <3>2. Cancelled(p \in heard, Append(Mail, e), p)
      BY <1>0, <2>0, <2>2, CancelledAppend
    <3> QED BY <2>0, <3>1, <3>2
  <2>3. ASSUME NEW c \in SseConns, MailPut(Event("peer_left", Peer(c)))
        PROVE  Cancelled(p \in heard', Mail', p)
    BY <2>2, <2>3 DEF Event
  <2>4. ASSUME MailPut(Event("turn_credentials", Publisher))
        PROVE  Cancelled(p \in heard', Mail', p)
    BY <2>2, <2>4 DEF Event
  <2>5. ASSUME NEW q \in Requests, PostJoined(q), MailPut(Event("peer_joined", Peer(q)))
        PROVE  Cancelled(p \in heard', Mail', p)
    <3>1. Peer(q) \in rooms[Room].subs /\ Busy(q)
      BY <2>5 DEF PostJoined, JoinInv, Busy
    <3>2. ASSUME NEW c \in SseConns, work[c].at = "unregister", Peer(c) = Peer(q)
          PROVE  FALSE
      BY <3>1, <3>2, AskerConnected DEF ServerInv, OrderlyInv, Busy
    <3>3. Peer(q) # p
      BY <1>2, <3>1, <3>2 DEF Absent
    <3> QED BY <2>2, <2>5, <3>3 DEF Event
  <2>6. CASE /\ Mail # << >> /\ Mail' = Tail(Mail)
             /\ heard' = IF Head(Mail).type = "peer_joined" THEN heard \cup {Head(Mail).about}
                         ELSE IF Head(Mail).type = "peer_left" THEN heard \ {Head(Mail).about}
                         ELSE heard
    <3>1. Head(Mail) \in Events
      BY <1>0, <2>6, HeadTailProperties
    <3>2. p \in heard' => \/ Head(Mail) = Event("peer_joined", p)
                          \/ p \in heard /\ Head(Mail) # Event("peer_left", p)
      BY <2>6, <3>1 DEF Events, Event
    <3> QED BY <1>0, <2>0, <2>6, <3>2, CancelledRead
  <2> QED BY <2>1, <2>3, <2>4, <2>5, <2>6, MailMoves
<1> QED BY <1>1, <1>2, AbsentBefore

-----------------------------------------------------------------------------
(* The events for the publisher that the connections of subscribers may    *)
(* yet cause: at most three for each connection.                           *)
Joining(p, stages) ==
  \/ client[p].at = "connected"
  \/ /\ client[p].at = "asked"
     /\ \/ work[client[p].req].at \in stages
        \/ work[client[p].req].at = "reply" /\ ~work[client[p].req].ok
Owed(p, what) ==
  CASE what = "turn"   -> Joining(p, {"join_room", "join", "turn"})
    [] what = "joined" -> Joining(p, {"join_room", "join", "turn", "joined"})
    [] what = "left"   -> \E c \in SseConns :
                            /\ Peer(c) = p
                            /\ work[c].at \in SseStages \ {"unregister", "unsubscribe"}
Causes == {"turn", "joined", "left"}
Others == Peers \ {Publisher}
Owing == {o \in Others \X Causes : Owed(o[1], o[2])}

(* What is in the channel and what may come is no more than what the       *)
(* subscribers' connections so far account for.                            *)
CountInv ==
  IF client[Publisher].conn = NoConn THEN Cardinality(Owing) <= 3 * spent
  ELSE Len(Mail) + Cardinality(Owing) <= 3 * (spent - 1)

LEMMA OwingFinite ==
  ASSUME NEW S, S \subseteq Others \X Causes
  PROVE  /\ IsFiniteSet(S) /\ Cardinality(S) \in Nat
         /\ \A T : T \subseteq S =>
              Cardinality(T) <= Cardinality(S) /\ Cardinality(T) \in Nat
         /\ \A x, T : x \in S /\ T \subseteq S \ {x} =>
              Cardinality(T) + 1 <= Cardinality(S) /\ Cardinality(T) \in Nat
<1>1. IsFiniteSet(Others) /\ IsFiniteSet(Causes)
  <2>1. IsFiniteSet({"turn"}) /\ IsFiniteSet({"turn"} \cup {"joined"})
    BY FS_Singleton, FS_AddElement
  <2>2. IsFiniteSet(({"turn"} \cup {"joined"}) \cup {"left"})
    BY <2>1, FS_AddElement
  <2>3. ({"turn"} \cup {"joined"}) \cup {"left"} = Causes
    BY DEF Causes
  <2> QED BY <2>2, <2>3, PeersAssumption, FS_Subset DEF Others
<1>2. IsFiniteSet(Others \X Causes)
  BY <1>1, FS_Product
<1>3. IsFiniteSet(S) /\ Cardinality(S) \in Nat
  BY <1>2, FS_Subset, FS_CardinalityType
<1>4. ASSUME NEW T, T \subseteq S
      PROVE  Cardinality(T) <= Cardinality(S) /\ Cardinality(T) \in Nat
  BY <1>3, <1>4, FS_Subset, FS_CardinalityType
<1>5. ASSUME NEW x, NEW T, x \in S, T \subseteq S \ {x}
      PROVE  Cardinality(T) + 1 <= Cardinality(S) /\ Cardinality(T) \in Nat
  <2>1. /\ IsFiniteSet(S \ {x}) /\ Cardinality(S \ {x}) = Cardinality(S) - 1
    BY <1>3, <1>5, FS_RemoveElement
  <2>2. Cardinality(T) <= Cardinality(S \ {x}) /\ Cardinality(T) \in Nat
    BY <1>5, <2>1, FS_Subset, FS_CardinalityType
  <2> QED BY <1>3, <2>1, <2>2
<1> QED BY <1>3, <1>4, <1>5

LEMMA OneMore ==
  ASSUME NEW S, IsFiniteSet(S), NEW x
  PROVE  /\ IsFiniteSet(S \cup {x})
         /\ Cardinality(S \cup {x}) \in Nat
         /\ Cardinality(S \cup {x}) <= Cardinality(S) + 1
<1>1. /\ IsFiniteSet(S \cup {x}) /\ Cardinality(S) \in Nat
      /\ Cardinality(S \cup {x}) \in {Cardinality(S), Cardinality(S) + 1}
  BY FS_AddElement, FS_CardinalityType, Zenon
<1> QED BY <1>1

(* One more connection, three more events at most.                         *)
LEMMA OwingGrows ==
  ASSUME NEW S, S \subseteq Others \X Causes, NEW T, NEW p,
         T \subseteq S \cup {<<p, "turn">>, <<p, "joined">>, <<p, "left">>}
  PROVE  Cardinality(T) <= Cardinality(S) + 3 /\ Cardinality(T) \in Nat
<1> DEFINE A == S \cup {<<p, "turn">>}
           B == A \cup {<<p, "joined">>}
           C == B \cup {<<p, "left">>}
<1>0. IsFiniteSet(S) /\ Cardinality(S) \in Nat
  BY OwingFinite
<1>1. /\ IsFiniteSet(A) /\ Cardinality(A) \in Nat /\ Cardinality(A) <= Cardinality(S) + 1
  BY <1>0, OneMore
<1>2. /\ IsFiniteSet(B) /\ Cardinality(B) \in Nat /\ Cardinality(B) <= Cardinality(A) + 1
  <2> HIDE DEF A
  <2> QED BY <1>1, OneMore
<1>3. /\ IsFiniteSet(C) /\ Cardinality(C) \in Nat /\ Cardinality(C) <= Cardinality(B) + 1
  <2> HIDE DEF B
  <2> QED BY <1>2, OneMore
<1>4. T \subseteq C
  OBVIOUS
<1> HIDE DEF A, B, C
<1>5. Cardinality(T) <= Cardinality(C) /\ Cardinality(T) \in Nat
  BY <1>3, <1>4, FS_Subset, FS_CardinalityType
<1> QED BY <1>0, <1>1, <1>2, <1>3, <1>5

LEMMA JoiningKept ==
  ASSUME ServerInv, ClientsTypeOK, OrderlyInv, OrderlyStep, NEW p \in Others,
         NEW stages \in {{"join_room", "join", "turn"},
                         {"join_room", "join", "turn", "joined"}},
         Joining(p, stages)'
  PROVE  Joining(p, stages) \/ (client[p].at = "off" /\ client'[p].at = "connected")
<1>0. /\ p \in Peers /\ p # Publisher
      /\ client \in [Peers -> [at : {"off", "connected", "asked", "in"},
                           conn : SseConns \cup {NoConn},
                           req : Requests \cup {NoRequest}]]
      /\ client[p].at = "asked" <=> client[p].req # NoRequest
      /\ HandlersInv /\ Requests \subseteq Workers
  BY DEF Others, ClientsTypeOK, ServerInv, Workers
<1>1. CASE client'[p].at # "connected" /\ client[p].at # "connected"
  <2>1. client'[p].at = "asked"
    BY <1>1 DEF Joining
  <2>2. client'[p] = client[p]
    <3>1. ASSUME NEW o \in Peers, o # p,
                 Connect(o) \/ Ask(o) \/ Answered(o) \/ Disconnect(o)
          PROVE  client'[p] = client[p]
      BY <1>0, <3>1, ClientChanges
    <3>2. ~Connect(p) /\ ~Disconnect(p)
      BY <1>0, <2>1, ClientChanges
    <3>3. ~Ask(p)
      BY <1>1 DEF Ask
    <3>4. ~Answered(p)
      BY <1>0, <2>1 DEF Answered
    <3>5. ASSUME NEW w, Receive(w) \/ ConnectionEnds(w) \/ Serve(w) PROVE UNCHANGED client
      BY <3>5 DEF Receive, ConnectionEnds, Serve, cvars
    <3>6. UNCHANGED allvars => UNCHANGED client
      BY DEF allvars, cvars
    <3> QED BY <3>1, <3>2, <3>3, <3>4, <3>5, <3>6 DEF OrderlyStep
  <2> DEFINE q == client[p].req
  <2>3. q \in Requests /\ Busy(q) /\ Peer(q) = p
    BY <1>0, <2>1, <2>2 DEF OrderlyInv, PostsInv
  <2>4. CASE work'[q] = work[q]
    BY <2>1, <2>2, <2>4 DEF Joining
  <2>5. CASE PostStep(q) /\ Asked(q)
    <3>1. <<work[q].at, work'[q].at>> \in
            {<<"join_room", "join">>, <<"join", "reply">>, <<"join", "turn">>,
             <<"turn", "joined">>, <<"joined", "ready">>, <<"ready", "reply">>}
      BY <1>0, <2>3, <2>5, PostMoves DEF Asked, JoinStages
    <3>2. work[q].at = "ready" => work'[q].ok
      <4>1. ASSUME work[q].at = "ready" PROVE Answer(q, TRUE)
        BY <2>5, <4>1 DEF PostStep, PostEnsure, PostCreate, PostJoin, PostTurn, PostJoined,
                          PostReady, PostLeave, LookUp, FindRoom, Tell
      <4> QED BY <1>0, <2>3, <4>1, StageTyped
              DEF Answer, HandlersInv, WorkTyped, WorkRecord, PostStages
    <3>3. work[q].at \in stages
      <4>1. work'[q].at \in stages \/ (work'[q].at = "reply" /\ ~work'[q].ok)
        BY <2>1, <2>2 DEF Joining
      <4> QED BY <3>1, <3>2, <4>1
    <3> QED BY <2>1, <2>2, <3>3 DEF Joining
  <2>6. ASSUME NEW o \in Peers, Ask(o), client'[o].req = q, client'[o].at = "asked"
        PROVE  FALSE
    <3>1. PICK s \in Requests :
            /\ work[s] = Free
            /\ client' = [client EXCEPT ![o].at = "asked", ![o].req = s]
      BY <2>6, Zenon DEF Ask, Post
    <3>2. s = q
      BY <1>0, <2>6, <3>1
    <3> QED BY <2>3, <3>1, <3>2 DEF Busy, Free
  <2>7. ASSUME NEW o \in Peers, Answered(o), client[o].req = q PROVE FALSE
    <3>1. o = p
      BY <1>0, <2>3, <2>7 DEF Answered, OrderlyInv, PostsInv, ClientsTypeOK
    <3> QED BY <1>0, <2>1, <2>7, <3>1 DEF Answered
  <2> QED BY <2>3, <2>4, <2>5, <2>6, <2>7, RequestMoves
<1>2. CASE client[p].at = "connected"
  BY <1>2 DEF Joining
<1>3. CASE client'[p].at = "connected" /\ client[p].at # "off"
  <2>1. client'[p] = client[p] \/ Answered(p)
    <3>1. ASSUME NEW o \in Peers, o # p,
                 Connect(o) \/ Ask(o) \/ Answered(o) \/ Disconnect(o)
          PROVE  client'[p] = client[p]
      BY <1>0, <3>1, ClientChanges
    <3>2. ~Disconnect(p)
      BY <1>0, <1>3, ClientChanges
    <3>3. ~Connect(p)
      <4>1. Connect(p) => client[p].at = "off"
        BY Zenon DEF Connect
      <4> QED BY <1>3, <4>1
    <3>4. ~Ask(p)
      <4>1. Ask(p) => client'[p].at = "asked"
        <5>1. SUFFICES ASSUME Ask(p) PROVE client'[p].at = "asked"
          OBVIOUS
        <5>2. PICK s \in Requests : client' = [client EXCEPT ![p].at = "asked", ![p].req = s]
          BY <5>1, Zenon DEF Ask
        <5> QED BY <1>0, <5>2
      <4> QED BY <1>3, <4>1
    <3>5. ASSUME NEW w, Receive(w) \/ ConnectionEnds(w) \/ Serve(w) PROVE UNCHANGED client
      BY <3>5 DEF Receive, ConnectionEnds, Serve, cvars
    <3>6. UNCHANGED allvars => UNCHANGED client
      BY DEF allvars, cvars
    <3> QED BY <3>1, <3>2, <3>3, <3>4, <3>5, <3>6 DEF OrderlyStep
  <2>2. CASE client'[p] = client[p]
    BY <1>2, <1>3, <2>2
  <2>3. CASE Answered(p)
    <3>1. client[p].at = "asked" /\ work[client[p].req].at = "reply"
      BY <2>3 DEF Answered
    <3>2. ~work[client[p].req].ok
      BY <1>0, <1>3, <2>3 DEF Answered
    <3> QED BY <3>1, <3>2 DEF Joining
  <2> QED BY <2>1, <2>2, <2>3
<1> QED BY <1>0, <1>1, <1>2, <1>3

LEMMA LeftKept ==
  ASSUME ServerInv, ClientsTypeOK, OrderlyInv, OrderlyStep, NEW p \in Others,
         Owed(p, "left")'
  PROVE  Owed(p, "left") \/ (client[p].at = "off" /\ client'[p].at = "connected")
<1> PICK c \in SseConns :
      Peer(c)' = p /\ work'[c].at \in SseStages \ {"unregister", "unsubscribe"}
  BY DEF Owed
<1>0. HandlersInv /\ c \in Workers
  BY DEF ServerInv, Workers
<1>1. CASE work'[c] = work[c]
  BY <1>1 DEF Owed, Peer
<1>2. CASE SseStep(c) \/ SseEnds(c)
  <2>1. /\ work[c].at \in SseStages \ {"unregister", "unsubscribe"}
        /\ Peer(c) = p
    BY <1>0, <1>2, SseMoves DEF SseStages, Peer
  <2> QED BY <2>1 DEF Owed
<1>3. ASSUME NEW o \in Peers, OpenSse(c, o), Connect(o), client'[o].at = "connected"
      PROVE  client[p].at = "off" /\ client'[p].at = "connected"
  <2>1. o = p
    BY <1>0, <1>3, OneServed DEF Peer
  <2> QED BY <1>3, <2>1, Zenon DEF Connect
<1> QED BY <1>1, <1>2, <1>3, ConnMoves DEF ConnectionEnds

(* A step that tells the publisher something owes it one event less.       *)
LEMMA TellPays ==
  ASSUME ServerInv, ClientsTypeOK, OrderlyInv, StayInv, LeaveInv,
         NEW c \in SseConns, Tell(c), UNCHANGED cvars, ConnsInv'
  PROVE  /\ Peer(c) \in Others /\ Owed(Peer(c), "left")
         /\ ~Owed(Peer(c), "left")'
<1>0. HandlersInv /\ c \in Workers /\ Busy(c) /\ Peer(c) \in Peers /\ work[c].at = "tell"
  BY DEF ServerInv, HandlersInv, WorkInv, Workers, Tell, Busy, Peer
<1>1. Peer(c) # Publisher
  BY <1>0, PublisherConn
<1>2. Owed(Peer(c), "left")
  BY <1>0 DEF Owed, SseStages
<1>3. work'[c].at = "unregister"
  BY MailTell
<1>4. Peer(c)' = Peer(c)
  BY <1>0, SseMoves DEF SseStep, Peer
<1>5. ASSUME NEW d \in SseConns, Peer(d)' = Peer(c), work'[d].at \in SseStages
      PROVE  d = c
  BY <1>3, <1>4, <1>5 DEF ConnsInv, Busy, SseStages
<1>6. ~Owed(Peer(c), "left")'
  <2>1. SUFFICES ASSUME NEW d \in SseConns, Peer(d)' = Peer(c)',
                        work'[d].at \in SseStages \ {"unregister", "unsubscribe"}
                 PROVE  FALSE
    BY DEF Owed
  <2> QED BY <1>3, <1>4, <1>5, <2>1
<1> QED BY <1>0, <1>1, <1>2, <1>6 DEF Others

LEMMA JoinPays ==
  ASSUME ServerInv, ClientsTypeOK, OrderlyInv, NEW q \in Requests, UNCHANGED cvars,
         NEW what \in {"turn", "joined"},
         IF what = "turn" THEN PostTurn(q) ELSE PostJoined(q)
  PROVE  /\ Peer(q) \in Others /\ Owed(Peer(q), what)
         /\ work'[q].peer = work[q].peer /\ ~Owed(Peer(q), what)'
<1>0. /\ HandlersInv /\ q \in Workers /\ PostStep(q) /\ Busy(q)
      /\ Asked(q) /\ Peer(q) \in Peers
  <2>1. PostStep(q) /\ Busy(q)
    BY DEF PostStep, PostTurn, PostJoined, Busy
  <2> QED BY <2>1 DEF ServerInv, HandlersInv, WorkInv, Workers, OrderlyInv, PostsInv, Peer, Busy
<1>1. work[q].at = IF what = "turn" THEN "turn" ELSE "joined"
  BY DEF PostTurn, PostJoined
<1>2. /\ Peer(q) # Publisher /\ client[Peer(q)].req = q
  BY <1>0, <1>1 DEF Asked
<1>3. client[Peer(q)].at = "asked" /\ client' = client
  BY <1>0, <1>2, RequestsAssumption DEF ClientsTypeOK, cvars
<1>4. work'[q].peer = work[q].peer /\ work'[q].at = IF what = "turn" THEN "joined" ELSE "ready"
  BY <1>0, <1>1, PostMoves DEF JoinStages
<1>5. Owed(Peer(q), what)
  BY <1>1, <1>2, <1>3 DEF Owed, Joining
<1>6. ~Owed(Peer(q), what)'
  BY <1>2, <1>3, <1>4 DEF Owed, Joining, Peer
<1> QED BY <1>0, <1>2, <1>4, <1>5, <1>6 DEF Others

LEMMA OwedKept ==
  ASSUME ServerInv, ClientsTypeOK, OrderlyInv, OrderlyStep,
         NEW p \in Others, NEW what \in Causes, Owed(p, what)'
  PROVE  Owed(p, what) \/ (client[p].at = "off" /\ client'[p].at = "connected")
<1>1. CASE what = "turn"
  BY <1>1, JoiningKept DEF Owed
<1>2. CASE what = "joined"
  BY <1>2, JoiningKept DEF Owed
<1>3. CASE what = "left"
  BY <1>3, LeftKept
<1> QED BY <1>1, <1>2, <1>3 DEF Causes

LEMMA OnlyConnect ==
  ASSUME ClientsTypeOK, OrderlyStep,
         NEW p \in Peers, client[p].at = "off", client'[p].at = "connected"
  PROVE  Connect(p) /\ ~Served(p)
<1>1. ASSUME NEW o \in Peers, o # p,
             Connect(o) \/ Ask(o) \/ Answered(o) \/ Disconnect(o)
      PROVE  client'[p] = client[p]
  BY <1>1, ClientChanges DEF ClientsTypeOK
<1>2. ~Ask(p) /\ ~Answered(p) /\ ~Disconnect(p)
  BY DEF Ask, Answered, Disconnect
<1>3. ASSUME NEW w, Receive(w) \/ ConnectionEnds(w) \/ Serve(w) PROVE UNCHANGED client
  BY <1>3 DEF Receive, ConnectionEnds, Serve, cvars
<1>4. UNCHANGED allvars => UNCHANGED client
  BY DEF allvars, cvars
<1> QED BY <1>1, <1>2, <1>3, <1>4 DEF OrderlyStep

LEMMA ConnectOn ==
  ASSUME ClientsTypeOK, NEW p \in Peers, Connect(p)
  PROVE  client[p].at = "off" /\ client'[p].at = "connected" /\ client'[p].conn # NoConn
<1>1. NoConn \notin SseConns /\ client[p].at = "off"
  BY WorkersAssumption, Zenon DEF Connect
<1>2. PICK c \in SseConns :
        client' = [client EXCEPT ![p] = [Off EXCEPT !.at = "connected", !.conn = c]]
  BY Zenon DEF Connect
<1> QED BY <1>1, <1>2 DEF Off, ClientsTypeOK

LEMMA SpentOnConnect ==
  ASSUME OrderlyStep, \A p \in Peers : ~Connect(p)
  PROVE  spent' = spent
<1>1. ASSUME NEW w, Receive(w) \/ ConnectionEnds(w) \/ Serve(w) PROVE spent' = spent
  BY <1>1 DEF Receive, ConnectionEnds, Serve, cvars
<1>2. ASSUME NEW p, Ask(p) \/ Answered(p) \/ Disconnect(p) PROVE spent' = spent
  BY <1>2 DEF Ask, Answered, Disconnect
<1>3. UNCHANGED allvars => spent' = spent
  BY DEF allvars, cvars
<1> QED BY <1>1, <1>2, <1>3 DEF OrderlyStep

LEMMA ConnectsServed ==
  ASSUME ServerInv, ClientsTypeOK, OrderlyInv, OrderlyStep
  PROVE  \/ \A p \in Peers : ~Connect(p)
         \/ \E p \in Peers : Connect(p) /\ ~Served(p)
<1>1. ASSUME NEW p \in Peers, Connect(p), Served(p) PROVE \E o \in Peers : Connect(o) /\ ~Served(o)
  <2>1. client[p].at = "off" /\ client'[p].at = "connected"
    BY <1>1, ConnectOn
  <2> QED BY <2>1, OnlyConnect
<1> QED BY <1>1

LEMMA CountKept ==
  ASSUME ServerInv, ClientsTypeOK, OrderlyInv, UnreadInv, GhostInv, CountInv,
         OrderlyStep, ~returned', returned \in BOOLEAN, ConnsInv'
  PROVE  CountInv'
<1> USE DEF GhostInv
<1>0. /\ Owing \subseteq Others \X Causes /\ Owing' \subseteq Others \X Causes
      /\ Cardinality(Owing) \in Nat /\ Cardinality(Owing') \in Nat
      /\ Mail \in Seq(Events) /\ Len(Mail) \in Nat /\ spent \in Nat
      /\ Publisher \in Peers /\ NoConn \notin SseConns
      /\ \A p \in Peers : client[p].at = "off" <=> client[p].conn = NoConn
  <2>1. Owing \subseteq Others \X Causes /\ Owing' \subseteq Others \X Causes
    BY DEF Owing
  <2>2. Cardinality(Owing) \in Nat /\ Cardinality(Owing') \in Nat
    BY <2>1, OwingFinite
  <2>3. Mail \in Seq(Events) /\ Len(Mail) \in Nat
    BY PublisherConn
  <2> QED BY <2>1, <2>2, <2>3, ClientsAssumption, WorkersAssumption DEF ClientsTypeOK
<1>1. ASSUME NEW p \in Peers, Connect(p), ~Served(p) PROVE CountInv'
  <2>1. Mail' = Mail
    BY <1>1, ConnectMail
  <2>2. spent' = spent + 1 /\ client[p].at = "off"
    BY <1>1, Zenon DEF Connect, Spend
  <2>3. ASSUME NEW o \in Others, NEW what \in Causes, <<o, what>> \in Owing', o # p
        PROVE  <<o, what>> \in Owing
    <3>1. Owed(o, what)'
      BY <2>3 DEF Owing
    <3>2. client'[o] = client[o]
      BY <1>1, <2>3, ClientChanges DEF ClientsTypeOK, Others
    <3>3. Owed(o, what)
      BY <3>1, <3>2, OwedKept
    <3> QED BY <3>3 DEF Owing
  <2>4. CASE p = Publisher
    <3>1. Owing' \subseteq Owing
      BY <1>0, <2>3, <2>4 DEF Others
    <3>2. Cardinality(Owing') <= Cardinality(Owing)
      BY <1>0, <3>1, OwingFinite
    <3>3. client[Publisher].conn = NoConn /\ Mail' = << >>
      BY <1>0, <2>1, <2>2, <2>4 DEF Mail
    <3>4. client'[Publisher].conn # NoConn
      BY <1>1, <2>4, ConnectOn
    <3>5. Len(Mail') = 0
      BY <3>3
    <3> QED BY <1>0, <2>2, <3>2, <3>3, <3>4, <3>5 DEF CountInv
  <2>5. CASE p # Publisher
    <3>1. ASSUME NEW x \in Owing'
          PROVE  x \in Owing \cup {<<p, "turn">>, <<p, "joined">>, <<p, "left">>}
      <4> PICK o \in Others, what \in Causes : x = <<o, what>>
        BY <1>0
      <4> QED BY <2>3 DEF Causes
    <3>2. Cardinality(Owing') <= Cardinality(Owing) + 3
      BY <1>0, <3>1, OwingGrows, Zenon
    <3>3. client'[Publisher] = client[Publisher]
      BY <1>0, <1>1, <2>5, ClientChanges DEF ClientsTypeOK
    <3> QED BY <1>0, <2>1, <2>2, <3>2, <3>3 DEF CountInv
  <2> QED BY <2>4, <2>5
<1>2. ASSUME \A p \in Peers : ~Connect(p) PROVE CountInv'
  <2>1. spent' = spent /\ client'[Publisher].conn = client[Publisher].conn
    BY <1>0, <1>2, SpentOnConnect, PublisherStays
  <2>2. \A o \in Others, what \in Causes : Owed(o, what)' => Owed(o, what)
    BY <1>2, OwedKept, OnlyConnect DEF Others
  <2>3. Owing' \subseteq Owing /\ Cardinality(Owing') <= Cardinality(Owing)
    <3>1. Owing' \subseteq Owing
      BY <2>2 DEF Owing
    <3> QED BY <1>0, <3>1, OwingFinite
  <2>4. ASSUME NEW o \in Others, NEW what \in Causes, Owed(o, what), ~Owed(o, what)'
        PROVE  Cardinality(Owing') + 1 <= Cardinality(Owing)
    <3>1. <<o, what>> \in Owing /\ <<o, what>> \notin Owing'
      BY <2>4 DEF Owing
    <3>2. Owing' \subseteq Owing \ {<<o, what>>}
      BY <2>3, <3>1
    <3> QED BY <1>0, <3>1, <3>2, OwingFinite
  <2>5. ASSUME NEW e, MailPut(e), Cardinality(Owing') + 1 <= Cardinality(Owing)
        PROVE  CountInv'
    <3>1. Len(Mail') <= Len(Mail) + 1 /\ Len(Mail') \in Nat
      BY <1>0, <2>5 DEF MailPut
    <3> QED BY <1>0, <2>1, <2>5, <3>1 DEF CountInv
  <2>6. ASSUME Len(Mail') <= Len(Mail), Len(Mail') \in Nat PROVE CountInv'
    BY <1>0, <2>1, <2>3, <2>6 DEF CountInv
  <2>7. ASSUME NEW c \in SseConns, Tell(c), UNCHANGED cvars,
               MailPut(Event("peer_left", Peer(c)))
        PROVE  CountInv'
    <3>1. Peer(c)' = Peer(c)
      BY <2>7, SseMoves DEF SseStep, Tell, Peer, ServerInv
    <3> QED BY <2>4, <2>5, <2>7, <3>1, TellPays DEF Causes
  <2>8. ASSUME NEW q \in Requests, PostTurn(q), UNCHANGED cvars,
               MailPut(Event("turn_credentials", Publisher))
        PROVE  CountInv'
    <3>1. /\ Peer(q) \in Others /\ Owed(Peer(q), "turn")
          /\ Peer(q)' = Peer(q) /\ ~Owed(Peer(q), "turn")'
      BY <2>8, JoinPays DEF Peer
    <3> QED BY <2>4, <2>5, <2>8, <3>1 DEF Causes
  <2>9. ASSUME NEW q \in Requests, PostJoined(q), UNCHANGED cvars,
               MailPut(Event("peer_joined", Peer(q)))
        PROVE  CountInv'
    <3>1. /\ Peer(q) \in Others /\ Owed(Peer(q), "joined")
          /\ Peer(q)' = Peer(q) /\ ~Owed(Peer(q), "joined")'
      BY <2>9, JoinPays DEF Peer
    <3> QED BY <2>4, <2>5, <2>9, <3>1 DEF Causes
  <2>10. CASE Mail' = Mail
    BY <1>0, <2>6, <2>10
  <2>11. CASE Mail # << >> /\ Mail' = Tail(Mail)
    <3>1. Len(Mail') <= Len(Mail) /\ Len(Mail') \in Nat
      BY <1>0, <2>11
    <3> QED BY <2>6, <3>1
  <2>12. \/ Mail' = Mail
         \/ \E c \in SseConns : /\ Tell(c) /\ UNCHANGED cvars
                                /\ MailPut(Event("peer_left", Peer(c)))
         \/ \E q \in Requests : /\ PostTurn(q) /\ UNCHANGED cvars
                                /\ MailPut(Event("turn_credentials", Publisher))
         \/ \E q \in Requests : /\ PostJoined(q) /\ UNCHANGED cvars
                                /\ MailPut(Event("peer_joined", Peer(q)))
         \/ Mail # << >> /\ Mail' = Tail(Mail)
    BY MailMoves, Zenon
  <2> QED BY <2>7, <2>8, <2>9, <2>10, <2>11, <2>12
<1> QED BY <1>1, <1>2, ConnectsServed

-----------------------------------------------------------------------------
(* As long as the run is orderly and the publisher has not left, it hears  *)
(* of every subscriber's leaving if the channel has room for that, and it  *)
(* has if it has room for all that so many connections can cause.          *)
FirstStay == orderly /\ ~returned
EventsFit == ChanCap >= 3 * (MaxConnects - 1)

HeardIInv == ClientsInv /\ UnreadInv /\ (FirstStay => GhostInv)
CountIInv == HeardIInv /\ (FirstStay => CountInv)

LEMMA CountFits ==
  ASSUME EventsFit, CountIInv, FirstStay
  PROVE  TellFits
<1> USE DEF CountIInv, HeardIInv
<1>1. SUFFICES ASSUME NEW c \in SseConns, work[c].at = "tell", chans[Publisher] # NoConn
               PROVE  Len(Mail) < ChanCap
  BY DEF TellFits
<1>2. /\ ServerInv /\ ClientsTypeOK /\ OrderlyInv /\ StayInv
  BY DEF ClientsInv, FirstStay, GhostInv
<1>3. Busy(c) /\ Peer(c) \in Peers
  BY <1>1, <1>2 DEF Busy, ServerInv, HandlersInv, WorkInv, Workers, Peer
<1>4. Peer(c) # Publisher /\ client[Publisher].conn # NoConn /\ Len(Mail) \in Nat
  BY <1>1, <1>2, <1>3, PublisherConn
<1>5. <<Peer(c), "left">> \in Owing /\ Owing \subseteq Others \X Causes
  BY <1>1, <1>3, <1>4 DEF Owing, Owed, Others, Causes, SseStages
<1>6. Cardinality(Owing) \in Nat /\ Cardinality(Owing) >= 1
  <2>1. {} \subseteq Owing \ {<<Peer(c), "left">>} /\ Cardinality({}) = 0
    BY FS_EmptySet
  <2> QED BY <1>5, <2>1, OwingFinite
<1>7. Len(Mail) + Cardinality(Owing) <= 3 * (spent - 1)
  BY <1>4 DEF CountInv
<1>8. spent \in Nat /\ spent <= MaxConnects /\ MaxConnects \in Nat /\ ChanCap \in Nat
  BY <1>2, ClientsAssumption, ChanAssumption DEF ClientsTypeOK
<1> QED BY <1>4, <1>6, <1>7, <1>8 DEF EventsFit

LEMMA HeardInit == ClientsInit => CountIInv
<1> SUFFICES ASSUME ClientsInit PROVE CountIInv
  OBVIOUS
<1>1. ClientsInv
  BY ClientsInitInv, OrderlyInit DEF ClientsInv
<1>2. /\ \A p \in Peers : client[p].conn = NoConn /\ client[p].at = "off" /\ chans[p] = NoConn
      /\ \A c \in SseConns : queues[c] = << >>
      /\ \A w \in Workers : work[w].at = "free"
      /\ rooms[Room].subs = {} /\ heard = {} /\ spent = 0
      /\ Publisher \in Peers /\ SseConns \subseteq Workers /\ Requests \subseteq Workers
  BY ClientsAssumption DEF ClientsInit, ServerInit, Off, Free, NoSuchRoom, Workers
<1>3. Mail = << >> /\ UnreadInv
  BY <1>2 DEF Mail, UnreadInv
<1>4. StayInv /\ LeaveInv /\ JoinInv
  BY <1>2, <1>3 DEF StayInv, LeaveInv, JoinInv, Busy
<1>5. HeardInv
  BY <1>2, <1>3 DEF HeardInv, Cancelled
<1>6. CountInv
  <2>1. Owing = {}
    BY <1>2 DEF Owing, Owed, Others, Causes, Joining, SseStages
  <2>2. Cardinality(Owing) = 0
    BY <2>1, FS_EmptySet
  <2> QED BY <1>2, <2>2 DEF CountInv
<1> QED BY <1>1, <1>3, <1>4, <1>5, <1>6 DEF CountIInv, HeardIInv, GhostInv

LEMMA FirstStayLasts ==
  ASSUME ClientsInv, [ClientsNext]_allvars, FirstStay'
  PROVE  /\ FirstStay /\ OrderlyStep /\ returned \in BOOLEAN /\ ~returned'
         /\ ServerInv /\ ClientsTypeOK /\ OrderlyInv
<1>1. orderly /\ OrderlyStep
  BY StaysOrderly DEF ClientsInv, FirstStay, OrderlyInv, ServerInv
<1>2. returned \in BOOLEAN
  BY DEF ClientsInv, ClientsTypeOK
<1>3. ASSUME NEW p, Connect(p) \/ Ask(p) \/ Answered(p) PROVE returned' = returned
  BY <1>3, Zenon DEF Connect, Ask, Answered
<1>4. ASSUME NEW p, Disconnect(p) PROVE returned => returned'
  BY <1>4 DEF Disconnect, Forget
<1>5. ASSUME NEW w, Receive(w) \/ ConnectionEnds(w) \/ Serve(w) PROVE returned' = returned
  BY <1>5 DEF Receive, ConnectionEnds, Serve, cvars
<1>6. UNCHANGED allvars => returned' = returned
  BY DEF allvars, cvars
<1>7. returned => returned'
  BY <1>1, <1>3, <1>4, <1>5, <1>6 DEF OrderlyStep
<1> QED BY <1>1, <1>2, <1>7 DEF FirstStay, ClientsInv

LEMMA HeardIInvKept ==
  ASSUME HeardIInv, FirstStay => TellFits, [ClientsNext]_allvars
  PROVE  HeardIInv'
<1> USE DEF HeardIInv
<1>1. ClientsInv' /\ [ServerNext]_svars /\ ServerInv
  BY ClientsInvKept, ClientsNextInv DEF ClientsInv
<1>2. UnreadInv'
  BY <1>1, UnreadKept
<1>3. ASSUME FirstStay' PROVE GhostInv'
  <2>1. /\ FirstStay /\ OrderlyStep /\ returned \in BOOLEAN /\ ~returned'
        /\ ServerInv /\ ClientsTypeOK /\ OrderlyInv
    BY <1>3, FirstStayLasts
  <2>2. GhostInv /\ TellFits
    BY <2>1
  <2>3. StayInv' /\ LeaveInv' /\ JoinInv'
    BY <1>1, <2>1, <2>2, StayKept, LeaveKept, JoinKept DEF GhostInv
  <2>4. HeardInv'
    BY <2>1, <2>2, HeardKept
  <2> QED BY <2>3, <2>4 DEF GhostInv
<1> QED BY <1>1, <1>2, <1>3

LEMMA CountIInvKept ==
  ASSUME EventsFit, CountIInv, [ClientsNext]_allvars
  PROVE  CountIInv'
<1> USE DEF CountIInv
<1>1. HeardIInv'
  BY CountFits, HeardIInvKept
<1>2. ASSUME FirstStay' PROVE CountInv'
  <2>1. /\ FirstStay /\ OrderlyStep /\ returned \in BOOLEAN /\ ~returned'
        /\ ServerInv /\ ClientsTypeOK /\ OrderlyInv
    BY <1>2, FirstStayLasts DEF HeardIInv
  <2>2. GhostInv /\ UnreadInv /\ CountInv
    BY <2>1 DEF HeardIInv
  <2>3. OrderlyInv'
    BY <1>1, <1>2 DEF HeardIInv, ClientsInv, FirstStay
  <2> QED BY <2>1, <2>2, <2>3, CountKept DEF OrderlyInv
<1> QED BY <1>1, <1>2

(* With nothing left to read or to do, only who is in the room was heard.  *)
LEMMA HeardSeated == HeardIInv => NoGhostHeard
<1> SUFFICES ASSUME HeardIInv, FirstStay, Quiet, NEW p \in heard
             PROVE  p \in rooms[Room].subs
  BY DEF NoGhostHeard, FirstStay
<1>1. ClientsTypeOK /\ HeardInv
  BY DEF HeardIInv, GhostInv, ClientsInv
<1>2. p \in Peers /\ Mail = << >>
  BY <1>1, ClientsAssumption DEF ClientsTypeOK, Mail, Quiet
<1>3. ~Cancelled(p \in heard, Mail, p)
  <2>1. ~\E j \in 1 .. Len(<< >>) : TRUE
    OBVIOUS
  <2> QED BY <1>2, <2>1 DEF Cancelled
<1>4. ~Absent(p)
  BY <1>1, <1>2, <1>3 DEF HeardInv
<1> QED BY <1>4 DEF Absent

(* In an orderly run, a publisher in its first session knows of no         *)
(* subscriber that is not in its room once everything is delivered,        *)
(* provided that a disconnection always finds room in its channel for the  *)
(* peer_left: the peer_left that the end of a subscriber's connection      *)
(* announces comes after each peer_joined that its POSTs announce.         *)
THEOREM ClientsNoGhostRoomy == ClientsSpec /\ []TellFits => []NoGhostHeard
<1>1. ClientsInit => HeardIInv
  BY HeardInit DEF CountIInv
<1>2. HeardIInv /\ TellFits /\ [ClientsNext]_allvars => HeardIInv'
  BY HeardIInvKept
<1> QED BY <1>1, <1>2, HeardSeated, PTL DEF ClientsSpec

(* A channel for which all clients together connect seldom enough always   *)
(* has that room: a connection causes three events at most, and the        *)
(* publisher's own causes none.                                            *)
THEOREM ClientsNoGhost ==
  ASSUME EventsFit
  PROVE  ClientsSpec => []NoGhostHeard
<1>1. CountIInv /\ [ClientsNext]_allvars => CountIInv'
  BY CountIInvKept
<1>2. CountIInv => NoGhostHeard
  BY HeardSeated DEF CountIInv
<1> QED BY <1>1, <1>2, HeardInit, PTL DEF ClientsSpec
=============================================================================
