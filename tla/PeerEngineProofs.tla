-------------------------- MODULE PeerEngineProofs --------------------------
(***************************************************************************)
(* What every step of the engine preserves, whichever application runs on  *)
(* top: types, and that no slot refers to a connection that is gone or     *)
(* belongs to another slot.  And what every step does, seen from outside:  *)
(* it is a step of the abstract table, or none.                            *)
(***************************************************************************)
EXTENDS PeerEngine, TLAPS

(* Slots and connections, which the engine and the application write.      *)
SlotInv ==
  /\ peers \in [Slots -> PeerRecord]
  /\ conns \in [Conns -> ConnRecord]
  /\ NoDanglingConn
  /\ NoDanglingSession

(* The engine thread's own variables, and peer_count.  A removal is in     *)
(* progress only in the reap loop and for a slot.                          *)
ThreadInv ==
  /\ peer_count \in 0 .. MaxSubscribers
  /\ phase \in Phases
  /\ cursor \in 0 .. MaxSubscribers
  /\ pkt \in Slots \cup {NoSlot}
  /\ reaping \in {"no", "remove", "forget", "count"}
  /\ loaded \in 0 .. MaxSubscribers
  /\ reaping # "no" => phase = "reap" /\ cursor \in Slots

EngineInv == SlotInv /\ ThreadInv

(* A connection that a slot may refer to after a step of slot s. *)
RefersTo(s, c, cs) == c # NoConn => cs[c].slot = s /\ cs[c].st # "free"

LEMMA EngineInvTypeOK == EngineInv => TypeOK
BY DEF EngineInv, SlotInv, ThreadInv, TypeOK

(* The one lemma on which the steps rest: slot s takes the record p, which *)
(* refers to existing connections of s only, and a connection of another   *)
(* slot neither disappears nor changes hands.                              *)
LEMMA SlotUpdate ==
  ASSUME SlotInv, NEW s \in Slots, NEW p \in PeerRecord,
         peers' = [peers EXCEPT ![s] = p],
         conns' \in [Conns -> ConnRecord],
         RefersTo(s, p.conn, conns'), RefersTo(s, p.session, conns'),
         \A c \in Conns : \/ conns[c].st = "free" \/ conns[c].slot = s
                          \/ conns'[c].slot = conns[c].slot /\ conns'[c].st # "free"
  PROVE  SlotInv'
<1>1. peers' \in [Slots -> PeerRecord]
  BY DEF SlotInv
<1>2. \A t \in Slots : peers'[t] = IF t = s THEN p ELSE peers[t]
  BY DEF SlotInv
<1>3. \A t \in Slots : peers[t].conn \in Conns \cup {NoConn} /\ peers[t].session \in Conns \cup {NoConn}
  BY DEF SlotInv, PeerRecord
<1>4. NoDanglingConn'
  BY <1>2, <1>3 DEF SlotInv, NoDanglingConn, RefersTo
<1>5. NoDanglingSession'
  BY <1>2, <1>3 DEF SlotInv, NoDanglingSession, RefersTo
<1> QED BY <1>1, <1>4, <1>5 DEF SlotInv

(* Initially every slot is empty. *)
LEMMA InitInv == EngineInit => EngineInv
<1> SUFFICES ASSUME EngineInit PROVE EngineInv
  OBVIOUS
<1>1. EmptySlot \in PeerRecord
  BY DEF EmptySlot, PeerRecord, PeerStates, JuiceStates, Idle, Closed, NoConn, RestartLimit
<1>2. MaxSubscribers \in Nat \ {0} /\ 0 \in Slots
  BY SlotsAssumption DEF Slots
<1>3. SlotInv
  BY <1>1, <1>2 DEF EngineInit, SlotInv, NoDanglingConn, NoDanglingSession, ConnRecord, EmptySlot, NoConn
<1>4. ThreadInv
  BY <1>2 DEF EngineInit, ThreadInv, Phases, NoSlot
<1> QED BY <1>3, <1>4 DEF EngineInv
-----------------------------------------------------------------------------
(* Facts about the data that the step lemmas share. *)

LEMMA SlotFacts ==
  /\ Slots \subseteq Nat /\ NoSlot \notin Slots
  /\ \A n \in 0 .. MaxSubscribers : n < MaxSubscribers => n \in Slots
  /\ NoConn \notin Conns
BY SlotsAssumption, ConnsAssumption DEF Slots, NoSlot, Conns, NoConn

LEMMA StateFacts ==
  /\ {Idle, IceGathering, IceConnecting, IceConnected, QuicHandshaking,
      QuicConnected, Failed, Closed} \subseteq PeerStates
  /\ \A st \in PeerStates : AtLeastIceConnected(st) \in PeerStates
  /\ JuiceUp \subseteq JuiceStates
  /\ \A js \in JuiceStates : JuiceNext[js] \subseteq JuiceStates
BY DEF PeerStates, Idle, IceGathering, IceConnecting, IceConnected,
       QuicHandshaking, QuicConnected, Failed, Closed, AtLeastIceConnected,
       JuiceUp, JuiceStates, JuiceNext

(* In a good state the slot's own references are good ones. *)
LEMMA OwnReferences ==
  ASSUME SlotInv, NEW s \in Slots
  PROVE  /\ peers[s] \in PeerRecord
         /\ peers[s].conn \in Conns \cup {NoConn}
         /\ peers[s].session \in Conns \cup {NoConn}
         /\ RefersTo(s, peers[s].conn, conns)
         /\ RefersTo(s, peers[s].session, conns)
<1>1. peers[s] \in PeerRecord
  BY DEF SlotInv
<1>2. peers[s].conn \in Conns \cup {NoConn} /\ peers[s].session \in Conns \cup {NoConn}
  BY <1>1 DEF PeerRecord
<1>3. RefersTo(s, peers[s].conn, conns)
  BY DEF SlotInv, NoDanglingConn, RefersTo
<1>4. RefersTo(s, peers[s].session, conns)
  BY DEF SlotInv, NoDanglingSession, RefersTo
<1> QED BY <1>1, <1>2, <1>3, <1>4

(* A connection of another slot than s neither disappears nor moves. *)
OthersKept(s) ==
  \A c \in Conns : \/ conns[c].st = "free" \/ conns[c].slot = s
                   \/ conns'[c].slot = conns[c].slot /\ conns'[c].st # "free"

(* Closing a connection leaves it, and every other one, where it is. *)
LEMMA CloseConnFacts ==
  ASSUME SlotInv, NEW s \in Slots, CloseConn(peers[s].conn)
  PROVE  /\ conns' \in [Conns -> ConnRecord]
         /\ OthersKept(s)
         /\ RefersTo(s, peers[s].session, conns')
<1> DEFINE c == peers[s].conn
<1>1. conns \in [Conns -> ConnRecord] /\ \A d \in Conns : conns[d] \in ConnRecord
  BY DEF SlotInv
<1>2. CASE c = NoConn
  <2>1. conns' = conns
    BY <1>2 DEF CloseConn
  <2> QED BY <1>1, <2>1, OwnReferences DEF OthersKept
<1>3. CASE c # NoConn
  <2>1. c \in Conns
    BY <1>3, OwnReferences
  <2>2. conns' = [conns EXCEPT ![c] = [conns[c] EXCEPT !.st = "closing"]]
    BY <1>1, <1>3, <2>1 DEF CloseConn
  <2>3. [conns[c] EXCEPT !.st = "closing"] \in ConnRecord
    BY <1>1, <2>1 DEF ConnRecord
  <2>4. \A d \in Conns : conns'[d].slot = conns[d].slot
                        /\ (conns[d].st # "free" => conns'[d].st # "free")
    BY <1>1, <2>1, <2>2 DEF ConnRecord
  <2> QED BY <1>1, <2>1, <2>2, <2>3, <2>4, OwnReferences DEF OthersKept, RefersTo
<1> QED BY <1>2, <1>3

(* p2p_engine_remove_peer in the engine thread, whatever the slot holds. *)
LEMMA RemovePeerInv ==
  ASSUME SlotInv, NEW s \in Slots, RemovePeer(s)
  PROVE  SlotInv'
<1> DEFINE p == [peers[s] EXCEPT !.conn = NoConn, !.juice = "null",
                   !.session = NoConn, !.state = Idle]
<1>1. p \in PeerRecord
  BY OwnReferences, StateFacts DEF PeerRecord, JuiceStates
<1>2. peers' = [peers EXCEPT ![s] = p]
  BY DEF RemovePeer, SlotInv
<1>3. p.conn = NoConn /\ p.session = NoConn
  BY OwnReferences DEF PeerRecord
<1>4. RefersTo(s, p.conn, conns') /\ RefersTo(s, p.session, conns')
  BY <1>3 DEF RefersTo
<1>5. conns' \in [Conns -> ConnRecord] /\ OthersKept(s)
  BY CloseConnFacts DEF RemovePeer
<1> HIDE DEF p
<1> QED BY <1>1, <1>2, <1>4, <1>5, SlotUpdate DEF OthersKept

(* Its parts: the connection is closed and forgotten ... *)
LEMMA DropConnInv ==
  ASSUME SlotInv, NEW s \in Slots, DropConn(s)
  PROVE  SlotInv'
<1> DEFINE p == [peers[s] EXCEPT !.conn = NoConn]
<1>1. p \in PeerRecord /\ p.conn = NoConn /\ p.session = peers[s].session
  BY OwnReferences DEF PeerRecord
<1>2. peers' = [peers EXCEPT ![s] = p]
  BY DEF DropConn, SlotInv
<1>3. /\ conns' \in [Conns -> ConnRecord] /\ OthersKept(s)
      /\ RefersTo(s, p.session, conns')
  BY <1>1, CloseConnFacts DEF DropConn
<1>4. RefersTo(s, p.conn, conns')
  BY <1>1 DEF RefersTo
<1> HIDE DEF p
<1> QED BY <1>1, <1>2, <1>3, <1>4, SlotUpdate DEF OthersKept

(* ... and the rest leaves the connection alone and may drop the session.  *)
LEMMA QuietInv ==
  ASSUME SlotInv, NEW s \in Slots, NEW p \in PeerRecord,
         p.conn = peers[s].conn, p.session \in {peers[s].session, NoConn},
         peers' = [peers EXCEPT ![s] = p], UNCHANGED conns
  PROVE  SlotInv'
<1>1. conns' \in [Conns -> ConnRecord]
  BY DEF SlotInv
<1>2. RefersTo(s, p.conn, conns') /\ RefersTo(s, p.session, conns')
  BY OwnReferences DEF RefersTo
<1>3. \A c \in Conns : \/ conns[c].st = "free" \/ conns[c].slot = s
                       \/ conns'[c].slot = conns[c].slot /\ conns'[c].st # "free"
  OBVIOUS
<1> QED BY <1>1, <1>2, <1>3, SlotUpdate

LEMMA QuietRemovalInv ==
  ASSUME SlotInv, NEW s \in Slots,
         DropSession(s) \/ DestroyAgent(s) \/ Vacate(s)
  PROVE  SlotInv'
<1> DEFINE dropped == [peers[s] EXCEPT !.session = IF peers[s].conn = NoConn THEN @ ELSE NoConn]
           silent  == [peers[s] EXCEPT !.juice = "null"]
           vacant  == [peers[s] EXCEPT !.session = NoConn, !.state = Idle, !.id = NoPeer]
<1>1. CASE DropSession(s)
  <2>1. /\ dropped \in PeerRecord /\ dropped.conn = peers[s].conn
        /\ dropped.session \in {peers[s].session, NoConn}
    BY OwnReferences DEF PeerRecord
  <2>2. peers' = [peers EXCEPT ![s] = dropped] /\ UNCHANGED conns
    BY <1>1 DEF DropSession, SlotInv
  <2> HIDE DEF dropped
  <2> QED BY <2>1, <2>2, QuietInv
<1>2. CASE DestroyAgent(s)
  <2>1. /\ silent \in PeerRecord /\ silent.conn = peers[s].conn
        /\ silent.session = peers[s].session
    BY OwnReferences DEF PeerRecord, JuiceStates
  <2>2. peers' = [peers EXCEPT ![s] = silent] /\ UNCHANGED conns
    BY <1>2 DEF DestroyAgent, SlotInv
  <2> HIDE DEF silent
  <2> QED BY <2>1, <2>2, QuietInv
<1>3. CASE Vacate(s)
  <2>1. /\ vacant \in PeerRecord /\ vacant.conn = peers[s].conn
        /\ vacant.session = NoConn
    BY OwnReferences, StateFacts DEF PeerRecord
  <2>2. peers' = [peers EXCEPT ![s] = vacant] /\ UNCHANGED conns
    BY <1>3 DEF Vacate, SlotInv
  <2> HIDE DEF vacant
  <2> QED BY <2>1, <2>2, QuietInv
<1> QED BY <1>1, <1>2, <1>3

(* A step that changes only one slot, and neither its connection nor its   *)
(* session.                                                                *)
LEMMA FlagsInv ==
  ASSUME SlotInv, NEW s \in Slots, NEW p \in PeerRecord,
         p.conn = peers[s].conn, p.session = peers[s].session,
         peers' = [peers EXCEPT ![s] = p], UNCHANGED conns
  PROVE  SlotInv'
BY QuietInv

LEMMA AddPeerInv ==
  ASSUME SlotInv, NEW s \in Slots, NEW id \in PeerIds, AddPeer(s, id), UNCHANGED conns
  PROVE  SlotInv'
<1> DEFINE p == [peers[s] EXCEPT !.id = id, !.juice = "disconnected"]
<1>1. p \in PeerRecord /\ p.conn = peers[s].conn /\ p.session = peers[s].session
  BY OwnReferences DEF PeerRecord, JuiceStates
<1>2. peers' = [peers EXCEPT ![s] = p]
  BY DEF AddPeer, SlotInv
<1> QED BY <1>1, <1>2, FlagsInv

LEMMA AddPeerFailsInv ==
  ASSUME SlotInv, NEW s \in Slots, NEW id \in PeerIds, AddPeerFails(s, id),
         UNCHANGED conns
  PROVE  SlotInv'
<1> DEFINE p == [peers[s] EXCEPT !.id = id]
<1>1. p \in PeerRecord /\ p.conn = peers[s].conn /\ p.session = peers[s].session
  BY OwnReferences DEF PeerRecord
<1>2. peers' = [peers EXCEPT ![s] = p]
  BY DEF AddPeerFails, SlotInv
<1> QED BY <1>1, <1>2, FlagsInv

LEMMA GatherInv ==
  ASSUME SlotInv, NEW s \in Slots, Gather(s), UNCHANGED conns
  PROVE  SlotInv'
<1> DEFINE p == [peers[s] EXCEPT !.juice = "gathering", !.state = IceGathering]
<1>1. p \in PeerRecord /\ p.conn = peers[s].conn /\ p.session = peers[s].session
  BY OwnReferences, StateFacts DEF PeerRecord, JuiceStates
<1>2. peers' = [peers EXCEPT ![s] = p]
  BY DEF Gather, SlotInv
<1> QED BY <1>1, <1>2, FlagsInv
-----------------------------------------------------------------------------
(* The libjuice threads and the xquic callbacks. *)

(* An ICE callback changes the agent, the state and two flags of a slot.   *)
LEMMA AfterIceFacts ==
  ASSUME NEW p \in PeerRecord, NEW js \in JuiceNext[p.juice]
  PROVE  /\ AfterIce(p, js) \in PeerRecord
         /\ AfterIce(p, js).conn = p.conn /\ AfterIce(p, js).session = p.session
         /\ AfterIce(p, js).id = p.id /\ AfterIce(p, js).juice = js
         /\ p.juice # "null" /\ js # "null"
<1> DEFINE q == AfterIce(p, js)
           st == CASE js = "connecting" -> IceConnecting
                   [] js \in JuiceUp -> AtLeastIceConnected(p.state)
                   [] js = "failed" -> Failed
           start == p.qstart \/ js = "completed"
           reap == p.removal \/ (js = "failed" /\ DeferRemoval)
<1>1. js \in {"connecting", "connected", "completed", "failed"}
  BY DEF PeerRecord, JuiceStates, JuiceNext
<1>2. p.juice # "null"
  BY DEF PeerRecord, JuiceStates, JuiceNext
<1>3. st \in PeerStates
  BY <1>1, StateFacts DEF PeerRecord, JuiceUp
<1>4. start \in BOOLEAN /\ reap \in BOOLEAN /\ js \in JuiceStates
  BY <1>1 DEF PeerRecord, JuiceStates
<1>5. q = [p EXCEPT !.juice = js, !.state = st, !.qstart = start, !.removal = reap]
  BY DEF AfterIce
<1> HIDE DEF st, q, start, reap
<1>6. q \in PeerRecord
  BY <1>3, <1>4, <1>5 DEF PeerRecord
<1>7. q.conn = p.conn /\ q.session = p.session /\ q.id = p.id /\ q.juice = js
  BY <1>5 DEF PeerRecord
<1> QED BY <1>1, <1>2, <1>6, <1>7 DEF q

LEMMA IceStateChangedInv ==
  ASSUME SlotInv, NEW s \in Slots, IceStateChanged(s)
  PROVE  SlotInv'
<1>1. PICK js \in JuiceNext[peers[s].juice] :
        peers' = [peers EXCEPT ![s] = AfterIce(peers[s], js)]
  BY DEF IceStateChanged
<1>2. /\ AfterIce(peers[s], js) \in PeerRecord
      /\ AfterIce(peers[s], js).conn = peers[s].conn
      /\ AfterIce(peers[s], js).session = peers[s].session
  BY OwnReferences, AfterIceFacts
<1>3. UNCHANGED conns
  BY DEF IceStateChanged
<1> QED BY <1>1, <1>2, <1>3, FlagsInv

(* A connection number that is free is nobody's, and may become s's. *)
LEMMA NewConnFacts ==
  ASSUME SlotInv, NEW s \in Slots, NEW c \in FreeConns,
         conns' = [conns EXCEPT ![c] = [slot |-> s, st |-> "handshaking"]]
  PROVE  /\ conns' \in [Conns -> ConnRecord]
         /\ OthersKept(s)
         /\ RefersTo(s, c, conns')
BY DEF SlotInv, FreeConns, ConnRecord, OthersKept, RefersTo

LEMMA ServerAcceptInv ==
  ASSUME SlotInv, pkt \in Slots \cup {NoSlot}, ServerAccept
  PROVE  SlotInv'
<1>1. pkt \in Slots
  BY DEF ServerAccept
<1>2. PICK c \in FreeConns :
        /\ conns' = [conns EXCEPT ![c] = [slot |-> pkt, st |-> "handshaking"]]
        /\ peers' = [peers EXCEPT ![pkt].session = c, ![pkt].conn = c]
  BY DEF ServerAccept
<1> DEFINE p == [peers[pkt] EXCEPT !.session = c, !.conn = c]
<1>3. p \in PeerRecord /\ p.conn = c /\ p.session = c
  BY <1>1, OwnReferences DEF PeerRecord, FreeConns
<1>4. peers' = [peers EXCEPT ![pkt] = p]
  BY <1>1, <1>2 DEF SlotInv
<1>5. conns' \in [Conns -> ConnRecord] /\ OthersKept(pkt) /\ RefersTo(pkt, c, conns')
  BY <1>1, <1>2, NewConnFacts
<1> HIDE DEF p
<1> QED BY <1>1, <1>3, <1>4, <1>5, SlotUpdate DEF OthersKept

(* A connection that changes state, not slot, and is not destroyed. *)
LEMMA ConnStateFacts ==
  ASSUME SlotInv, NEW c \in Conns, conns[c].st # "free",
         NEW st \in {"open", "closing"}, conns' = [conns EXCEPT ![c].st = st]
  PROVE  /\ conns' \in [Conns -> ConnRecord]
         /\ conns[c].slot \in Slots
         /\ \A s \in Slots : OthersKept(s)
         /\ \A s \in Slots, d \in Conns \cup {NoConn} :
              RefersTo(s, d, conns) => RefersTo(s, d, conns')
<1>1. conns \in [Conns -> ConnRecord] /\ conns[c] \in ConnRecord
  BY DEF SlotInv
<1>2. \A d \in Conns : conns'[d].slot = conns[d].slot
                      /\ (conns[d].st # "free" => conns'[d].st # "free")
  BY <1>1 DEF ConnRecord
<1>3. conns' \in [Conns -> ConnRecord] /\ conns[c].slot \in Slots
  BY <1>1 DEF ConnRecord
<1> QED BY <1>2, <1>3 DEF OthersKept, RefersTo

LEMMA HandshakeFinishedInv ==
  ASSUME SlotInv, NEW c \in Conns, HandshakeFinished(c)
  PROVE  SlotInv'
<1> DEFINE s == conns[c].slot
           p == [peers[s] EXCEPT !.state = QuicConnected, !.fails = 0]
<1>1. conns' = [conns EXCEPT ![c].st = "open"] /\ conns[c].st # "free"
  BY DEF HandshakeFinished
<1>2. /\ conns' \in [Conns -> ConnRecord] /\ s \in Slots /\ OthersKept(s)
      /\ \A d \in Conns \cup {NoConn} : RefersTo(s, d, conns) => RefersTo(s, d, conns')
  BY <1>1, ConnStateFacts
<1>3. peers' = [peers EXCEPT ![s] = p]
  BY <1>2 DEF HandshakeFinished, SlotInv
<1>4. peers[s] \in PeerRecord
  BY <1>2, OwnReferences
<1>5. 0 \in 0 .. RestartLimit /\ QuicConnected \in PeerStates
  BY StateFacts DEF RestartLimit
<1>6. p \in PeerRecord /\ p.conn = peers[s].conn /\ p.session = peers[s].session
  BY <1>4, <1>5 DEF PeerRecord
<1>7. RefersTo(s, p.conn, conns') /\ RefersTo(s, p.session, conns')
  BY <1>2, <1>6, OwnReferences
<1> HIDE DEF p, s
<1> QED BY <1>2, <1>3, <1>6, <1>7, SlotUpdate DEF OthersKept

LEMMA RemoteCloseInv ==
  ASSUME SlotInv, NEW c \in Conns, RemoteClose(c)
  PROVE  SlotInv'
<1> DEFINE s == conns[c].slot
<1>1. conns' = [conns EXCEPT ![c].st = "closing"] /\ conns[c].st # "free"
  BY DEF RemoteClose
<1>2. /\ conns' \in [Conns -> ConnRecord] /\ s \in Slots /\ OthersKept(s)
      /\ \A d \in Conns \cup {NoConn} : RefersTo(s, d, conns) => RefersTo(s, d, conns')
  BY <1>1, ConnStateFacts
<1>3. peers' = [peers EXCEPT ![s] = peers[s]]
  BY DEF RemoteClose, SlotInv
<1>4. RefersTo(s, peers[s].conn, conns') /\ RefersTo(s, peers[s].session, conns')
  BY <1>2, OwnReferences
<1> HIDE DEF s
<1> QED BY <1>2, <1>3, <1>4, OwnReferences, SlotUpdate DEF OthersKept

(* What the close of a connection leaves in its slot.  It keeps neither    *)
(* the session nor, if it was the current one, the connection.             *)
LEMMA DestroyedFacts ==
  ASSUME NEW p \in PeerRecord, NEW c \in Conns
  PROVE  /\ Destroyed(p, c) \in PeerRecord
         /\ Destroyed(p, c).session = NoConn
         /\ Destroyed(p, c).conn = IF p.conn = c THEN NoConn ELSE p.conn
<1> DEFINE q == [p EXCEPT !.session = NoConn]
<1>1. q \in PeerRecord /\ q.session = NoConn /\ q.conn = p.conn
  BY DEF PeerRecord
<1>2. /\ CurrentConnClosed(q) \in PeerRecord
      /\ CurrentConnClosed(q).conn = NoConn /\ CurrentConnClosed(q).session = NoConn
  <2> HIDE DEF q
  <2>1. q.fails \in 0 .. RestartLimit /\ q.qrestart \in BOOLEAN /\ q.irestart \in BOOLEAN
    BY <1>1 DEF PeerRecord
  <2>2. RestartLimit = 3 /\ IceConnected \in PeerStates /\ Failed \in PeerStates
    BY StateFacts DEF RestartLimit
  <2>3. CASE q.juice \in JuiceUp
    <3> DEFINE again == Role = "subscriber" /\ q.fails < RestartLimit
               escalate == Role = "subscriber" /\ q.fails >= RestartLimit
               f == IF again THEN q.fails + 1 ELSE IF escalate THEN 0 ELSE q.fails
               ir == q.irestart \/ escalate
               qr == (q.qrestart /\ ~escalate) \/ again
    <3>1. f \in 0 .. RestartLimit
      BY <2>1, <2>2
    <3>2. ir \in BOOLEAN /\ qr \in BOOLEAN
      OBVIOUS
    <3>3. CurrentConnClosed(q) = [q EXCEPT !.state = IceConnected, !.conn = NoConn,
                                    !.fails = f, !.irestart = ir, !.qrestart = qr]
      BY <2>3 DEF CurrentConnClosed
    <3> HIDE DEF f, ir, qr
    <3> QED BY <1>1, <2>2, <3>1, <3>2, <3>3 DEF PeerRecord
  <2>4. CASE q.juice \notin JuiceUp
    BY <1>1, <2>2, <2>4 DEF CurrentConnClosed, PeerRecord
  <2> QED BY <2>3, <2>4
<1> HIDE DEF q
<1>3. Destroyed(p, c) = IF p.conn = c THEN CurrentConnClosed(q) ELSE q
  BY DEF Destroyed, q
<1> QED BY <1>1, <1>2, <1>3

LEMMA ConnCloseNotifyInv ==
  ASSUME SlotInv, NEW c \in Conns, ConnCloseNotify(c)
  PROVE  SlotInv'
<1> DEFINE s == conns[c].slot
           d == Destroyed(peers[s], c)
           f == [d EXCEPT !.juice = "failed", !.removal = @ \/ DeferRemoval]
<1>1. /\ conns' = [conns EXCEPT ![c] = [slot |-> 0, st |-> "free"]]
      /\ conns[c].st # "free" /\ s \in Slots /\ 0 \in Slots
  BY SlotsAssumption DEF ConnCloseNotify, SlotInv, ConnRecord, Slots
<1>2. conns' \in [Conns -> ConnRecord] /\ OthersKept(s)
  BY <1>1 DEF SlotInv, ConnRecord, OthersKept
<1>3. peers[s] \in PeerRecord
  BY <1>1, OwnReferences
<1>4. /\ d \in PeerRecord /\ d.session = NoConn
      /\ d.conn = IF peers[s].conn = c THEN NoConn ELSE peers[s].conn
  BY <1>3, DestroyedFacts
<1>5. RefersTo(s, d.conn, conns') /\ RefersTo(s, d.session, conns')
  BY <1>1, <1>4, OwnReferences DEF RefersTo, SlotInv
<1>6. peers' = [peers EXCEPT ![s] = d] \/ peers' = [peers EXCEPT ![s] = f]
  BY DEF ConnCloseNotify
<1> HIDE DEF s, d
<1>7. f \in PeerRecord /\ f.conn = d.conn /\ f.session = d.session
  BY <1>4 DEF PeerRecord, JuiceStates
<1> HIDE DEF f
<1>8. CASE peers' = [peers EXCEPT ![s] = d]
  BY <1>1, <1>2, <1>4, <1>5, <1>8, SlotUpdate DEF OthersKept
<1>9. CASE peers' = [peers EXCEPT ![s] = f]
  BY <1>1, <1>2, <1>5, <1>7, <1>9, SlotUpdate DEF OthersKept
<1> QED BY <1>6, <1>8, <1>9

(* p2p_peer_start_quic, after the caller cleared request flags.            *)
LEMMA StartQuicInv ==
  ASSUME SlotInv, NEW s \in Slots, NEW p \in PeerRecord,
         p.conn = peers[s].conn, p.session = peers[s].session, StartQuic(s, p)
  PROVE  SlotInv'
<1> DEFINE q == [p EXCEPT !.session = NoConn]
<1>1. q \in PeerRecord /\ q.session = NoConn /\ q.conn = p.conn
  BY DEF PeerRecord
<1>2. RefersTo(s, p.conn, conns) /\ RefersTo(s, p.session, conns)
  BY OwnReferences
<1>3. conns' = conns => conns' \in [Conns -> ConnRecord] /\ OthersKept(s)
  BY DEF SlotInv, OthersKept
<1>4. CASE peers' = [peers EXCEPT ![s] = p] /\ UNCHANGED conns
  BY <1>4, FlagsInv
<1>5. CASE peers' = [peers EXCEPT ![s] = q] /\ UNCHANGED conns
  BY <1>1, <1>2, <1>3, <1>5, SlotUpdate DEF OthersKept, RefersTo
<1>6. ASSUME NEW c \in FreeConns,
             conns' = [conns EXCEPT ![c] = [slot |-> s, st |-> "handshaking"]],
             peers' = [peers EXCEPT ![s] =
               [q EXCEPT !.state = QuicHandshaking, !.conn = c, !.session = c]]
      PROVE  SlotInv'
  <2> DEFINE r == [q EXCEPT !.state = QuicHandshaking, !.conn = c, !.session = c]
  <2> HIDE DEF q
  <2>1. r \in PeerRecord /\ r.conn = c /\ r.session = c
    BY <1>1, StateFacts DEF PeerRecord, FreeConns
  <2>2. conns' \in [Conns -> ConnRecord] /\ OthersKept(s) /\ RefersTo(s, c, conns')
    BY <1>6, NewConnFacts
  <2>3. peers' = [peers EXCEPT ![s] = r]
    BY <1>6
  <2> HIDE DEF r
  <2> QED BY <2>1, <2>2, <2>3, SlotUpdate DEF OthersKept
<1>7. CASE peers' = [peers EXCEPT ![s] = [q EXCEPT !.state = Failed]] /\ UNCHANGED conns
  <2> DEFINE r == [q EXCEPT !.state = Failed]
  <2> HIDE DEF q
  <2>1. r \in PeerRecord /\ r.conn = q.conn /\ r.session = NoConn
    BY <1>1, StateFacts DEF PeerRecord
  <2>2. RefersTo(s, r.conn, conns') /\ RefersTo(s, r.session, conns')
    BY <1>1, <1>2, <1>7, <2>1 DEF RefersTo
  <2>3. peers' = [peers EXCEPT ![s] = r]
    BY <1>7
  <2> HIDE DEF r
  <2> QED BY <1>3, <1>7, <2>1, <2>2, <2>3, SlotUpdate DEF OthersKept
<1> QED BY <1>4, <1>5, <1>6, <1>7 DEF StartQuic
-----------------------------------------------------------------------------
(* One iteration of each loop of the engine thread. *)

(* A loop that stops at peer_count stays inside the array. *)
LEMMA InLoopSlot ==
  ASSUME ThreadInv, NEW ph, InLoop(ph)
  PROVE  cursor \in Slots /\ cursor + 1 \in 0 .. MaxSubscribers
BY SlotsAssumption DEF ThreadInv, InLoop, Slots

LEMMA ProcessQuicStartInv ==
  ASSUME EngineInv, ProcessQuicStart
  PROVE  EngineInv'
<1> DEFINE p == [peers[cursor] EXCEPT !.qstart = FALSE]
<1>1. SlotInv /\ ThreadInv /\ InLoop("start") /\ cursor \in Slots
  BY InLoopSlot DEF EngineInv, ProcessQuicStart
<1>2. /\ p \in PeerRecord
      /\ p.conn = peers[cursor].conn /\ p.session = peers[cursor].session
  BY <1>1, OwnReferences DEF PeerRecord
<1>3. \/ StartQuic(cursor, p)
      \/ peers' = [peers EXCEPT ![cursor] = p] /\ UNCHANGED conns
  BY DEF ProcessQuicStart
<1> HIDE DEF p
<1>4. SlotInv'
  BY <1>1, <1>2, <1>3, StartQuicInv, FlagsInv
<1>5. ThreadInv'
  BY <1>1, InLoopSlot DEF ProcessQuicStart, NextSlot, ThreadInv, InLoop
<1> QED BY <1>4, <1>5 DEF EngineInv

LEMMA SlotStutter ==
  ASSUME SlotInv, UNCHANGED <<peers, conns>>
  PROVE  SlotInv'
BY DEF SlotInv, NoDanglingConn, NoDanglingSession

LEMMA ProcessIdleInv ==
  ASSUME EngineInv, ProcessIdle
  PROVE  EngineInv'
<1> DEFINE p == [peers[cursor] EXCEPT !.conn = NoConn, !.state = IceConnected]
<1>1. SlotInv /\ ThreadInv /\ InLoop("idle") /\ cursor \in Slots
  BY InLoopSlot DEF EngineInv, ProcessIdle
<1>2. p \in PeerRecord /\ p.conn = NoConn /\ p.session = peers[cursor].session
  BY <1>1, OwnReferences, StateFacts DEF PeerRecord
<1>3. \/ CloseConn(peers[cursor].conn) /\ peers' = [peers EXCEPT ![cursor] = p]
      \/ UNCHANGED <<peers, conns>>
  BY DEF ProcessIdle
<1> HIDE DEF p
<1>4. ASSUME CloseConn(peers[cursor].conn), peers' = [peers EXCEPT ![cursor] = p]
      PROVE  SlotInv'
  <2>1. /\ conns' \in [Conns -> ConnRecord] /\ OthersKept(cursor)
        /\ RefersTo(cursor, p.session, conns')
    BY <1>1, <1>2, <1>4, CloseConnFacts
  <2>2. RefersTo(cursor, p.conn, conns')
    BY <1>2 DEF RefersTo
  <2> QED BY <1>1, <1>2, <1>4, <2>1, <2>2, SlotUpdate DEF OthersKept
<1>5. SlotInv'
  BY <1>1, <1>3, <1>4, SlotStutter
<1>6. ThreadInv'
  BY <1>1, InLoopSlot DEF ProcessIdle, NextSlot, ThreadInv, InLoop
<1> QED BY <1>5, <1>6 DEF EngineInv

LEMMA ProcessQuicRestartInv ==
  ASSUME EngineInv, ProcessQuicRestart
  PROVE  EngineInv'
<1> DEFINE old == peers[cursor]
           escalated == [old EXCEPT !.irestart = FALSE, !.qrestart = FALSE,
                                    !.removal = @ \/ DeferRemoval]
           waiting == [old EXCEPT !.qrestart = FALSE, !.irestart = TRUE]
           retried == [old EXCEPT !.qrestart = FALSE]
<1>1. SlotInv /\ ThreadInv /\ InLoop("restart") /\ cursor \in Slots
  BY InLoopSlot DEF EngineInv, ProcessQuicRestart
<1>2. \/ peers' = [peers EXCEPT ![cursor] = escalated] /\ UNCHANGED conns
      \/ peers' = [peers EXCEPT ![cursor] = waiting] /\ UNCHANGED conns
      \/ StartQuic(cursor, retried)
      \/ UNCHANGED <<peers, conns>>
  BY DEF ProcessQuicRestart
<1>3. old \in PeerRecord
  BY <1>1, OwnReferences
<1> HIDE DEF old
<1>4. /\ escalated \in PeerRecord /\ waiting \in PeerRecord /\ retried \in PeerRecord
      /\ escalated.conn = old.conn /\ escalated.session = old.session
      /\ waiting.conn = old.conn /\ waiting.session = old.session
      /\ retried.conn = old.conn /\ retried.session = old.session
  BY <1>3 DEF PeerRecord
<1> HIDE DEF escalated, waiting, retried
<1>5. SlotInv'
  BY <1>1, <1>2, <1>4, StartQuicInv, FlagsInv, SlotStutter DEF old
<1>6. ThreadInv'
  BY <1>1, InLoopSlot DEF ProcessQuicRestart, NextSlot, ThreadInv, InLoop
<1> QED BY <1>5, <1>6 DEF EngineInv

(* The deferred removal of the peer of slot cursor, in its four steps. *)
LEMMA ReapInv ==
  ASSUME EngineInv, ReapSlot \/ ReapRemove \/ ReapForget \/ ReapCount
  PROVE  EngineInv'
<1>1. SlotInv /\ ThreadInv
  BY DEF EngineInv
<1>2. CASE ReapSlot
  <2> DEFINE p == [peers[cursor] EXCEPT !.removal = FALSE]
  <2>1. cursor \in Slots /\ cursor + 1 \in 0 .. MaxSubscribers
    BY <1>1, <1>2, SlotsAssumption DEF ThreadInv, ReapSlot, Slots
  <2>2. /\ p \in PeerRecord
        /\ p.conn = peers[cursor].conn /\ p.session = peers[cursor].session
    BY <1>1, <2>1, OwnReferences DEF PeerRecord
  <2>3. peers' = [peers EXCEPT ![cursor] = p] \/ UNCHANGED peers
    BY <1>1, <1>2, <2>1 DEF ReapSlot, SlotInv
  <2>4. UNCHANGED conns
    BY <1>2 DEF ReapSlot
  <2> HIDE DEF p
  <2>5. SlotInv'
    BY <1>1, <2>1, <2>2, <2>3, <2>4, FlagsInv, SlotStutter
  <2>6. ThreadInv'
    BY <1>1, <1>2, <2>1 DEF ReapSlot, ThreadInv
  <2> QED BY <2>5, <2>6 DEF EngineInv
<1>3. CASE ReapRemove
  <2>1. SlotInv'
    BY <1>1, <1>3, RemovePeerInv DEF ReapRemove, ThreadInv
  <2>2. ThreadInv'
    BY <1>1, <1>3 DEF ReapRemove, ThreadInv
  <2> QED BY <2>1, <2>2 DEF EngineInv
<1>4. CASE ReapCount
  <2>1. UNCHANGED <<peers, conns>>
    BY <1>4 DEF ReapCount
  <2>2. SlotInv'
    BY <1>1, <2>1, SlotStutter
  <2>3. ThreadInv'
    BY <1>1, <1>4, SlotsAssumption DEF ReapCount, ThreadInv, Decremented, Slots
  <2> QED BY <2>2, <2>3 DEF EngineInv
<1>5. CASE ReapForget
  <2> DEFINE p == [peers[cursor] EXCEPT !.id = NoPeer]
  <2>1. cursor \in Slots
    BY <1>1, <1>5 DEF ReapForget, ThreadInv
  <2>2. /\ p \in PeerRecord
        /\ p.conn = peers[cursor].conn /\ p.session = peers[cursor].session
    BY <1>1, <2>1, OwnReferences DEF PeerRecord
  <2>3. peers' = [peers EXCEPT ![cursor] = p] /\ UNCHANGED conns
    BY <1>1, <1>5, <2>1 DEF ReapForget, SlotInv
  <2> HIDE DEF p
  <2>4. SlotInv'
    BY <1>1, <2>1, <2>2, <2>3, FlagsInv
  <2>5. ThreadInv'
    BY <1>1, <1>5 DEF ReapForget, ThreadInv
  <2> QED BY <2>4, <2>5 DEF EngineInv
<1> QED BY <1>2, <1>3, <1>4, <1>5

(* Steps that move the engine thread only. *)
LEMMA ThreadStepInv ==
  ASSUME EngineInv,
         \/ RecvDone \/ StartDone \/ IdleDone \/ RestartDone \/ ReapDone \/ MainDone
         \/ PacketPlain \/ \E s \in Slots : RecvPacket(s)
  PROVE  EngineInv'
<1>1. SlotInv /\ ThreadInv
  BY DEF EngineInv
<1>2. UNCHANGED <<peers, conns, peer_count>>
  BY DEF RecvDone, StartDone, IdleDone, RestartDone, ReapDone, MainDone, LoopDone,
         PacketPlain, PacketDone, RecvPacket
<1>3. SlotInv'
  BY <1>1, <1>2, SlotStutter
<1>4. ThreadInv'
  <2>1. CASE RecvDone \/ PacketPlain \/ \E s \in Slots : RecvPacket(s)
    BY <1>1, <2>1, SlotsAssumption DEF ThreadInv, RecvDone, PacketPlain, PacketDone, RecvPacket, Phases
  <2>2. CASE StartDone \/ IdleDone \/ RestartDone \/ ReapDone \/ MainDone
    BY <1>1, <2>2, SlotsAssumption
       DEF ThreadInv, StartDone, IdleDone, RestartDone, ReapDone, MainDone, LoopDone, Phases
  <2> QED BY <2>1, <2>2
<1> QED BY <1>3, <1>4 DEF EngineInv

(* Steps that change a slot and leave the engine thread where it is. *)
LEMMA CallbackInv ==
  ASSUME EngineInv,
         \/ ServerAccept
         \/ \E c \in Conns : HandshakeFinished(c) \/ RemoteClose(c) \/ ConnCloseNotify(c)
         \/ \E s \in Slots : IceStateChanged(s)
  PROVE  EngineInv'
<1>1. SlotInv /\ ThreadInv
  BY DEF EngineInv
<1>2. SlotInv'
  BY <1>1, ServerAcceptInv, HandshakeFinishedInv, RemoteCloseInv, ConnCloseNotifyInv,
     IceStateChangedInv DEF ThreadInv
<1>3. /\ pkt' = NoSlot \/ UNCHANGED pkt
      /\ UNCHANGED <<peer_count, phase, cursor, reaping, loaded>>
  BY DEF ServerAccept, HandshakeFinished, RemoteClose, ConnCloseNotify,
         IceStateChanged, PacketDone, engine
<1>4. ThreadInv'
  BY <1>1, <1>3 DEF ThreadInv
<1> QED BY <1>2, <1>4 DEF EngineInv

(* Every step of the engine, of xquic and of libjuice. *)
LEMMA EngineStepInv ==
  ASSUME EngineInv, EngineStep
  PROVE  EngineInv'
BY ProcessQuicStartInv, ProcessIdleInv, ProcessQuicRestartInv, ReapInv,
   ThreadStepInv, CallbackInv
   DEF EngineStep, EngineLoop, XquicEvent, IceThread
-----------------------------------------------------------------------------
(* No step of the engine, xquic or libjuice gives a slot to a peer; one    *)
(* may take a peer's name from it.                                         *)
NoNewPeers ==
  \A s \in Slots :
    Occupied(s)' => Occupied(s) /\ peers'[s].id \in {peers[s].id, NoPeer}

LEMMA OneSlotNoNewPeers ==
  ASSUME SlotInv, NEW s \in Slots, NEW p \in PeerRecord,
         peers' = [peers EXCEPT ![s] = p],
         p.id \in {peers[s].id, NoPeer}, p.juice # "null" => peers[s].juice # "null"
  PROVE  NoNewPeers
BY DEF NoNewPeers, SlotInv, Occupied

LEMMA RemovePeerNoNewPeers ==
  ASSUME SlotInv, NEW s \in Slots, RemovePeer(s)
  PROVE  NoNewPeers /\ peers'[s].juice = "null"
<1>1. peers[s] \in PeerRecord
  BY OwnReferences
<1>2. /\ \A t \in Slots \ {s} : peers'[t] = peers[t]
      /\ peers'[s].juice = "null"
  BY <1>1 DEF RemovePeer, SlotInv, PeerRecord
<1> QED BY <1>2 DEF NoNewPeers, Occupied

LEMMA RemovalNoNewPeers ==
  ASSUME SlotInv, NEW s \in Slots,
         DropSession(s) \/ DropConn(s) \/ DestroyAgent(s) \/ Vacate(s)
  PROVE  NoNewPeers
<1>1. peers[s] \in PeerRecord
  BY OwnReferences
<1>2. \A t \in Slots \ {s} : peers'[t] = peers[t]
  BY DEF DropSession, DropConn, DestroyAgent, Vacate, SlotInv
<1>3. /\ peers'[s].juice \in {peers[s].juice, "null"}
      /\ peers'[s].id \in {peers[s].id, NoPeer}
  BY <1>1 DEF DropSession, DropConn, DestroyAgent, Vacate, SlotInv, PeerRecord
<1> QED BY <1>2, <1>3 DEF NoNewPeers, Occupied

LEMMA AddPeerFailsNoNewPeers ==
  ASSUME SlotInv, NEW s \in Slots, NEW id \in PeerIds, AddPeerFails(s, id)
  PROVE  NoNewPeers
<1>1. peers[s] \in PeerRecord /\ peers[s].juice = "null"
  BY OwnReferences DEF AddPeerFails, IsFirst, AddableSlots, Occupied
<1>2. /\ \A t \in Slots \ {s} : peers'[t] = peers[t]
      /\ peers'[s].juice = "null"
  BY <1>1 DEF AddPeerFails, SlotInv, PeerRecord
<1> QED BY <1>2 DEF NoNewPeers, Occupied

LEMMA StartQuicNoNewPeers ==
  ASSUME SlotInv, NEW s \in Slots, NEW p \in PeerRecord, StartQuic(s, p),
         p.id = peers[s].id, p.juice = peers[s].juice
  PROVE  NoNewPeers
<1> DEFINE q == [p EXCEPT !.session = NoConn]
<1>1. \A t \in Slots \ {s} : peers'[t] = peers[t]
  BY DEF StartQuic, SlotInv
<1>2. q \in PeerRecord /\ q.id = p.id /\ q.juice = p.juice
  BY DEF PeerRecord
<1>3. \/ peers'[s] = p
      \/ peers'[s] = q
      \/ peers'[s] = [q EXCEPT !.state = Failed]
      \/ \E c \in FreeConns :
           peers'[s] = [q EXCEPT !.state = QuicHandshaking, !.conn = c, !.session = c]
  BY DEF StartQuic, SlotInv
<1> HIDE DEF q
<1>4. peers'[s].id = p.id /\ peers'[s].juice = p.juice
  BY <1>2, <1>3 DEF PeerRecord
<1> QED BY <1>1, <1>4 DEF NoNewPeers, Occupied

LEMMA DestroyedKeepsPeer ==
  ASSUME NEW p \in PeerRecord, NEW c \in Conns
  PROVE  Destroyed(p, c).id = p.id /\ Destroyed(p, c).juice = p.juice
<1> DEFINE q == [p EXCEPT !.session = NoConn]
<1>1. q \in PeerRecord /\ q.id = p.id /\ q.juice = p.juice
  BY DEF PeerRecord
<1>2. Destroyed(p, c) = IF p.conn = c THEN CurrentConnClosed(q) ELSE q
  BY DEF Destroyed
<1> HIDE DEF q
<1>3. CurrentConnClosed(q).id = q.id /\ CurrentConnClosed(q).juice = q.juice
  BY <1>1 DEF CurrentConnClosed, PeerRecord
<1> QED BY <1>1, <1>2, <1>3

LEMMA EngineStepNoNewPeers ==
  ASSUME EngineInv, EngineStep
  PROVE  NoNewPeers
<1>1. SlotInv /\ ThreadInv /\ \A s \in Slots : peers[s] \in PeerRecord
  BY OwnReferences DEF EngineInv
<1>2. CASE UNCHANGED peers
  BY <1>2 DEF NoNewPeers, Occupied
<1>3. CASE ServerAccept
  <2>1. PICK c \in FreeConns : peers' = [peers EXCEPT ![pkt].session = c, ![pkt].conn = c]
    BY <1>3 DEF ServerAccept
  <2> QED BY <1>1, <2>1 DEF NoNewPeers, Occupied, PeerRecord, SlotInv
<1>4. ASSUME NEW c \in Conns, HandshakeFinished(c) PROVE NoNewPeers
  BY <1>1, <1>4 DEF HandshakeFinished, NoNewPeers, Occupied, PeerRecord, SlotInv
<1>5. ASSUME NEW c \in Conns, ConnCloseNotify(c) PROVE NoNewPeers
  <2> DEFINE s == conns[c].slot
             d == Destroyed(peers[s], c)
             f == [d EXCEPT !.juice = "failed", !.removal = @ \/ DeferRemoval]
  <2>1. s \in Slots
    BY <1>1 DEF SlotInv, ConnRecord
  <2>2. peers[s] \in PeerRecord
    BY <1>1, <2>1
  <2>3. d \in PeerRecord /\ d.id = peers[s].id /\ d.juice = peers[s].juice
    BY <2>2, DestroyedFacts, DestroyedKeepsPeer
  <2>4. \/ peers' = [peers EXCEPT ![s] = d]
        \/ peers[s].juice \in JuiceUp /\ peers' = [peers EXCEPT ![s] = f]
    BY <1>5 DEF ConnCloseNotify
  <2> HIDE DEF d, s
  <2>5. f \in PeerRecord /\ f.id = peers[s].id
    BY <2>3 DEF PeerRecord, JuiceStates
  <2> HIDE DEF f
  <2> QED BY <1>1, <2>1, <2>3, <2>4, <2>5, OneSlotNoNewPeers DEF JuiceUp
<1>6. ASSUME NEW s \in Slots, IceStateChanged(s) PROVE NoNewPeers
  BY <1>1, <1>6 DEF IceStateChanged, AfterIce, JuiceNext, NoNewPeers, Occupied, PeerRecord, SlotInv
<1>7. CASE ProcessQuicStart
  <2> DEFINE p == [peers[cursor] EXCEPT !.qstart = FALSE]
  <2>1. cursor \in Slots
    BY <1>1, <1>7, InLoopSlot DEF ProcessQuicStart
  <2>2. p \in PeerRecord /\ p.id = peers[cursor].id /\ p.juice = peers[cursor].juice
    BY <1>1, <2>1 DEF PeerRecord
  <2>3. StartQuic(cursor, p) \/ peers' = [peers EXCEPT ![cursor] = p]
    BY <1>7 DEF ProcessQuicStart
  <2> HIDE DEF p
  <2> QED BY <1>1, <2>1, <2>2, <2>3, StartQuicNoNewPeers, OneSlotNoNewPeers
<1>8. CASE ProcessIdle
  <2>1. cursor \in Slots
    BY <1>1, <1>8, InLoopSlot DEF ProcessIdle
  <2> DEFINE p == [peers[cursor] EXCEPT !.conn = NoConn, !.state = IceConnected]
  <2>2. p \in PeerRecord /\ p.id = peers[cursor].id /\ p.juice = peers[cursor].juice
    BY <1>1, <2>1, StateFacts DEF PeerRecord
  <2>3. peers' = [peers EXCEPT ![cursor] = p] \/ UNCHANGED peers
    BY <1>8 DEF ProcessIdle
  <2> HIDE DEF p
  <2> QED BY <1>1, <1>2, <2>1, <2>2, <2>3, OneSlotNoNewPeers
<1>9. CASE ProcessQuicRestart
  <2> DEFINE old == peers[cursor]
             retried == [old EXCEPT !.qrestart = FALSE]
  <2>1. cursor \in Slots
    BY <1>1, <1>9, InLoopSlot DEF ProcessQuicRestart
  <2>2. old \in PeerRecord
    BY <1>1, <2>1
  <2>3. \/ /\ \A t \in Slots \ {cursor} : peers'[t] = peers[t]
           /\ peers'[cursor].id = old.id /\ peers'[cursor].juice = old.juice
        \/ StartQuic(cursor, retried)
    BY <1>1, <1>9, <2>1, <2>2 DEF ProcessQuicRestart, SlotInv, PeerRecord
  <2>4. retried \in PeerRecord /\ retried.id = old.id /\ retried.juice = old.juice
    BY <2>2 DEF PeerRecord
  <2> HIDE DEF retried
  <2> QED BY <1>1, <2>1, <2>3, <2>4, StartQuicNoNewPeers DEF NoNewPeers, Occupied
<1>10. CASE ReapSlot
  <2>1. cursor \in Slots
    BY <1>1, <1>10, SlotsAssumption DEF ThreadInv, ReapSlot, Slots
  <2> QED BY <1>1, <1>10, <2>1 DEF ReapSlot, NoNewPeers, Occupied, PeerRecord, SlotInv
<1>11. CASE ReapRemove
  BY <1>1, <1>11, RemovePeerNoNewPeers DEF ReapRemove, ThreadInv
<1>12. CASE ReapForget
  <2>1. cursor \in Slots
    BY <1>1, <1>12 DEF ThreadInv, ReapForget
  <2> QED BY <1>1, <1>12, <2>1 DEF ReapForget, NoNewPeers, Occupied, PeerRecord, SlotInv
<1>13. UNCHANGED peers \/ ServerAccept \/ ProcessQuicStart \/ ProcessIdle
       \/ ProcessQuicRestart \/ ReapSlot \/ ReapRemove \/ ReapForget
       \/ (\E c \in Conns : HandshakeFinished(c) \/ ConnCloseNotify(c))
       \/ (\E s \in Slots : IceStateChanged(s))
  BY DEF EngineStep, EngineLoop, XquicEvent, IceThread, RecvDone, StartDone, IdleDone,
         RestartDone, ReapDone, MainDone, LoopDone, ReapCount, PacketPlain, RecvPacket,
         RemoteClose
<1> QED BY <1>2, <1>3, <1>4, <1>5, <1>6, <1>7, <1>8, <1>9, <1>10, <1>11, <1>12, <1>13
-----------------------------------------------------------------------------
(* The table that the slots stand for. *)
Held(p) == IF p.juice # "null" THEN p.id ELSE NoPeer
Who == [s \in Slots |-> IF Occupied(s) THEN peers[s].id ELSE NoPeer]
Link == [s \in Slots |-> peers[s].conn]
Alive == {c \in Conns : conns[c].st # "free"}

TableStep ==
  [Table!TableNext]_<<[s \in Slots |-> IF Occupied(s) THEN peers[s].id ELSE NoPeer],
                      [s \in Slots |-> peers[s].conn],
                      {c \in Conns : conns[c].st # "free"}>>

LEMMA TableStutter ==
  ASSUME Who' = Who, Link' = Link, Alive' = Alive
  PROVE  TableStep
BY DEF TableStep, Who, Link, Alive

(* Two functions that differ at one argument only.                         *)
LEMMA SameButOne ==
  ASSUME NEW S, NEW f, NEW g, NEW s \in S,
         f = [x \in S |-> f[x]], g = [x \in S |-> g[x]],
         \A x \in S \ {s} : g[x] = f[x]
  PROVE  g = [f EXCEPT ![s] = g[s]]
OBVIOUS

(* What a step that gives slot s the record p does to the table.           *)
LEMMA TableUpdate ==
  ASSUME SlotInv, NEW s \in Slots, NEW p \in PeerRecord, peers' = [peers EXCEPT ![s] = p]
  PROVE  /\ Who' = [Who EXCEPT ![s] = Held(p)]
         /\ Link' = [Link EXCEPT ![s] = p.conn]
         /\ Who[s] = Held(peers[s]) /\ Link[s] = peers[s].conn
<1>1. peers'[s] = p /\ \A t \in Slots \ {s} : peers'[t] = peers[t]
  BY DEF SlotInv
<1>2. /\ Who = [t \in Slots |-> Who[t]] /\ Who' = [t \in Slots |-> Who'[t]]
      /\ Link = [t \in Slots |-> Link[t]] /\ Link' = [t \in Slots |-> Link'[t]]
  BY DEF Who, Link
<1>3. \A t \in Slots : /\ Who[t] = Held(peers[t]) /\ Who'[t] = Held(peers'[t])
                       /\ Link[t] = peers[t].conn /\ Link'[t] = peers'[t].conn
  BY DEF Who, Link, Held, Occupied
<1>4. \A t \in Slots \ {s} : Who'[t] = Who[t] /\ Link'[t] = Link[t]
  BY <1>1, <1>3
<1>5. Who'[s] = Held(p) /\ Link'[s] = p.conn
  BY <1>1, <1>3
<1>6. Who' = [Who EXCEPT ![s] = Who'[s]] /\ Link' = [Link EXCEPT ![s] = Link'[s]]
  BY <1>2, <1>4, SameButOne
<1> QED BY <1>3, <1>5, <1>6

LEMMA TableKeep ==
  ASSUME SlotInv, NEW s \in Slots, NEW p \in PeerRecord, peers' = [peers EXCEPT ![s] = p],
         Held(p) = Held(peers[s]), p.conn = peers[s].conn, Alive' = Alive
  PROVE  TableStep
<1>1. Who = [Who EXCEPT ![s] = Who[s]] /\ Link = [Link EXCEPT ![s] = Link[s]]
  BY DEF Who, Link
<1>2. /\ Who' = [Who EXCEPT ![s] = Held(p)] /\ Link' = [Link EXCEPT ![s] = p.conn]
      /\ Who[s] = Held(p) /\ Link[s] = p.conn
  BY TableUpdate
<1>3. Who' = Who /\ Link' = Link
  BY <1>1, <1>2
<1> QED BY <1>3, TableStutter

LEMMA TableGiveUp ==
  ASSUME SlotInv, NEW s \in Slots, NEW p \in PeerRecord, peers' = [peers EXCEPT ![s] = p],
         Held(p) = Held(peers[s]), p.conn = NoConn, Alive' = Alive
  PROVE  TableStep
<1>1. Who' = Who
  <2>1. Who = [Who EXCEPT ![s] = Who[s]]
    BY DEF Who
  <2>2. Who' = [Who EXCEPT ![s] = Held(p)] /\ Who[s] = Held(p)
    BY TableUpdate
  <2> QED BY <2>1, <2>2
<1>2. Link' = [Link EXCEPT ![s] = NoConn]
  BY TableUpdate
<1>3. Table!GiveUp(s)
  BY <1>1, <1>2 DEF Table!GiveUp, Who, Link, Alive
<1> QED BY <1>3 DEF TableStep, Table!TableNext

LEMMA TableEvict ==
  ASSUME SlotInv, NEW s \in Slots, NEW p \in PeerRecord, peers' = [peers EXCEPT ![s] = p],
         Held(p) = NoPeer, p.conn \in {NoConn, peers[s].conn}, Alive' = Alive
  PROVE  TableStep
<1>1. Who' = [Who EXCEPT ![s] = NoPeer] /\ Link' = [Link EXCEPT ![s] = p.conn]
  BY TableUpdate
<1>2. Link' \in {Link, [Link EXCEPT ![s] = NoConn]}
  <2>1. CASE p.conn = NoConn
    BY <1>1, <2>1
  <2>2. CASE p.conn = peers[s].conn
    <3>1. Link = [Link EXCEPT ![s] = peers[s].conn]
      BY DEF Link
    <3> QED BY <1>1, <2>2, <3>1
  <2> QED BY <2>1, <2>2
<1>3. Table!Evict(s)
  BY <1>1, <1>2 DEF Table!Evict, Who, Link, Alive
<1> QED BY <1>3 DEF TableStep, Table!TableNext

LEMMA TableEstablish ==
  ASSUME SlotInv, NEW s \in Slots, NEW p \in PeerRecord, peers' = [peers EXCEPT ![s] = p],
         NEW c \in FreeConns, conns' = [conns EXCEPT ![c] = [slot |-> s, st |-> "handshaking"]],
         Held(p) = Held(peers[s]), p.conn = c
  PROVE  TableStep
<1>1. Who' = Who
  <2>1. Who = [Who EXCEPT ![s] = Who[s]]
    BY DEF Who
  <2>2. Who' = [Who EXCEPT ![s] = Held(p)] /\ Who[s] = Held(p)
    BY TableUpdate
  <2> QED BY <2>1, <2>2
<1>2. Link' = [Link EXCEPT ![s] = c]
  BY TableUpdate
<1>3. c \in Conns /\ c \notin Alive /\ Alive' = Alive \cup {c}
  BY DEF FreeConns, Alive, SlotInv
<1>4. Table!Establish(s, c)
  BY <1>1, <1>2, <1>3 DEF Table!Establish, Who, Link, Alive
<1> QED BY <1>3, <1>4 DEF TableStep, Table!TableNext

(* A connection is in no slot but its own when it is destroyed.            *)
LEMMA TableDestroy ==
  ASSUME SlotInv, NEW c \in Conns, conns[c].st # "free",
         conns' = [conns EXCEPT ![c] = [slot |-> 0, st |-> "free"]],
         NEW p \in PeerRecord, peers' = [peers EXCEPT ![conns[c].slot] = p],
         Held(p) = Held(peers[conns[c].slot]),
         p.conn = IF peers[conns[c].slot].conn = c THEN NoConn ELSE peers[conns[c].slot].conn
  PROVE  TableStep
<1> DEFINE s == conns[c].slot
<1>0. s \in Slots
  BY DEF SlotInv, ConnRecord
<1>1. Who' = Who
  <2>1. Who = [Who EXCEPT ![s] = Who[s]]
    BY DEF Who
  <2>2. Who' = [Who EXCEPT ![s] = Held(p)] /\ Who[s] = Held(p)
    BY <1>0, TableUpdate
  <2> QED BY <2>1, <2>2
<1>2. Link' = [t \in Slots |-> IF Link[t] = c THEN NoConn ELSE Link[t]]
  <2>1. \A t \in Slots : Link[t] = c => t = s
    BY SlotFacts DEF Link, SlotInv, NoDanglingConn
  <2>2. Link' = [Link EXCEPT ![s] = p.conn] /\ Link[s] = peers[s].conn
    BY <1>0, TableUpdate
  <2>3. p.conn = IF Link[s] = c THEN NoConn ELSE Link[s]
    BY <2>2
  <2> QED BY <1>0, <2>1, <2>2, <2>3 DEF Link
<1>3. c \in Alive /\ Alive' = Alive \ {c}
  BY DEF Alive, SlotInv
<1>4. Table!Destroy(c)
  BY <1>1, <1>2, <1>3 DEF Table!Destroy, Who, Link, Alive
<1> QED BY <1>4 DEF TableStep, Table!TableNext

(* Steps that leave the connections alone, or only close one.              *)
LEMMA CloseAlive ==
  ASSUME SlotInv, NEW s \in Slots, UNCHANGED conns \/ CloseConn(peers[s].conn)
  PROVE  Alive' = Alive
<1>1. CASE UNCHANGED conns
  BY <1>1 DEF Alive
<1>2. CASE peers[s].conn # NoConn /\ CloseConn(peers[s].conn)
  <2>1. peers[s].conn \in Conns /\ conns[peers[s].conn].st # "free"
    BY <1>2, OwnReferences DEF RefersTo
  <2> QED BY <1>2, <2>1 DEF Alive, CloseConn, SlotInv, ConnRecord
<1> QED BY <1>1, <1>2 DEF CloseConn
-----------------------------------------------------------------------------
(* The steps of the engine, one by one, are steps of the table.            *)
LEMMA TableGather ==
  ASSUME SlotInv, NEW s \in Slots, Gather(s), UNCHANGED conns
  PROVE  TableStep
<1> DEFINE p == [peers[s] EXCEPT !.juice = "gathering", !.state = IceGathering]
<1>1. peers[s] \in PeerRecord /\ peers[s].juice = "disconnected"
  BY OwnReferences DEF Gather
<1>2. p \in PeerRecord /\ Held(p) = Held(peers[s]) /\ p.conn = peers[s].conn
  BY <1>1, StateFacts DEF PeerRecord, JuiceStates, Held
<1>3. peers' = [peers EXCEPT ![s] = p]
  BY DEF Gather, SlotInv
<1>4. Alive' = Alive
  BY CloseAlive
<1> HIDE DEF p
<1> QED BY <1>2, <1>3, <1>4, TableKeep

LEMMA TableRemovePeer ==
  ASSUME SlotInv, NEW s \in Slots, RemovePeer(s)
  PROVE  TableStep
<1> DEFINE p == [peers[s] EXCEPT !.conn = NoConn, !.juice = "null",
                   !.session = NoConn, !.state = Idle]
<1>1. peers[s] \in PeerRecord
  BY OwnReferences
<1>2. p \in PeerRecord /\ Held(p) = NoPeer /\ p.conn = NoConn
  BY <1>1, StateFacts DEF PeerRecord, JuiceStates, Held
<1>3. peers' = [peers EXCEPT ![s] = p] /\ CloseConn(peers[s].conn)
  BY DEF RemovePeer, SlotInv
<1>4. Alive' = Alive
  BY <1>3, CloseAlive
<1> HIDE DEF p
<1> QED BY <1>2, <1>3, <1>4, TableEvict

(* The removal in parts: the connection is given up, then the name is.     *)
LEMMA TableRemoval ==
  ASSUME SlotInv, NEW s \in Slots,
         DropSession(s) \/ DropConn(s) \/ DestroyAgent(s) \/ Vacate(s)
  PROVE  TableStep
<1> DEFINE old == peers[s]
           dropped == [old EXCEPT !.session = IF old.conn = NoConn THEN @ ELSE NoConn]
           closed == [old EXCEPT !.conn = NoConn]
           silent == [old EXCEPT !.juice = "null"]
           vacant == [old EXCEPT !.session = NoConn, !.state = Idle, !.id = NoPeer]
<1>1. old \in PeerRecord
  BY OwnReferences
<1>2. Alive' = Alive
  BY CloseAlive DEF DropSession, DropConn, DestroyAgent, Vacate
<1>3. CASE DropSession(s)
  <2>1. dropped \in PeerRecord /\ Held(dropped) = Held(old) /\ dropped.conn = old.conn
    BY <1>1 DEF PeerRecord, Held
  <2>2. peers' = [peers EXCEPT ![s] = dropped]
    BY <1>3 DEF DropSession, SlotInv
  <2> HIDE DEF dropped
  <2> QED BY <1>2, <2>1, <2>2, TableKeep
<1>4. CASE DropConn(s)
  <2>1. closed \in PeerRecord /\ Held(closed) = Held(old) /\ closed.conn = NoConn
    BY <1>1 DEF PeerRecord, Held
  <2>2. peers' = [peers EXCEPT ![s] = closed]
    BY <1>4 DEF DropConn, SlotInv
  <2> HIDE DEF closed
  <2> QED BY <1>2, <2>1, <2>2, TableGiveUp
<1>5. CASE DestroyAgent(s)
  <2>1. silent \in PeerRecord /\ Held(silent) = NoPeer /\ silent.conn = old.conn
    BY <1>1 DEF PeerRecord, JuiceStates, Held
  <2>2. peers' = [peers EXCEPT ![s] = silent]
    BY <1>5 DEF DestroyAgent, SlotInv
  <2> HIDE DEF silent
  <2> QED BY <1>2, <2>1, <2>2, TableEvict
<1>6. CASE Vacate(s)
  <2>1. vacant \in PeerRecord /\ Held(vacant) = NoPeer /\ vacant.conn = old.conn
    BY <1>1, StateFacts DEF PeerRecord, Held
  <2>2. peers' = [peers EXCEPT ![s] = vacant]
    BY <1>6 DEF Vacate, SlotInv
  <2> HIDE DEF vacant
  <2> QED BY <1>2, <2>1, <2>2, TableEvict
<1> QED BY <1>3, <1>4, <1>5, <1>6

LEMMA TableIce ==
  ASSUME SlotInv, NEW s \in Slots, IceStateChanged(s)
  PROVE  TableStep
<1>1. PICK js \in JuiceNext[peers[s].juice] :
        peers' = [peers EXCEPT ![s] = AfterIce(peers[s], js)]
  BY DEF IceStateChanged
<1> DEFINE p == AfterIce(peers[s], js)
<1>2. /\ p \in PeerRecord /\ p.conn = peers[s].conn /\ p.id = peers[s].id
      /\ p.juice # "null" /\ peers[s].juice # "null"
  BY OwnReferences, AfterIceFacts
<1>3. peers' = [peers EXCEPT ![s] = p] /\ Alive' = Alive
  BY <1>1, CloseAlive DEF IceStateChanged
<1> HIDE DEF p
<1>4. Held(p) = Held(peers[s])
  BY <1>2 DEF Held
<1> QED BY <1>2, <1>3, <1>4, TableKeep

LEMMA TableServerAccept ==
  ASSUME EngineInv, ServerAccept
  PROVE  TableStep
<1>1. SlotInv /\ pkt \in Slots
  BY DEF EngineInv, ThreadInv, ServerAccept
<1>2. PICK c \in FreeConns :
        /\ conns' = [conns EXCEPT ![c] = [slot |-> pkt, st |-> "handshaking"]]
        /\ peers' = [peers EXCEPT ![pkt].session = c, ![pkt].conn = c]
  BY DEF ServerAccept
<1> DEFINE p == [peers[pkt] EXCEPT !.session = c, !.conn = c]
<1>3. peers[pkt] \in PeerRecord /\ c \in Conns
  BY <1>1, OwnReferences DEF FreeConns
<1>4. p \in PeerRecord /\ Held(p) = Held(peers[pkt]) /\ p.conn = c
  BY <1>3 DEF PeerRecord, Held
<1>5. peers' = [peers EXCEPT ![pkt] = p]
  BY <1>1, <1>2 DEF SlotInv
<1> HIDE DEF p
<1> QED BY <1>1, <1>2, <1>4, <1>5, TableEstablish

LEMMA TableHandshake ==
  ASSUME SlotInv, NEW c \in Conns, HandshakeFinished(c)
  PROVE  TableStep
<1> DEFINE s == conns[c].slot
           p == [peers[s] EXCEPT !.state = QuicConnected, !.fails = 0]
<1>1. s \in Slots /\ conns[c].st = "handshaking" /\ conns[c] \in ConnRecord
  BY DEF SlotInv, ConnRecord, HandshakeFinished
<1>2. peers[s] \in PeerRecord
  BY <1>1, OwnReferences
<1>3. 0 \in 0 .. RestartLimit
  BY DEF RestartLimit
<1>4. p \in PeerRecord /\ Held(p) = Held(peers[s]) /\ p.conn = peers[s].conn
  BY <1>2, <1>3, StateFacts DEF PeerRecord, Held
<1>5. peers' = [peers EXCEPT ![s] = p]
  BY <1>1 DEF HandshakeFinished, SlotInv
<1>6. Alive' = Alive
  BY <1>1 DEF HandshakeFinished, Alive, SlotInv
<1> HIDE DEF s, p
<1> QED BY <1>1, <1>4, <1>5, <1>6, TableKeep

LEMMA TableRemoteClose ==
  ASSUME SlotInv, NEW c \in Conns, RemoteClose(c)
  PROVE  TableStep
<1>1. conns' = [conns EXCEPT ![c].st = "closing"] /\ conns[c].st # "free" /\ UNCHANGED peers
  BY DEF RemoteClose
<1>2. Alive' = Alive
  BY <1>1 DEF Alive, SlotInv
<1> QED BY <1>1, <1>2, TableStutter DEF Who, Link, Occupied

LEMMA TableConnClosed ==
  ASSUME SlotInv, NEW c \in Conns, ConnCloseNotify(c)
  PROVE  TableStep
<1> DEFINE s == conns[c].slot
           d == Destroyed(peers[s], c)
           f == [d EXCEPT !.juice = "failed", !.removal = @ \/ DeferRemoval]
           gone == IF peers[s].conn = c THEN NoConn ELSE peers[s].conn
<1>1. s \in Slots /\ peers[s] \in PeerRecord
  <2>1. s \in Slots
    BY DEF SlotInv, ConnRecord
  <2> QED BY <2>1, OwnReferences
<1>2. /\ d \in PeerRecord /\ d.conn = gone
      /\ d.id = peers[s].id /\ d.juice = peers[s].juice
  BY <1>1, DestroyedFacts, DestroyedKeepsPeer
<1>3. /\ conns[c].st # "free"
      /\ conns' = [conns EXCEPT ![c] = [slot |-> 0, st |-> "free"]]
      /\ \/ peers' = [peers EXCEPT ![s] = d]
         \/ peers[s].juice \in JuiceUp /\ peers' = [peers EXCEPT ![s] = f]
  BY DEF ConnCloseNotify
<1> HIDE DEF d
<1>4. f \in PeerRecord /\ f.conn = d.conn /\ f.id = d.id /\ f.juice = "failed"
  BY <1>2 DEF PeerRecord, JuiceStates
<1> HIDE DEF f
<1>5. CASE peers' = [peers EXCEPT ![s] = d]
  <2>1. Held(d) = Held(peers[s])
    BY <1>2 DEF Held
  <2> QED BY <1>2, <1>3, <1>5, <2>1, TableDestroy
<1>6. CASE peers[s].juice \in JuiceUp /\ peers' = [peers EXCEPT ![s] = f]
  <2>1. Held(f) = Held(peers[s])
    BY <1>2, <1>4, <1>6 DEF Held, JuiceUp
  <2> QED BY <1>2, <1>3, <1>4, <1>6, <2>1, TableDestroy
<1> QED BY <1>3, <1>5, <1>6

LEMMA TableStartQuic ==
  ASSUME SlotInv, NEW s \in Slots, NEW p \in PeerRecord, StartQuic(s, p),
         p.id = peers[s].id, p.juice = peers[s].juice, p.conn = peers[s].conn
  PROVE  TableStep
<1> DEFINE q == [p EXCEPT !.session = NoConn]
           r == [q EXCEPT !.state = Failed]
<1>1. q \in PeerRecord /\ q.id = p.id /\ q.juice = p.juice /\ q.conn = p.conn
  BY DEF PeerRecord
<1>2. \/ UNCHANGED conns /\ peers' = [peers EXCEPT ![s] = p]
      \/ UNCHANGED conns /\ peers' = [peers EXCEPT ![s] = q]
      \/ UNCHANGED conns /\ peers' = [peers EXCEPT ![s] = r]
      \/ \E c \in FreeConns :
           /\ conns' = [conns EXCEPT ![c] = [slot |-> s, st |-> "handshaking"]]
           /\ peers' = [peers EXCEPT ![s] =
                [q EXCEPT !.state = QuicHandshaking, !.conn = c, !.session = c]]
  BY Zenon DEF StartQuic
<1> HIDE DEF q
<1>3. r \in PeerRecord /\ r.id = p.id /\ r.juice = p.juice /\ r.conn = p.conn
  BY <1>1, StateFacts DEF PeerRecord
<1> HIDE DEF r
<1>4. ASSUME NEW x \in {p, q, r}, UNCHANGED conns, peers' = [peers EXCEPT ![s] = x]
      PROVE  TableStep
  <2>1. Alive' = Alive
    BY <1>4, CloseAlive
  <2>2. x \in PeerRecord /\ Held(x) = Held(peers[s]) /\ x.conn = peers[s].conn
    BY <1>1, <1>3 DEF Held
  <2> QED BY <1>4, <2>1, <2>2, TableKeep
<1>5. ASSUME NEW c \in FreeConns,
             conns' = [conns EXCEPT ![c] = [slot |-> s, st |-> "handshaking"]],
             peers' = [peers EXCEPT ![s] =
               [q EXCEPT !.state = QuicHandshaking, !.conn = c, !.session = c]]
      PROVE  TableStep
  <2> DEFINE t == [q EXCEPT !.state = QuicHandshaking, !.conn = c, !.session = c]
  <2>1. t \in PeerRecord /\ t.id = q.id /\ t.juice = q.juice /\ t.conn = c
    BY <1>1, StateFacts DEF PeerRecord, FreeConns
  <2>2. peers' = [peers EXCEPT ![s] = t]
    BY <1>5
  <2> HIDE DEF t
  <2>3. Held(t) = Held(peers[s])
    BY <1>1, <2>1 DEF Held
  <2> QED BY <1>5, <2>1, <2>2, <2>3, TableEstablish
<1> QED BY <1>2, <1>4, <1>5, Zenon

LEMMA TableLoops ==
  ASSUME EngineInv, ProcessQuicStart \/ ProcessIdle \/ ProcessQuicRestart
  PROVE  TableStep
<1> DEFINE old == peers[cursor]
           unstarted == [old EXCEPT !.qstart = FALSE]
           escalated == [old EXCEPT !.irestart = FALSE, !.qrestart = FALSE,
                                    !.removal = @ \/ DeferRemoval]
           waiting == [old EXCEPT !.qrestart = FALSE, !.irestart = TRUE]
           retried == [old EXCEPT !.qrestart = FALSE]
           silent == [old EXCEPT !.conn = NoConn, !.state = IceConnected]
           fine(p) == p \in PeerRecord /\ p.id = old.id /\ p.juice = old.juice
<1>1. SlotInv /\ cursor \in Slots /\ old \in PeerRecord
  BY InLoopSlot, OwnReferences DEF EngineInv, ProcessQuicStart, ProcessIdle, ProcessQuicRestart
<1>2. \/ \E p \in {unstarted, retried} : StartQuic(cursor, p)
      \/ /\ UNCHANGED conns
         /\ \E p \in {unstarted, escalated, waiting} : peers' = [peers EXCEPT ![cursor] = p]
      \/ CloseConn(old.conn) /\ peers' = [peers EXCEPT ![cursor] = silent]
      \/ UNCHANGED <<peers, conns>>
  <2>1. CASE ProcessQuicStart
    BY <2>1 DEF ProcessQuicStart
  <2>2. CASE ProcessIdle
    BY <2>2 DEF ProcessIdle
  <2>3. CASE ProcessQuicRestart
    BY <2>3 DEF ProcessQuicRestart
  <2> QED BY <2>1, <2>2, <2>3
<1> HIDE DEF old
<1>3. /\ fine(unstarted) /\ fine(escalated) /\ fine(waiting) /\ fine(retried) /\ fine(silent)
      /\ unstarted.conn = old.conn /\ escalated.conn = old.conn
      /\ waiting.conn = old.conn /\ retried.conn = old.conn /\ silent.conn = NoConn
  BY <1>1, StateFacts DEF PeerRecord
<1> HIDE DEF unstarted, escalated, waiting, retried, silent
<1>4. \A p : fine(p) => Held(p) = Held(peers[cursor])
  BY DEF Held, old
<1>5. ASSUME NEW p \in {unstarted, retried}, StartQuic(cursor, p)
      PROVE  TableStep
  BY <1>1, <1>3, <1>5, TableStartQuic DEF old
<1>6. ASSUME NEW p \in {unstarted, escalated, waiting}, UNCHANGED conns,
             peers' = [peers EXCEPT ![cursor] = p]
      PROVE  TableStep
  <2>1. Alive' = Alive
    BY <1>1, <1>6, CloseAlive
  <2>2. p \in PeerRecord /\ Held(p) = Held(peers[cursor]) /\ p.conn = peers[cursor].conn
    BY <1>3, <1>4 DEF old
  <2> QED BY <1>1, <1>6, <2>1, <2>2, TableKeep
<1>7. ASSUME CloseConn(old.conn), peers' = [peers EXCEPT ![cursor] = silent]
      PROVE  TableStep
  <2>1. Alive' = Alive
    BY <1>1, <1>7, CloseAlive DEF old
  <2>2. silent \in PeerRecord /\ Held(silent) = Held(peers[cursor]) /\ silent.conn = NoConn
    BY <1>3, <1>4
  <2> QED BY <1>1, <1>7, <2>1, <2>2, TableGiveUp
<1>8. ASSUME UNCHANGED <<peers, conns>> PROVE TableStep
  BY <1>8, TableStutter DEF Who, Link, Alive, Occupied
<1> QED BY <1>2, <1>5, <1>6, <1>7, <1>8

LEMMA TableReap ==
  ASSUME EngineInv, ReapSlot \/ ReapRemove \/ ReapForget
  PROVE  TableStep
<1>1. SlotInv /\ ThreadInv
  BY DEF EngineInv
<1>2. CASE ReapSlot
  <2> DEFINE p == [peers[cursor] EXCEPT !.removal = FALSE]
  <2>1. cursor \in Slots
    BY <1>1, <1>2, SlotsAssumption DEF ThreadInv, ReapSlot, Slots
  <2>2. p \in PeerRecord /\ p.conn = peers[cursor].conn /\ Held(p) = Held(peers[cursor])
    BY <1>1, <2>1, OwnReferences DEF PeerRecord, Held
  <2>3. UNCHANGED conns /\ (peers' = [peers EXCEPT ![cursor] = p] \/ UNCHANGED peers)
    BY <1>1, <1>2, <2>1 DEF ReapSlot, SlotInv
  <2>4. Alive' = Alive
    BY <1>1, <2>1, <2>3, CloseAlive
  <2>5. CASE UNCHANGED peers
    BY <2>4, <2>5, TableStutter DEF Who, Link, Occupied
  <2> HIDE DEF p
  <2> QED BY <1>1, <2>1, <2>2, <2>3, <2>4, <2>5, TableKeep
<1>3. CASE ReapRemove
  BY <1>1, <1>3, TableRemovePeer DEF ReapRemove, ThreadInv
<1>4. CASE ReapForget
  <2> DEFINE p == [peers[cursor] EXCEPT !.id = NoPeer]
  <2>1. cursor \in Slots
    BY <1>1, <1>4 DEF ReapForget, ThreadInv
  <2>2. p \in PeerRecord /\ Held(p) = NoPeer /\ p.conn = peers[cursor].conn
    BY <1>1, <2>1, OwnReferences DEF PeerRecord, Held
  <2>3. peers' = [peers EXCEPT ![cursor] = p] /\ UNCHANGED conns
    BY <1>1, <1>4, <2>1 DEF ReapForget, SlotInv
  <2>4. Alive' = Alive
    BY <1>1, <2>1, <2>3, CloseAlive
  <2> HIDE DEF p
  <2> QED BY <1>1, <2>1, <2>2, <2>3, <2>4, TableEvict
<1> QED BY <1>2, <1>3, <1>4

LEMMA EngineStepTable ==
  ASSUME EngineInv, EngineStep
  PROVE  TableStep
<1>1. SlotInv
  BY DEF EngineInv
<1>2. CASE UNCHANGED <<peers, conns>>
  BY <1>2, TableStutter DEF Who, Link, Alive, Occupied
<1>3. \/ UNCHANGED <<peers, conns>>
      \/ ProcessQuicStart \/ ProcessIdle \/ ProcessQuicRestart
      \/ ReapSlot \/ ReapRemove \/ ReapForget \/ ServerAccept
      \/ \E c \in Conns : HandshakeFinished(c) \/ RemoteClose(c) \/ ConnCloseNotify(c)
      \/ \E s \in Slots : IceStateChanged(s)
  BY DEF EngineStep, EngineLoop, XquicEvent, IceThread, RecvDone, StartDone, IdleDone,
         RestartDone, ReapDone, MainDone, LoopDone, ReapCount, PacketPlain, PacketDone,
         RecvPacket
<1> QED BY <1>1, <1>2, <1>3, TableLoops, TableReap, TableServerAccept, TableHandshake,
           TableRemoteClose, TableConnClosed, TableIce

(* A peer is added to an empty slot, and only if it is in no other.        *)
LEMMA TableAddPeer ==
  ASSUME SlotInv, NEW s \in Slots, NEW id \in PeerIds, AddPeer(s, id), UNCHANGED conns,
         \A t \in Slots : ~(Occupied(t) /\ peers[t].id = id)
  PROVE  TableStep
<1> DEFINE p == [peers[s] EXCEPT !.id = id, !.juice = "disconnected"]
<1>1. peers[s] \in PeerRecord /\ peers[s].juice = "null"
  BY OwnReferences DEF AddPeer, IsFirst, AddableSlots, Occupied
<1>2. p \in PeerRecord /\ Held(p) = id /\ p.conn = peers[s].conn
  BY <1>1 DEF PeerRecord, JuiceStates, Held
<1>3. peers' = [peers EXCEPT ![s] = p]
  BY DEF AddPeer, SlotInv
<1> HIDE DEF p
<1>4. Who' = [Who EXCEPT ![s] = id] /\ Who[s] = NoPeer
  BY <1>1, <1>2, <1>3, TableUpdate DEF Held
<1>5. Link' = Link
  <2>1. Link' = [Link EXCEPT ![s] = p.conn] /\ Link[s] = p.conn
    BY <1>2, <1>3, TableUpdate
  <2>2. Link = [Link EXCEPT ![s] = Link[s]]
    BY DEF Link
  <2> QED BY <2>1, <2>2
<1>6. \A t \in Slots : Who[t] # id
  BY PeerIdsAssumption DEF Who
<1>7. Alive' = Alive
  BY DEF Alive
<1>8. Table!Admit(s, id)
  BY <1>4, <1>5, <1>6, <1>7 DEF Table!Admit, Who, Link, Alive
<1> QED BY <1>8 DEF TableStep, Table!TableNext

(* A peer that could not be added leaves its name, which nobody reads.     *)
LEMMA TableAddPeerFails ==
  ASSUME SlotInv, NEW s \in Slots, NEW id \in PeerIds, AddPeerFails(s, id),
         UNCHANGED conns
  PROVE  TableStep
<1> DEFINE p == [peers[s] EXCEPT !.id = id]
<1>1. peers[s] \in PeerRecord /\ peers[s].juice = "null"
  BY OwnReferences DEF AddPeerFails, IsFirst, AddableSlots, Occupied
<1>2. p \in PeerRecord /\ Held(p) = Held(peers[s]) /\ p.conn = peers[s].conn
  BY <1>1 DEF PeerRecord, Held
<1>3. peers' = [peers EXCEPT ![s] = p] /\ Alive' = Alive
  BY CloseAlive DEF AddPeerFails, SlotInv
<1> HIDE DEF p
<1> QED BY <1>2, <1>3, TableKeep

LEMMA TableStart == EngineInit => Table!TableInit
BY DEF EngineInit, Table!TableInit, EmptySlot, Occupied
=============================================================================
