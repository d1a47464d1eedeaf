-------------------------- MODULE SubscriberProofs --------------------------
(***************************************************************************)
(* The subscriber's safety for any number of slots, connections and        *)
(* publishers: types, no reference to a destroyed connection or session,   *)
(* one live connection per slot, empty slots that can be used again, and   *)
(* that the slots are the table of PeerTable.                              *)
(***************************************************************************)
EXTENDS SubscriberApp, PeerEngineProofs

(* The application's own variables. *)
AppInv ==
  /\ sse \in SseRecord
  /\ sse.at \in {"count", "gather"} => sse.slot \in Slots
  /\ sse.at = "add" => sse.id \in PeerIds
  /\ sse.at = "count" => sse.load < MaxSubscribers
  /\ pending \in PeerIds \cup {NoPeer}
  /\ reconnect \in BOOLEAN
  /\ main \in {"loop", "disconnect", "connect"}
  /\ online \in BOOLEAN

(* An agent that has not connected yet has no connection under it. *)
Early == {"null", "disconnected", "gathering", "connecting"}

(* What the state of a slot says of its agent and its connection.  QUIC is *)
(* started only in ICE_CONNECTED, where the slot has no connection: that   *)
(* is why LiveIsCurrent survives a start.                                  *)
SlotGood(p) ==
  /\ p.conn # NoConn => p.state >= QuicHandshaking
  /\ p.juice \in Early => p.conn = NoConn /\ p.state <= IceConnecting
  /\ p.juice \in {"null", "disconnected"} => p.state = Idle

Live(c, cs) == cs[c].st \in {"handshaking", "open"}

LiveInv == LiveIsCurrent /\ \A s \in Slots : SlotGood(peers[s])

SubscriberInv == EngineInv /\ AppInv /\ LiveInv

LEMMA SubscriberInitInv == SubscriberInit => SubscriberInv
<1> SUFFICES ASSUME SubscriberInit PROVE SubscriberInv
  OBVIOUS
<1>1. EngineInv
  BY InitInv DEF SubscriberInit
<1>2. AppInv
  <2>1. 0 \in 0 .. MaxSubscribers
    BY SlotsAssumption
  <2> QED BY <2>1 DEF SubscriberInit, AppInv, SseRecord, Idling
<1>3. LiveInv
  BY DEF SubscriberInit, EngineInit, EmptySlot, LiveInv, LiveIsCurrent, SlotGood,
         Idle, IceConnecting
<1> QED BY <1>1, <1>2, <1>3 DEF SubscriberInv

LEMMA EngineStutter ==
  ASSUME EngineInv, UNCHANGED <<peers, conns, engine>>,
         peer_count' \in 0 .. MaxSubscribers
  PROVE  EngineInv'
BY SlotStutter DEF EngineInv, ThreadInv, engine

LEMMA LiveStutter ==
  ASSUME LiveInv, UNCHANGED <<peers, conns>>
  PROVE  LiveInv'
BY DEF LiveInv, LiveIsCurrent, SlotGood

-----------------------------------------------------------------------------
(* Slot s takes the record p, and the live connections of s after the step *)
(* are at most p.conn.                                                     *)
LEMMA LiveUpdate ==
  ASSUME SlotInv, LiveInv, NEW s \in Slots, NEW p \in PeerRecord,
         peers' = [peers EXCEPT ![s] = p], SlotGood(p),
         \A c \in Conns : Live(c, conns') =>
           \/ conns'[c].slot = s /\ p.conn = c
           \/ conns'[c].slot # s /\ conns'[c].slot = conns[c].slot /\ Live(c, conns),
         \A c \in Conns : conns'[c].slot \in Slots
  PROVE  LiveInv'
<1>1. \A t \in Slots : peers'[t] = IF t = s THEN p ELSE peers[t]
  BY DEF SlotInv
<1>2. LiveIsCurrent'
  BY <1>1 DEF LiveInv, LiveIsCurrent, Live
<1>3. \A t \in Slots : SlotGood(peers'[t])
  BY <1>1 DEF LiveInv
<1> QED BY <1>2, <1>3 DEF LiveInv

LEMMA ConnSlots ==
  ASSUME SlotInv
  PROVE  \A c \in Conns : conns[c].slot \in Slots
BY DEF SlotInv, ConnRecord

(* Connections stay as they are, and so does the one of slot s. *)
LEMMA LiveFlags ==
  ASSUME SlotInv, LiveInv, NEW s \in Slots, NEW p \in PeerRecord,
         peers' = [peers EXCEPT ![s] = p], SlotGood(p), p.conn = peers[s].conn,
         UNCHANGED conns
  PROVE  LiveInv'
<1>1. \A c \in Conns : Live(c, conns') =>
           \/ conns'[c].slot = s /\ p.conn = c
           \/ conns'[c].slot # s /\ conns'[c].slot = conns[c].slot /\ Live(c, conns)
  BY DEF LiveInv, LiveIsCurrent, Live
<1> QED BY <1>1, ConnSlots, LiveUpdate

LEMMA LiveAddPeer ==
  ASSUME SlotInv, LiveInv, NEW s \in Slots, NEW id \in PeerIds, AddPeer(s, id),
         UNCHANGED conns
  PROVE  LiveInv'
<1> DEFINE p == [peers[s] EXCEPT !.id = id, !.juice = "disconnected"]
<1>1. peers[s] \in PeerRecord /\ SlotGood(peers[s])
  BY OwnReferences DEF LiveInv
<1>2. peers[s].juice = "null"
  BY DEF AddPeer, IsFirst, AddableSlots, Occupied
<1>3. /\ p \in PeerRecord /\ p.conn = peers[s].conn /\ p.state = peers[s].state
      /\ p.juice = "disconnected"
  BY <1>1 DEF PeerRecord, JuiceStates
<1>4. peers' = [peers EXCEPT ![s] = p]
  BY DEF AddPeer, SlotInv
<1> HIDE DEF p
<1>5. SlotGood(p)
  BY <1>1, <1>2, <1>3 DEF SlotGood, Early
<1> QED BY <1>3, <1>4, <1>5, LiveFlags

(* Only the name of a slot changes. *)
LEMMA LiveNamed ==
  ASSUME SlotInv, LiveInv, NEW s \in Slots, NEW id \in PeerIds \cup {NoPeer},
         peers' = [peers EXCEPT ![s].id = id], UNCHANGED conns
  PROVE  LiveInv'
<1> DEFINE p == [peers[s] EXCEPT !.id = id]
<1>1. peers[s] \in PeerRecord /\ SlotGood(peers[s])
  BY OwnReferences DEF LiveInv
<1>2. /\ p \in PeerRecord /\ p.conn = peers[s].conn /\ p.state = peers[s].state
      /\ p.juice = peers[s].juice
  BY <1>1 DEF PeerRecord
<1>3. peers' = [peers EXCEPT ![s] = p]
  BY DEF SlotInv
<1> HIDE DEF p
<1>4. SlotGood(p)
  BY <1>1, <1>2 DEF SlotGood
<1> QED BY <1>2, <1>3, <1>4, LiveFlags

LEMMA LiveGather ==
  ASSUME SlotInv, LiveInv, NEW s \in Slots, Gather(s), UNCHANGED conns
  PROVE  LiveInv'
<1> DEFINE p == [peers[s] EXCEPT !.juice = "gathering", !.state = IceGathering]
<1>1. peers[s] \in PeerRecord /\ SlotGood(peers[s]) /\ peers[s].juice = "disconnected"
  BY OwnReferences DEF LiveInv, Gather
<1>2. /\ p \in PeerRecord /\ p.conn = peers[s].conn /\ p.state = IceGathering
      /\ p.juice = "gathering"
  BY <1>1, StateFacts DEF PeerRecord, JuiceStates
<1>3. peers' = [peers EXCEPT ![s] = p]
  BY DEF Gather, SlotInv
<1> HIDE DEF p
<1>4. SlotGood(p)
  BY <1>1, <1>2 DEF SlotGood, Early, IceGathering, IceConnecting
<1> QED BY <1>2, <1>3, <1>4, LiveFlags

LEMMA LiveIceStateChanged ==
  ASSUME SlotInv, LiveInv, NEW s \in Slots, IceStateChanged(s)
  PROVE  LiveInv'
<1>1. PICK js \in JuiceNext[peers[s].juice] :
        peers' = [peers EXCEPT ![s] = AfterIce(peers[s], js)]
  BY DEF IceStateChanged
<1> DEFINE p == AfterIce(peers[s], js)
           st == CASE js = "connecting" -> IceConnecting
                   [] js \in JuiceUp -> AtLeastIceConnected(peers[s].state)
                   [] js = "failed" -> Failed
<1>2. peers[s] \in PeerRecord /\ SlotGood(peers[s]) /\ peers[s].state \in PeerStates
  BY OwnReferences DEF LiveInv, PeerRecord
<1>3. /\ js \in {"connecting", "connected", "completed", "failed"}
      /\ js = "connecting" => peers[s].juice = "gathering"
      /\ peers[s].juice # "null"
  BY <1>2 DEF PeerRecord, JuiceStates, JuiceNext
<1>4. /\ st \in PeerStates
      /\ js = "connecting" => st = IceConnecting
      /\ js # "connecting" => st >= IceConnected
      /\ js # "connecting" => st = Failed \/ (st >= peers[s].state)
  BY <1>2, <1>3, StateFacts
     DEF JuiceUp, AtLeastIceConnected, PeerStates, Idle, IceConnected, Closed, Failed
<1>5. p = [peers[s] EXCEPT !.juice = js, !.state = st,
             !.qstart = @ \/ js = "completed",
             !.removal = @ \/ (js = "failed" /\ DeferRemoval)]
  BY DEF AfterIce
<1> HIDE DEF st, p
<1>6. p \in PeerRecord /\ p.conn = peers[s].conn /\ p.juice = js /\ p.state = st
  BY <1>2, <1>3, <1>4, <1>5 DEF PeerRecord, JuiceStates
<1>7. UNCHANGED conns /\ peers' = [peers EXCEPT ![s] = p]
  BY <1>1 DEF IceStateChanged, p
<1>8. SlotGood(p)
  BY <1>2, <1>3, <1>4, <1>6
     DEF SlotGood, Early, PeerStates, Idle, IceConnecting, IceConnected, QuicHandshaking, Failed, Closed
<1> QED BY <1>6, <1>7, <1>8, LiveFlags

LEMMA LiveHandshakeFinished ==
  ASSUME SlotInv, LiveInv, NEW c \in Conns, HandshakeFinished(c)
  PROVE  LiveInv'
<1> DEFINE s == conns[c].slot
           p == [peers[s] EXCEPT !.state = QuicConnected, !.fails = 0]
<1>1. conns' = [conns EXCEPT ![c].st = "open"] /\ conns[c].st = "handshaking"
  BY DEF HandshakeFinished
<1>2. s \in Slots /\ peers[s].conn = c
  BY <1>1, ConnSlots DEF LiveInv, LiveIsCurrent
<1>3. peers[s] \in PeerRecord /\ SlotGood(peers[s])
  BY <1>2, OwnReferences DEF LiveInv
<1>4. 0 \in 0 .. RestartLimit /\ QuicConnected \in PeerStates /\ QuicConnected >= QuicHandshaking
  BY StateFacts DEF RestartLimit, QuicConnected, QuicHandshaking
<1>5. p \in PeerRecord /\ p.conn = c /\ p.juice = peers[s].juice /\ p.state = QuicConnected
  BY <1>2, <1>3, <1>4 DEF PeerRecord
<1>6. peers' = [peers EXCEPT ![s] = p]
  BY <1>2 DEF HandshakeFinished, SlotInv
<1>7. \A d \in Conns : conns'[d].slot = conns[d].slot /\ (Live(d, conns') => Live(d, conns))
  BY <1>1 DEF SlotInv, ConnRecord, Live
<1>8. SlotGood(p)
  BY <1>2, <1>3, <1>4, <1>5, SlotFacts DEF SlotGood, Early
<1>9. \A d \in Conns : Live(d, conns') =>
           \/ conns'[d].slot = s /\ p.conn = d
           \/ conns'[d].slot # s /\ conns'[d].slot = conns[d].slot /\ Live(d, conns)
  BY <1>2, <1>5, <1>7 DEF LiveInv, LiveIsCurrent, Live
<1> HIDE DEF p, s
<1> QED BY <1>2, <1>5, <1>6, <1>7, <1>8, <1>9, ConnSlots, LiveUpdate

LEMMA LiveRemoteClose ==
  ASSUME SlotInv, LiveInv, NEW c \in Conns, RemoteClose(c)
  PROVE  LiveInv'
<1>1. \A d \in Conns : conns'[d].slot = conns[d].slot /\ (Live(d, conns') => Live(d, conns))
  BY DEF RemoteClose, SlotInv, ConnRecord, Live
<1>2. UNCHANGED peers
  BY DEF RemoteClose
<1> QED BY <1>1, <1>2 DEF LiveInv, LiveIsCurrent, SlotGood, Live

(* The current connection of a slot is destroyed only once its agent has   *)
(* connected, so the slot is left in a state that fits the agent.          *)
LEMMA LiveConnCloseNotify ==
  ASSUME SlotInv, LiveInv, NEW c \in Conns, ConnCloseNotify(c)
  PROVE  LiveInv'
<1> DEFINE s == conns[c].slot
           d == Destroyed(peers[s], c)
           f == [d EXCEPT !.juice = "failed", !.removal = @ \/ DeferRemoval]
<1>1. conns' = [conns EXCEPT ![c] = [slot |-> 0, st |-> "free"]] /\ 0 \in Slots
  BY SlotsAssumption DEF ConnCloseNotify, Slots
<1>2. s \in Slots /\ (\A e \in Conns : conns'[e].slot \in Slots)
  BY <1>1, ConnSlots DEF SlotInv, ConnRecord
<1>3. peers[s] \in PeerRecord /\ SlotGood(peers[s])
  BY <1>2, OwnReferences DEF LiveInv
<1>4. /\ d \in PeerRecord
      /\ d.conn = IF peers[s].conn = c THEN NoConn ELSE peers[s].conn
      /\ d.juice = peers[s].juice
  BY <1>3, DestroyedFacts, DestroyedKeepsPeer
<1>5. /\ peers[s].conn # c => d.state = peers[s].state
      /\ peers[s].conn = c => d.state >= IceConnected
  <2> DEFINE q == [peers[s] EXCEPT !.session = NoConn]
  <2>1. d = IF peers[s].conn = c THEN CurrentConnClosed(q) ELSE q
    BY DEF Destroyed
  <2>2. q \in PeerRecord /\ q.state = peers[s].state
    BY <1>3 DEF PeerRecord
  <2> HIDE DEF q, s
  <2>3. CurrentConnClosed(q).state \in {IceConnected, Failed}
    BY <2>2 DEF CurrentConnClosed, PeerRecord
  <2> QED BY <2>1, <2>2, <2>3 DEF IceConnected, Failed
<1>6. SlotGood(d)
  BY <1>3, <1>4, <1>5, SlotFacts DEF SlotGood, Early
<1>7. \/ peers' = [peers EXCEPT ![s] = d]
      \/ peers[s].conn = c /\ peers' = [peers EXCEPT ![s] = f]
  BY DEF ConnCloseNotify
<1>8. \A e \in Conns : Live(e, conns') =>
           \/ conns'[e].slot = s /\ d.conn = e
           \/ conns'[e].slot # s /\ conns'[e].slot = conns[e].slot /\ Live(e, conns)
  <2> HIDE DEF d
  <2>1. \A e \in Conns : Live(e, conns') => e # c /\ conns'[e] = conns[e]
    BY <1>1 DEF Live, SlotInv
  <2> QED BY <1>4, <2>1 DEF LiveInv, LiveIsCurrent, Live
<1> HIDE DEF s, d
<1>9. f \in PeerRecord /\ f.conn = d.conn /\ f.juice = "failed" /\ f.state = d.state
  BY <1>4 DEF PeerRecord, JuiceStates
<1>10. peers[s].conn = c => SlotGood(f)
  BY <1>4, <1>9 DEF SlotGood, Early
<1> HIDE DEF f
<1> QED BY <1>2, <1>4, <1>6, <1>7, <1>8, <1>9, <1>10, LiveUpdate

(* QUIC is started in a slot whose connection, if any, is kept. *)
LEMMA LiveStartQuic ==
  ASSUME SlotInv, LiveInv, NEW s \in Slots, NEW p \in PeerRecord,
         p.conn = peers[s].conn, p.juice = peers[s].juice, p.state = peers[s].state,
         p.state >= IceConnected, StartQuic(s, p)
  PROVE  LiveInv'
<1> DEFINE q == [p EXCEPT !.session = NoConn]
<1>1. q \in PeerRecord /\ q.conn = p.conn /\ q.juice = p.juice /\ q.state = p.state
  BY DEF PeerRecord
<1>2. SlotGood(p) /\ p.state \in Nat /\ p.juice \notin Early
  BY DEF LiveInv, SlotGood, PeerRecord, PeerStates, IceConnected, IceConnecting, Idle, Closed
<1>3. CASE peers' = [peers EXCEPT ![s] = p] /\ UNCHANGED conns
  BY <1>2, <1>3, LiveFlags
<1>4. CASE p.state < QuicHandshaking /\ peers' = [peers EXCEPT ![s] = [q EXCEPT !.state = Failed]]
           /\ UNCHANGED conns
  <2> DEFINE r == [q EXCEPT !.state = Failed]
  <2> HIDE DEF q
  <2>1. r \in PeerRecord /\ r.conn = q.conn /\ r.juice = q.juice /\ r.state = Failed
    BY <1>1, StateFacts DEF PeerRecord
  <2>2. SlotGood(r)
    BY <1>1, <1>2, <2>1 DEF SlotGood, Early, Failed, QuicHandshaking
  <2> HIDE DEF r
  <2> QED BY <1>1, <1>4, <2>1, <2>2, LiveFlags DEF r
<1>5. ASSUME p.state < QuicHandshaking, NEW c \in FreeConns,
             conns' = [conns EXCEPT ![c] = [slot |-> s, st |-> "handshaking"]],
             peers' = [peers EXCEPT ![s] =
               [q EXCEPT !.state = QuicHandshaking, !.conn = c, !.session = c]]
      PROVE  LiveInv'
  <2> DEFINE r == [q EXCEPT !.state = QuicHandshaking, !.conn = c, !.session = c]
  <2> HIDE DEF q
  <2>1. r \in PeerRecord /\ r.conn = c /\ r.juice = q.juice /\ r.state = QuicHandshaking
    BY <1>1, StateFacts DEF PeerRecord, FreeConns
  <2>2. SlotGood(r)
    BY <1>1, <1>2, <2>1 DEF SlotGood, Early, QuicHandshaking
  <2>3. peers' = [peers EXCEPT ![s] = r]
    BY <1>5
  <2>4. peers[s].conn = NoConn /\ c \in Conns
    BY <1>2, <1>5 DEF SlotGood, QuicHandshaking, FreeConns
  <2>5. \A e \in Conns : /\ conns'[e].slot \in Slots
                         /\ IF e = c THEN conns'[e].slot = s ELSE conns'[e] = conns[e]
    BY <1>5, <2>4, ConnSlots DEF SlotInv
  <2>6. \A e \in Conns : Live(e, conns') =>
           \/ conns'[e].slot = s /\ r.conn = e
           \/ conns'[e].slot # s /\ conns'[e].slot = conns[e].slot /\ Live(e, conns)
    BY <2>1, <2>4, <2>5, SlotFacts DEF LiveInv, LiveIsCurrent, Live
  <2> HIDE DEF r
  <2> QED BY <2>1, <2>2, <2>3, <2>5, <2>6, LiveUpdate
<1>6. p.state >= QuicHandshaking \/ p.state < QuicHandshaking
  BY <1>2 DEF QuicHandshaking
<1>7. CASE p.state >= QuicHandshaking
  BY <1>3, <1>7 DEF StartQuic
<1>8. CASE p.state < QuicHandshaking
  <2>1. ~(p.state >= QuicHandshaking) /\ Role # "publisher"
    BY <1>2, <1>8, SubscriberRole DEF QuicHandshaking
  <2>2. \/ \E c \in FreeConns :
            /\ conns' = [conns EXCEPT ![c] = [slot |-> s, st |-> "handshaking"]]
            /\ peers' = [peers EXCEPT ![s] =
                 [q EXCEPT !.state = QuicHandshaking, !.conn = c, !.session = c]]
        \/ peers' = [peers EXCEPT ![s] = [q EXCEPT !.state = Failed]] /\ UNCHANGED conns
    BY <2>1 DEF StartQuic
  <2> HIDE DEF q
  <2> QED BY <1>4, <1>5, <1>8, <2>2
<1> QED BY <1>6, <1>7, <1>8

LEMMA LiveRemovePeer ==
  ASSUME SlotInv, LiveInv, NEW s \in Slots, RemovePeer(s)
  PROVE  LiveInv'
<1> DEFINE p == [peers[s] EXCEPT !.conn = NoConn, !.juice = "null",
                   !.session = NoConn, !.state = Idle]
<1>1. peers[s] \in PeerRecord /\ peers[s].conn \in Conns \cup {NoConn}
  BY OwnReferences
<1>2. p \in PeerRecord /\ p.conn = NoConn /\ p.juice = "null" /\ p.state = Idle
  BY <1>1, StateFacts DEF PeerRecord, JuiceStates
<1>3. peers' = [peers EXCEPT ![s] = p]
  BY DEF RemovePeer, SlotInv
<1> HIDE DEF p
<1>4. SlotGood(p)
  BY <1>2 DEF SlotGood, Idle, IceConnecting
<1>5. \A e \in Conns : /\ conns'[e].slot = conns[e].slot
                       /\ Live(e, conns') => Live(e, conns) /\ e # peers[s].conn
  <2>1. conns' = IF peers[s].conn = NoConn THEN conns
                 ELSE [conns EXCEPT ![peers[s].conn].st = "closing"]
    BY DEF RemovePeer, CloseConn
  <2> QED BY <1>1, <2>1, SlotFacts DEF SlotInv, ConnRecord, Live
<1>6. \A e \in Conns : Live(e, conns') =>
           \/ conns'[e].slot = s /\ p.conn = e
           \/ conns'[e].slot # s /\ conns'[e].slot = conns[e].slot /\ Live(e, conns)
  BY <1>5 DEF LiveInv, LiveIsCurrent, Live
<1> QED BY <1>2, <1>3, <1>4, <1>5, <1>6, ConnSlots, LiveUpdate

-----------------------------------------------------------------------------
LEMMA LiveLoops ==
  ASSUME EngineInv, LiveInv, ProcessQuicStart \/ ProcessIdle \/ ProcessQuicRestart
  PROVE  LiveInv'
<1> DEFINE old == peers[cursor]
           unstarted == [old EXCEPT !.qstart = FALSE]
           escalated == [old EXCEPT !.irestart = FALSE, !.qrestart = FALSE,
                                    !.removal = @ \/ DeferRemoval]
           waiting == [old EXCEPT !.qrestart = FALSE, !.irestart = TRUE]
           retried == [old EXCEPT !.qrestart = FALSE]
           fine(p) == /\ p \in PeerRecord /\ p.conn = old.conn
                      /\ p.juice = old.juice /\ p.state = old.state
<1>1. SlotInv /\ cursor \in Slots
  BY InLoopSlot DEF EngineInv, ProcessQuicStart, ProcessIdle, ProcessQuicRestart
<1>2. old \in PeerRecord /\ SlotGood(old)
  BY <1>1, OwnReferences DEF LiveInv
<1>3. \/ \E p \in {unstarted, retried} : p.state >= IceConnected /\ StartQuic(cursor, p)
      \/ /\ UNCHANGED conns
         /\ \E p \in {unstarted, escalated, waiting} : peers' = [peers EXCEPT ![cursor] = p]
      \/ UNCHANGED <<peers, conns>>
  <2>1. CASE ProcessQuicStart
    BY <2>1 DEF ProcessQuicStart
  <2>2. CASE ProcessIdle
    BY <2>2, SubscriberRole DEF ProcessIdle
  <2>3. CASE ProcessQuicRestart
    <3>1. old.state = IceConnected => retried.state >= IceConnected
      BY <1>2 DEF PeerRecord, IceConnected
    <3> QED BY <2>3, <3>1 DEF ProcessQuicRestart
  <2> QED BY <2>1, <2>2, <2>3
<1> HIDE DEF old
<1>4. fine(unstarted) /\ fine(escalated) /\ fine(waiting) /\ fine(retried)
  BY <1>2 DEF PeerRecord
<1> HIDE DEF unstarted, escalated, waiting, retried
<1>5. \A p : fine(p) => SlotGood(p)
  BY <1>2 DEF SlotGood
<1>6. ASSUME NEW p \in {unstarted, retried}, p.state >= IceConnected, StartQuic(cursor, p)
      PROVE  LiveInv'
  BY <1>1, <1>4, <1>6, LiveStartQuic DEF old
<1>7. ASSUME NEW p \in {unstarted, escalated, waiting}, UNCHANGED conns,
             peers' = [peers EXCEPT ![cursor] = p]
      PROVE  LiveInv'
  BY <1>1, <1>4, <1>5, <1>7, LiveFlags DEF old
<1> QED BY <1>3, <1>6, <1>7, LiveStutter

LEMMA LiveReap ==
  ASSUME EngineInv, LiveInv, ReapSlot \/ ReapRemove \/ ReapForget \/ ReapCount
  PROVE  LiveInv'
<1>1. SlotInv /\ ThreadInv
  BY DEF EngineInv
<1>2. CASE ReapSlot
  <2> DEFINE p == [peers[cursor] EXCEPT !.removal = FALSE]
  <2>1. cursor \in Slots
    BY <1>1, <1>2, SlotsAssumption DEF ThreadInv, ReapSlot, Slots
  <2>2. peers[cursor] \in PeerRecord /\ SlotGood(peers[cursor])
    BY <1>1, <2>1, OwnReferences DEF LiveInv
  <2>3. /\ p \in PeerRecord /\ p.conn = peers[cursor].conn
        /\ p.juice = peers[cursor].juice /\ p.state = peers[cursor].state
    BY <2>2 DEF PeerRecord
  <2>4. UNCHANGED conns /\ (peers' = [peers EXCEPT ![cursor] = p] \/ UNCHANGED peers)
    BY <1>1, <1>2, <2>1 DEF ReapSlot, SlotInv
  <2> HIDE DEF p
  <2>5. SlotGood(p)
    BY <2>2, <2>3 DEF SlotGood
  <2> QED BY <1>1, <2>1, <2>3, <2>4, <2>5, LiveFlags, LiveStutter
<1>3. CASE ReapRemove
  BY <1>1, <1>3, LiveRemovePeer DEF ReapRemove, ThreadInv
<1>4. CASE ReapCount
  BY <1>4, LiveStutter DEF ReapCount
<1>5. CASE ReapForget
  BY <1>1, <1>5, LiveNamed DEF ReapForget, ThreadInv
<1> QED BY <1>2, <1>3, <1>4, <1>5

LEMMA LiveEngineStep ==
  ASSUME EngineInv, LiveInv, EngineStep
  PROVE  LiveInv'
<1>1. SlotInv
  BY DEF EngineInv
<1>2. ~ServerAccept
  BY SubscriberRole DEF ServerAccept
<1>3. CASE UNCHANGED <<peers, conns>>
  BY <1>3, LiveStutter
<1>4. \/ UNCHANGED <<peers, conns>>
      \/ ProcessQuicStart \/ ProcessIdle \/ ProcessQuicRestart
      \/ ReapSlot \/ ReapRemove \/ ReapForget \/ ReapCount
      \/ \E c \in Conns : HandshakeFinished(c) \/ RemoteClose(c) \/ ConnCloseNotify(c)
      \/ \E s \in Slots : IceStateChanged(s)
  BY <1>2 DEF EngineStep, EngineLoop, XquicEvent, IceThread, RecvDone, StartDone, IdleDone,
              RestartDone, ReapDone, MainDone, LoopDone, PacketPlain, PacketDone, RecvPacket
<1> QED BY <1>1, <1>3, <1>4, LiveLoops, LiveReap, LiveHandshakeFinished,
           LiveRemoteClose, LiveConnCloseNotify, LiveIceStateChanged

-----------------------------------------------------------------------------
(* The steps of the application.                                           *)
LEMMA HandlingInv ==
  ASSUME SubscriberInv, Handling
  PROVE  SubscriberInv'
<1>1. /\ EngineInv /\ SlotInv /\ ThreadInv /\ AppInv /\ LiveInv
      /\ sse \in SseRecord /\ sse.load \in 0 .. MaxSubscribers
      /\ sse.id \in PeerIds \cup {NoPeer}
  BY DEF SubscriberInv, EngineInv, AppInv, SseRecord
<1>2. MaxSubscribers \in Nat /\ 0 \in 0 .. MaxSubscribers /\ peer_count \in 0 .. MaxSubscribers
  BY <1>1, SlotsAssumption DEF ThreadInv
<1>3. CASE SseAdd
  <2>1. sse.id \in PeerIds
    BY <1>1, <1>3 DEF SseAdd, AppInv
  <2>2. SlotInv' /\ LiveInv'
    <3>1. UNCHANGED conns
      BY <1>3 DEF SseAdd
    <3>2. ASSUME NEW s \in Slots, AddPeerFails(s, sse.id) PROVE SlotInv' /\ LiveInv'
      BY <1>1, <2>1, <3>1, <3>2, AddPeerFailsInv, LiveNamed DEF AddPeerFails
    <3> QED BY <1>1, <1>3, <2>1, <3>1, <3>2, AddPeerInv, LiveAddPeer, SlotStutter,
               LiveStutter DEF SseAdd
  <2>3. ThreadInv'
    BY <1>1, <1>3 DEF SseAdd, ThreadInv, engine
  <2>4. UNCHANGED <<pending, reconnect, main, online>>
    BY <1>3 DEF SseAdd
  <2>5. ASSUME NEW s \in Slots, AddPeer(s, sse.id),
               sse' = [sse EXCEPT !.at = "count", !.slot = s, !.load = peer_count]
        PROVE  AppInv'
    <3>1. peer_count < MaxSubscribers
      BY <2>5 DEF AddPeer, CanAddPeer
    <3>2. sse' \in SseRecord /\ sse'.at = "count" /\ sse'.slot = s /\ sse'.load = peer_count
      BY <1>1, <1>2, <2>5 DEF SseRecord
    <3> QED BY <1>1, <2>4, <3>1, <3>2 DEF AppInv
  <2>6. ASSUME sse' = Idling PROVE AppInv'
    BY <1>1, <1>2, <2>4, <2>6 DEF AppInv, SseRecord, Idling
  <2> QED BY <1>3, <2>2, <2>3, <2>5, <2>6 DEF SseAdd, SubscriberInv, EngineInv
<1>4. CASE SseCount
  <2>1. sse.load < MaxSubscribers
    BY <1>1, <1>4 DEF SseCount, AppInv
  <2>2. peer_count' \in 0 .. MaxSubscribers
    BY <1>1, <1>2, <1>4, <2>1 DEF SseCount, Incremented
  <2>3. EngineInv' /\ LiveInv'
    BY <1>1, <1>4, <2>2, EngineStutter, LiveStutter DEF SseCount
  <2>4. sse.slot \in Slots /\ sse' = [sse EXCEPT !.at = "gather", !.load = 0]
    BY <1>1, <1>4 DEF SseCount, AppInv
  <2>5. sse' \in SseRecord /\ sse'.at = "gather" /\ sse'.slot = sse.slot
    BY <1>1, <1>2, <2>4 DEF SseRecord
  <2>6. AppInv'
    BY <1>1, <1>4, <2>4, <2>5 DEF SseCount, AppInv
  <2> QED BY <2>3, <2>6 DEF SubscriberInv
<1>5. CASE SseGather
  <2>1. sse.slot \in Slots
    BY <1>1, <1>5 DEF SseGather, AppInv
  <2>2. SlotInv' /\ LiveInv'
    BY <1>1, <1>5, <2>1, GatherInv, LiveGather, SlotStutter, LiveStutter DEF SseGather
  <2>3. ThreadInv'
    BY <1>1, <1>5 DEF SseGather, ThreadInv, engine
  <2>4. AppInv'
    BY <1>1, <1>2, <1>5 DEF SseGather, AppInv, SseRecord, Idling
  <2> QED BY <2>2, <2>3, <2>4 DEF SubscriberInv, EngineInv
<1> QED BY <1>3, <1>4, <1>5 DEF Handling

LEMMA WatchdogInv ==
  ASSUME SubscriberInv, NEW s \in Slots, Watchdog(s)
  PROVE  SubscriberInv'
<1> DEFINE p == [peers[s] EXCEPT !.qrestart = TRUE]
<1>1. SlotInv /\ ThreadInv /\ AppInv /\ LiveInv
  BY DEF SubscriberInv, EngineInv
<1>2. peers[s] \in PeerRecord /\ SlotGood(peers[s])
  BY <1>1, OwnReferences DEF LiveInv
<1>3. /\ p \in PeerRecord /\ p.conn = peers[s].conn /\ p.session = peers[s].session
      /\ p.juice = peers[s].juice /\ p.state = peers[s].state
  BY <1>2 DEF PeerRecord
<1>4. peers' = [peers EXCEPT ![s] = p] /\ UNCHANGED conns
  BY <1>1 DEF Watchdog, SlotInv
<1> HIDE DEF p
<1>5. SlotGood(p)
  BY <1>2, <1>3 DEF SlotGood
<1>6. SlotInv' /\ LiveInv'
  BY <1>1, <1>3, <1>4, <1>5, FlagsInv, LiveFlags
<1>7. ThreadInv' /\ AppInv'
  BY <1>1 DEF Watchdog, ThreadInv, AppInv, engine, app
<1> QED BY <1>6, <1>7 DEF SubscriberInv, EngineInv

(* Steps of the application that leave the engine alone. *)
LEMMA AppStepInv ==
  ASSUME SubscriberInv,
         (\E id \in PeerIds : IceOffer(id)) \/ MainLoop \/ UNCHANGED svars
  PROVE  SubscriberInv'
<1>1. EngineInv /\ ThreadInv /\ AppInv /\ LiveInv
  BY DEF SubscriberInv, EngineInv
<1>2. UNCHANGED vars
  BY DEF IceOffer, MainLoop, StartReconnect, Disconnect, Connect, JoinRoomFailed, svars
<1>3. EngineInv' /\ LiveInv'
  BY <1>1, <1>2, EngineStutter, LiveStutter DEF vars, engine, ThreadInv
<1>4. CASE \E id \in PeerIds : IceOffer(id)
  <2>1. 0 \in 0 .. MaxSubscribers
    BY SlotsAssumption
  <2>2. UNCHANGED <<pending, reconnect, main, online>>
    BY <1>4 DEF IceOffer
  <2>3. sse' \in SseRecord /\ (sse'.at \in {"count", "gather"} => sse'.slot \in Slots)
        /\ (sse'.at = "add" => sse'.id \in PeerIds) /\ sse'.at # "count"
    BY <1>4, <2>1 DEF IceOffer, SseRecord, Idling
  <2> QED BY <1>1, <1>3, <2>2, <2>3 DEF AppInv, SubscriberInv
<1>5. CASE MainLoop
  BY <1>1, <1>3, <1>5
     DEF MainLoop, StartReconnect, Disconnect, Connect, JoinRoomFailed, AppInv, SubscriberInv
<1>6. CASE UNCHANGED svars
  BY <1>1, <1>3, <1>6 DEF svars, app, AppInv, SubscriberInv
<1> QED BY <1>4, <1>5, <1>6

LEMMA SubscriberStepInv ==
  ASSUME SubscriberInv, [SubscriberNext]_svars
  PROVE  SubscriberInv'
<1>1. CASE Engine
  <2>1. EngineInv' /\ LiveInv'
    BY <1>1, EngineStepInv, LiveEngineStep DEF Engine, SubscriberInv
  <2>2. AppInv'
    BY <1>1 DEF Engine, SubscriberInv, AppInv
  <2> QED BY <2>1, <2>2 DEF SubscriberInv
<1> QED BY <1>1, HandlingInv, WatchdogInv, AppStepInv DEF SubscriberNext

-----------------------------------------------------------------------------
LEMMA SubscriberInductive == SubscriberSpec => []SubscriberInv
BY SubscriberInitInv, SubscriberStepInv, PTL DEF SubscriberSpec

(* Every variable keeps its type, as for the publisher. *)
THEOREM SubscriberTypes == SubscriberSpec => []SubscriberTypeOK
<1>1. SubscriberInv => SubscriberTypeOK
  BY EngineInvTypeOK DEF SubscriberInv, AppInv, SubscriberTypeOK
<1> QED BY <1>1, SubscriberInductive, PTL

(* No slot of the subscriber refers to a destroyed connection, or to       *)
(* another slot's.                                                         *)
THEOREM SubscriberConnsExist == SubscriberSpec => []NoDanglingConn
<1>1. SubscriberInv => NoDanglingConn
  BY DEF SubscriberInv, EngineInv, SlotInv
<1> QED BY <1>1, SubscriberInductive, PTL

(* No slot of the subscriber refers to the MOQ session of a destroyed      *)
(* connection, or of another slot's.                                       *)
THEOREM SubscriberSessionsExist == SubscriberSpec => []NoDanglingSession
<1>1. SubscriberInv => NoDanglingSession
  BY DEF SubscriberInv, EngineInv, SlotInv
<1> QED BY <1>1, SubscriberInductive, PTL

(* Whatever is restarted, removed or timed out, a slot of the subscriber   *)
(* has no live connection besides its current one.                         *)
THEOREM SubscriberOneLiveConn == SubscriberSpec => []LiveIsCurrent
<1>1. SubscriberInv => LiveIsCurrent
  BY DEF SubscriberInv, LiveInv
<1> QED BY <1>1, SubscriberInductive, PTL

(* A slot that the subscriber's engine emptied can be used again.          *)
THEOREM SubscriberSlotsReusable == SubscriberSpec => []EmptySlotReusable
<1>1. SubscriberInv => EmptySlotReusable
  BY DEF SubscriberInv, LiveInv, SlotGood, EmptySlotReusable, Occupied, Early
<1> QED BY <1>1, SubscriberInductive, PTL

-----------------------------------------------------------------------------
(* Only the signaling thread adds peers, so one that it did not find when  *)
(* the offer came is still in no slot when it adds it.                     *)
NotYetThere ==
  sse.at = "add" => \A s \in Slots : ~(Occupied(s) /\ peers[s].id = sse.id)

LEMMA SubscriberStepNotThere ==
  ASSUME SubscriberInv, NotYetThere, [SubscriberNext]_svars
  PROVE  NotYetThere'
<1>1. EngineInv /\ SlotInv /\ AppInv /\ sse \in SseRecord
  BY DEF SubscriberInv, EngineInv, AppInv
<1>2. CASE Handling
  <2>1. sse'.at # "add"
    <3>1. CASE SseAdd
      <4>1. \/ \E s \in Slots : sse' = [sse EXCEPT !.at = "count", !.slot = s, !.load = peer_count]
            \/ sse' = Idling
        BY <3>1 DEF SseAdd
      <4>2. ASSUME NEW s \in Slots,
                   sse' = [sse EXCEPT !.at = "count", !.slot = s, !.load = peer_count]
            PROVE  sse'.at # "add"
        BY <1>1, <4>2 DEF SseRecord
      <4>3. CASE sse' = Idling
        BY <4>3 DEF Idling
      <4> QED BY <4>1, <4>2, <4>3
    <3>2. CASE SseCount
      BY <1>1, <3>2 DEF SseCount, SseRecord
    <3>3. CASE SseGather
      BY <3>3 DEF SseGather, Idling
    <3> QED BY <1>2, <3>1, <3>2, <3>3 DEF Handling
  <2> QED BY <2>1 DEF NotYetThere
<1>3. CASE Engine
  <2>1. NoNewPeers /\ UNCHANGED sse
    BY <1>1, <1>3, EngineStepNoNewPeers DEF Engine
  <2>2. sse.at = "add" => sse.id # NoPeer
    BY <1>1, PeerIdsAssumption DEF AppInv
  <2> QED BY <2>1, <2>2 DEF NotYetThere, NoNewPeers, Occupied
<1>4. CASE \E id \in PeerIds : IceOffer(id)
  BY <1>4 DEF IceOffer, NotYetThere, FindPeer, Occupied, Idling, vars
<1>5. ASSUME NEW s \in Slots, Watchdog(s) PROVE NotYetThere'
  <2>1. /\ UNCHANGED sse
        /\ \A t \in Slots : peers'[t].id = peers[t].id /\ peers'[t].juice = peers[t].juice
    BY <1>1, <1>5 DEF Watchdog, app, SlotInv, PeerRecord
  <2> QED BY <2>1 DEF NotYetThere, Occupied
<1>6. CASE MainLoop \/ UNCHANGED svars
  <2>1. UNCHANGED <<peers, sse>>
    BY <1>6 DEF MainLoop, StartReconnect, Disconnect, Connect, JoinRoomFailed, svars, vars, app
  <2> QED BY <2>1 DEF NotYetThere, Occupied
<1> QED BY <1>2, <1>3, <1>4, <1>5, <1>6 DEF SubscriberNext

LEMMA SubscriberStepTable ==
  ASSUME SubscriberInv, NotYetThere, [SubscriberNext]_svars
  PROVE  TableStep
<1>1. EngineInv /\ SlotInv /\ AppInv
  BY DEF SubscriberInv, EngineInv
<1>2. CASE UNCHANGED <<peers, conns>>
  BY <1>2, TableStutter DEF Who, Link, Alive, Occupied
<1>3. CASE SseAdd
  <2>1. sse.at = "add" /\ sse.id \in PeerIds
    BY <1>1, <1>3 DEF SseAdd, AppInv
  <2>2. \A s \in Slots : ~(Occupied(s) /\ peers[s].id = sse.id)
    BY <2>1 DEF NotYetThere
  <2>3. /\ UNCHANGED conns
        /\ \/ UNCHANGED peers
           \/ \E s \in Slots : AddPeer(s, sse.id) \/ AddPeerFails(s, sse.id)
    BY <1>3 DEF SseAdd
  <2> QED BY <1>1, <1>2, <2>1, <2>2, <2>3, TableAddPeer, TableAddPeerFails
<1>4. CASE SseGather
  <2>1. UNCHANGED conns /\ (UNCHANGED peers \/ Gather(sse.slot)) /\ sse.slot \in Slots
    BY <1>1, <1>4 DEF SseGather, AppInv
  <2> QED BY <1>1, <1>2, <2>1, TableGather
<1>5. CASE Engine
  BY <1>1, <1>5, EngineStepTable DEF Engine
<1>6. ASSUME NEW s \in Slots, Watchdog(s) PROVE TableStep
  <2> DEFINE p == [peers[s] EXCEPT !.qrestart = TRUE]
  <2>1. p \in PeerRecord /\ p.conn = peers[s].conn /\ Held(p) = Held(peers[s])
    BY <1>1, OwnReferences DEF PeerRecord, Held
  <2>2. peers' = [peers EXCEPT ![s] = p] /\ Alive' = Alive
    BY <1>1, <1>6 DEF Watchdog, SlotInv, Alive
  <2> HIDE DEF p
  <2> QED BY <1>1, <2>1, <2>2, TableKeep
<1>7. \/ UNCHANGED <<peers, conns>> \/ SseAdd \/ SseGather \/ Engine
      \/ \E s \in Slots : Watchdog(s)
  BY DEF SubscriberNext, Handling, SseCount, IceOffer, MainLoop, StartReconnect,
         Disconnect, Connect, JoinRoomFailed, svars, vars
<1> QED BY <1>2, <1>3, <1>4, <1>5, <1>6, <1>7

(* The subscriber's slots are the table of PeerTable, too, through QUIC    *)
(* restarts, failed agents, deferred removals and full reconnects.         *)
THEOREM SubscriberTable == SubscriberSpec => TableSpec
<1>1. SubscriberInit => NotYetThere /\ Table!TableInit
  BY TableStart DEF SubscriberInit, NotYetThere, Idling
<1>2. SubscriberInv /\ NotYetThere /\ [SubscriberNext]_svars => NotYetThere' /\ TableStep
  BY SubscriberStepNotThere, SubscriberStepTable
<1> QED BY <1>1, <1>2, SubscriberInductive, PTL
        DEF SubscriberSpec, TableSpec, Table!TableSpec, TableStep
=============================================================================
