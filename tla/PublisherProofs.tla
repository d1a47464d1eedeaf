--------------------------- MODULE PublisherProofs ---------------------------
(***************************************************************************)
(* The publisher's safety for any number of slots, connections and         *)
(* subscribers: types, no reference to a destroyed connection or session,  *)
(* one slot per subscriber, and that the slots are the table of PeerTable. *)
(***************************************************************************)
EXTENDS PublisherApp, PeerEngineProofs

(* The removal of a peer by the signaling thread. *)
Leaving == {"remove", "close", "destroy", "vacate"}

(* What the signaling thread knows at each point of a handler.             *)
HandlerInv ==
  /\ sse \in SseRecord
  /\ events \in 0 .. MaxEvents
  /\ sse.at \in Leaving \cup {"count", "gather"} => sse.slot \in Slots
  /\ sse.at = "add" => sse.id \in PeerIds
  /\ sse.at = "count" => sse.load < MaxSubscribers

(* A peer about to be added is in no slot, except the one that is being    *)
(* emptied for it.                                                         *)
NotYetThere ==
  /\ sse.at \in Leaving /\ sse.id # NoPeer =>
       \A s \in Slots : Occupied(s) /\ peers[s].id = sse.id => s = sse.slot
  /\ sse.at \in {"vacate", "uncount", "add"} /\ sse.id # NoPeer =>
       \A s \in Slots : ~(Occupied(s) /\ peers[s].id = sse.id)

PublisherInv == EngineInv /\ HandlerInv

(* The inductive form of UniquePeerIds. *)
OnePeerInv == UniquePeerIds /\ NotYetThere

LEMMA PublisherInitInv == PublisherInit => PublisherInv /\ OnePeerInv
<1> SUFFICES ASSUME PublisherInit PROVE PublisherInv /\ OnePeerInv
  OBVIOUS
<1>1. EngineInv
  BY InitInv DEF PublisherInit
<1>2. HandlerInv
  BY SlotsAssumption, EventsAssumption
     DEF PublisherInit, HandlerInv, SseRecord, Idling, Leaving
<1>3. OnePeerInv
  BY DEF PublisherInit, EngineInit, EmptySlot, OnePeerInv, UniquePeerIds, NotYetThere,
         Occupied, Idling, Leaving
<1> QED BY <1>1, <1>2, <1>3 DEF PublisherInv

(* Steps that leave the slots alone: a handler begins, or counts. *)
LEMMA EngineStutter ==
  ASSUME EngineInv, UNCHANGED <<peers, conns, engine>>,
         peer_count' \in 0 .. MaxSubscribers
  PROVE  EngineInv'
BY SlotStutter DEF EngineInv, ThreadInv, engine

LEMMA BeginInv ==
  ASSUME PublisherInv, NEW id \in PeerIds,
         PeerJoined(id) \/ RequestOffer(id) \/ PeerLeft(id)
  PROVE  PublisherInv'
<1>1. EngineInv'
  BY EngineStutter
     DEF PublisherInv, EngineInv, ThreadInv, PeerJoined, RequestOffer, PeerLeft, NextEvent, vars, engine
<1>2. events' \in 0 .. MaxEvents
  BY EventsAssumption
     DEF PublisherInv, HandlerInv, PeerJoined, RequestOffer, PeerLeft, NextEvent
<1>3. \/ sse' = Going(id)
      \/ \E s \in Slots : sse' = Removing(s, id) \/ sse' = Removing(s, NoPeer)
  BY DEF PeerJoined, RequestOffer, PeerLeft
<1>4. 0 \in 0 .. MaxSubscribers
  BY SlotsAssumption
<1>5. HandlerInv'
  BY <1>2, <1>3, <1>4 DEF HandlerInv, SseRecord, Going, Removing, Idling, Leaving
<1> QED BY <1>1, <1>5 DEF PublisherInv

LEMMA HandlingInv ==
  ASSUME PublisherInv, Handling
  PROVE  PublisherInv'
<1>1. EngineInv /\ SlotInv /\ ThreadInv /\ HandlerInv /\ sse \in SseRecord
  BY DEF PublisherInv, EngineInv, HandlerInv
<1>2. MaxSubscribers \in Nat /\ 0 \in 0 .. MaxSubscribers /\ peer_count \in 0 .. MaxSubscribers
  BY <1>1, SlotsAssumption DEF ThreadInv
<1>3. CASE SseRemove \/ SseVacate
  <2>1. sse.at \in Leaving /\ sse.slot \in Slots
    BY <1>1, <1>3 DEF SseRemove, RemovalStep, SseVacate, HandlerInv, Leaving
  <2>2. \/ DropConn(sse.slot)
        \/ DropSession(sse.slot) \/ DestroyAgent(sse.slot) \/ Vacate(sse.slot)
    BY <1>3 DEF SseRemove, RemovalStep, SseVacate
  <2>3. SlotInv'
    BY <1>1, <2>1, <2>2, DropConnInv, QuietRemovalInv
  <2>4. ThreadInv'
    BY <1>1, <1>3 DEF SseRemove, RemovalStep, SseVacate, ThreadInv, engine
  <2>5. HandlerInv'
    BY <1>1, <1>2, <1>3, <2>1
       DEF SseRemove, RemovalStep, SseVacate, HandlerInv, SseRecord, Leaving
  <2> QED BY <2>3, <2>4, <2>5 DEF PublisherInv, EngineInv
<1>4. CASE SseUncount
  <2>1. sse.load \in 0 .. MaxSubscribers /\ sse.id \in PeerIds \cup {NoPeer}
    BY <1>1 DEF SseRecord
  <2>2. peer_count' \in 0 .. MaxSubscribers
    BY <1>2, <1>4, <2>1 DEF SseUncount, Decremented
  <2>3. EngineInv'
    BY <1>1, <1>4, <2>2, EngineStutter DEF SseUncount
  <2>4. HandlerInv'
    BY <1>1, <1>2, <1>4, <2>1 DEF SseUncount, HandlerInv, SseRecord, Going, Idling, Leaving
  <2> QED BY <2>3, <2>4 DEF PublisherInv
<1>5. CASE SseAdd
  <2>1. SlotInv'
    BY <1>1, <1>5, AddPeerInv, AddPeerFailsInv, SlotStutter DEF SseAdd, HandlerInv
  <2>2. ThreadInv'
    BY <1>1, <1>5 DEF SseAdd, ThreadInv, engine
  <2>3. HandlerInv'
    <3>1. ASSUME NEW s \in Slots, AddPeer(s, sse.id),
                 sse' = [sse EXCEPT !.at = "count", !.slot = s, !.load = peer_count]
          PROVE  HandlerInv'
      <4>1. peer_count < MaxSubscribers
        BY <3>1 DEF AddPeer, CanAddPeer
      <4>2. sse' \in SseRecord /\ sse'.at = "count" /\ sse'.slot = s /\ sse'.load = peer_count
        BY <1>1, <1>2, <3>1 DEF SseRecord
      <4> QED BY <1>1, <1>5, <4>1, <4>2 DEF SseAdd, HandlerInv, Leaving
    <3>2. CASE sse' = Idling
      BY <1>1, <1>2, <1>5, <3>2 DEF SseAdd, HandlerInv, SseRecord, Idling, Leaving
    <3> QED BY <1>5, <3>1, <3>2 DEF SseAdd
  <2> QED BY <2>1, <2>2, <2>3 DEF PublisherInv, EngineInv
<1>6. CASE SseCount
  <2>1. sse.load \in 0 .. MaxSubscribers /\ sse.load < MaxSubscribers
    BY <1>1, <1>6 DEF SseRecord, SseCount, HandlerInv
  <2>2. peer_count' \in 0 .. MaxSubscribers
    BY <1>2, <1>6, <2>1 DEF SseCount, Incremented
  <2>3. EngineInv'
    BY <1>1, <1>6, <2>2, EngineStutter DEF SseCount
  <2>4. HandlerInv'
    BY <1>1, <1>2, <1>6 DEF SseCount, HandlerInv, SseRecord, Leaving
  <2> QED BY <2>3, <2>4 DEF PublisherInv
<1>7. CASE SseGather
  <2>1. SlotInv'
    BY <1>1, <1>7, GatherInv, SlotStutter DEF SseGather, HandlerInv
  <2>2. ThreadInv'
    BY <1>1, <1>7 DEF SseGather, ThreadInv, engine
  <2>3. HandlerInv'
    BY <1>1, <1>2, <1>7 DEF SseGather, HandlerInv, SseRecord, Idling, Leaving
  <2> QED BY <2>1, <2>2, <2>3 DEF PublisherInv, EngineInv
<1> QED BY <1>3, <1>4, <1>5, <1>6, <1>7 DEF Handling

LEMMA PublisherStutter ==
  ASSUME PublisherInv, OnePeerInv, UNCHANGED pvars
  PROVE  PublisherInv' /\ OnePeerInv'
<1>1. UNCHANGED <<peers, conns, engine, peer_count, sse, events>>
  BY DEF pvars, vars, engine
<1>2. EngineInv'
  BY <1>1, EngineStutter DEF PublisherInv, EngineInv, ThreadInv
<1>3. HandlerInv'
  BY <1>1 DEF PublisherInv, HandlerInv
<1>4. OnePeerInv'
  BY <1>1 DEF OnePeerInv, UniquePeerIds, NotYetThere, Occupied
<1> QED BY <1>2, <1>3, <1>4 DEF PublisherInv

LEMMA PublisherStepInv ==
  ASSUME PublisherInv, PublisherNext
  PROVE  PublisherInv'
<1>1. CASE Signaling
  BY <1>1, BeginInv, HandlingInv DEF Signaling
<1>2. CASE Elsewhere(EngineStep)
  BY <1>2, EngineStepInv DEF Elsewhere, PublisherInv, HandlerInv
<1> QED BY <1>1, <1>2 DEF PublisherNext

-----------------------------------------------------------------------------
(* A step that gives no slot to a peer, outside of the handler's progress. *)
LEMMA NoNewPeersOne ==
  ASSUME OnePeerInv, NoNewPeers
  PROVE  /\ UniquePeerIds'
         /\ sse' = sse => NotYetThere'
BY DEF OnePeerInv, UniquePeerIds, NotYetThere, NoNewPeers, Occupied

LEMMA BeginOne ==
  ASSUME PublisherInv, OnePeerInv, NEW id \in PeerIds,
         PeerJoined(id) \/ RequestOffer(id) \/ PeerLeft(id)
  PROVE  OnePeerInv'
<1>1. UNCHANGED peers
  BY DEF PeerJoined, RequestOffer, PeerLeft, NextEvent, vars
<1>2. UniquePeerIds'
  BY <1>1 DEF OnePeerInv, UniquePeerIds, Occupied
<1>3. \/ FindPeer(id) = {} /\ sse' = Going(id)
      \/ \E s \in FindPeer(id) : sse' = Removing(s, id)
      \/ \E s \in Slots : sse' = Removing(s, NoPeer)
  BY DEF PeerJoined, RequestOffer, PeerLeft, IsFirst
<1>4. NotYetThere'
  <2>1. CASE FindPeer(id) = {} /\ sse' = Going(id)
    BY <1>1, <2>1 DEF NotYetThere, Going, Idling, Leaving, FindPeer, Occupied
  <2>2. CASE \E s \in FindPeer(id) : sse' = Removing(s, id)
    BY <1>1, <2>2 DEF NotYetThere, Removing, Idling, Leaving, FindPeer, Occupied, OnePeerInv, UniquePeerIds
  <2>3. CASE \E s \in Slots : sse' = Removing(s, NoPeer)
    BY <2>3 DEF NotYetThere, Removing, Idling, Leaving
  <2> QED BY <1>3, <2>1, <2>2, <2>3
<1> QED BY <1>2, <1>4 DEF OnePeerInv

LEMMA HandlingOne ==
  ASSUME PublisherInv, OnePeerInv, Handling
  PROVE  OnePeerInv'
<1>1. SlotInv /\ HandlerInv /\ sse \in SseRecord /\ \A s \in Slots : peers[s] \in PeerRecord
  BY OwnReferences DEF PublisherInv, EngineInv, HandlerInv
<1>2. CASE SseRemove \/ SseVacate
  <2>1. sse.at \in Leaving /\ sse.slot \in Slots
    BY <1>1, <1>2 DEF SseRemove, RemovalStep, SseVacate, HandlerInv, Leaving
  <2>2. \/ DropSession(sse.slot) \/ DropConn(sse.slot)
        \/ DestroyAgent(sse.slot) \/ Vacate(sse.slot)
    BY <1>2 DEF SseRemove, RemovalStep, SseVacate
  <2>3. NoNewPeers
    BY <1>1, <2>1, <2>2, RemovalNoNewPeers
  <2>4. sse'.id = sse.id /\ sse'.slot = sse.slot
    BY <1>1, <1>2 DEF SseRemove, RemovalStep, SseVacate, SseRecord
  <2>5. \/ sse'.at \in {"close", "destroy"}
        \/ sse'.at = "vacate" /\ peers'[sse.slot].juice = "null"
        \/ sse'.at = "uncount" /\ sse.at = "vacate"
    <3>1. CASE DestroyAgent(sse.slot) /\ sse' = [sse EXCEPT !.at = "vacate"]
      BY <1>1, <2>1, <3>1 DEF DestroyAgent, SlotInv, PeerRecord, SseRecord
    <3>2. CASE SseVacate
      BY <1>1, <3>2 DEF SseVacate, SseRecord
    <3>3. CASE sse' = [sse EXCEPT !.at = "close"] \/ sse' = [sse EXCEPT !.at = "destroy"]
      BY <1>1, <3>3 DEF SseRecord
    <3> QED BY <1>2, <3>1, <3>2, <3>3 DEF SseRemove, RemovalStep
  <2>6. \A s \in Slots : Occupied(s)' /\ peers'[s].id = sse.id /\ sse.id # NoPeer
                         => Occupied(s) /\ peers[s].id = sse.id
    BY <2>3 DEF NoNewPeers
  <2>7. NotYetThere'
    BY <2>1, <2>4, <2>5, <2>6 DEF OnePeerInv, NotYetThere, Leaving, Occupied
  <2> QED BY <2>3, <2>7, NoNewPeersOne DEF OnePeerInv
<1>3. CASE SseUncount
  <2>1. UNCHANGED peers
    BY <1>3 DEF SseUncount
  <2> QED BY <1>3, <2>1 DEF SseUncount, OnePeerInv, UniquePeerIds, NotYetThere, Occupied, Going, Idling, Leaving
<1>4. CASE SseAdd
  <2>1. NotYetThere'
    <3>1. \/ \E s \in Slots : sse' = [sse EXCEPT !.at = "count", !.slot = s, !.load = peer_count]
          \/ sse' = Idling
      BY <1>4 DEF SseAdd
    <3>2. sse'.at \in {"count", "idle"}
      <4>1. CASE sse' = Idling
        BY <4>1 DEF Idling
      <4>2. ASSUME NEW s \in Slots,
                   sse' = [sse EXCEPT !.at = "count", !.slot = s, !.load = peer_count]
            PROVE  sse'.at = "count"
        BY <1>1, <4>2 DEF SseRecord
      <4> QED BY <3>1, <4>1, <4>2
    <3> QED BY <3>2 DEF NotYetThere, Leaving
  <2>2. ASSUME NEW s \in Slots, AddPeer(s, sse.id) PROVE UniquePeerIds'
    <3>1. sse.at = "add" /\ sse.id # NoPeer
      BY <1>1, <1>4, PeerIdsAssumption DEF SseAdd, HandlerInv
    <3>2. \A t \in Slots \ {s} : peers'[t] = peers[t]
      BY <1>1, <2>2 DEF AddPeer, SlotInv
    <3>3. peers'[s].id = sse.id
      BY <1>1, <2>2 DEF AddPeer, SlotInv, PeerRecord
    <3> QED BY <3>1, <3>2, <3>3 DEF OnePeerInv, UniquePeerIds, NotYetThere, Occupied
  <2>3. CASE UNCHANGED peers
    BY <2>1, <2>3 DEF OnePeerInv, UniquePeerIds, Occupied
  <2>4. ASSUME NEW s \in Slots, AddPeerFails(s, sse.id) PROVE UniquePeerIds'
    BY <1>1, <1>4, <2>4, AddPeerFailsNoNewPeers, NoNewPeersOne DEF SseAdd, HandlerInv
  <2> QED BY <1>4, <2>1, <2>2, <2>3, <2>4 DEF SseAdd, OnePeerInv
<1>5. CASE SseCount
  <2>1. UNCHANGED peers /\ sse'.at = "gather"
    BY <1>1, <1>5 DEF SseCount, SseRecord
  <2> QED BY <2>1 DEF OnePeerInv, UniquePeerIds, NotYetThere, Occupied, Leaving
<1>6. CASE SseGather
  <2>1. NoNewPeers
    BY <1>1, <1>6 DEF SseGather, Gather, HandlerInv, NoNewPeers, Occupied, SlotInv, PeerRecord
  <2>2. NotYetThere'
    BY <1>6 DEF SseGather, NotYetThere, Idling, Leaving
  <2> QED BY <2>1, <2>2, NoNewPeersOne DEF OnePeerInv
<1> QED BY <1>2, <1>3, <1>4, <1>5, <1>6 DEF Handling

LEMMA PublisherStepOne ==
  ASSUME PublisherInv, OnePeerInv, PublisherNext
  PROVE  OnePeerInv'
<1>1. CASE Signaling
  BY <1>1, BeginOne, HandlingOne DEF Signaling
<1>2. CASE Elsewhere(EngineStep)
  BY <1>2, EngineStepNoNewPeers, NoNewPeersOne DEF Elsewhere, PublisherInv, OnePeerInv
<1> QED BY <1>1, <1>2 DEF PublisherNext

-----------------------------------------------------------------------------
LEMMA PublisherInductive == PublisherSpec => [](PublisherInv /\ OnePeerInv)
<1>1. PublisherInv /\ OnePeerInv /\ [PublisherNext]_pvars => (PublisherInv /\ OnePeerInv)'
  BY PublisherStepInv, PublisherStepOne, PublisherStutter
<1> QED BY <1>1, PublisherInitInv, PTL DEF PublisherSpec

(* Every variable keeps its type: peer_count never leaves 0 ..             *)
(* P2P_MAX_SUBSCRIBERS, though it is updated without a lock, and the       *)
(* engine's loops never leave the array of slots.                          *)
THEOREM PublisherTypes == PublisherSpec => []PublisherTypeOK
<1>1. PublisherInv => PublisherTypeOK
  BY EngineInvTypeOK DEF PublisherInv, HandlerInv, PublisherTypeOK
<1> QED BY <1>1, PublisherInductive, PTL

(* No slot of the publisher refers to a destroyed connection, or to        *)
(* another slot's.                                                         *)
THEOREM PublisherConnsExist == PublisherSpec => []NoDanglingConn
<1>1. PublisherInv => NoDanglingConn
  BY DEF PublisherInv, EngineInv, SlotInv
<1> QED BY <1>1, PublisherInductive, PTL

(* No slot of the publisher refers to the MOQ session of a destroyed       *)
(* connection, or of another slot's.                                       *)
THEOREM PublisherSessionsExist == PublisherSpec => []NoDanglingSession
<1>1. PublisherInv => NoDanglingSession
  BY DEF PublisherInv, EngineInv, SlotInv
<1> QED BY <1>1, PublisherInductive, PTL

(* A subscriber never occupies two slots, whatever joins, leaves, offers   *)
(* and removals interleave.                                                *)
THEOREM PublisherOneSlotEach == PublisherSpec => []UniquePeerIds
<1>1. OnePeerInv => UniquePeerIds
  BY DEF OnePeerInv
<1> QED BY <1>1, PublisherInductive, PTL

-----------------------------------------------------------------------------
(* The signaling thread's steps are steps of the table: it removes a peer, *)
(* or adds one that is in no slot.                                         *)
LEMMA HandlingTable ==
  ASSUME PublisherInv, OnePeerInv, Handling
  PROVE  TableStep
<1>1. SlotInv /\ HandlerInv
  BY DEF PublisherInv, EngineInv
<1>2. CASE UNCHANGED <<peers, conns>>
  BY <1>2, TableStutter DEF Who, Link, Alive, Occupied
<1>3. CASE SseRemove \/ SseVacate
  <2>1. sse.slot \in Slots
    BY <1>1, <1>3 DEF SseRemove, RemovalStep, SseVacate, HandlerInv, Leaving
  <2>2. \/ DropSession(sse.slot) \/ DropConn(sse.slot)
        \/ DestroyAgent(sse.slot) \/ Vacate(sse.slot)
    BY <1>3 DEF SseRemove, RemovalStep, SseVacate
  <2> QED BY <1>1, <2>1, <2>2, TableRemoval
<1>4. CASE SseAdd
  <2>1. sse.at = "add" /\ sse.id \in PeerIds /\ sse.id # NoPeer
    BY <1>1, <1>4, PeerIdsAssumption DEF SseAdd, HandlerInv
  <2>2. \A s \in Slots : ~(Occupied(s) /\ peers[s].id = sse.id)
    BY <2>1 DEF OnePeerInv, NotYetThere
  <2>3. /\ UNCHANGED conns
        /\ \/ UNCHANGED peers
           \/ \E s \in Slots : AddPeer(s, sse.id) \/ AddPeerFails(s, sse.id)
    BY <1>4 DEF SseAdd
  <2> QED BY <1>1, <1>2, <2>1, <2>2, <2>3, TableAddPeer, TableAddPeerFails
<1>5. CASE SseGather
  <2>1. UNCHANGED conns /\ (UNCHANGED peers \/ Gather(sse.slot)) /\ sse.slot \in Slots
    BY <1>1, <1>5 DEF SseGather, HandlerInv
  <2> QED BY <1>1, <1>2, <2>1, TableGather
<1> QED BY <1>2, <1>3, <1>4, <1>5 DEF Handling, SseUncount, SseCount

LEMMA PublisherStepTable ==
  ASSUME PublisherInv, OnePeerInv, [PublisherNext]_pvars
  PROVE  TableStep
<1>1. CASE UNCHANGED <<peers, conns>>
  BY <1>1, TableStutter DEF Who, Link, Alive, Occupied
<1>2. CASE Elsewhere(EngineStep)
  BY <1>2, EngineStepTable DEF Elsewhere, PublisherInv
<1>3. \/ UNCHANGED <<peers, conns>> \/ Handling \/ Elsewhere(EngineStep)
  BY DEF PublisherNext, Signaling, PeerJoined, RequestOffer, PeerLeft, NextEvent, pvars, vars
<1> QED BY <1>1, <1>2, <1>3, HandlingTable

(* Whatever its four kinds of thread interleave, the publisher's slots are *)
(* the table of PeerTable: a slot changes hands only by being emptied, a   *)
(* subscriber that has one is given no second, and a connection that was   *)
(* given up does not come back.                                            *)
THEOREM PublisherTable == PublisherSpec => TableSpec
<1>1. PublisherInit => Table!TableInit
  BY TableStart DEF PublisherInit
<1>2. PublisherInv /\ OnePeerInv /\ [PublisherNext]_pvars => TableStep
  BY PublisherStepTable
<1> QED BY <1>1, <1>2, PublisherInductive, PTL
        DEF PublisherSpec, TableSpec, Table!TableSpec, TableStep
=============================================================================
