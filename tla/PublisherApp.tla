---------------------------- MODULE PublisherApp ----------------------------
(***************************************************************************)
(* The publisher (src/src/p2p/src/p2p_client.c) over the adapter engine.   *)
(* Its signaling (SSE) thread runs one event handler at a time: a          *)
(* subscriber joined, asked for an offer, or left.  A handler that finds   *)
(* a peer, removes it, adds a new one and starts gathering is cut into     *)
(* these steps, and the removal into its own, because the engine thread    *)
(* and the libjuice threads run between any two of them.                   *)
(***************************************************************************)
EXTENDS PeerEngine

CONSTANT MaxEvents  \* bound on the signaling events of a run, 0 for none

ASSUME PublisherRole == Role = "publisher" /\ DeferRemoval
ASSUME EventsAssumption == MaxEvents \in Nat

VARIABLES
  sse,    \* the handler that the signaling thread is running
  events  \* signaling events so far, counted only if they are bounded

pvars == <<vars, sse, events>>

Idling == [at |-> "idle", id |-> NoPeer, slot |-> NoSlot, load |-> 0]

(* at: the next step; id: the peer to add, if any; slot: the peer to       *)
(* remove, or to gather for; load: peer_count as this thread loaded it.    *)
SseRecord ==
  [at : {"idle", "remove", "close", "destroy", "vacate", "uncount", "add",
         "count", "gather"},
   id : PeerIds \cup {NoPeer},
   slot : Slots \cup {NoSlot},
   load : 0 .. MaxSubscribers]

PublisherTypeOK ==
  TypeOK /\ sse \in SseRecord /\ events \in 0 .. MaxEvents

PublisherInit == EngineInit /\ sse = Idling /\ events = 0

Going(id) == [Idling EXCEPT !.at = "add", !.id = id]
Removing(s, id) == [Idling EXCEPT !.at = "remove", !.slot = s, !.id = id]

-----------------------------------------------------------------------------
(* The signaling thread takes the next event, when it is in no handler.    *)
NextEvent ==
  /\ sse = Idling
  /\ MaxEvents = 0 \/ events < MaxEvents
  /\ events' = IF MaxEvents = 0 THEN 0 ELSE events + 1
  /\ UNCHANGED vars

(* on_sig_peer_joined: a peer of that id that is younger than 10 seconds   *)
(* and has not failed keeps its slot (time is abstracted: it may be young  *)
(* or not); an older one is replaced.                                      *)
PeerJoinedNoDedup(id) == NextEvent /\ sse' = Going(id)  \* mutant
PeerJoined(id) ==
  /\ NextEvent
  /\ IF FindPeer(id) = {}
     THEN sse' = Going(id)
     ELSE \E s \in Slots : IsFirst(s, FindPeer(id)) /\ sse' = Removing(s, id)

(* on_sig_request_offer: an offer is sent again only for a peer that is    *)
(* unknown or failed; the rest is on_sig_peer_joined.                      *)
RequestOffer(id) ==
  /\ NextEvent
  /\ \A s \in FindPeer(id) : peers[s].state >= Failed
  /\ IF FindPeer(id) = {}
     THEN sse' = Going(id)
     ELSE \E s \in Slots : IsFirst(s, FindPeer(id)) /\ sse' = Removing(s, id)

(* on_sig_peer_left. *)
PeerLeft(id) ==
  /\ NextEvent
  /\ \E s \in Slots : IsFirst(s, FindPeer(id)) /\ sse' = Removing(s, NoPeer)

(* p2p_engine_remove_peer of the slot the handler found, whatever it holds *)
(* by now.  The engine thread may give the slot a connection between these *)
(* steps, which then stays, and the agent may report until it is gone.     *)
RemovalStep(from, to, A) ==
  /\ sse.at = from /\ A
  /\ sse' = [sse EXCEPT !.at = to]
  /\ UNCHANGED <<peer_count, engine, events>>

SseRemove ==
  \/ RemovalStep("remove", "close", DropSession(sse.slot))
  \/ RemovalStep("close", "destroy", DropConn(sse.slot))
  \/ RemovalStep("destroy", "vacate", DestroyAgent(sse.slot))

SseVacate ==
  /\ sse.at = "vacate"
  /\ Vacate(sse.slot)
  /\ sse' = [sse EXCEPT !.at = "uncount", !.load = peer_count]
  /\ UNCHANGED <<peer_count, engine, events>>

SseUncount ==
  /\ sse.at = "uncount"
  /\ peer_count' = Decremented(sse.load)
  /\ sse' = IF sse.id = NoPeer THEN Idling ELSE Going(sse.id)
  /\ UNCHANGED <<peers, conns, engine, events>>

(* p2p_engine_add_peer, which may be refused or fail. *)
SseAdd ==
  /\ sse.at = "add"
  /\ \/ \E s \in Slots :
          /\ AddPeer(s, sse.id)
          /\ sse' = [sse EXCEPT !.at = "count", !.slot = s, !.load = peer_count]
     \/ (\E s \in Slots : AddPeerFails(s, sse.id)) /\ sse' = Idling
     \/ ~CanAddPeer /\ sse' = Idling /\ UNCHANGED peers
  /\ UNCHANGED <<peer_count, conns, engine, events>>

SseCount ==
  /\ sse.at = "count"
  /\ peer_count' = Incremented(sse.load)
  /\ sse' = [sse EXCEPT !.at = "gather", !.load = 0]
  /\ UNCHANGED <<peers, conns, engine, events>>

(* p2p_peer_gather_candidates: a slot that was emptied meanwhile, or an    *)
(* agent that gathers already, is left alone.                              *)
SseGather ==
  /\ sse.at = "gather"
  /\ sse' = Idling
  /\ Gather(sse.slot) \/ (peers[sse.slot].juice # "disconnected" /\ UNCHANGED peers)
  /\ UNCHANGED <<peer_count, conns, engine, events>>

Handling ==
  SseRemove \/ SseVacate \/ SseUncount \/ SseAdd \/ SseCount \/ SseGather

Signaling ==
  \/ Handling
  \/ \E id \in PeerIds : PeerJoined(id) \/ RequestOffer(id) \/ PeerLeft(id)

Elsewhere(A) == A /\ UNCHANGED <<sse, events>>

PublisherNext == Signaling \/ Elsewhere(EngineStep)

PublisherSpec == PublisherInit /\ [][PublisherNext]_pvars

(* The engine thread is never stopped, a packet is processed to its end,   *)
(* and process_recv_queue finds the queue empty again and again (xquic's   *)
(* flow control bounds what is in flight).  The network, ICE and the       *)
(* signaling server owe nothing.                                           *)
EngineFairness ==
  /\ WF_pvars(Elsewhere(EngineLoop))
  /\ SF_pvars(Elsewhere(RecvDone))
  /\ WF_pvars(Elsewhere(PacketPlain))

PublisherEngineSpec == PublisherSpec /\ EngineFairness

(* Besides, a handler that was begun ends. *)
PublisherFairSpec == PublisherEngineSpec /\ WF_pvars(Handling)
-----------------------------------------------------------------------------
(* A peer whose removal was asked for by an ICE callback is removed by the *)
(* engine thread, whatever the signaling thread does to its slot meanwhile *)
(* and whatever peer_count has become.                                     *)
RemovalServed ==
  \A s \in Slots : peers[s].removal ~> ~peers[s].removal

(* p2p_adapter.h: needs_ice_restart is "Set when both QUIC and ICE are     *)
(* dead; app must re-negotiate via signaling".  The request reaches the    *)
(* application.  It does not from a slot at or beyond peer_count, where    *)
(* the loops of the engine thread do not look.                             *)
IceRestartServed ==
  \A s \in Slots : peers[s].irestart ~> ~peers[s].irestart

(* p2p_adapter.c: a superseded connection "will time out naturally", and   *)
(* its close is logged as "stale".  That close leaves the session of the   *)
(* slot's current connection alone.  It does not.                          *)
SupersededCloseHarmless ==
  [][\A c \in Conns :
       /\ conns[c].st # "free" /\ conns'[c].st = "free"
       /\ peers[conns[c].slot].conn # c
       /\ peers[conns[c].slot].session # c
       => peers'[conns[c].slot].session = peers[conns[c].slot].session]_pvars

(* p2p_adapter.c, in p2p_engine_add_peer: the user session is there early  *)
(* "so server_accept_cb can find the peer even if QUIC Initial arrives     *)
(* before process_quic_start runs".  process_quic_start then leaves the    *)
(* accepted connection its session.  It does not.                          *)
AcceptedKeepsSession ==
  [][phase = "start" =>
       \A s \in Slots :
         /\ peers[s].conn # NoConn /\ peers[s].session = peers[s].conn
         /\ peers'[s].conn = peers[s].conn
         => peers'[s].session = peers[s].session]_pvars
=============================================================================
