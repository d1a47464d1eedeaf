--------------------------- MODULE SubscriberApp ----------------------------
(***************************************************************************)
(* The subscriber (src/src/p2p/src/p2p_peer.c) over the adapter engine.    *)
(* Two more threads act on the slots:                                      *)
(*   - the signaling (SSE) thread answers the publisher's ICE offers, in   *)
(*     steps between which the other threads run;                          *)
(*   - the main loop reconnects the signaling client when a callback asks  *)
(*     for it, and watches that video keeps coming.                        *)
(***************************************************************************)
EXTENDS PeerEngine

ASSUME SubscriberRole == Role = "subscriber" /\ DeferRemoval

VARIABLES
  sse,        \* the offer that the signaling thread is handling
  pending,    \* ctx->pending_peer_id
  reconnect,  \* ctx->needs_full_reconnect
  main,       \* what the main loop is doing
  online      \* the signaling client is connected

app == <<sse, pending, reconnect, main, online>>
svars == <<vars, app>>

Idling == [at |-> "idle", id |-> NoPeer, slot |-> NoSlot, load |-> 0]

SseRecord ==
  [at : {"idle", "add", "count", "gather"},
   id : PeerIds \cup {NoPeer},
   slot : Slots \cup {NoSlot},
   load : 0 .. MaxSubscribers]

SubscriberTypeOK ==
  /\ TypeOK
  /\ sse \in SseRecord
  /\ pending \in PeerIds \cup {NoPeer}
  /\ reconnect \in BOOLEAN
  /\ main \in {"loop", "disconnect", "connect"}
  /\ online \in BOOLEAN

SubscriberInit ==
  /\ EngineInit
  /\ sse = Idling
  /\ pending = NoPeer
  /\ reconnect = FALSE
  /\ main = "loop"
  /\ online = TRUE

-----------------------------------------------------------------------------
(* The signaling thread.  on_sig_ice_offer: find the peer or add it ...    *)
IceOffer(id) ==
  /\ online /\ sse = Idling
  /\ IF FindPeer(id) = {}
     THEN sse' = [Idling EXCEPT !.at = "add", !.id = id]
     ELSE \E s \in Slots :
            /\ IsFirst(s, FindPeer(id))
            /\ sse' = [Idling EXCEPT !.at = "gather", !.id = id, !.slot = s]
  /\ UNCHANGED <<vars, pending, reconnect, main, online>>

SseAdd ==
  /\ sse.at = "add"
  /\ \/ \E s \in Slots :
          /\ AddPeer(s, sse.id)
          /\ sse' = [sse EXCEPT !.at = "count", !.slot = s, !.load = peer_count]
     \/ (\E s \in Slots : AddPeerFails(s, sse.id)) /\ sse' = Idling
     \/ ~CanAddPeer /\ sse' = Idling /\ UNCHANGED peers
  /\ UNCHANGED <<peer_count, conns, engine, pending, reconnect, main, online>>

SseCount ==
  /\ sse.at = "count"
  /\ peer_count' = Incremented(sse.load)
  /\ sse' = [sse EXCEPT !.at = "gather", !.load = 0]
  /\ UNCHANGED <<peers, conns, engine, pending, reconnect, main, online>>

(* ... remember whom to send candidates to, and gather them. *)
SseGather ==
  /\ sse.at = "gather"
  /\ pending' = sse.id
  /\ sse' = Idling
  /\ \/ Gather(sse.slot)
     \/ peers[sse.slot].juice # "disconnected" /\ UNCHANGED peers
  /\ UNCHANGED <<peer_count, conns, engine, reconnect, main, online>>

-----------------------------------------------------------------------------
(* Engine and ICE steps.  on_ice_state and on_ice_restart_needed forget    *)
(* the publisher and ask the main loop for a full reconnect.               *)
AsksReconnect(s) ==
  \/ peers'[s].juice = "failed" /\ peers[s].juice # "failed"
  \/ phase = "restart" /\ peers[s].irestart /\ ~peers'[s].irestart

Engine ==
  /\ EngineStep
  /\ IF \E s \in Slots : AsksReconnect(s)
     THEN pending' = NoPeer /\ reconnect' = TRUE
     ELSE UNCHANGED <<pending, reconnect>>
  /\ UNCHANGED <<sse, main, online>>

-----------------------------------------------------------------------------
(* The main loop.  A full reconnect joins the signaling thread, then       *)
(* connects again; that may fail, and is then asked for again.             *)
StartReconnect ==
  /\ main = "loop" /\ reconnect
  /\ reconnect' = FALSE /\ main' = "disconnect"
  /\ UNCHANGED <<vars, sse, pending, online>>

Disconnect ==
  /\ main = "disconnect" /\ sse = Idling
  /\ online' = FALSE /\ main' = "connect"
  /\ UNCHANGED <<vars, sse, pending, reconnect>>

Connect ==
  /\ main = "connect" /\ main' = "loop"
  /\ \/ online' = TRUE /\ UNCHANGED reconnect
     \/ reconnect' = TRUE /\ UNCHANGED online
  /\ UNCHANGED <<vars, sse, pending>>

(* on_sig_connected gives up on join_room after ten attempts; the client   *)
(* stays connected.                                                        *)
JoinRoomFailed ==
  /\ main = "connect" /\ main' = "loop"
  /\ online' = TRUE /\ reconnect' = TRUE
  /\ UNCHANGED <<vars, sse, pending>>

(* The watchdog: no video for 15 seconds, while QUIC is connected.  It also *)
(* resets last_video_recv_us, so the test for 30 seconds behind it fails.  *)
Watchdog(s) ==
  /\ main = "loop"
  /\ IsFirst(s, FindPeer(pending))
  /\ peers[s].state = QuicConnected
  /\ peers' = [peers EXCEPT ![s].qrestart = TRUE]
  /\ UNCHANGED <<peer_count, conns, engine, app>>

-----------------------------------------------------------------------------
Handling == SseAdd \/ SseCount \/ SseGather
MainLoop == StartReconnect \/ Disconnect \/ Connect \/ JoinRoomFailed

SubscriberNext ==
  \/ \E id \in PeerIds : IceOffer(id)
  \/ Handling
  \/ Engine
  \/ MainLoop
  \/ \E s \in Slots : Watchdog(s)

SubscriberSpec == SubscriberInit /\ [][SubscriberNext]_svars

(* As for the publisher. *)
EngineFairness ==
  /\ WF_svars(EngineLoop /\ Engine)
  /\ SF_svars(RecvDone /\ Engine)
  /\ WF_svars(PacketPlain /\ Engine)

SubscriberEngineSpec == SubscriberSpec /\ EngineFairness

(* Besides, a handler that was begun ends, and the main loop runs.         *)
SubscriberFairSpec ==
  SubscriberEngineSpec /\ WF_svars(Handling) /\ WF_svars(MainLoop)

(* xquic, besides, destroys a connection some time after it was closed.    *)
ClosedConnDestroyed ==
  \E c \in Conns : conns[c].st = "closing" /\ ConnCloseNotify(c)

SubscriberDrainSpec ==
  SubscriberFairSpec /\ SF_svars(ClosedConnDestroyed /\ Engine)
-----------------------------------------------------------------------------
(* The subscriber never has a live connection besides the current one of   *)
(* its slot, through QUIC restarts, ICE restarts and full reconnects: the  *)
(* publisher is not left with two sessions for one subscriber.             *)
LiveIsCurrent ==
  \A c \in Conns :
    conns[c].st \in {"handshaking", "open"} => peers[conns[c].slot].conn = c

(* A slot without an agent can be given to the publisher again: no xquic   *)
(* callback marks it, or leaves a connection in it, after its removal.     *)
EmptySlotReusable ==
  \A s \in Slots :
    ~Occupied(s) => peers[s].state = Idle /\ peers[s].conn = NoConn

(* A QUIC start asked for by ICE is served, for a slot the engine loops    *)
(* look at.                                                                *)
QuicStartServed ==
  \A s \in Slots :
    (peers[s].qstart /\ s < peer_count) ~> (~peers[s].qstart \/ s >= peer_count)

(* p2p_peer.c, the watchdog: "No video for 15s -> trigger QUIC reconnect". *)
(* A slot for which it is asked leaves QUIC_CONNECTED.  It does not:       *)
(* process_quic_restart takes the request in ICE_CONNECTED only, so it     *)
(* waits for the connection to die by itself, which it need not.           *)
WatchdogReconnects ==
  \A s \in Slots :
    (peers[s].qrestart /\ peers[s].state = QuicConnected)
      ~> peers[s].state # QuicConnected
=============================================================================
