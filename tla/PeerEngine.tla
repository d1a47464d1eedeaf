----------------------------- MODULE PeerEngine -----------------------------
(***************************************************************************)
(* The P2P adapter engine (src/src/p2p/src/p2p_adapter.c): a fixed array   *)
(* of peer slots shared by four kinds of thread.                           *)
(*                                                                         *)
(*   - the engine thread runs engine_thread_func: it drains received       *)
(*     packets into xquic, then walks the slots once per request flag,     *)
(*     then lets xquic run its timers.  All xquic callbacks run in it;     *)
(*   - each ICE agent has a libjuice thread, which runs                    *)
(*     ice_on_state_changed and ice_on_recv;                               *)
(*   - the signaling thread of the application adds and removes peers;     *)
(*   - application threads raise request flags.                            *)
(*                                                                         *)
(* The slots are written by all of them without a lock, so a step here is  *)
(* one callback, one iteration of an engine loop, or one engine call of    *)
(* the application, and a call in which another thread can see or undo a   *)
(* half-done change is cut there.  PublisherApp and SubscriberApp say      *)
(* which calls the applications make; this module has no Next of its own.  *)
(*                                                                         *)
(* Abstractions.  Time is left out: a timeout may or may not have run.  A  *)
(* connection or MOQ session is named by a connection number, which is     *)
(* free again once xquic has destroyed the connection (as its memory is).  *)
(* What a packet carries is chosen when it is processed; the Initial of    *)
(* the project's own client fits in one packet, so a server connection is  *)
(* accepted and created in one step.  Retransmission (needs_continue_send),*)
(* the frame queues and last_ice_recv_us are left out, and so are the      *)
(* publisher's quic_restart_fail_count, which nobody reads, and the        *)
(* tracks, subscribe ids and data channel of a slot, which go with its     *)
(* session.  Shutdown (p2p_engine_stop and p2p_engine_destroy) is left out.*)
(***************************************************************************)
EXTENDS Naturals, FiniteSets

CONSTANTS
  MaxSubscribers,  \* P2P_MAX_SUBSCRIBERS, the number of slots
  MaxConns,        \* xquic connections that exist at once, at most
  Role,            \* "publisher" (QUIC server) or "subscriber" (QUIC client)
  PeerIds,         \* peer ids that signaling reports
  DeferRemoval     \* the application's ICE callbacks set needs_removal

NoPeer == "nobody"

ASSUME SlotsAssumption == MaxSubscribers \in Nat \ {0}
ASSUME ConnsAssumption == MaxConns \in Nat \ {0}
ASSUME RoleAssumption == Role \in {"publisher", "subscriber"}
ASSUME PeerIdsAssumption == NoPeer \notin PeerIds
ASSUME DeferAssumption == DeferRemoval \in BOOLEAN

Slots == 0 .. MaxSubscribers - 1
Conns == 1 .. MaxConns
NoConn == 0

(* p2p_peer_state_t, in its order: the code compares states with < and >=. *)
Idle            == 0
IceGathering    == 1
IceConnecting   == 2
IceConnected    == 3
QuicHandshaking == 4
QuicConnected   == 5
Failed          == 6
Closed          == 7
PeerStates == Idle .. Closed

(* juice_state_t of the slot's agent, and "null" when ice_agent is NULL. *)
JuiceStates == {"null", "disconnected", "gathering", "connecting",
                "connected", "completed", "failed"}
JuiceUp == {"connected", "completed"}

RestartLimit == 3  \* quic_restart_fail_count > 3 escalates to an ICE restart

Phases == {"recv", "start", "idle", "restart", "reap", "main"}

VARIABLES
  peers,       \* engine->peers: slot -> p2p_peer_ctx_t
  peer_count,  \* engine->peer_count
  conns,       \* xquic's connections: conn -> its slot and its state
  phase,       \* where the engine thread is in engine_thread_func
  cursor,      \* the loop variable i of the engine thread's current loop
  pkt,         \* slot whose packet process_recv_queue is handing to xquic
  reaping,     \* how far the removal of slot cursor is
  loaded       \* peer_count as the removal in the engine thread loaded it

vars == <<peers, peer_count, conns, phase, cursor, pkt, reaping, loaded>>
engine == <<phase, cursor, pkt, reaping, loaded>>

NoSlot == MaxSubscribers

PeerRecord ==
  [state    : PeerStates,
   juice    : JuiceStates,
   id       : PeerIds \cup {NoPeer},
   conn     : Conns \cup {NoConn},   \* xqc_conn
   session  : Conns \cup {NoConn},   \* moq_session, named by its connection
   qstart   : BOOLEAN,               \* needs_quic_start
   qrestart : BOOLEAN,               \* needs_quic_restart
   irestart : BOOLEAN,               \* needs_ice_restart
   removal  : BOOLEAN,               \* needs_removal
   fails    : 0 .. RestartLimit]     \* quic_restart_fail_count

ConnRecord == [slot : Slots, st : {"free", "handshaking", "open", "closing"}]

TypeOK ==
  /\ peers \in [Slots -> PeerRecord]
  /\ peer_count \in 0 .. MaxSubscribers
  /\ conns \in [Conns -> ConnRecord]
  /\ phase \in Phases
  /\ cursor \in 0 .. MaxSubscribers
  /\ pkt \in Slots \cup {NoSlot}
  /\ reaping \in {"no", "remove", "forget", "count"}
  /\ loaded \in 0 .. MaxSubscribers

EmptySlot ==
  [state |-> Idle, juice |-> "null", id |-> NoPeer, conn |-> NoConn,
   session |-> NoConn, qstart |-> FALSE, qrestart |-> FALSE,
   irestart |-> FALSE, removal |-> FALSE, fails |-> 0]

(* p2p_engine_init and p2p_engine_start. *)
EngineInit ==
  /\ peers = [s \in Slots |-> EmptySlot]
  /\ peer_count = 0
  /\ conns = [c \in Conns |-> [slot |-> 0, st |-> "free"]]
  /\ phase = "recv"
  /\ cursor = 0
  /\ pkt = NoSlot
  /\ reaping = "no"
  /\ loaded = 0

Occupied(s) == peers[s].juice # "null"
FreeConns == {c \in Conns : conns[c].st = "free"}

(* The loops that look for a slot take the first one that fits.            *)
IsFirst(s, S) == s \in S /\ \A t \in S : s <= t

(* p2p_engine_find_peer returns the first slot of these. *)
FindPeer(id) == {s \in Slots : Occupied(s) /\ peers[s].id = id}

-----------------------------------------------------------------------------
(* Peer management, called by the application and by the reap loop.        *)

(* The slots p2p_engine_add_peer looks for. *)
AddableSlots == {s \in Slots : peers[s].state = Idle /\ ~Occupied(s)}

CanAddPeerUncounted == AddableSlots # {}  \* mutant
CanAddPeer == peer_count < MaxSubscribers /\ AddableSlots # {}

(* p2p_engine_add_peer and p2p_engine_remove_peer end with peer_count++    *)
(* and peer_count--, which two threads may do at once without a lock: the  *)
(* caller loads peer_count in the step that does the rest, and stores the  *)
(* result in a step of its own.                                            *)
Incremented(n) == n + 1
DecrementedUnguarded(n) == n - 1  \* mutant
Decremented(n) == IF n > 0 THEN n - 1 ELSE 0

(* p2p_engine_add_peer: only the id and the agent of the slot are set; the *)
(* other fields keep what the last occupant left in them.                  *)
AddPeer(s, id) ==
  /\ CanAddPeer /\ IsFirst(s, AddableSlots)
  /\ peers' = [peers EXCEPT ![s].id = id, ![s].juice = "disconnected"]

(* When juice_create fails, or the MOQ user session cannot be had and the  *)
(* agent is destroyed again, the slot stays empty and keeps the id.        *)
AddPeerFails(s, id) ==
  /\ CanAddPeer /\ IsFirst(s, AddableSlots)
  /\ peers' = [peers EXCEPT ![s].id = id]

CloseConn(c) ==
  conns' = IF c = NoConn THEN conns ELSE [conns EXCEPT ![c].st = "closing"]

(* p2p_engine_remove_peer does not ask whether the slot is occupied, and   *)
(* it leaves the request and pause flags alone.  Its writes, in order: the *)
(* session, which is dropped without being destroyed when there is no      *)
(* connection; the connection, which is closed; the agent, whose thread    *)
(* reports until juice_destroy has joined it; the state; the id.           *)
DropSession(s) ==
  /\ peers' = [peers EXCEPT
       ![s].session = IF peers[s].conn = NoConn THEN @ ELSE NoConn]
  /\ UNCHANGED conns

DropConn(s) ==
  /\ CloseConn(peers[s].conn)
  /\ peers' = [peers EXCEPT ![s].conn = NoConn]

DestroyAgent(s) ==
  /\ peers' = [peers EXCEPT ![s].juice = "null"]
  /\ UNCHANGED conns

Vacate(s) ==
  /\ peers' = [peers EXCEPT ![s].session = NoConn, ![s].state = Idle,
                            ![s].id = NoPeer]
  /\ UNCHANGED conns

(* In the engine thread all but the last are one step: xquic's callbacks   *)
(* run in this thread, and the slot cannot be given away before its state  *)
(* is IDLE.  From then on it can, before its id is erased (ReapForget).    *)
RemovePeerLeavesConn(s) ==  \* mutant
  /\ UNCHANGED conns
  /\ peers' = [peers EXCEPT ![s].conn = NoConn, ![s].juice = "null",
                            ![s].session = NoConn, ![s].state = Idle]
RemovePeerKeepsState(s) ==  \* mutant
  /\ CloseConn(peers[s].conn)
  /\ peers' = [peers EXCEPT ![s].conn = NoConn, ![s].juice = "null",
                            ![s].session = NoConn]
RemovePeer(s) ==
  /\ CloseConn(peers[s].conn)
  /\ peers' = [peers EXCEPT ![s].conn = NoConn, ![s].juice = "null",
                            ![s].session = NoConn, ![s].state = Idle]

(* p2p_peer_gather_candidates, in the caller's thread. *)
Gather(s) ==
  /\ peers[s].juice = "disconnected"
  /\ peers' = [peers EXCEPT ![s].juice = "gathering", ![s].state = IceGathering]

-----------------------------------------------------------------------------
(* The libjuice thread of a slot's agent.                                  *)

(* The states libjuice reports after each state (agent_change_state).      *)
(* "disconnected" is where an agent begins and is never reported:          *)
(* agent_destroy ends the thread without a change of state.                *)
(* juice_gather_candidates reports "gathering" and then "connecting" from  *)
(* the caller's thread; the second comes at its own moment here, too.      *)
JuiceNext ==
  [null |-> {}, disconnected |-> {}, gathering |-> {"connecting", "failed"},
   connecting |-> {"connected", "failed"},
   connected |-> {"completed", "failed"}, completed |-> {"failed"},
   failed |-> {"connected", "completed"}]

AtLeastIceConnected(st) == IF st < IceConnected THEN IceConnected ELSE st

(* What ice_on_state_changed, with the application's on_peer_ice_state,    *)
(* makes of a slot.  The application asks for the removal of a failed peer *)
(* when DeferRemoval.                                                      *)
AfterIce(p, js) ==
  [p EXCEPT !.juice = js,
            !.state = CASE js = "connecting" -> IceConnecting
                        [] js \in JuiceUp -> AtLeastIceConnected(@)
                        [] js = "failed" -> Failed,
            !.qstart = @ \/ js = "completed",
            !.removal = @ \/ (js = "failed" /\ DeferRemoval)]

IceStateChanged(s) ==
  /\ \E js \in JuiceNext[peers[s].juice] :
       peers' = [peers EXCEPT ![s] = AfterIce(peers[s], js)]
  /\ UNCHANGED <<peer_count, conns, engine>>

-----------------------------------------------------------------------------
(* The engine thread: packets and xquic callbacks.                         *)

(* process_recv_queue looks at the slot's state and then hands the packet  *)
(* to xquic; the signaling thread may run in between.                      *)
RecvPacket(s) ==
  /\ phase = "recv" /\ pkt = NoSlot
  /\ peers[s].state >= IceConnecting
  /\ pkt' = s
  /\ UNCHANGED <<peers, peer_count, conns, phase, cursor, reaping, loaded>>

PacketDone ==
  pkt' = NoSlot /\ UNCHANGED <<peer_count, phase, cursor, reaping, loaded>>

(* The packet changes nothing that is modelled (data, an ACK, a reject). *)
PacketPlain ==
  /\ pkt # NoSlot
  /\ PacketDone
  /\ UNCHANGED <<peers, conns>>

(* A QUIC Initial reaches the publisher: xqc_server_accept_cb makes the    *)
(* MOQ session of the new connection, xqc_conn_create_notify_cb finds it   *)
(* and installs the connection.  xqc_moq_session_create has no failure     *)
(* here: it fails for a transport other than QUIC, and for a client.       *)
ServerAccept ==
  /\ Role = "publisher" /\ pkt # NoSlot
  /\ \E c \in FreeConns :
       /\ conns' = [conns EXCEPT ![c] = [slot |-> pkt, st |-> "handshaking"]]
       /\ peers' = [peers EXCEPT ![pkt].session = c, ![pkt].conn = c]
  /\ PacketDone

(* xqc_conn_handshake_finished_cb. *)
HandshakeFinished(c) ==
  LET s == conns[c].slot IN
  /\ pkt = s /\ conns[c].st = "handshaking"
  /\ conns' = [conns EXCEPT ![c].st = "open"]
  /\ peers' = [peers EXCEPT ![s].state = QuicConnected, ![s].fails = 0]
  /\ PacketDone

(* The remote side closed the connection: it drains, then is destroyed. *)
RemoteClose(c) ==
  /\ pkt = conns[c].slot /\ conns[c].st \in {"handshaking", "open"}
  /\ conns' = [conns EXCEPT ![c].st = "closing"]
  /\ PacketDone
  /\ UNCHANGED peers

(* The queue is empty: process_quic_start comes next. *)
RecvDone ==
  /\ phase = "recv" /\ pkt = NoSlot
  /\ phase' = "start" /\ cursor' = 0
  /\ UNCHANGED <<peers, peer_count, conns, pkt, reaping, loaded>>

(* What xqc_conn_close_notify_cb leaves in the slot when the connection is *)
(* the slot's current one.                                                 *)
CurrentConnClosed(p) ==
  IF p.juice \in JuiceUp
  THEN LET again == Role = "subscriber" /\ p.fails < RestartLimit
           escalate == Role = "subscriber" /\ p.fails >= RestartLimit
       IN [p EXCEPT !.state = IceConnected, !.conn = NoConn,
                    !.fails = IF again THEN @ + 1 ELSE IF escalate THEN 0 ELSE @,
                    !.irestart = @ \/ escalate,
                    !.qrestart = (@ /\ ~escalate) \/ again]
  ELSE [p EXCEPT !.state = Failed, !.conn = NoConn, !.qrestart = FALSE,
                 !.irestart = TRUE]

(* The slot's MOQ session is destroyed whatever connection it belongs to.  *)
DestroyedKeepsConn(p, c) == [p EXCEPT !.session = NoConn]  \* mutant
DestroyedKeepsSession(p, c) ==  \* mutant
  IF p.conn = c THEN CurrentConnClosed(p) ELSE p
DestroyedOwnOnly(p, c) ==  \* mutant
  IF p.conn = c THEN CurrentConnClosed([p EXCEPT !.session = NoConn]) ELSE p
Destroyed(p, c) ==
  LET q == [p EXCEPT !.session = NoConn]
  IN IF p.conn = c THEN CurrentConnClosed(q) ELSE q

(* xqc_conn_close_notify_cb, when xqc_engine_main_logic destroys a         *)
(* connection that timed out, failed or was closed.  That logic runs for   *)
(* received packets and for timers; xqc_connect runs xquic for its own     *)
(* connection only, and xqc_conn_close only marks one and wakes xquic up.  *)
(* The agent may fail after its state was read and before the slot is      *)
(* written.                                                                *)
ConnCloseNotify(c) ==
  LET s == conns[c].slot
      p == peers[s]
  IN
  /\ phase \in {"recv", "main"} /\ pkt = NoSlot
  /\ conns[c].st # "free"
  /\ conns' = [conns EXCEPT ![c] = [slot |-> 0, st |-> "free"]]
  /\ \/ peers' = [peers EXCEPT ![s] = Destroyed(p, c)]
     \/ /\ p.conn = c /\ p.juice \in JuiceUp
        /\ peers' = [peers EXCEPT ![s] = [Destroyed(p, c) EXCEPT
             !.juice = "failed", !.removal = @ \/ DeferRemoval]]
  /\ UNCHANGED <<peer_count, engine>>

-----------------------------------------------------------------------------
(* The engine thread: one iteration of each loop over the slots.  The      *)
(* first three loops stop at peer_count.                                   *)

InLoop(ph) == phase = ph /\ cursor < peer_count
NextSlot == cursor' = cursor + 1 /\ UNCHANGED <<phase, pkt, reaping, loaded>>

LoopDone(ph, bound, next) ==
  /\ phase = ph /\ cursor >= bound /\ reaping = "no"
  /\ phase' = next /\ cursor' = 0
  /\ UNCHANGED <<peers, peer_count, conns, pkt, reaping, loaded>>

(* p2p_peer_start_quic on slot s, whose record is p after the caller's     *)
(* changes.  The MOQ state of the slot is reset; a subscriber connects,    *)
(* and xqc_conn_create_notify_cb runs inside xqc_connect, which may fail.  *)
StartQuic(s, p) ==
  LET q == [p EXCEPT !.session = NoConn] IN
  IF p.state >= QuicHandshaking
  THEN peers' = [peers EXCEPT ![s] = p] /\ UNCHANGED conns
  ELSE IF Role = "publisher"
  THEN peers' = [peers EXCEPT ![s] = q] /\ UNCHANGED conns
  ELSE \/ \E c \in FreeConns :
            /\ conns' = [conns EXCEPT ![c] = [slot |-> s, st |-> "handshaking"]]
            /\ peers' = [peers EXCEPT ![s] =
                 [q EXCEPT !.state = QuicHandshaking, !.conn = c, !.session = c]]
       \/ /\ peers' = [peers EXCEPT ![s] = [q EXCEPT !.state = Failed]]
          /\ UNCHANGED conns

(* process_quic_start. *)
ProcessQuicStart ==
  LET p == [peers[cursor] EXCEPT !.qstart = FALSE] IN
  /\ InLoop("start")
  /\ IF peers[cursor].qstart /\ p.state >= IceConnected
     THEN StartQuic(cursor, p)
     ELSE peers' = [peers EXCEPT ![cursor] = p] /\ UNCHANGED conns
  /\ NextSlot
  /\ UNCHANGED peer_count

(* process_manual_idle_check closes a connection of the publisher when its *)
(* peer was silent for P2P_MANUAL_IDLE_TIMEOUT_US, which it may have been. *)
ProcessIdle ==
  LET p == peers[cursor]
      idle == Role = "publisher" /\ p.state = QuicConnected /\ p.conn # NoConn
  IN
  /\ InLoop("idle")
  /\ \/ /\ idle
        /\ CloseConn(p.conn)
        /\ peers' = [peers EXCEPT ![cursor] = [p EXCEPT
             !.conn = NoConn, !.state = IceConnected]]
     \/ UNCHANGED <<peers, conns>>
  /\ NextSlot
  /\ UNCHANGED peer_count

(* process_quic_restart, with the application's on_peer_ice_restart_needed *)
(* for an ICE restart.                                                     *)
ProcessQuicRestart ==
  LET p == peers[cursor]
      retry == p.qrestart /\ p.state = IceConnected
  IN
  /\ InLoop("restart")
  /\ CASE p.irestart ->
            /\ peers' = [peers EXCEPT ![cursor] = [p EXCEPT
                 !.irestart = FALSE, !.qrestart = FALSE,
                 !.removal = @ \/ DeferRemoval]]
            /\ UNCHANGED conns
       [] ~p.irestart /\ retry /\ p.juice \notin JuiceUp \cup {"null"} ->
            /\ peers' = [peers EXCEPT ![cursor] = [p EXCEPT
                 !.qrestart = FALSE, !.irestart = TRUE]]
            /\ UNCHANGED conns
       [] ~p.irestart /\ retry /\ p.juice \in JuiceUp \cup {"null"} ->
            StartQuic(cursor, [p EXCEPT !.qrestart = FALSE])
       [] OTHER -> UNCHANGED <<peers, conns>>
  /\ NextSlot
  /\ UNCHANGED peer_count

(* Deferred removal, over all slots: the flag is cleared first and the     *)
(* peer removed next, so a callback that runs in between raises it again.  *)
ReapSlot ==
  /\ phase = "reap" /\ cursor < MaxSubscribers /\ reaping = "no"
  /\ IF peers[cursor].removal
     THEN /\ peers' = [peers EXCEPT ![cursor].removal = FALSE]
          /\ reaping' = "remove" /\ UNCHANGED cursor
     ELSE cursor' = cursor + 1 /\ UNCHANGED <<peers, reaping>>
  /\ UNCHANGED <<peer_count, conns, phase, pkt, loaded>>

ReapRemove ==
  /\ reaping = "remove"
  /\ RemovePeer(cursor)
  /\ reaping' = "forget"
  /\ UNCHANGED <<peer_count, phase, cursor, pkt, loaded>>

(* The slot is IDLE and may have been given to a new peer meanwhile, which *)
(* then loses its id.                                                      *)
ReapForget ==
  /\ reaping = "forget"
  /\ peers' = [peers EXCEPT ![cursor].id = NoPeer]
  /\ loaded' = peer_count
  /\ reaping' = "count"
  /\ UNCHANGED <<peer_count, conns, phase, cursor, pkt>>

ReapCount ==
  /\ reaping = "count"
  /\ peer_count' = Decremented(loaded)
  /\ loaded' = 0
  /\ reaping' = "no" /\ cursor' = cursor + 1
  /\ UNCHANGED <<peers, conns, phase, pkt>>

StartDoneEarly == LoopDone("start", peer_count - 1, "idle")  \* mutant
ReapDoneEarly == LoopDone("reap", peer_count, "main")  \* mutant
StartDone   == LoopDone("start", peer_count, "idle")
IdleDone    == LoopDone("idle", peer_count, "restart")
RestartDone == LoopDone("restart", peer_count, "reap")
ReapDone    == LoopDone("reap", MaxSubscribers, "main")
MainDone    == LoopDone("main", 0, "recv")

-----------------------------------------------------------------------------
EngineLoop ==
  \/ RecvDone \/ StartDone \/ IdleDone \/ RestartDone \/ ReapDone \/ MainDone
  \/ ProcessQuicStart \/ ProcessIdle \/ ProcessQuicRestart
  \/ ReapSlot \/ ReapRemove \/ ReapForget \/ ReapCount

XquicEvent ==
  \/ PacketPlain \/ ServerAccept
  \/ \E s \in Slots : RecvPacket(s)
  \/ \E c \in Conns : HandshakeFinished(c) \/ RemoteClose(c)
                      \/ ConnCloseNotify(c)

IceThread == \E s \in Slots : IceStateChanged(s)

EngineStep == EngineLoop \/ XquicEvent \/ IceThread
-----------------------------------------------------------------------------
(* A slot's current connection is one that xquic still has, and it is that *)
(* slot's own: the adapter never hands a destroyed xqc_connection_t, or    *)
(* another peer's, to xquic.  Connections are superseded, closed from two  *)
(* threads and destroyed later, and a slot changes hands in between.       *)
NoDanglingConn ==
  \A s \in Slots : peers[s].conn # NoConn =>
    conns[peers[s].conn].slot = s /\ conns[peers[s].conn].st # "free"

(* The MOQ session of a slot belongs to a connection of that slot that     *)
(* xquic still has, through superseded connections, late closes and slots  *)
(* that change hands.                                                      *)
NoDanglingSession ==
  \A s \in Slots : peers[s].session # NoConn =>
    conns[peers[s].session].slot = s /\ conns[peers[s].session].st # "free"

(* No two slots are known by the id of the same remote peer, though joins, *)
(* leaves, offers and deferred removals interleave.                        *)
UniquePeerIds ==
  \A s, t \in Slots :
    /\ Occupied(s) /\ Occupied(t)
    /\ peers[s].id = peers[t].id /\ peers[s].id # NoPeer
    => s = t

(* Seen from outside, the slots are a table of peers and connections: no   *)
(* interleaving of the four kinds of thread makes a slot change hands      *)
(* without being emptied, brings back a connection that was given up, or   *)
(* moves two slots at once.                                                *)
Table == INSTANCE PeerTable WITH
  Peers <- PeerIds,
  who <- [s \in Slots |-> IF Occupied(s) THEN peers[s].id ELSE NoPeer],
  link <- [s \in Slots |-> peers[s].conn],
  live <- {c \in Conns : conns[c].st # "free"}
TableSpec == Table!TableSpec
=============================================================================
