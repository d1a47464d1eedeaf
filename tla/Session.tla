------------------------------- MODULE Session -------------------------------
(***************************************************************************)
(* A session from start to stop: the engine, the signaling client          *)
(* (p2p_signaling.c) and their threads, in the three programs that use     *)
(* them: the command line programs p2p_client.c and p2p_peer.c ("cli"),    *)
(* and p2pav.c as publisher ("pub") or subscriber ("sub").                 *)
(*                                                                         *)
(*   - the main thread starts and stops the session; in p2p_peer.c it also *)
(*     disconnects from signaling and connects again;                      *)
(*   - the worker posts what is in the ring; the reader reads events and   *)
(*     runs their handlers; the statistics thread calls back (p2pav.c);    *)
(*   - the libjuice thread of an agent sends what it gathers, through the  *)
(*     ring ("cli") or by itself (p2pav.c), and queues received packets;   *)
(*   - the engine thread takes packets out of the queue.                   *)
(*                                                                         *)
(* One remote peer, which does not leave and whose agent makes one         *)
(* candidate.  What a message says, TURN and timing are left out.  A POST  *)
(* may fail or take long; it ends only when the server answers or the      *)
(* connection breaks (there is no timeout in p2p_tls.c).  Locking a mutex  *)
(* that was destroyed is taken to work, as it does on common platforms.    *)
(***************************************************************************)
EXTENDS PostRing, PacketQueue

CONSTANTS
  MaxConnects,  \* bound: calls of p2p_signaling_connect
  MaxEvents     \* bound: events that the reader handles

ASSUME SessionMessages == Messages = {"sdp", "cand", "done"}
ASSUME SessionBounds == MaxConnects \in Nat /\ MaxEvents \in Nat

VARIABLES
  app,      \* which of the programs this is
  main,     \* where the main thread is
  session,  \* p2pav_session_t: running, stats_running
  link,     \* p2p_signaling_client_t: flags, connections, mutexes
  ring,     \* its ring of requests
  worker,   \* post_worker_func
  reader,   \* sse_thread_func
  poster,   \* the thread that holds post_mutex and is in a POST
  ice,      \* the agent's libjuice thread and what it has yet to send
  stats,    \* stats_thread_func
  engine,   \* the engine thread: "off", "on", "stopped"
  pq,       \* engine->recv_queue
  told,     \* what the server was sent before the description was
  used      \* connections and events so far

clientVars == <<ring, worker, reader, poster, told>>
engineVars == <<ice, engine, pq>>
svars == <<app, main, session, link, stats, used, clientVars, engineVars>>

NoOne == "no one"
Threads == {"main", "worker", "reader", "ice"}
Starting == {"connect", "hello", "sseup", "failworker"}
Stopping == {"stats", "disconnect", "joinworker", "shut", "joinreader", "closing",
             "closed", "failed", "agents", "queue"}

Links == [connected : BOOLEAN, running : BOOLEAN, workerOn : BOOLEAN,
          post : {"null", "open"}, sse : {"null", "open", "shut"},
          queueMutex : BOOLEAN, postMutex : BOOLEAN]
Sessions == [running : BOOLEAN, statsOn : BOOLEAN]
WorkerStates == [at : {"none", "wait", "want", "done"},
                 msg : Messages \cup {NoMessage}]
IceStates == [at : {"none", "idle", "send"}, todo : Seq(Messages)]
Tellings == [early : SUBSET Messages, settled : BOOLEAN]
Counts == [connects : 0 .. MaxConnects, events : 0 .. MaxEvents]

SessionTypeOK ==
  /\ app \in {"cli", "pub", "sub"}
  /\ main \in {"off", "up", "unstats"} \cup Starting \cup Stopping
  /\ session \in Sessions /\ link \in Links
  /\ ring \in Rings /\ worker \in WorkerStates
  /\ reader \in {"none", "reading", "offer", "put", "gather", "ask", "done"}
  /\ poster \in Threads \cup {NoOne}
  /\ ice \in IceStates
  /\ stats \in {"none", "sleep", "call", "done"}
  /\ engine \in {"off", "on", "stopped"}
  /\ pq \in PacketQueues
  /\ told \in Tellings
  /\ used \in Counts

(* The client after memset, and after a connect that failed. *)
NoLink == [connected |-> FALSE, running |-> FALSE, workerOn |-> FALSE,
           post |-> "null", sse |-> "null", queueMutex |-> FALSE,
           postMutex |-> FALSE]

NoIce == [at |-> "none", todo |-> << >>]
NoWorker == [at |-> "none", msg |-> NoMessage]
NothingTold == [early |-> {}, settled |-> FALSE]

SessionInit ==
  /\ app \in {"cli", "pub", "sub"}
  /\ main = "off" /\ stats = "none" /\ engine = "off"
  /\ session = [running |-> FALSE, statsOn |-> FALSE]
  /\ link = NoLink /\ ring = EmptyRing
  /\ worker = NoWorker /\ reader = "none" /\ poster = NoOne
  /\ ice = NoIce /\ pq = NoQueue
  /\ told = NothingTold
  /\ used = [connects |-> 0, events |-> 0]

(* The description is settled when the server has it or nobody will send   *)
(* it any more; until then it counts what the server is told.              *)
Told(m, ok) ==
  told' = CASE m = "sdp" -> [told EXCEPT !.settled = TRUE]
            [] m # "sdp" /\ ok /\ ~told.settled -> [told EXCEPT !.early = @ \cup {m}]
            [] OTHER -> told
Lost(S) == told' = [told EXCEPT !.settled = @ \/ ("sdp" \in S)]
InRing == {ring.slot[i] : i \in RingSlots} \ {NoMessage}

-----------------------------------------------------------------------------
(* The main thread starts.                                                 *)

(* The memset with which p2p_signaling_connect begins.                     *)
ClearClient == link' = NoLink /\ ring' = EmptyRing /\ Lost(InRing)

(* p2p_engine_init and p2p_engine_start, and the first connect begins.     *)
StartEngine ==
  /\ main = "off" /\ used.connects < MaxConnects
  /\ main' = "connect" /\ engine' = "on" /\ pq' = NewQueue
  /\ ClearClient
  /\ UNCHANGED <<app, session, stats, used, worker, reader, poster, ice>>

CanConnect == main = "connect" /\ used.connects < MaxConnects
CountConnect == used' = [used EXCEPT !.connects = @ + 1]

(* p2p_signaling_connect up to the worker: TLS, the SSE request or the     *)
(* thread may fail, and what was made so far is released.  The ring is     *)
(* reset again for the worker, whatever a late caller has put in it.       *)
ConnectFails ==
  /\ CanConnect
  /\ CountConnect
  /\ link' = [NoLink EXCEPT !.postMutex = TRUE]
  /\ main' = "failed"
  /\ UNCHANGED <<app, session, stats, clientVars, engineVars>>

Connected ==
  /\ CanConnect
  /\ CountConnect
  /\ link' = [connected |-> TRUE, running |-> TRUE, workerOn |-> TRUE,
              post |-> "open", sse |-> "open", queueMutex |-> TRUE,
              postMutex |-> TRUE]
  /\ ring' = EmptyRing
  /\ worker' = [NoWorker EXCEPT !.at = "wait"]
  /\ main' = "hello" /\ Lost(InRing)
  /\ UNCHANGED <<app, session, stats, reader, poster, engineVars>>

(* on_connected has posted create_room or join_room; the reader starts.    *)
ReaderStarts ==
  /\ main = "sseup"
  /\ reader' = "reading" /\ main' = "up"
  /\ session' = [session EXCEPT !.running = TRUE]
  /\ UNCHANGED <<app, link, stats, used, ring, worker, poster, told, engineVars>>

ReaderFails ==
  /\ main = "sseup"
  /\ link' = [link EXCEPT !.workerOn = FALSE] /\ main' = "failworker"
  /\ UNCHANGED <<app, session, stats, used, clientVars, engineVars>>

JoinFailedWorker ==
  /\ main = "failworker" /\ worker.at = "done"
  /\ worker' = NoWorker /\ Lost(InRing)
  /\ link' = [NoLink EXCEPT !.postMutex = TRUE] /\ main' = "failed"
  /\ UNCHANGED <<app, session, stats, used, ring, reader, poster, engineVars>>

-----------------------------------------------------------------------------
(* The main thread stops: p2pav_session_stop, or the end of main, and      *)
(* p2p_signaling_disconnect.                                               *)

Stop ==
  /\ main = "up" \/ (main = "failed" /\ session.running)
  /\ session' = [running |-> FALSE, statsOn |-> FALSE] /\ main' = "stats"
  /\ UNCHANGED <<app, link, stats, used, clientVars, engineVars>>

StatsForgotten ==  \* mutant
  /\ main = "stats" /\ main' = "disconnect"
  /\ UNCHANGED <<app, session, link, stats, used, clientVars, engineVars>>
JoinStats ==
  /\ main = "stats" /\ stats \in {"none", "done"}
  /\ stats' = "none" /\ main' = "disconnect"
  /\ UNCHANGED <<app, session, link, used, clientVars, engineVars>>

(* p2p_peer.c reconnects without stopping, again if that fails.            *)
Reconnect ==
  /\ app = "cli" /\ session.running /\ main \in {"up", "failed"}
  /\ used.connects < MaxConnects
  /\ main' = "disconnect"
  /\ UNCHANGED <<app, session, link, stats, used, clientVars, engineVars>>

DisconnectKeepsWorker ==  \* mutant
  /\ main = "disconnect"
  /\ link' = [link EXCEPT !.running = FALSE, !.workerOn = FALSE]
  /\ main' = "shut"
  /\ UNCHANGED <<app, session, stats, used, clientVars, engineVars>>
Disconnect ==
  /\ main = "disconnect"
  /\ link' = [link EXCEPT !.running = FALSE, !.workerOn = FALSE]
  /\ main' = IF link.workerOn THEN "joinworker" ELSE "shut"
  /\ UNCHANGED <<app, session, stats, used, clientVars, engineVars>>

JoinWorker ==
  /\ main = "joinworker" /\ worker.at = "done"
  /\ worker' = NoWorker /\ Lost(InRing)
  /\ link' = [link EXCEPT !.queueMutex = FALSE] /\ main' = "shut"
  /\ UNCHANGED <<app, session, stats, used, ring, reader, poster, engineVars>>

(* p2p_tls_shutdown makes the reader's read fail. *)
ShutForgotten ==  \* mutant
  /\ main = "shut"
  /\ main' = IF link.connected THEN "joinreader" ELSE "closing"
  /\ UNCHANGED <<app, session, link, stats, used, clientVars, engineVars>>
Shut ==
  /\ main = "shut"
  /\ link' = [link EXCEPT !.sse = IF @ = "open" THEN "shut" ELSE @]
  /\ main' = IF link.connected THEN "joinreader" ELSE "closing"
  /\ UNCHANGED <<app, session, stats, used, clientVars, engineVars>>

JoinReader ==
  /\ main = "joinreader" /\ reader = "done"
  /\ reader' = "none" /\ main' = "closing"
  /\ UNCHANGED <<app, session, link, stats, used, ring, worker, poster, told, engineVars>>

(* The connections are freed first, connected is cleared last. *)
CloseConns ==
  /\ main = "closing"
  /\ link' = [link EXCEPT !.sse = "null", !.post = "null", !.postMutex = FALSE]
  /\ main' = "closed"
  /\ UNCHANGED <<app, session, stats, used, clientVars, engineVars>>

Disconnected ==
  /\ main = "closed" /\ link.connected
  /\ link' = [link EXCEPT !.connected = FALSE]
  /\ UNCHANGED <<app, main, session, stats, used, clientVars, engineVars>>

ConnectAgain ==
  /\ main = "closed" /\ ~link.connected /\ session.running
  /\ main' = "connect" /\ ClearClient
  /\ UNCHANGED <<app, session, stats, used, worker, reader, poster, engineVars>>

(* p2p_engine_stop. *)
StopEngine ==
  /\ ~session.running
  /\ main = "failed" \/ (main = "closed" /\ ~link.connected)
  /\ engine' = "stopped" /\ main' = "agents"
  /\ UNCHANGED <<app, session, link, stats, used, clientVars, ice, pq>>

(* p2p_engine_destroy: juice_destroy waits for a callback that runs; the   *)
(* queue goes after the agents.                                            *)
DestroyAgents ==
  /\ main = "agents" /\ ice.at \in {"none", "idle"}
  /\ ice' = NoIce /\ main' = "queue"
  /\ UNCHANGED <<app, session, link, stats, used, clientVars, engine, pq>>

DestroyEngine ==
  /\ main = "queue"
  /\ pq' = NoQueue /\ engine' = "off" /\ main' = "off"
  /\ UNCHANGED <<app, session, link, stats, used, clientVars, ice>>

-----------------------------------------------------------------------------
(* POST requests, one at a time under post_mutex.                          *)

Wants(t) ==
  CASE t = "main"   -> main = "hello"
    [] t = "worker" -> worker.at = "want"
    [] t = "reader" -> reader = "ask" \/ (reader = "offer" /\ app = "sub")
    [] t = "ice"    -> ice.at = "send" /\ app # "cli"

LockPost(t) ==
  /\ Wants(t) /\ poster = NoOne
  /\ poster' = t
  /\ UNCHANGED <<app, main, session, link, stats, used, ring, worker, reader, told,
                 engineVars>>

(* The POST ends, in success or not, and nobody but p2p_peer.c looks at    *)
(* the result: it tries join_room again, ten times.                        *)
Posted(t, ok) ==
  /\ poster = t /\ poster' = NoOne
  /\ ok => link.post = "open"
  /\ UNCHANGED <<app, session, link, stats, used, ring, engine, pq>>

JoinRefused(ok) == ~ok /\ app = "cli"

HelloPosted(ok) ==
  /\ Posted("main", ok)
  /\ main' = "sseup" \/ (JoinRefused(ok) /\ main' = "hello")
  /\ UNCHANGED <<worker, reader, told, ice>>

WorkerPostedGivesUp(ok) ==  \* mutant
  /\ Posted("worker", ok) /\ Told(worker.msg, ok)
  /\ worker' = [NoWorker EXCEPT !.at = IF ok THEN "wait" ELSE "done"]
  /\ UNCHANGED <<main, reader, ice>>
WorkerPosted(ok) ==
  /\ Posted("worker", ok) /\ Told(worker.msg, ok)
  /\ worker' = [NoWorker EXCEPT !.at = "wait"]
  /\ UNCHANGED <<main, reader, ice>>

(* while (c->running) *)
NextRead == IF link.running THEN "reading" ELSE "done"

ReaderPosted(ok) ==
  /\ Posted("reader", ok)
  /\ IF reader = "ask" THEN reader' = NextRead /\ UNCHANGED told
                       ELSE reader' = "gather" /\ Told("sdp", ok)
  /\ UNCHANGED <<main, worker, ice>>

IcePosted(ok) ==
  /\ Posted("ice", ok) /\ Told(Head(ice.todo), ok)
  /\ ice' = [at |-> "idle", todo |-> Tail(ice.todo)]
  /\ UNCHANGED <<main, worker, reader>>

-----------------------------------------------------------------------------
(* post_signal_async: a message that finds no worker or a full ring is     *)
(* dropped.  post_worker_running is looked at before the lock is taken, a  *)
(* step earlier.                                                           *)
PutInRing(m) ==
  IF ~RingFull(ring)
  THEN ring' = Enqueued(ring, m) /\ UNCHANGED told
  ELSE Lost({m}) /\ UNCHANGED ring

(* The worker: it waits, takes a message, and posts it outside the lock;   *)
(* when it is told to stop, it leaves what is in the ring.                 *)
WorkerTakesLast ==  \* mutant
  /\ worker.at = "wait" /\ link.workerOn /\ ~RingIdle(ring)
  /\ \E i \in RingSlots :
       /\ NextInRing(i) = ring.tail
       /\ worker' = [at |-> "want", msg |-> ring.slot[i]]
       /\ ring' = [ring EXCEPT !.tail = i, !.slot[i] = NoMessage]
  /\ UNCHANGED <<app, main, session, link, stats, used, reader, poster, told, engineVars>>
WorkerTakes ==
  /\ worker.at = "wait" /\ link.workerOn /\ ~RingIdle(ring)
  /\ worker' = [at |-> "want", msg |-> NextMessage(ring)]
  /\ ring' = Dequeued(ring)
  /\ UNCHANGED <<app, main, session, link, stats, used, reader, poster, told, engineVars>>

WorkerEnds ==
  /\ worker.at = "wait" /\ ~link.workerOn
  /\ worker' = [NoWorker EXCEPT !.at = "done"]
  /\ UNCHANGED <<app, main, session, link, stats, used, ring, reader, poster, told,
                 engineVars>>

-----------------------------------------------------------------------------
(* The reader.                                                             *)

ReaderOnly ==
  UNCHANGED <<app, main, session, link, stats, worker, poster, engine, pq>>

(* An event that comes while the reader waits is handled, whatever running *)
(* says by then.  peer_joined or ice_offer starts an agent, unless there   *)
(* is one; publisher_ready makes p2p_peer.c send request_offer.            *)
ReadEvent ==
  /\ reader = "reading" /\ used.events < MaxEvents
  /\ used' = [used EXCEPT !.events = @ + 1]
  /\ reader' = "offer" \/ (reader' = "ask" /\ app = "cli")
  /\ told' = IF ice.at = "none" THEN NothingTold ELSE told
  /\ ReaderOnly /\ UNCHANGED <<ring, ice>>

(* The description goes out before anything is gathered, through the ring  *)
(* if there is a worker; the publisher of p2pav.c sends it when gathering  *)
(* is done (offer_pending).                                                *)
SendDescription ==
  /\ reader = "offer" /\ app # "sub"
  /\ IF app = "cli" /\ link.workerOn
     THEN reader' = "put" /\ UNCHANGED told
     ELSE reader' = "gather" /\ (IF app = "cli" THEN Lost({"sdp"}) ELSE UNCHANGED told)
  /\ ReaderOnly /\ UNCHANGED <<ring, used, ice>>

PutDescription ==
  /\ reader = "put"
  /\ PutInRing("sdp") /\ reader' = "gather"
  /\ ReaderOnly /\ UNCHANGED <<used, ice>>

Gathered == IF app = "pub" THEN <<"cand", "sdp", "done">> ELSE <<"cand", "done">>

GatherCandidates ==
  /\ reader = "gather"
  /\ ice' = IF ice.at = "none" THEN [at |-> "idle", todo |-> Gathered] ELSE ice
  /\ reader' = NextRead
  /\ ReaderOnly /\ UNCHANGED <<ring, told, used>>

(* The read fails: the connection broke, or was shut down.                 *)
ReaderBreaks ==
  /\ reader = "reading" /\ link.sse = "open"
  /\ reader' = "done"
  /\ ReaderOnly /\ UNCHANGED <<ring, told, used, ice>>
ReaderEnds ==
  /\ reader = "reading" /\ link.sse # "open"
  /\ reader' = "done"
  /\ ReaderOnly /\ UNCHANGED <<ring, told, used, ice>>

-----------------------------------------------------------------------------
(* The agent's thread.                                                     *)

(* So is c->connected, by whoever posts for itself.                        *)
IceSends ==
  /\ ice.at = "idle" /\ ice.todo # << >>
  /\ IF link.connected /\ (app = "cli" => link.workerOn)
     THEN ice' = [at |-> "send", todo |-> ice.todo] /\ UNCHANGED told
     ELSE ice' = [at |-> "idle", todo |-> Tail(ice.todo)] /\ Lost({Head(ice.todo)})
  /\ UNCHANGED <<app, main, session, link, stats, used, ring, worker, reader, poster,
                 engine, pq>>

IceEnqueues ==
  /\ ice.at = "send" /\ app = "cli"
  /\ PutInRing(Head(ice.todo))
  /\ ice' = [at |-> "idle", todo |-> Tail(ice.todo)]
  /\ UNCHANGED <<app, main, session, link, stats, used, worker, reader, poster,
                 engine, pq>>

(* ice_on_recv, and process_recv_queue.                                    *)
IceReceives ==
  /\ ice.at = "idle"
  /\ \E x \in Packets : pq' = Pushed(pq, x)
  /\ UNCHANGED <<app, main, session, link, stats, used, clientVars, ice, engine>>

EngineTakes ==
  /\ engine = "on" /\ pq.count > 0
  /\ pq' = Popped(pq)
  /\ UNCHANGED <<app, main, session, link, stats, used, clientVars, ice, engine>>

-----------------------------------------------------------------------------
(* Statistics: p2pav_set_net_stats_callback and its thread.                *)

StatsOnly == UNCHANGED <<app, link, used, clientVars, engineVars>>

StatsStart ==
  /\ app # "cli" /\ main = "up" /\ ~session.statsOn /\ stats = "none"
  /\ session' = [session EXCEPT !.statsOn = TRUE] /\ stats' = "sleep"
  /\ StatsOnly /\ UNCHANGED main

StatsStop ==
  /\ main = "up" /\ session.statsOn
  /\ session' = [session EXCEPT !.statsOn = FALSE] /\ main' = "unstats"
  /\ StatsOnly /\ UNCHANGED stats

StatsStopped ==
  /\ main = "unstats" /\ stats = "done"
  /\ stats' = "none" /\ main' = "up"
  /\ StatsOnly /\ UNCHANGED session

(* stats_thread_func looks at the flags after its pause and calls back     *)
(* with what it reads from the peers and their connections.                *)
StatsWake ==
  /\ stats = "sleep"
  /\ stats' = IF session.statsOn /\ session.running THEN "call" ELSE "done"
  /\ StatsOnly /\ UNCHANGED <<main, session>>
StatsCalled ==
  /\ stats = "call"
  /\ stats' = IF session.statsOn /\ session.running THEN "sleep" ELSE "done"
  /\ StatsOnly /\ UNCHANGED <<main, session>>

-----------------------------------------------------------------------------
MainStep ==
  \/ StartEngine \/ Connected \/ ReaderStarts \/ JoinFailedWorker
  \/ JoinStats \/ Disconnect \/ JoinWorker \/ Shut \/ JoinReader \/ CloseConns
  \/ Disconnected \/ ConnectAgain \/ StopEngine \/ DestroyAgents \/ DestroyEngine
  \/ StatsStopped
  \/ LockPost("main") \/ (\E ok \in BOOLEAN : HelloPosted(ok))

WorkerStep ==
  \/ WorkerTakes \/ WorkerEnds \/ LockPost("worker")
  \/ \E ok \in BOOLEAN : WorkerPosted(ok)

ReaderStep ==
  \/ SendDescription \/ PutDescription \/ GatherCandidates \/ ReaderEnds
  \/ LockPost("reader")
  \/ \E ok \in BOOLEAN : ReaderPosted(ok)

IceStep ==
  \/ IceSends \/ IceEnqueues \/ LockPost("ice")
  \/ \E ok \in BOOLEAN : IcePosted(ok)

StatsStep == StatsWake \/ StatsCalled

SessionNext ==
  \/ MainStep \/ WorkerStep \/ ReaderStep \/ IceStep \/ StatsStep \/ EngineTakes
  \/ ConnectFails \/ ReaderFails \/ Stop \/ Reconnect
  \/ StatsStart \/ StatsStop
  \/ ReadEvent \/ ReaderBreaks \/ IceReceives

SessionSpec == SessionInit /\ [][SessionNext]_svars

(* Each thread goes on while it can.  post_mutex is handed over fairly     *)
(* enough that a thread that wants it gets it.  Nobody is owed events,     *)
(* packets or failures, nor that the program connects or stops.            *)
SessionFairness ==
  /\ WF_svars(MainStep) /\ WF_svars(WorkerStep) /\ WF_svars(ReaderStep)
  /\ WF_svars(IceStep) /\ WF_svars(StatsStep) /\ WF_svars(EngineTakes)
  /\ \A t \in Threads : SF_svars(LockPost(t))

SessionFairSpec == SessionSpec /\ SessionFairness

-----------------------------------------------------------------------------
(* Properties.                                                             *)

(* The ring of requests (post_signal_async, post_worker_func) is a queue:  *)
(* what goes in comes out in order, once; it is emptied only by connecting.*)
PostFifo == INSTANCE BoundedFifo WITH
  Items <- Messages, Capacity <- PostQueueSize - 1,
  fifo <- RingContents(ring), open <- link.workerOn
PostFifoSpec == PostFifo!FifoSpec

(* So is the queue of packets (p2p_packet_queue.c), from p2p_engine_init   *)
(* to p2p_engine_destroy.                                                  *)
PacketFifo == INSTANCE BoundedFifo WITH
  Items <- Packets, Capacity <- QueueCapacity,
  fifo <- QueueContents(pq), open <- pq.alive
PacketFifoSpec == PacketFifo!FifoSpec

(* p2p_signaling_disconnect, p2pav_session_stop and p2p_engine_destroy     *)
(* release nothing that the threads they own still use: the worker and the *)
(* reader have their connections and post_mutex, the statistics thread has *)
(* an engine, the agent's callback a queue.  (The agents' threads may      *)
(* still be in a POST when its connection goes: see README.)               *)
NoUseAfterFree ==
  /\ worker.at = "want" => link.post = "open" /\ link.postMutex
  /\ worker.at \in {"wait", "want"} => link.queueMutex
  /\ reader \notin {"none", "done"} =>
       link.sse # "null" /\ link.post = "open" /\ link.postMutex
  /\ stats # "none" => engine = "on"
  /\ ice.at # "none" => pq.alive

(* The other side hears of the end of gathering only after the description *)
(* it needs to have an agent, and so it does of candidates, unless the     *)
(* description was given up; the publisher of p2pav.c sends its offer      *)
(* after the candidates (internal_on_ice_gathering_done).                  *)
SignalOrder ==
  ~told.settled => told.early \subseteq (IF app = "pub" THEN {"cand"} ELSE {})

(* A program that stopped has left nothing behind: no thread of its own,   *)
(* no connection, no mutex held.                                           *)
StoppedClean ==
  main = "off" =>
    /\ worker.at = "none" /\ reader = "none" /\ stats = "none"
    /\ ice.at = "none" /\ poster = NoOne
    /\ link.sse = "null" /\ link.post = "null" /\ ~link.workerOn
    /\ ~pq.alive

(* p2pav_session_stop, and the end of main, return: every thread they join *)
(* comes to its end, as long as the server answers or the connection       *)
(* breaks.                                                                 *)
Stops == main = "stats" ~> main = "off"

(* An offer or answer that was queued is taken from the ring by the        *)
(* worker, however often its POSTs fail, unless the worker is told to stop.*)
QueuedTaken ==
  ("sdp" \in InRing /\ link.workerOn) ~> ("sdp" \notin InRing \/ ~link.workerOn)
=============================================================================
