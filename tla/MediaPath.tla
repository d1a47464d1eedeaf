------------------------------ MODULE MediaPath ------------------------------
(***************************************************************************)
(* Video from a publisher to one subscriber, over one QUIC connection      *)
(* after another: p2p_client.c to p2p_peer.c ("cli"), and p2pav.c to       *)
(* p2pav.c ("av").                                                         *)
(*                                                                         *)
(*   capture thread      numbers a frame and puts it in the slot's queue   *)
(*   publisher's engine  sends the cached key frame to a new connection;   *)
(*                       flushes the queue to the video track              *)
(*   xquic (external)    a stream for each frame, so that frames overtake  *)
(*                       each other; the subscriber's buffer hands on key  *)
(*                       frames, and others right after their predecessor  *)
(*   subscriber's engine looks for gaps, waits for a key frame             *)
(*   subscriber's main   watchdog; shows what is in the jitter buffer      *)
(*                                                                         *)
(* A frame is its number and whether it is a key frame; frames fit in one  *)
(* message and in the reassembly buffer, and decoding succeeds.  Audio and *)
(* data, which take the same queue, are left out; a connection ends before *)
(* the next begins.  Time passes in steps of the watchdog, which keep the  *)
(* order of the code's timeouts.                                           *)
(***************************************************************************)
EXTENDS Integers, Sequences, FiniteSets

CONSTANTS
  FrameQueueCap,  \* P2P_FRAME_QUEUE_CAP
  JitterSize,     \* P2P_VIDEO_JITTER_SIZE
  RetryAfter,     \* IDR_REQ_RETRY_US, 1 s
  WaitAfter,      \* IDR_WAIT_TIMEOUT_US, and no video: 5 s
  RestartAfter,   \* no video: 15 s
  MaxFrames,      \* bound: numbers given to frames
  MaxToggles,     \* bound: presses of the video button
  MaxSessions     \* bound: QUIC connections

ASSUME MediaSizes ==
  /\ FrameQueueCap \in Nat \ {0} /\ JitterSize \in Nat \ {0, 1}
  /\ MaxFrames \in Nat \ {0} /\ MaxToggles \in Nat /\ MaxSessions \in Nat
ASSUME MediaTimes ==
  /\ RetryAfter \in Nat /\ WaitAfter \in Nat /\ RestartAfter \in Nat
  /\ 0 < RetryAfter /\ RetryAfter < WaitAfter /\ WaitAfter < RestartAfter

VARIABLES
  app,     \* which of the programs these are
  pub,     \* publisher: video_seq, idr_cache, force_idr
  enc,     \* the capture thread and its frame
  hello,   \* the engine thread in on_quic_connected, and its frame
  conn,    \* publisher's slot: state, session, video_subscribe_id,
           \* video_paused
  queue,   \* frame_queue
  track,   \* xquic, publisher: current group, whether it is given up; and
           \* the frames on their way
  dejit,   \* xquic, subscriber: last frame handed on
  sub,     \* subscriber: last_video_seq, waiting_for_keyframe, request sent
  switch,  \* video_enabled, the messages about it, and whether one was lost
  clock,   \* time since the last video, the last request, the wait began
  got,     \* last frame taken for decoding
  jitter   \* video_jitter, and the last frame shown

pubVars == <<pub, enc, hello, conn, queue, track>>
subVars == <<dejit, sub, switch, clock, got, jitter>>
mvars == <<app, pubVars, subVars>>

None == -1
Seqs == 0 .. MaxFrames - 1
Frames == [seq : Seqs, key : BOOLEAN]
Queued == [seq : Seqs, key : BOOLEAN, session : 1 .. MaxSessions]
Flying == [seq : Seqs, key : BOOLEAN, session : 1 .. MaxSessions,
           group : 0 .. MaxFrames]
NoFrame == [seq |-> 0, key |-> FALSE]

(* Longest wait for a key frame, see WaitBounded. *)
MaxWait == RestartAfter + WaitAfter + 1

Publishers == [seq : 0 .. MaxFrames, cached : BOOLEAN, force : BOOLEAN]
Encoders == [at : {"idle", "numbered"}, frame : Frames]
Hellos == [at : {"no", "want", "numbered"}, frame : Frames]
Connections == [up : BOOLEAN, session : 0 .. MaxSessions, fresh : BOOLEAN,
                subscribed : BOOLEAN, paused : BOOLEAN]
Queues == {q \in Seq(Queued) : Len(q) <= FrameQueueCap}
Tracks == [group : 0 .. MaxFrames, given : BOOLEAN, flying : SUBSET Flying]
Dejitters == [last : 0 .. MaxFrames, posted : BOOLEAN, group : 0 .. MaxFrames]
Subscribers == [last : Seqs \cup {None}, waiting : BOOLEAN, asked : BOOLEAN]
Switches == [on : BOOLEAN, sent : Seq(BOOLEAN), lost : BOOLEAN,
             toggles : 0 .. MaxToggles]
Clocks == [video : (0 .. RestartAfter) \cup {None}, asked : 0 .. WaitAfter,
           waited : 0 .. MaxWait]
Takings == [seq : Seqs \cup {None}, key : BOOLEAN, excused : BOOLEAN,
            back : BOOLEAN]
Jitters == {j \in [held : SUBSET Seqs, shown : Seqs \cup {None}] :
              Cardinality(j.held) <= JitterSize}

MediaTypeOK ==
  /\ app \in {"cli", "av"}
  /\ pub \in Publishers /\ enc \in Encoders /\ hello \in Hellos
  /\ conn \in Connections /\ queue \in Queues /\ track \in Tracks
  /\ dejit \in Dejitters /\ sub \in Subscribers /\ switch \in Switches
  /\ clock \in Clocks /\ got \in Takings /\ jitter \in Jitters

NoTrack == [group |-> 0, given |-> FALSE, flying |-> {}]
NewDejitter == [last |-> 0, posted |-> FALSE, group |-> 0]

MediaInit ==
  /\ app \in {"cli", "av"}
  /\ pub = [seq |-> 0, cached |-> FALSE, force |-> FALSE]
  /\ enc = [at |-> "idle", frame |-> NoFrame]
  /\ hello = [at |-> "no", frame |-> NoFrame]
  /\ conn = [up |-> FALSE, session |-> 0, fresh |-> FALSE, subscribed |-> FALSE,
             paused |-> FALSE]
  /\ switch = [on |-> TRUE, sent |-> << >>, lost |-> FALSE,
              toggles |-> 0]
  /\ queue = << >> /\ track = NoTrack /\ dejit = NewDejitter
  /\ sub = [last |-> None, waiting |-> FALSE, asked |-> FALSE]
  /\ clock = [video |-> None, asked |-> WaitAfter, waited |-> 0]
  /\ got = [seq |-> None, key |-> FALSE, excused |-> FALSE, back |-> FALSE]
  /\ jitter = [held |-> {}, shown |-> None]

-----------------------------------------------------------------------------
(* The publisher's queue of frames.                                        *)

(* frame_queue_push: only while connected; a full queue drops its oldest.  *)
PushUnbounded(frame) ==  \* mutant
  queue' = IF conn.up
           THEN Append(queue, [seq |-> frame.seq, key |-> frame.key,
                               session |-> conn.session])
           ELSE queue
PushKeepsHead(frame) ==  \* mutant
  LET new == [seq |-> frame.seq, key |-> frame.key, session |-> conn.session]
  IN queue' = IF ~conn.up THEN queue
              ELSE IF Len(queue) < FrameQueueCap THEN Append(queue, new)
              ELSE <<new>> \o Tail(queue)
Push(frame) ==
  LET room == IF Len(queue) >= FrameQueueCap THEN Tail(queue) ELSE queue
  IN queue' = IF conn.up
              THEN Append(room, [seq |-> frame.seq, key |-> frame.key,
                                 session |-> conn.session])
              ELSE queue

(* p2pav.c holds send_mutex from the number to the queue. *)
SendMutexFree == app = "av" => enc.at = "idle" /\ hello.at # "numbered"

(* on_video_frame, p2pav_video_send: p2p_client.c makes a requested key    *)
(* frame first, and no frame that nobody would get.  What an application   *)
(* of p2pav.c sends is up to it.                                           *)
CaptureUnlocked ==  \* mutant
  /\ enc.at = "idle" /\ pub.seq < MaxFrames
  /\ app = "cli" => conn.up /\ ~conn.paused
  /\ \E key \in BOOLEAN :
       /\ pub.force /\ app = "cli" => key
       /\ enc' = [at |-> "numbered", frame |-> [seq |-> pub.seq, key |-> key]]
       /\ pub' = [seq |-> pub.seq + 1, cached |-> pub.cached \/ key, force |-> FALSE]
  /\ UNCHANGED <<app, hello, conn, queue, track, subVars>>
Capture ==
  /\ enc.at = "idle" /\ SendMutexFree /\ pub.seq < MaxFrames
  /\ app = "cli" => conn.up /\ ~conn.paused
  /\ \E key \in BOOLEAN :
       /\ pub.force /\ app = "cli" => key
       /\ enc' = [at |-> "numbered", frame |-> [seq |-> pub.seq, key |-> key]]
       /\ pub' = [seq |-> pub.seq + 1, cached |-> pub.cached \/ key, force |-> FALSE]
  /\ UNCHANGED <<app, hello, conn, queue, track, subVars>>

CaptureQueues ==
  /\ enc.at = "numbered"
  /\ IF conn.paused THEN UNCHANGED queue ELSE Push(enc.frame)
  /\ enc' = [at |-> "idle", frame |-> NoFrame]
  /\ UNCHANGED <<app, pub, hello, conn, track, subVars>>

-----------------------------------------------------------------------------
(* The publisher's engine thread.                                          *)

EngineFree == hello.at = "no"

(* xqc_conn_handshake_finished_cb, on both sides; the queue may still hold *)
(* frames of the connection before.                                        *)
QuicConnected ==
  /\ EngineFree /\ ~conn.up /\ conn.session < MaxSessions
  /\ conn' = [up |-> TRUE, session |-> conn.session + 1, fresh |-> TRUE,
              subscribed |-> FALSE, paused |-> conn.paused]
  /\ hello' = [hello EXCEPT !.at = "want"]
  /\ dejit' = NewDejitter
  /\ UNCHANGED <<app, pub, enc, queue, track, sub, switch, clock, got, jitter>>

(* on_quic_connected: send_idr_to_peer numbers the cached key frame anew.  *)
HelloNumbers ==
  /\ hello.at = "want" /\ SendMutexFree /\ pub.seq < MaxFrames
  /\ hello' = [at |-> IF pub.cached THEN "numbered" ELSE "no",
               frame |-> [seq |-> IF pub.cached THEN pub.seq ELSE 0,
                          key |-> pub.cached]]
  /\ pub' = IF pub.cached THEN [pub EXCEPT !.seq = @ + 1] ELSE pub
  /\ UNCHANGED <<app, enc, conn, queue, track, subVars>>

HelloQueues ==
  /\ hello.at = "numbered"
  /\ Push(hello.frame)
  /\ hello' = [at |-> "no", frame |-> NoFrame]
  /\ UNCHANGED <<app, pub, enc, conn, track, subVars>>

(* process_frame_queues before the video is subscribed to: the frames are  *)
(* freed.                                                                  *)
DropUnsubscribedKeeps ==  \* mutant
  /\ EngineFree /\ conn.up /\ ~conn.subscribed
  /\ conn' = [conn EXCEPT !.fresh = FALSE]
  /\ UNCHANGED <<app, pub, enc, hello, track, queue, subVars>>
DropUnsubscribed ==
  /\ EngineFree /\ conn.up /\ ~conn.subscribed
  /\ queue' = << >> /\ conn' = [conn EXCEPT !.fresh = FALSE]
  /\ UNCHANGED <<app, pub, enc, hello, track, subVars>>

(* moq_on_catalog_cb: the subscriber has the list of tracks, which leaves  *)
(* the publisher after the loop that connected it has flushed its queues.  *)
HasCatalog == conn.up /\ ~conn.fresh

(* moq_on_subscribe_cb. *)
Subscribed ==
  /\ EngineFree /\ HasCatalog /\ ~conn.subscribed
  /\ conn' = [conn EXCEPT !.subscribed = TRUE]
  /\ track' = NoTrack
  /\ UNCHANGED <<app, pub, enc, hello, queue, subVars>>

(* p2p_peer_flush_send_queue, a frame at a time: one that is queued        *)
(* meanwhile could as well be queued after the flush.  xquic gives up the  *)
(* groups with frames that it could not send in 500 ms, perhaps the        *)
(* current one with all that is yet to come of it, and asks for a key      *)
(* frame.  It resets their streams: what is on its way may arrive all the  *)
(* same, or not (FrameLost).                                               *)
Flush ==
  /\ EngineFree /\ conn.up /\ conn.subscribed /\ queue # << >>
  /\ LET f == Head(queue) IN
     \E overdue, current \in BOOLEAN :
       LET group == IF f.key THEN track.group + 1 ELSE track.group
           given == track.given \/ current
           sent  == [seq |-> f.seq, key |-> f.key, session |-> f.session,
                     group |-> group]
       IN /\ current => overdue
          /\ track' = [group |-> group, given |-> given /\ ~f.key,
                       flying |-> IF given /\ ~f.key THEN track.flying
                                                     ELSE track.flying \cup {sent}]
          /\ pub' = [pub EXCEPT !.force = @ \/ (overdue /\ ~f.key)]
  /\ queue' = Tail(queue)
  /\ UNCHANGED <<app, enc, hello, conn, subVars>>

(* xqc_conn_close_notify_cb, ICE alive.  Messages on their way are lost.   *)
QuicClosed ==
  /\ EngineFree /\ conn.up
  /\ conn' = [conn EXCEPT !.up = FALSE, !.fresh = FALSE, !.subscribed = FALSE]
  /\ track' = NoTrack
  /\ sub' = [sub EXCEPT !.asked = FALSE]
  /\ clock' = [clock EXCEPT !.waited = 0]
  /\ switch' = [switch EXCEPT !.sent = << >>, !.lost = @ \/ switch.sent # << >>]
  /\ UNCHANGED <<app, pub, enc, hello, queue, dejit, got, jitter>>

(* on_data_recv of an IDR request: force_idr, or the application is asked. *)
(* A subscriber that knows its video track sends the request as an update  *)
(* of its subscription, which also gives up the groups up to the largest   *)
(* it has received, perhaps the current one.                               *)
KeyRequested ==
  /\ EngineFree /\ conn.up /\ sub.asked
  /\ \E current \in BOOLEAN :
       /\ current => conn.subscribed
       /\ track' = [track EXCEPT !.given = @ \/ current]
  /\ sub' = [sub EXCEPT !.asked = FALSE]
  /\ pub' = [pub EXCEPT !.force = TRUE]
  /\ UNCHANGED <<app, enc, hello, conn, queue, dejit, switch, clock, got, jitter>>

(* on_data_recv of VIDEO_STOP and VIDEO_START. *)
ControlReceivedPauses ==  \* mutant
  /\ EngineFree /\ conn.up /\ switch.sent # << >>
  /\ conn' = [conn EXCEPT !.paused = TRUE]
  /\ pub' = [pub EXCEPT !.force = @ \/ Head(switch.sent)]
  /\ switch' = [switch EXCEPT !.sent = Tail(@)]
  /\ UNCHANGED <<app, enc, hello, queue, track, dejit, sub, clock, got, jitter>>
ControlReceived ==
  /\ EngineFree /\ conn.up /\ switch.sent # << >>
  /\ conn' = [conn EXCEPT !.paused = ~Head(switch.sent)]
  /\ pub' = [pub EXCEPT !.force = @ \/ Head(switch.sent)]
  /\ switch' = [switch EXCEPT !.sent = Tail(@)]
  /\ UNCHANGED <<app, enc, hello, queue, track, dejit, sub, clock, got, jitter>>

-----------------------------------------------------------------------------
(* xquic to the subscriber.                                                *)

Outdated(f) ==
  dejit.posted /\ (f.group < dejit.group
                   \/ (f.group = dejit.group /\ f.seq <= dejit.last))

Decodable(f) == f.key \/ f.seq = dejit.last + 1

(* A frame that is never handed on: its stream was reset, or the buffer    *)
(* was flushed.                                                            *)
FrameLost ==
  /\ \E f \in track.flying : track' = [track EXCEPT !.flying = @ \ {f}]
  /\ UNCHANGED <<app, pub, enc, hello, conn, queue, subVars>>

-----------------------------------------------------------------------------
(* The subscriber.                                                         *)

(* Are numbers missing between the frame before and this one? *)
Gap(f) == sub.last # None /\ f.seq > sub.last + 1

(* request_idr_if_needed, and its two lines in p2pav.c: is a request due?  *)
(* A second one within 200 ms is not.                                      *)
RequestDue(waiting, soon) ==
  IF waiting /\ app = "cli" THEN clock.asked >= RetryAfter
                            ELSE clock.asked > 0 \/ ~soon

(* p2p_video_jitter_push: a full buffer makes room by dropping its newest. *)
Held(seq) ==
  LET newest == CHOOSE s \in jitter.held : \A t \in jitter.held : t <= s
  IN IF Cardinality(jitter.held) >= JitterSize
     THEN (jitter.held \ {newest}) \cup {seq} ELSE jitter.held \cup {seq}

(* process_complete_frame: while the video is off, frames are not decoded. *)
Take(f) ==
  IF ~switch.on
  THEN got' = [got EXCEPT !.excused = TRUE] /\ UNCHANGED jitter
  ELSE /\ got' = [seq |-> f.seq, key |-> f.key, excused |-> got.excused /\ ~f.key,
                  back |-> got.back \/ f.seq < got.seq]
       /\ jitter' = IF app = "cli" THEN [jitter EXCEPT !.held = Held(f.seq)]
                                   ELSE jitter

(* While it waits for a key frame, it drops others.                        *)
ReceiveForgets(f) ==  \* mutant
  IF sub.waiting /\ ~f.key
  THEN /\ sub' = [sub EXCEPT !.last = f.seq, !.waiting = FALSE]
       /\ UNCHANGED <<clock, got, jitter>>
  ELSE /\ sub' = [sub EXCEPT !.last = f.seq, !.waiting = FALSE]
       /\ clock' = [clock EXCEPT !.video = 0, !.waited = 0]
       /\ Take(f)
Receive(f) ==
  \E soon \in BOOLEAN :
    LET asks == Gap(f) /\ RequestDue(sub.waiting, soon)
        wait == sub.waiting \/ asks
        time == IF asks THEN [clock EXCEPT !.asked = 0] ELSE clock
    IN /\ sub' = [last |-> f.seq, waiting |-> wait /\ ~f.key,
                  asked |-> sub.asked \/ asks]
       /\ IF wait /\ ~f.key
          THEN clock' = time /\ UNCHANGED <<got, jitter>>
          ELSE clock' = [time EXCEPT !.video = 0, !.waited = 0] /\ Take(f)

Deliver ==
  /\ conn.up
  /\ \E f \in track.flying :
       /\ ~Outdated(f) /\ Decodable(f)
       /\ track' = [track EXCEPT !.flying = @ \ {f}]
       /\ dejit' = [last |-> f.seq, posted |-> TRUE, group |-> f.group]
       /\ Receive(f)
  /\ UNCHANGED <<app, pub, enc, hello, conn, queue, switch>>

(* p2p_peer_send_control_datachannel, p2p_peer_send_idr_request.           *)
CanSendControl == conn.up

(* The button of p2p_peer.c: the message is lost without a connection, and *)
(* may be while the connection is being set up.                            *)
Toggle ==
  /\ app = "cli" /\ switch.toggles < MaxToggles
  /\ \E sends \in BOOLEAN :
       /\ IF sends THEN CanSendControl ELSE ~conn.subscribed
       /\ switch' = [on |-> ~switch.on,
                     sent |-> IF sends THEN Append(switch.sent, ~switch.on)
                                       ELSE switch.sent,
                     lost |-> switch.lost \/ ~sends,
                     toggles |-> switch.toggles + 1]
  /\ UNCHANGED <<app, pubVars, dejit, sub, clock, got, jitter>>

(* The main loop of p2p_peer.c, once in each step of time: the watchdog    *)
(* asks for a key frame; the wait for one times out; after 15 s it gives   *)
(* up, which stops the watchdog.                                           *)
Elapsed(t, limit) == IF t = None THEN None ELSE IF t < limit THEN t + 1 ELSE t

WatchdogNeverRests ==  \* mutant
  /\ app = "cli" /\ conn.up
  /\ LET video   == Elapsed(clock.video, RestartAfter)
         since   == Elapsed(clock.asked, WaitAfter)
         late    == switch.on /\ video # None /\ video >= WaitAfter
         asks    == late /\ (sub.waiting => since >= RetryAfter)
         wait    == sub.waiting \/ asks
         expired == wait /\ ~asks /\ since >= WaitAfter
         waiting == wait /\ ~expired
     IN /\ clock' = [video |-> video, asked |-> IF asks THEN 0 ELSE since,
                     waited |-> IF waiting THEN clock.waited + 1 ELSE 0]
        /\ sub' = [sub EXCEPT !.waiting = waiting, !.asked = @ \/ asks]
        /\ got' = [got EXCEPT !.excused = @ \/ expired]
  /\ UNCHANGED <<app, pubVars, dejit, switch, jitter>>
Watchdog ==
  /\ app = "cli" /\ conn.up
  /\ LET video   == Elapsed(clock.video, RestartAfter)
         since   == Elapsed(clock.asked, WaitAfter)
         late    == switch.on /\ video # None /\ video >= WaitAfter
         asks    == late /\ (sub.waiting => since >= RetryAfter)
         wait    == sub.waiting \/ asks
         expired == wait /\ ~asks /\ since >= WaitAfter
         waiting == wait /\ ~expired
     IN /\ clock' = [video |-> IF switch.on /\ video = RestartAfter THEN None ELSE video,
                     asked |-> IF asks THEN 0 ELSE since,
                     waited |-> IF waiting THEN clock.waited + 1 ELSE 0]
        /\ sub' = [sub EXCEPT !.waiting = waiting, !.asked = @ \/ asks]
        /\ got' = [got EXCEPT !.excused = @ \/ expired]
  /\ UNCHANGED <<app, pubVars, dejit, switch, jitter>>

(* No connection: the main loop only lets time pass. *)
TimePasses ==
  /\ app = "cli" /\ ~conn.up
  /\ clock' = [clock EXCEPT !.video = Elapsed(@, RestartAfter),
                            !.asked = Elapsed(@, WaitAfter)]
  /\ UNCHANGED <<app, pubVars, dejit, sub, switch, got, jitter>>

(* p2p_video_jitter_pop: the oldest frame, if there are two or it is due.  *)
ShowNewest ==  \* mutant
  /\ \E s \in jitter.held :
       /\ \A t \in jitter.held : t <= s
       /\ jitter' = [held |-> jitter.held \ {s}, shown |-> s]
  /\ UNCHANGED <<app, pubVars, dejit, sub, switch, clock, got>>
Show ==
  /\ \E s \in jitter.held :
       /\ \A t \in jitter.held : s <= t
       /\ jitter' = [held |-> jitter.held \ {s}, shown |-> s]
  /\ UNCHANGED <<app, pubVars, dejit, sub, switch, clock, got>>

(* p2pav_video_request_keyframe, which an application calls when it likes; *)
(* and the timer with which xquic's buffer asks when nothing can be        *)
(* decoded.                                                                *)
RequestKeyframe ==
  /\ CanSendControl /\ (app = "av" \/ conn.subscribed)
  /\ sub' = [sub EXCEPT !.asked = TRUE]
  /\ UNCHANGED <<app, pubVars, dejit, switch, clock, got, jitter>>

-----------------------------------------------------------------------------
MediaNext ==
  \/ Capture \/ CaptureQueues
  \/ QuicConnected \/ HelloNumbers \/ HelloQueues \/ DropUnsubscribed
  \/ Subscribed \/ Flush \/ QuicClosed \/ KeyRequested
  \/ ControlReceived
  \/ FrameLost \/ Deliver
  \/ RequestKeyframe \/ Toggle \/ Watchdog \/ TimePasses \/ Show

MediaSpec == MediaInit /\ [][MediaNext]_mvars

-----------------------------------------------------------------------------
(* Properties.                                                             *)

(* A frame that was queued for one connection is never written to another, *)
(* though nothing clears the queue when a connection ends.                 *)
NoStaleFrame ==
  \A f \in track.flying : f.session = conn.session

(* p2pav.c queues frames in the order of their numbers, whichever thread   *)
(* sends them; what is numbered is queued after all that was queued.       *)
SendOrder ==
  app = "av" =>
    /\ \A i, j \in DOMAIN queue : i < j => queue[i].seq < queue[j].seq
    /\ \A i \in DOMAIN queue :
         /\ enc.at = "numbered" => queue[i].seq < enc.frame.seq
         /\ hello.at = "numbered" => queue[i].seq < hello.frame.seq

(* A subscriber of p2pav.c never goes back to an older frame, not even     *)
(* across connections.                                                     *)
Forward == app = "av" => ~got.back

(* A frame that is no key frame is taken only after its predecessor, also  *)
(* across waits, watchdog and reconnects; unless p2p_peer.c has given up   *)
(* waiting for a key frame, or has received frames while its video was     *)
(* off, or it is frame 1, which xquic's buffer takes to be the successor   *)
(* of none.                                                                *)
Grounded ==
  [][got'.seq # got.seq /\ ~got'.key =>
       \/ got'.seq = got.seq + 1
       \/ got.excused
       \/ got'.seq = 1]_mvars

(* On a connection that stays up, p2p_peer.c does not wait for a key frame *)
(* for ever: the watchdog's requests put the timeout of the wait off, but  *)
(* the watchdog gives up after RestartAfter, and then the wait times out.  *)
WaitBounded == clock.waited < MaxWait

(* The publisher pauses exactly for the subscriber whose video is off, as  *)
(* soon as the messages have arrived; unless one was lost with its         *)
(* connection, or for want of one: nothing repeats it, and video_paused    *)
(* survives reconnects.                                                    *)
PauseAgrees ==
  ~switch.lost /\ switch.sent = << >> => conn.paused = ~switch.on

(* p2p_peer.c shows frames in the order of their numbers if it has taken   *)
(* them in that order.                                                     *)
ShownInOrder ==
  [][jitter'.shown # jitter.shown /\ ~got.back =>
       jitter'.shown > jitter.shown]_mvars
=============================================================================
