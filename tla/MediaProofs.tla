----------------------------- MODULE MediaProofs -----------------------------
(*****************************************************************************)
(* Proofs about the media path.  An inductive invariant in eight parts: the*)
(* types; groups of frames, which cannot outnumber the frames; whose the   *)
(* frames in the queue are; messages about the video button; how long the  *)
(* wait for a key frame still lasts; the order of the numbers, from the    *)
(* queue to what the subscriber took; what was taken; the jitter buffer.   *)
(* Each part has a lemma that every step keeps it.                         *)
(*****************************************************************************)
EXTENDS MediaPath, FiniteSetTheorems, SequenceTheorems, WellFoundedInduction,
        NaturalsInduction, TLAPS

-----------------------------------------------------------------------------
(* The jitter buffer.                                                      *)
(*                                                                         *)
(* A buffer that holds frames holds a newest one.                          *)
LEMMA NewestHeld ==
  ASSUME NEW H \in SUBSET Seqs, H # {}
  PROVE  \E s \in H : \A t \in H : t <= s
<1> DEFINE R == OpToRel(<, Nat)
           T == {MaxFrames - s : s \in H}
<1>1. T \subseteq Nat /\ T # {}
  <2>1. \A s \in H : MaxFrames - s \in Nat
    BY MediaSizes DEF Seqs
  <2>2. \E s \in H : MaxFrames - s \in T
    OBVIOUS
  <2> HIDE DEF R
  <2> QED BY <2>1, <2>2
<1>2. PICK m \in T : \A n \in T : <<n, m>> \notin R
  BY <1>1, WFMin, NatLessThanWellFounded, Zenon
<1>3. \A n \in T : m <= n
  <2>1. \A n \in T : ~(n < m)
    BY <1>1, <1>2, Zenon DEF OpToRel
  <2> QED BY <1>1, <2>1
<1>4. PICK s \in H : m = MaxFrames - s
  BY <1>2
<1>5. ASSUME NEW t \in H PROVE t <= s
  <2>1. m <= MaxFrames - t
    BY <1>3
  <2> QED BY <2>1, <1>4, MediaSizes DEF Seqs
<1> QED BY <1>5

(* Adding a frame makes the buffer larger by at most one.                  *)
LEMMA AddingOne ==
  ASSUME NEW S, NEW x, IsFiniteSet(S), Cardinality(S) \in Nat
  PROVE  /\ Cardinality(S \cup {x}) \in Nat
         /\ Cardinality(S \cup {x}) <= Cardinality(S) + 1
BY FS_AddElement

(* Taking one frame from the buffer.                                       *)
LEMMA HeldShrinks ==
  ASSUME NEW H \in SUBSET Seqs, Cardinality(H) <= JitterSize, NEW s
  PROVE  /\ IsFiniteSet(H) /\ Cardinality(H) \in Nat
         /\ IsFiniteSet(H \ {s}) /\ Cardinality(H \ {s}) \in Nat
         /\ Cardinality(H \ {s}) = IF s \in H THEN Cardinality(H) - 1
                                              ELSE Cardinality(H)
         /\ Cardinality(H \ {s}) <= JitterSize
<1>1. IsFiniteSet(Seqs)
  BY MediaSizes, FS_Interval DEF Seqs
<1>2. IsFiniteSet(H)
  BY <1>1, FS_Subset
<1>3. /\ Cardinality(H) \in Nat /\ IsFiniteSet(H \ {s})
      /\ Cardinality(H \ {s}) \in Nat
      /\ Cardinality(H \ {s}) = IF s \in H THEN Cardinality(H) - 1
                                           ELSE Cardinality(H)
  BY <1>2, FS_RemoveElement, FS_CardinalityType
<1> QED BY <1>2, <1>3, MediaSizes

(* Pushing into the buffer keeps its bound.                                *)
LEMMA HeldTypes ==
  ASSUME jitter.held \in SUBSET Seqs, Cardinality(jitter.held) <= JitterSize,
         NEW n \in Seqs
  PROVE  Held(n) \in SUBSET Seqs /\ Cardinality(Held(n)) <= JitterSize
<1> DEFINE H == jitter.held
<1>1. /\ IsFiniteSet(H) /\ Cardinality(H) \in Nat
      /\ \A s : /\ IsFiniteSet(H \ {s}) /\ Cardinality(H \ {s}) \in Nat
               /\ Cardinality(H \ {s}) = IF s \in H THEN Cardinality(H) - 1
                                                    ELSE Cardinality(H)
  BY HeldShrinks
<1>2. CASE Cardinality(H) >= JitterSize
  <2>1. H # {}
    BY <1>1, <1>2, FS_EmptySet, MediaSizes
  <2>2. PICK s \in H : \A t \in H : t <= s
    BY <2>1, NewestHeld
  <2> DEFINE newest == CHOOSE x \in H : \A t \in H : t <= x
  <2>3. newest \in H
    BY <2>2
  <2>4. Held(n) = (H \ {newest}) \cup {n}
    BY <1>2 DEF Held
  <2> HIDE DEF newest
  <2>5. Cardinality(H \ {newest}) <= JitterSize - 1
    BY <1>1, <1>2, <2>3, MediaSizes
  <2>6. /\ Cardinality(Held(n)) \in Nat
        /\ Cardinality(Held(n)) <= Cardinality(H \ {newest}) + 1
    BY <1>1, <2>4, AddingOne
  <2>7. Held(n) \in SUBSET Seqs
    BY <2>4
  <2>8. Cardinality(H \ {newest}) \in Nat
    BY <1>1
  <2> QED BY <2>5, <2>6, <2>7, <2>8, MediaSizes
<1>3. CASE ~(Cardinality(H) >= JitterSize)
  <2>1. Held(n) = H \cup {n}
    BY <1>3 DEF Held
  <2>2. /\ Cardinality(H \cup {n}) \in Nat
        /\ Cardinality(H \cup {n}) <= Cardinality(H) + 1
    BY <1>1, AddingOne
  <2> QED BY <1>1, <1>3, <2>1, <2>2, MediaSizes
<1> QED BY <1>2, <1>3

-----------------------------------------------------------------------------
(* The inductive invariant.                                                *)

Pending(x) == IF x.at = "numbered" THEN 1 ELSE 0

(* Groups begin with frames that were numbered.                            *)
GroupsInv ==
  track.group + Len(queue) + Pending(enc) + Pending(hello) <= pub.seq

(* What an established connection has queued is its own.                   *)
OwnFrames == \A i \in DOMAIN queue : queue[i].session = conn.session
ConnInv ==
  /\ conn.up => conn.session >= 1
  /\ conn.subscribed => conn.up /\ ~conn.fresh
  /\ conn.up /\ ~conn.fresh => OwnFrames
  /\ ~conn.subscribed => track.flying = {}
  /\ NoStaleFrame

(* The last message about the button says what the button says.            *)
ControlInv ==
  /\ switch.sent # << >> => conn.up
  /\ ~switch.lost =>
       IF switch.sent = << >> THEN conn.paused = ~switch.on
                              ELSE switch.sent[Len(switch.sent)] = switch.on

(* What is left of a wait, in steps of the watchdog, at the most: until 15 s*)
(* without video stop the requests, and the timeout after the last of them.*)
Left ==
  IF clock.video = None THEN WaitAfter - clock.asked - 1
  ELSE IF clock.video = RestartAfter THEN 2 * WaitAfter - clock.asked
  ELSE RestartAfter - clock.video + 2 * WaitAfter - 1

WaitInv ==
  /\ IF dejit.posted THEN dejit.last = sub.last ELSE dejit.last = 0
  /\ ~conn.up \/ ~sub.waiting => clock.waited = 0
  /\ sub.waiting =>
       /\ app = "cli"
       /\ clock.video # None => clock.video >= WaitAfter
       /\ clock.video = RestartAfter => clock.asked >= 1
       /\ clock.waited + Left <= RestartAfter + WaitAfter
       /\ clock.waited <= RestartAfter + WaitAfter

(* n is below all numbers still to be sent.                                *)
Before(n) ==
  /\ n < pub.seq
  /\ \A i \in DOMAIN queue : n < queue[i].seq
  /\ enc.at = "numbered" => n < enc.frame.seq
  /\ hello.at = "numbered" => n < hello.frame.seq

QueueInv ==
  /\ \A i, j \in DOMAIN queue : i < j => queue[i].seq < queue[j].seq
  /\ \A i \in DOMAIN queue :
       /\ queue[i].seq < pub.seq
       /\ enc.at = "numbered" => queue[i].seq < enc.frame.seq
       /\ hello.at = "numbered" => queue[i].seq < hello.frame.seq
  /\ enc.at = "numbered" => enc.frame.seq < pub.seq /\ hello.at # "numbered"
  /\ hello.at = "numbered" => hello.frame.seq < pub.seq
FlyingInv ==
  /\ \A f \in track.flying : Before(f.seq) /\ f.group <= track.group
  /\ \A f, g \in track.flying : f.group < g.group => f.seq < g.seq
TakenInv ==
  /\ ~got.back /\ Before(got.seq)
  /\ dejit.posted =>
       /\ Before(dejit.last) /\ got.seq <= dejit.last
       /\ \A f \in track.flying : f.group > dejit.group => f.seq > dejit.last
  /\ ~dejit.posted => \A f \in track.flying : got.seq < f.seq
OrderInv == app = "av" => QueueInv /\ FlyingInv /\ TakenInv

(* Unless excused, the frame taken last is the one handed on last.         *)
GroundInv ==
  dejit.posted /\ ~sub.waiting /\ ~got.excused => got.seq = dejit.last

JitterInv ==
  ~got.back => /\ jitter.shown <= got.seq
               /\ \A s \in jitter.held : jitter.shown <= s /\ s <= got.seq

MediaInv ==
  /\ MediaTypeOK /\ GroupsInv /\ ConnInv /\ ControlInv /\ WaitInv /\ OrderInv
  /\ GroundInv /\ JitterInv

-----------------------------------------------------------------------------
(* Types of what the actions write.                                        *)

(* A step of time keeps a clock within its limit.                          *)
LEMMA ElapsedTypes ==
  ASSUME NEW L \in Nat, NEW t \in (0 .. L) \cup {None}
  PROVE  /\ Elapsed(t, L) \in (0 .. L) \cup {None}
         /\ t \in Nat => Elapsed(t, L) \in 0 .. L
BY DEF Elapsed, None

LEMMA ClockTypes ==
  ASSUME NEW c \in Clocks
  PROVE  /\ [c EXCEPT !.waited = 0] \in Clocks
         /\ [c EXCEPT !.asked = 0] \in Clocks
         /\ [c EXCEPT !.video = 0, !.waited = 0] \in Clocks
         /\ [c EXCEPT !.video = Elapsed(@, RestartAfter),
                      !.asked = Elapsed(@, WaitAfter)] \in Clocks
<1>1. 0 \in 0 .. MaxWait /\ 0 \in 0 .. WaitAfter /\ 0 \in 0 .. RestartAfter
  BY MediaTimes DEF MaxWait
<1>2. /\ Elapsed(c.video, RestartAfter) \in (0 .. RestartAfter) \cup {None}
      /\ Elapsed(c.asked, WaitAfter) \in 0 .. WaitAfter
  <2>1. /\ c.video \in (0 .. RestartAfter) \cup {None}
        /\ c.asked \in 0 .. WaitAfter /\ c.asked \in Nat
    BY MediaTimes DEF Clocks
  <2> QED BY <2>1, MediaTimes, ElapsedTypes
<1> QED BY <1>1, <1>2 DEF Clocks

LEMMA QueueTypes ==
  ASSUME queue \in Queues, conn \in Connections, conn.up => conn.session >= 1,
         NEW f \in Frames, Push(f)
  PROVE  queue' \in Queues
<1>1. CASE ~conn.up
  BY <1>1 DEF Push
<1>2. CASE conn.up
  <2> DEFINE room == IF Len(queue) >= FrameQueueCap THEN Tail(queue) ELSE queue
             new == [seq |-> f.seq, key |-> f.key, session |-> conn.session]
  <2>1. new \in Queued
    BY <1>2 DEF Frames, Queued, Connections
  <2>2. queue \in Seq(Queued) /\ Len(queue) <= FrameQueueCap
    BY DEF Queues
  <2>3. room \in Seq(Queued) /\ Len(room) < FrameQueueCap
    <3>1. CASE Len(queue) >= FrameQueueCap
      <4>1. queue # << >>
        BY <2>2, <3>1, MediaSizes
      <4> QED BY <2>2, <3>1, <4>1, MediaSizes, HeadTailProperties
    <3>2. CASE ~(Len(queue) >= FrameQueueCap)
      BY <2>2, <3>2, MediaSizes
    <3> QED BY <3>1, <3>2
  <2>4. queue' = Append(room, new)
    BY <1>2 DEF Push
  <2> HIDE DEF room, new
  <2> QED BY <2>1, <2>3, <2>4, MediaSizes, AppendProperties DEF Queues
<1> QED BY <1>1, <1>2

LEMMA FlushTypes ==
  ASSUME track \in Tracks, queue \in Queues, queue # << >>, pub \in Publishers,
         GroupsInv, Flush
  PROVE  track' \in Tracks
<1> DEFINE f == Head(queue)
<1>1. f \in Queued
  BY HeadTailProperties DEF Queues
<1> DEFINE group == IF f.key THEN track.group + 1 ELSE track.group
           sent  == [seq |-> f.seq, key |-> f.key, session |-> f.session,
                     group |-> group]
<1>2. PICK current \in BOOLEAN :
        LET given == track.given \/ current
        IN track' = [group |-> group, given |-> given /\ ~f.key,
                     flying |-> IF given /\ ~f.key THEN track.flying
                                                   ELSE track.flying \cup {sent}]
  BY DEF Flush
<1>3. track.flying \subseteq Flying
  BY DEF Tracks
<1>5. group \in 0 .. MaxFrames
  <2>1. track.group + 1 <= MaxFrames
    <3>1. Len(queue) \in Nat /\ Len(queue) >= 1
      BY HeadTailProperties, LenProperties, EmptySeq DEF Queues
    <3>2. Pending(enc) >= 0 /\ Pending(hello) >= 0 /\ Pending(enc) \in Nat
          /\ Pending(hello) \in Nat
      BY DEF Pending
    <3>3. pub.seq <= MaxFrames /\ pub.seq \in Nat /\ track.group \in Nat
      BY MediaSizes DEF Publishers, Tracks
    <3> QED BY <3>1, <3>2, <3>3, MediaSizes DEF GroupsInv
  <2> QED BY <2>1, MediaSizes DEF Tracks
<1>6. sent \in Flying
  BY <1>1, <1>5 DEF Queued, Flying
<1>7. /\ track'.group = group /\ track'.given \in BOOLEAN
      /\ track'.flying \subseteq track.flying \cup {sent}
      /\ track' = [group |-> track'.group, given |-> track'.given,
                   flying |-> track'.flying]
  BY <1>2
<1> HIDE DEF group, sent
<1> QED BY <1>3, <1>5, <1>6, <1>7 DEF Tracks

LEMMA ReceiveTypes ==
  ASSUME MediaTypeOK, NEW f \in Flying, Receive(f)
  PROVE  /\ sub' \in Subscribers /\ clock' \in Clocks
         /\ got' \in Takings /\ jitter' \in Jitters
<1> USE DEF MediaTypeOK
<1>1. f.seq \in Seqs /\ f.key \in BOOLEAN
  BY DEF Flying
<1> DEFINE asks(soon) == Gap(f) /\ RequestDue(sub.waiting, soon)
           wait(soon) == sub.waiting \/ asks(soon)
           time(soon) == IF asks(soon) THEN [clock EXCEPT !.asked = 0] ELSE clock
<1>2. PICK soon \in BOOLEAN :
        /\ sub' = [last |-> f.seq, waiting |-> wait(soon) /\ ~f.key,
                   asked |-> sub.asked \/ asks(soon)]
        /\ IF wait(soon) /\ ~f.key
           THEN clock' = time(soon) /\ UNCHANGED <<got, jitter>>
           ELSE clock' = [time(soon) EXCEPT !.video = 0, !.waited = 0] /\ Take(f)
  BY DEF Receive
<1>3. sub' \in Subscribers
  <2>1. (wait(soon) /\ ~f.key) \in BOOLEAN /\ (sub.asked \/ asks(soon)) \in BOOLEAN
    OBVIOUS
  <2> HIDE DEF asks, wait
  <2> QED BY <1>1, <1>2, <2>1 DEF Subscribers
<1>4. clock' \in Clocks
  <2>1. time(soon) \in Clocks
    BY ClockTypes
  <2> HIDE DEF time, wait
  <2> QED BY <1>2, <2>1, ClockTypes
<1>5. ASSUME Take(f) PROVE got' \in Takings /\ jitter' \in Jitters
  <2>1. CASE ~switch.on
    BY <1>5, <2>1 DEF Take, Takings
  <2>2. CASE switch.on
    <3>1. /\ (got.excused /\ ~f.key) \in BOOLEAN
          /\ (got.back \/ f.seq < got.seq) \in BOOLEAN
      OBVIOUS
    <3>2. got' = [seq |-> f.seq, key |-> f.key, excused |-> got.excused /\ ~f.key,
                  back |-> got.back \/ f.seq < got.seq]
      BY <1>5, <2>2 DEF Take
    <3>3. got' \in Takings
      BY <1>1, <3>1, <3>2 DEF Takings
    <3>4. Held(f.seq) \in SUBSET Seqs /\ Cardinality(Held(f.seq)) <= JitterSize
      BY <1>1, HeldTypes DEF Jitters
    <3>5. [jitter EXCEPT !.held = Held(f.seq)] \in Jitters
      BY <3>4 DEF Jitters
    <3> QED BY <1>5, <2>2, <3>3, <3>5 DEF Take
  <2> QED BY <2>1, <2>2
<1>6. got' \in Takings /\ jitter' \in Jitters
  <2> HIDE DEF wait
  <2> QED BY <1>2, <1>5
<1> QED BY <1>3, <1>4, <1>6

-----------------------------------------------------------------------------
(* Waiting for a key frame.                                                *)

(* While a connection lasts, a frame that is no key frame follows the one  *)
(* handed on before: it shows no gap.                                      *)
LEMMA NoGapInside ==
  ASSUME MediaInv, NEW f \in Flying, Decodable(f), ~f.key PROVE ~Gap(f)
<1>1. f.seq = dejit.last + 1
  BY DEF Decodable
<1>2. /\ f.seq \in Nat /\ sub.last \in Int /\ (sub.last # None => sub.last >= 0)
  BY DEF MediaInv, MediaTypeOK, Flying, Seqs, Subscribers, None
<1>3. CASE dejit.posted
  BY <1>1, <1>2, <1>3 DEF MediaInv, WaitInv, Gap
<1>4. CASE ~dejit.posted
  BY <1>1, <1>2, <1>4 DEF MediaInv, WaitInv, Gap
<1> QED BY <1>3, <1>4

(* A step of the watchdog uses up some of what is left of the wait.        *)
LEMMA WatchdogWaits ==
  ASSUME MediaInv, Watchdog PROVE clock' \in Clocks /\ WaitInv'
<1> DEFINE video   == Elapsed(clock.video, RestartAfter)
           since   == Elapsed(clock.asked, WaitAfter)
           late    == switch.on /\ video # None /\ video >= WaitAfter
           asks    == late /\ (sub.waiting => since >= RetryAfter)
           wait    == sub.waiting \/ asks
           expired == wait /\ ~asks /\ since >= WaitAfter
           waiting == wait /\ ~expired
           newVideo == IF switch.on /\ video = RestartAfter THEN None ELSE video
           newAsked == IF asks THEN 0 ELSE since
           newWaited == IF waiting THEN clock.waited + 1 ELSE 0
<1>1. /\ clock' = [video |-> newVideo, asked |-> newAsked, waited |-> newWaited]
      /\ sub' = [sub EXCEPT !.waiting = waiting, !.asked = @ \/ asks]
      /\ app = "cli" /\ conn.up /\ UNCHANGED <<app, conn, dejit>>
  BY DEF Watchdog, pubVars
<1>2. /\ clock.video \in (0 .. RestartAfter) \cup {None}
      /\ clock.asked \in 0 .. WaitAfter /\ clock.waited \in Nat
      /\ sub.waiting \in BOOLEAN /\ switch.on \in BOOLEAN
  BY MediaTimes DEF MediaInv, MediaTypeOK, Clocks, Subscribers, Switches, MaxWait
<1>3. /\ clock'.video = newVideo /\ clock'.asked = newAsked /\ clock'.waited = newWaited
      /\ sub'.waiting = waiting /\ sub'.last = sub.last
  BY <1>1 DEF MediaInv, MediaTypeOK, Subscribers
<1>4. /\ newVideo \in (0 .. RestartAfter) \cup {None}
      /\ newAsked \in 0 .. WaitAfter
  BY <1>2, MediaTimes DEF Elapsed, None
<1>5. ASSUME waiting
      PROVE  /\ newVideo # None => newVideo >= WaitAfter
             /\ newVideo = RestartAfter => newAsked >= 1
             /\ newWaited + Left' <= RestartAfter + WaitAfter
             /\ newWaited <= RestartAfter + WaitAfter
  <2>1. Left' = IF newVideo = None THEN WaitAfter - newAsked - 1
                ELSE IF newVideo = RestartAfter THEN 2 * WaitAfter - newAsked
                ELSE RestartAfter - newVideo + 2 * WaitAfter - 1
    BY <1>3 DEF Left
  <2>2. newWaited = clock.waited + 1
    BY <1>5
  <2>3. sub.waiting =>
          /\ clock.video # None => clock.video >= WaitAfter
          /\ clock.video = RestartAfter => clock.asked >= 1
          /\ clock.waited + Left <= RestartAfter + WaitAfter
          /\ clock.waited <= RestartAfter + WaitAfter
    BY DEF MediaInv, WaitInv
  <2>4. ~sub.waiting => clock.waited = 0
    BY DEF MediaInv, WaitInv
  <2>5. CASE ~sub.waiting
    BY <1>2, <1>5, <2>1, <2>2, <2>4, <2>5, MediaTimes DEF Elapsed, None
  <2>6. CASE sub.waiting /\ clock.video = None
    BY <1>2, <1>5, <2>1, <2>2, <2>3, <2>6, MediaTimes DEF Elapsed, None, Left
  <2>7. CASE sub.waiting /\ clock.video = RestartAfter
    BY <1>2, <1>5, <2>1, <2>2, <2>3, <2>7, MediaTimes DEF Elapsed, None, Left
  <2>8. CASE sub.waiting /\ clock.video \in 0 .. RestartAfter - 1
    BY <1>2, <1>5, <2>1, <2>2, <2>3, <2>8, MediaTimes DEF Elapsed, None, Left
  <2> QED BY <1>2, <2>5, <2>6, <2>7, <2>8, MediaTimes DEF None
<1>6. ~waiting => newWaited = 0
  OBVIOUS
<1> HIDE DEF video, since, late, asks, wait, expired, waiting, newVideo, newAsked, newWaited
<1>7. newWaited \in 0 .. MaxWait
  <2>1. CASE waiting
    <3>1. newWaited <= RestartAfter + WaitAfter
      BY <1>5, <2>1
    <3>2. newWaited \in Nat
      BY <1>2, <2>1 DEF newWaited
    <3> QED BY <3>1, <3>2, MediaTimes DEF MaxWait
  <2>2. CASE ~waiting
    BY <1>6, <2>2, MediaTimes DEF MaxWait
  <2> QED BY <2>1, <2>2
<1>8. clock' \in Clocks
  BY <1>1, <1>4, <1>7 DEF Clocks
<1>9. WaitInv'
  BY <1>1, <1>3, <1>5, <1>6 DEF WaitInv, MediaInv
<1> QED BY <1>8, <1>9

(* Every step keeps the bound of the wait.                                 *)
LEMMA WaitKept ==
  ASSUME MediaInv, [MediaNext]_mvars PROVE WaitInv'
<1> USE DEF MediaInv
<1>1. ASSUME UNCHANGED <<app, conn, dejit, clock, sub>> PROVE WaitInv'
  BY <1>1 DEF WaitInv, Left
<1>2. CASE \/ UNCHANGED mvars \/ Capture \/ CaptureQueues \/ HelloNumbers
           \/ HelloQueues \/ Flush \/ FrameLost \/ Toggle \/ Show
  BY <1>1, <1>2 DEF mvars, pubVars, subVars, Capture, CaptureQueues, HelloNumbers,
     HelloQueues, Flush, FrameLost, Toggle, Show
<1>3. CASE DropUnsubscribed \/ Subscribed \/ ControlReceived
  <2>1. conn'.up = conn.up /\ UNCHANGED <<app, dejit, clock, sub>>
    BY <1>3 DEF DropUnsubscribed, Subscribed, ControlReceived, MediaTypeOK,
       Connections, subVars
  <2> QED BY <2>1 DEF WaitInv, Left
<1>4. CASE QuicConnected
  BY <1>4 DEF QuicConnected, NewDejitter, WaitInv, Left
<1>5. CASE QuicClosed
  <2>1. /\ clock'.waited = 0 /\ clock'.video = clock.video
        /\ clock'.asked = clock.asked /\ clock.waited \in Nat
        /\ sub'.waiting = sub.waiting /\ sub'.last = sub.last
        /\ UNCHANGED <<app, dejit>>
    BY <1>5, MediaTimes DEF QuicClosed, MediaTypeOK, Clocks, Subscribers, MaxWait
  <2>2. Left' = Left /\ Left \in Int
    BY <2>1, MediaTimes DEF Left, MediaTypeOK, Clocks, None
  <2> QED BY <2>1, <2>2, MediaTimes DEF WaitInv
<1>6. CASE KeyRequested \/ RequestKeyframe
  <2>1. /\ sub'.waiting = sub.waiting /\ sub'.last = sub.last
        /\ UNCHANGED <<app, conn, dejit, clock>>
    BY <1>6 DEF KeyRequested, RequestKeyframe, MediaTypeOK, Subscribers, pubVars
  <2> QED BY <2>1 DEF WaitInv, Left
<1>7. CASE Deliver
  <2>1. PICK f \in track.flying :
          /\ Decodable(f) /\ Receive(f)
          /\ dejit' = [last |-> f.seq, posted |-> TRUE, group |-> f.group]
    BY <1>7 DEF Deliver
  <2>2. f \in Flying
    BY DEF MediaTypeOK, Tracks
  <2>3. sub'.last = f.seq /\ UNCHANGED <<app, conn>>
    BY <1>7, <2>1 DEF Receive, Deliver
  <2> DEFINE asks(soon) == Gap(f) /\ RequestDue(sub.waiting, soon)
             wait(soon) == sub.waiting \/ asks(soon)
             time(soon) == IF asks(soon) THEN [clock EXCEPT !.asked = 0] ELSE clock
  <2>4. PICK soon \in BOOLEAN :
          /\ sub' = [last |-> f.seq, waiting |-> wait(soon) /\ ~f.key,
                     asked |-> sub.asked \/ asks(soon)]
          /\ IF wait(soon) /\ ~f.key
             THEN clock' = time(soon) /\ UNCHANGED <<got, jitter>>
             ELSE clock' = [time(soon) EXCEPT !.video = 0, !.waited = 0] /\ Take(f)
    BY <2>1 DEF Receive
  <2>5. time(soon) \in Clocks
    BY ClockTypes DEF MediaTypeOK
  <2>6. ~(wait(soon) /\ ~f.key) => clock'.waited = 0
    <3> HIDE DEF time, wait
    <3> QED BY <2>4, <2>5 DEF Clocks
  <2>7. CASE f.key
    <3>1. ~sub'.waiting /\ clock'.waited = 0
      BY <2>7, <2>4, <2>6
    <3> QED BY <2>1, <2>3, <3>1 DEF WaitInv
  <2>8. CASE ~f.key
    <3>1. ~Gap(f)
      BY <2>1, <2>2, <2>8, NoGapInside
    <3>2. sub.waiting => sub'.waiting /\ clock' = clock
      BY <2>8, <2>4, <3>1
    <3>3. ~sub.waiting => ~sub'.waiting /\ clock'.waited = 0
      BY <2>8, <2>4, <2>6, <3>1
    <3> QED BY <2>1, <2>3, <3>2, <3>3 DEF WaitInv, Left
  <2> QED BY <2>7, <2>8
<1>8. CASE Watchdog
  BY <1>8, WatchdogWaits
<1>9. CASE TimePasses
  <2>1. /\ clock'.waited = clock.waited /\ ~conn.up
        /\ clock'.video = Elapsed(clock.video, RestartAfter)
        /\ clock'.asked = Elapsed(clock.asked, WaitAfter)
        /\ UNCHANGED <<app, conn, dejit, sub>>
    BY <1>9 DEF TimePasses, MediaTypeOK, Clocks, pubVars
  <2>2. clock.waited = 0
    BY <2>1 DEF WaitInv
  <2>3. /\ clock.video \in (0 .. RestartAfter) \cup {None}
        /\ clock.asked \in 0 .. WaitAfter
    BY DEF MediaTypeOK, Clocks
  <2>4. ASSUME sub.waiting, clock.video # None => clock.video >= WaitAfter
        PROVE  /\ clock'.video # None => clock'.video >= WaitAfter
               /\ clock'.video = RestartAfter => clock'.asked >= 1
               /\ 0 + Left' <= RestartAfter + WaitAfter
               /\ 0 <= RestartAfter + WaitAfter
    BY <2>1, <2>3, <2>4, MediaTimes DEF Elapsed, None, Left
  <2>5. clock'.waited = 0
    BY <2>1, <2>2
  <2> QED BY <2>1, <2>4, <2>5 DEF WaitInv
<1> QED BY <1>2, <1>3, <1>4, <1>5, <1>6, <1>7, <1>8, <1>9 DEF MediaNext

(* Every step keeps the types.                                             *)
LEMMA TypesKept ==
  ASSUME MediaInv, [MediaNext]_mvars PROVE MediaTypeOK'
<1> USE MediaSizes, MediaTimes DEF MediaInv, MediaTypeOK
<1>1. CASE UNCHANGED mvars
  BY <1>1 DEF mvars, pubVars, subVars
<1>2. CASE Capture
  <2>1. enc' \in Encoders
    <3>1. pub.seq \in Seqs
      BY <1>2 DEF Capture, Publishers, Seqs
    <3> QED BY <1>2, <3>1 DEF Capture, Encoders, Frames
  <2>2. pub' \in Publishers
    BY <1>2 DEF Capture, Publishers, Seqs, None
  <2> QED BY <1>2, <2>1, <2>2 DEF Capture, pubVars, subVars
<1>3. CASE CaptureQueues
  <2>1. queue' \in Queues
    BY <1>3, QueueTypes DEF CaptureQueues, Encoders, ConnInv
  <2>2. enc' \in Encoders
    BY <1>3 DEF CaptureQueues, Push, Encoders, Seqs, None, Frames, NoFrame
  <2> QED BY <1>3, <2>1, <2>2 DEF CaptureQueues, pubVars, subVars
<1>4. CASE QuicConnected
  <2>1. conn' \in Connections
    BY <1>4 DEF QuicConnected, NewDejitter, Connections, Seqs, None
  <2>2. hello' \in Hellos
    BY <1>4 DEF QuicConnected, NewDejitter, Hellos, Seqs, None, Frames, NoFrame
  <2>3. dejit' \in Dejitters
    BY <1>4 DEF QuicConnected, NewDejitter, Dejitters, Seqs, None
  <2> QED BY <1>4, <2>1, <2>2, <2>3 DEF QuicConnected, pubVars, subVars
<1>5. CASE HelloNumbers
  <2>1. hello' \in Hellos
    <3>1. (IF pub.cached THEN pub.seq ELSE 0) \in Seqs /\ pub.cached \in BOOLEAN
      BY <1>5 DEF HelloNumbers, Publishers, Seqs
    <3>2. (IF pub.cached THEN "numbered" ELSE "no") \in {"no", "want", "numbered"}
      OBVIOUS
    <3> QED BY <1>5, <3>1, <3>2 DEF HelloNumbers, Hellos, Frames
  <2>2. pub' \in Publishers
    BY <1>5 DEF HelloNumbers, Publishers, Seqs, None
  <2> QED BY <1>5, <2>1, <2>2 DEF HelloNumbers, pubVars, subVars
<1>6. CASE HelloQueues
  <2>1. queue' \in Queues
    BY <1>6, QueueTypes DEF HelloQueues, Hellos, ConnInv
  <2>2. hello' \in Hellos
    BY <1>6 DEF HelloQueues, Push, Hellos, Seqs, None, Frames, NoFrame
  <2> QED BY <1>6, <2>1, <2>2 DEF HelloQueues, pubVars, subVars
<1>7. CASE DropUnsubscribed
  <2>1. queue' \in Queues
    BY <1>7 DEF DropUnsubscribed, Queues, Seqs, None, Queued
  <2>2. conn' \in Connections
    BY <1>7 DEF DropUnsubscribed, Connections, Seqs, None
  <2> QED BY <1>7, <2>1, <2>2 DEF DropUnsubscribed, pubVars, subVars
<1>8. CASE Subscribed
  <2>1. conn' \in Connections
    BY <1>8 DEF Subscribed, NoTrack, Connections, Seqs, None
  <2>2. track' \in Tracks
    BY <1>8 DEF Subscribed, NoTrack, Tracks, Seqs, None
  <2> QED BY <1>8, <2>1, <2>2 DEF Subscribed, pubVars, subVars
<1>9. CASE Flush
  <2>1. track' \in Tracks
    BY <1>9, FlushTypes DEF Flush
  <2>2. pub' \in Publishers
    BY <1>9 DEF Flush, Publishers, Seqs, None
  <2>3. queue' \in Queues
    BY <1>9 DEF Flush, Queues, Seqs, None, Queued
  <2> QED BY <1>9, <2>1, <2>2, <2>3 DEF Flush, pubVars, subVars
<1>10. CASE QuicClosed
  <2>1. conn' \in Connections
    BY <1>10 DEF QuicClosed, NoTrack, Connections, Seqs, None
  <2>2. track' \in Tracks
    BY <1>10 DEF QuicClosed, NoTrack, Tracks, Seqs, None
  <2>3. sub' \in Subscribers
    BY <1>10 DEF QuicClosed, NoTrack, Subscribers, Seqs, None
  <2>4. clock' \in Clocks
    BY <1>10, ClockTypes DEF QuicClosed
  <2>5. switch' \in Switches
    <3>1. /\ (switch.lost \/ switch.sent # << >>) \in BOOLEAN
          /\ << >> \in Seq(BOOLEAN)
      OBVIOUS
    <3> QED BY <1>10, <3>1 DEF QuicClosed, Switches
  <2> QED BY <1>10, <2>1, <2>2, <2>3, <2>4, <2>5 DEF QuicClosed, pubVars, subVars
<1>11. CASE KeyRequested
  <2>1. sub' \in Subscribers
    BY <1>11 DEF KeyRequested, Subscribers, Seqs, None
  <2>2. pub' \in Publishers
    BY <1>11 DEF KeyRequested, Publishers, Seqs, None
  <2>3. track' \in Tracks
    <3> PICK current \in BOOLEAN : track' = [track EXCEPT !.given = @ \/ current]
      BY <1>11 DEF KeyRequested
    <3> QED BY DEF Tracks
  <2> QED BY <1>11, <2>1, <2>2, <2>3 DEF KeyRequested, pubVars, subVars
<1>12. CASE ControlReceived
  <2>1. conn' \in Connections
    BY <1>12 DEF ControlReceived, Connections, Seqs, None
  <2>2. pub' \in Publishers
    BY <1>12 DEF ControlReceived, Publishers, Seqs, None
  <2>3. switch' \in Switches
    <3>1. Tail(switch.sent) \in Seq(BOOLEAN)
      BY <1>12, HeadTailProperties DEF ControlReceived, Switches
    <3> QED BY <1>12, <3>1 DEF ControlReceived, Switches
  <2> QED BY <1>12, <2>1, <2>2, <2>3 DEF ControlReceived, pubVars, subVars
<1>13. CASE FrameLost
  <2>1. track' \in Tracks
    BY <1>13 DEF FrameLost, Tracks, Seqs, None
  <2> QED BY <1>13, <2>1 DEF FrameLost, pubVars, subVars
<1>14. CASE Deliver
  <2>0. PICK f \in track.flying :
          /\ track' = [track EXCEPT !.flying = @ \ {f}]
          /\ dejit' = [last |-> f.seq, posted |-> TRUE, group |-> f.group]
          /\ Receive(f)
    BY <1>14 DEF Deliver
  <2>1. track' \in Tracks
    BY <2>0 DEF Tracks
  <2>2. dejit' \in Dejitters
    BY <2>0 DEF Tracks, Flying, Dejitters, Seqs
  <2>3. sub' \in Subscribers
    BY <2>0, ReceiveTypes DEF Tracks
  <2>4. clock' \in Clocks
    BY <2>0, ReceiveTypes DEF Tracks
  <2>5. got' \in Takings
    BY <2>0, ReceiveTypes DEF Tracks
  <2>6. jitter' \in Jitters
    BY <2>0, ReceiveTypes DEF Tracks
  <2> QED BY <1>14, <2>1, <2>2, <2>3, <2>4, <2>5, <2>6 DEF Deliver, pubVars, subVars
<1>15. CASE RequestKeyframe
  <2>1. sub' \in Subscribers
    BY <1>15 DEF RequestKeyframe, Subscribers, Seqs, None
  <2> QED BY <1>15, <2>1 DEF RequestKeyframe, pubVars, subVars
<1>16. CASE Toggle
  <2>1. switch' \in Switches
    <3> PICK sends \in BOOLEAN : Toggle!2!(sends)
      BY <1>16 DEF Toggle
    <3>1. /\ (~switch.on) \in BOOLEAN /\ (switch.lost \/ ~sends) \in BOOLEAN
          /\ switch.sent \in Seq(BOOLEAN)
      BY DEF Switches
    <3>2. Append(switch.sent, ~switch.on) \in Seq(BOOLEAN)
      BY <3>1, AppendProperties
    <3>3. switch.toggles + 1 \in 0 .. MaxToggles
      BY <1>16 DEF Toggle, Switches
    <3> QED BY <1>16, <3>1, <3>2, <3>3 DEF Toggle, Switches
  <2> QED BY <1>16, <2>1 DEF Toggle, pubVars, subVars
<1>17. CASE Watchdog
  <2>1. clock' \in Clocks
    BY <1>17, WatchdogWaits
  <2>2. sub' \in Subscribers
    BY <1>17 DEF Watchdog, Elapsed, Subscribers, Seqs, None
  <2>3. got' \in Takings
    BY <1>17 DEF Watchdog, Elapsed, Takings, Seqs, None
  <2> QED BY <1>17, <2>1, <2>2, <2>3 DEF Watchdog, pubVars, subVars
<1>18. CASE TimePasses
  <2>1. clock' \in Clocks
    BY <1>18, ClockTypes DEF TimePasses
  <2> QED BY <1>18, <2>1 DEF TimePasses, pubVars, subVars
<1>19. CASE Show
  <2>1. jitter' \in Jitters
    <3>1. PICK s \in jitter.held : jitter' = [held |-> jitter.held \ {s}, shown |-> s]
      BY <1>19 DEF Show
    <3>2. /\ jitter.held \in SUBSET Seqs /\ Cardinality(jitter.held) <= JitterSize
      BY DEF Jitters
    <3>3. Cardinality(jitter.held \ {s}) <= JitterSize
      BY <3>2, HeldShrinks
    <3> QED BY <3>1, <3>2, <3>3 DEF Jitters
  <2> QED BY <1>19, <2>1 DEF Show, pubVars, subVars
<1> QED BY <1>1, <1>2, <1>3, <1>4, <1>5, <1>6, <1>7, <1>8, <1>9, <1>10, <1>11,
   <1>12, <1>13, <1>14, <1>15, <1>16, <1>17, <1>18, <1>19 DEF MediaNext

-----------------------------------------------------------------------------
(* What pushing and flushing do to the queue.                              *)

LEMMA TailContents ==
  ASSUME NEW S, NEW q \in Seq(S), q # << >>
  PROVE  /\ Head(q) = q[1] /\ 1 \in DOMAIN q
         /\ Len(Tail(q)) = Len(q) - 1 /\ Len(q) \in Nat
         /\ \A i \in DOMAIN Tail(q) : i \in Nat /\ i + 1 \in DOMAIN q /\ Tail(q)[i] = q[i + 1]
<1>1. Len(q) \in Nat /\ Len(q) >= 1 /\ DOMAIN q = 1 .. Len(q)
  BY EmptySeq, LenProperties
<1>2. /\ Tail(q) \in Seq(S) /\ Len(Tail(q)) = Len(q) - 1
      /\ \A i \in 1 .. Len(Tail(q)) : Tail(q)[i] = q[i + 1]
  BY HeadTailProperties
<1>3. DOMAIN Tail(q) = 1 .. Len(q) - 1
  BY <1>1, <1>2, LenProperties
<1> QED BY <1>1, <1>2, <1>3

LEMMA LastOfTail ==
  ASSUME NEW S, NEW q \in Seq(S), q # << >>
  PROVE  IF Len(q) = 1 THEN Tail(q) = << >> /\ Head(q) = q[Len(q)]
                       ELSE Tail(q) # << >> /\ Tail(q)[Len(Tail(q))] = q[Len(q)]
<1>1. /\ Tail(q) \in Seq(S) /\ Len(Tail(q)) = Len(q) - 1
      /\ \A i \in 1 .. Len(Tail(q)) : Tail(q)[i] = q[i + 1]
  BY HeadTailProperties
<1>2. Len(q) \in Nat /\ Len(q) >= 1 /\ Head(q) = q[1]
  BY EmptySeq, LenProperties, TailContents
<1>3. CASE Len(q) = 1
  <2>1. Len(Tail(q)) = 0
    BY <1>1, <1>3
  <2>2. Tail(q) = << >>
    BY <1>1, <2>1, EmptySeq
  <2> QED BY <1>2, <1>3, <2>2
<1>4. CASE Len(q) # 1
  <2>1. Len(Tail(q)) \in 1 .. Len(Tail(q)) /\ Len(Tail(q)) + 1 = Len(q)
    BY <1>1, <1>2, <1>4
  <2>2. Tail(q) # << >>
    <3>1. Len(Tail(q)) >= 1
      BY <2>1
    <3>2. Len(<< >>) = 0
      BY EmptySeq
    <3> QED BY <3>1, <3>2
  <2>3. Tail(q)[Len(Tail(q))] = q[Len(q)]
    BY <1>1, <2>1
  <2> QED BY <1>4, <2>2, <2>3
<1> QED BY <1>3, <1>4

LEMMA PushContents ==
  ASSUME queue \in Queues, conn \in Connections, conn.up, conn.session >= 1,
         NEW f \in Frames, Push(f)
  PROVE  /\ Len(queue') \in Nat /\ Len(queue') <= Len(queue) + 1
         /\ Len(queue) \in Nat
         /\ DOMAIN queue' = 1 .. Len(queue')
         /\ queue'[Len(queue')] = [seq |-> f.seq, key |-> f.key, session |-> conn.session]
         /\ \E k \in {0, 1} : \A i \in DOMAIN queue' :
              i # Len(queue') => i + k \in DOMAIN queue /\ queue'[i] = queue[i + k]
<1> DEFINE room == IF Len(queue) >= FrameQueueCap THEN Tail(queue) ELSE queue
           new == [seq |-> f.seq, key |-> f.key, session |-> conn.session]
<1>1. new \in Queued
  BY DEF Frames, Queued, Connections
<1>2. queue \in Seq(Queued) /\ Len(queue) \in Nat /\ DOMAIN queue = 1 .. Len(queue)
  BY LenProperties DEF Queues
<1>3. room \in Seq(Queued) /\ Len(room) <= Len(queue)
      /\ \E k \in {0, 1} : \A i \in 1 .. Len(room) :
              i + k \in DOMAIN queue /\ room[i] = queue[i + k]
  <2>1. CASE Len(queue) >= FrameQueueCap
    <3>1. queue # << >>
      BY <1>2, <2>1, MediaSizes, EmptySeq
    <3>2. Tail(queue) \in Seq(Queued) /\ Len(Tail(queue)) = Len(queue) - 1
          /\ DOMAIN Tail(queue) = 1 .. Len(queue) - 1
      BY <1>2, <3>1, HeadTailProperties, LenProperties
    <3>3. \A i \in 1 .. Len(room) : i + 1 \in DOMAIN queue /\ room[i] = queue[i + 1]
      BY <1>2, <2>1, <3>1, <3>2, TailContents
    <3> QED BY <1>2, <2>1, <3>2, <3>3
  <2>2. CASE ~(Len(queue) >= FrameQueueCap)
    <3>1. \A i \in 1 .. Len(room) : i + 0 \in DOMAIN queue /\ room[i] = queue[i + 0]
      BY <1>2, <2>2
    <3> QED BY <1>2, <2>2, <3>1
  <2> QED BY <2>1, <2>2
<1>4. queue' = Append(room, new)
  BY DEF Push
<1> HIDE DEF room, new
<1>5. /\ queue' \in Seq(Queued) /\ Len(queue') = Len(room) + 1 /\ Len(room) \in Nat
      /\ queue'[Len(queue')] = new /\ DOMAIN queue' = 1 .. Len(queue')
      /\ \A i \in 1 .. Len(room) : queue'[i] = room[i]
  BY <1>1, <1>3, <1>4, AppendProperties, LenProperties
<1>6. PICK k \in {0, 1} : \A i \in 1 .. Len(room) :
                             i + k \in DOMAIN queue /\ room[i] = queue[i + k]
  BY <1>3
<1>7. ASSUME NEW i \in DOMAIN queue', i # Len(queue')
      PROVE  i + k \in DOMAIN queue /\ queue'[i] = queue[i + k]
  <2>1. i \in 1 .. Len(room)
    BY <1>5, <1>7
  <2> QED BY <1>5, <1>6, <2>1
<1>8. Len(queue') \in Nat /\ Len(queue') <= Len(queue) + 1
  BY <1>2, <1>3, <1>5
<1>9. queue'[Len(queue')] = [seq |-> f.seq, key |-> f.key, session |-> conn.session]
  BY <1>5 DEF new
<1> QED BY <1>2, <1>5, <1>7, <1>8, <1>9

-----------------------------------------------------------------------------
(* Groups, connections, messages about the video button.                   *)

(* Every step keeps the count of groups.                                   *)
LEMMA GroupsKept ==
  ASSUME MediaInv, [MediaNext]_mvars PROVE GroupsInv'
<1> USE DEF MediaInv, GroupsInv
<1>1. /\ track.group \in Nat /\ pub.seq \in Nat
      /\ Pending(enc) \in Nat /\ Pending(hello) \in Nat
      /\ queue \in Seq(Queued) /\ Len(queue) \in Nat
      /\ queue \in Queues /\ conn \in Connections /\ (conn.up => conn.session >= 1)
  BY LenProperties DEF MediaTypeOK, Tracks, Publishers, Pending, Queues, ConnInv
<1>2. CASE UNCHANGED <<track, queue, enc, hello, pub>>
  BY <1>2 DEF Pending
<1>3. CASE \/ UNCHANGED mvars \/ RequestKeyframe \/ Toggle \/ Watchdog \/ TimePasses \/ Show
  BY <1>2, <1>3 DEF mvars, pubVars, RequestKeyframe, Toggle, Watchdog, TimePasses, Show
<1>4. CASE Capture
  <2>1. pub'.seq = pub.seq + 1 /\ UNCHANGED <<track, queue, hello>>
    BY <1>4 DEF Capture, MediaTypeOK, Publishers
  <2>2. Pending(enc') = 1 /\ Pending(enc) = 0
    BY <1>4 DEF Capture, Pending
  <2> QED BY <1>1, <2>1, <2>2
<1>5. CASE CaptureQueues
  <2>1. Pending(enc') = 0 /\ Pending(enc) = 1 /\ UNCHANGED <<track, hello, pub>>
    BY <1>5 DEF CaptureQueues, Pending
  <2>2. Len(queue') \in Nat /\ Len(queue') <= Len(queue) + 1
    <3>1. CASE conn.paused \/ ~conn.up
      BY <1>1, <1>5, <3>1 DEF CaptureQueues, Push
    <3>2. CASE ~conn.paused /\ conn.up
      <4>1. enc.frame \in Frames /\ Push(enc.frame)
        BY <1>5, <3>2 DEF CaptureQueues, MediaTypeOK, Encoders
      <4> QED BY <1>1, <3>2, <4>1, PushContents
    <3> QED BY <3>1, <3>2
  <2> QED BY <1>1, <2>1, <2>2
<1>6. CASE QuicConnected
  <2>1. UNCHANGED <<track, queue, enc, pub>>
    BY <1>6 DEF QuicConnected
  <2>2. Pending(hello') = 0 /\ Pending(hello) = 0
    BY <1>6 DEF QuicConnected, EngineFree, Pending, MediaTypeOK, Hellos
  <2> QED BY <2>1, <2>2
<1>7. CASE HelloNumbers
  <2>1. /\ Pending(hello) = 0 /\ Pending(hello') = (IF pub.cached THEN 1 ELSE 0)
        /\ pub'.seq = (IF pub.cached THEN pub.seq + 1 ELSE pub.seq)
        /\ UNCHANGED <<track, queue, enc>>
    BY <1>7 DEF HelloNumbers, Pending, MediaTypeOK, Publishers
  <2> QED BY <1>1, <2>1
<1>8. CASE HelloQueues
  <2>1. Pending(hello') = 0 /\ Pending(hello) = 1 /\ UNCHANGED <<track, enc, pub>>
    BY <1>8 DEF HelloQueues, Pending
  <2>2. Len(queue') \in Nat /\ Len(queue') <= Len(queue) + 1
    <3>1. CASE ~conn.up
      BY <1>1, <1>8, <3>1 DEF HelloQueues, Push
    <3>2. CASE conn.up
      <4>1. hello.frame \in Frames /\ Push(hello.frame)
        BY <1>8 DEF HelloQueues, MediaTypeOK, Hellos
      <4> QED BY <1>1, <3>2, <4>1, PushContents
    <3> QED BY <3>1, <3>2
  <2> QED BY <1>1, <2>1, <2>2
<1>9. CASE DropUnsubscribed
  <2>1. Len(queue') = 0 /\ UNCHANGED <<track, enc, hello, pub>>
    BY <1>9, EmptySeq DEF DropUnsubscribed
  <2> QED BY <1>1, <2>1
<1>10. CASE Subscribed \/ QuicClosed
  <2>1. track'.group = 0 /\ UNCHANGED <<queue, enc, hello, pub>>
    BY <1>10 DEF Subscribed, QuicClosed, NoTrack
  <2> QED BY <1>1, <2>1
<1>11. CASE Flush
  <2>1. /\ track'.group = (IF Head(queue).key THEN track.group + 1 ELSE track.group)
        /\ queue # << >> /\ queue' = Tail(queue) /\ UNCHANGED <<enc, hello>>
    BY <1>11 DEF Flush
  <2>2. pub'.seq = pub.seq
    BY <1>11 DEF Flush, MediaTypeOK, Publishers
  <2>3. Len(queue') = Len(queue) - 1
    BY <1>1, <2>1, TailContents
  <2> QED BY <1>1, <2>1, <2>2, <2>3
<1>12. CASE KeyRequested \/ ControlReceived
  <2>1. /\ pub'.seq = pub.seq /\ track'.group = track.group
        /\ UNCHANGED <<queue, enc, hello>>
    BY <1>12 DEF KeyRequested, ControlReceived, MediaTypeOK, Publishers, Tracks
  <2> QED BY <2>1
<1>13. CASE FrameLost \/ Deliver
  <2>1. track'.group = track.group /\ UNCHANGED <<queue, enc, hello, pub>>
    BY <1>13 DEF FrameLost, Deliver, MediaTypeOK, Tracks
  <2> QED BY <2>1
<1> QED BY <1>3, <1>4, <1>5, <1>6, <1>7, <1>8, <1>9, <1>10, <1>11, <1>12, <1>13
   DEF MediaNext

(* Every step keeps what the messages say about the button.                *)
LEMMA ControlKept ==
  ASSUME MediaInv, [MediaNext]_mvars PROVE ControlInv'
<1> USE DEF MediaInv, ControlInv
<1>1. /\ switch \in Switches /\ switch.sent \in Seq(BOOLEAN) /\ switch.on \in BOOLEAN
      /\ Len(switch.sent) \in Nat /\ conn \in Connections
  BY LenProperties DEF MediaTypeOK, Switches
<1>2. CASE UNCHANGED <<switch, conn>>
  BY <1>2
<1>3. CASE \/ UNCHANGED mvars \/ Capture \/ CaptureQueues \/ HelloNumbers
           \/ HelloQueues \/ Flush \/ KeyRequested \/ FrameLost \/ Deliver
           \/ RequestKeyframe \/ Watchdog \/ TimePasses \/ Show
  BY <1>2, <1>3 DEF mvars, pubVars, subVars, Capture, CaptureQueues, HelloNumbers,
     HelloQueues, Flush, KeyRequested, FrameLost, Deliver, RequestKeyframe, Watchdog,
     TimePasses, Show
<1>4. CASE QuicConnected \/ DropUnsubscribed \/ Subscribed
  <2>1. conn'.paused = conn.paused /\ (conn.up => conn'.up) /\ UNCHANGED switch
    BY <1>1, <1>4 DEF QuicConnected, DropUnsubscribed, Subscribed, Connections, subVars
  <2> QED BY <2>1
<1>5. CASE QuicClosed
  <2>1. /\ conn'.paused = conn.paused /\ switch'.sent = << >> /\ switch'.on = switch.on
        /\ switch'.lost = (switch.lost \/ switch.sent # << >>)
    BY <1>1, <1>5 DEF QuicClosed, Connections, Switches
  <2> QED BY <2>1
<1>6. CASE ControlReceived
  <2>1. /\ conn'.paused = ~Head(switch.sent) /\ conn'.up /\ switch'.sent = Tail(switch.sent)
        /\ switch'.on = switch.on /\ switch'.lost = switch.lost /\ switch.sent # << >>
    BY <1>1, <1>6 DEF ControlReceived, Connections, Switches
  <2>2. IF Len(switch.sent) = 1
        THEN Tail(switch.sent) = << >> /\ Head(switch.sent) = switch.sent[Len(switch.sent)]
        ELSE /\ Tail(switch.sent) # << >>
             /\ Tail(switch.sent)[Len(Tail(switch.sent))] = switch.sent[Len(switch.sent)]
    BY <1>1, <2>1, LastOfTail
  <2> QED BY <2>1, <2>2
<1>7. CASE Toggle
  <2>1. PICK sends \in BOOLEAN :
          /\ sends => conn.up
          /\ switch' = [on |-> ~switch.on,
                        sent |-> IF sends THEN Append(switch.sent, ~switch.on)
                                          ELSE switch.sent,
                        lost |-> switch.lost \/ ~sends,
                        toggles |-> switch.toggles + 1]
    BY <1>7 DEF Toggle, CanSendControl
  <2>2. UNCHANGED conn
    BY <1>7 DEF Toggle, pubVars
  <2>3. CASE sends
    <3>1. /\ switch'.sent = Append(switch.sent, ~switch.on) /\ switch'.on = ~switch.on
      BY <2>1, <2>3
    <3>2. /\ switch'.sent # << >> /\ switch'.sent[Len(switch'.sent)] = ~switch.on
      BY <1>1, <3>1, AppendProperties, EmptySeq
    <3> QED BY <2>1, <2>2, <2>3, <3>1, <3>2
  <2>4. CASE ~sends
    <3>1. switch'.lost /\ switch'.sent = switch.sent
      BY <2>1, <2>4
    <3> QED BY <2>2, <3>1
  <2> QED BY <2>3, <2>4
<1> QED BY <1>3, <1>4, <1>5, <1>6, <1>7 DEF MediaNext

LEMMA QueueEntries ==
  ASSUME queue \in Queues
  PROVE  /\ DOMAIN queue = 1 .. Len(queue) /\ Len(queue) \in Nat
         /\ queue \in Seq(Queued)
         /\ \A i \in DOMAIN queue : queue[i] \in Queued /\ queue[i].seq \in Nat
<1>1. queue \in Seq(Queued)
  BY DEF Queues
<1>2. queue \in [1 .. Len(queue) -> Queued] /\ Len(queue) \in Nat
  BY <1>1, LenProperties
<1> QED BY <1>1, <1>2 DEF Queued, Seqs

(* A flush takes the oldest frame, and adds at most that to the frames on  *)
(* their way, in the newest group.                                         *)
LEMMA FlushEffect ==
  ASSUME MediaInv, Flush
  PROVE  /\ 1 \in DOMAIN queue /\ conn.subscribed
         /\ \A i \in DOMAIN queue' : i + 1 \in DOMAIN queue /\ queue'[i] = queue[i + 1]
         /\ track'.group \in Nat /\ track'.group >= track.group
         /\ \A f \in track'.flying :
              \/ f \in track.flying
              \/ /\ f.seq = queue[1].seq /\ f.session = queue[1].session
                 /\ f.group = track'.group
         /\ pub'.seq = pub.seq
         /\ UNCHANGED <<app, enc, hello, conn, dejit, got>>
<1> USE DEF MediaInv, MediaTypeOK
<1>1. queue # << >> /\ queue \in Seq(Queued) /\ queue' = Tail(queue) /\ conn.subscribed
  BY QueueEntries DEF Flush
<1>2. /\ 1 \in DOMAIN queue /\ Head(queue) = queue[1]
      /\ \A i \in DOMAIN queue' : i + 1 \in DOMAIN queue /\ queue'[i] = queue[i + 1]
  BY <1>1, TailContents
<1>3. pub'.seq = pub.seq /\ UNCHANGED <<app, enc, hello, conn, dejit, got>>
  BY DEF Flush, Publishers, subVars
<1> DEFINE g == IF Head(queue).key THEN track.group + 1 ELSE track.group
           sent == [seq |-> Head(queue).seq, key |-> Head(queue).key,
                    session |-> Head(queue).session, group |-> g]
<1>4. track'.group = g /\ track'.flying \subseteq track.flying \cup {sent}
  BY DEF Flush
<1>5. track'.group \in Nat /\ track'.group >= track.group
  BY <1>4 DEF Tracks
<1>6. sent.seq = queue[1].seq /\ sent.session = queue[1].session /\ sent.group = track'.group
  BY <1>2, <1>4
<1> HIDE DEF sent, g
<1> QED BY <1>1, <1>2, <1>3, <1>4, <1>5, <1>6

(* Every step keeps the frames of a connection its own.                    *)
LEMMA ConnKept ==
  ASSUME MediaInv, [MediaNext]_mvars PROVE ConnInv'
<1> USE DEF MediaInv, ConnInv, OwnFrames, NoStaleFrame
<1>1. conn \in Connections /\ track \in Tracks /\ queue \in Queues
  BY DEF MediaTypeOK
<1>2. CASE UNCHANGED <<conn, queue, track>>
  BY <1>2
<1>3. CASE \/ UNCHANGED mvars \/ Capture \/ HelloNumbers
           \/ RequestKeyframe \/ Toggle \/ Watchdog \/ TimePasses \/ Show
  BY <1>2, <1>3 DEF mvars, pubVars, Capture, HelloNumbers, RequestKeyframe,
     Toggle, Watchdog, TimePasses, Show
<1>14. CASE KeyRequested
  <2>1. UNCHANGED <<conn, queue>> /\ track'.flying = track.flying
    BY <1>1, <1>14 DEF KeyRequested, Tracks
  <2> QED BY <1>1, <2>1
<1>4. ASSUME NEW f \in Frames, Push(f), UNCHANGED <<conn, track>> PROVE ConnInv'
  <2>1. CASE ~conn.up
    BY <1>4, <2>1 DEF Push
  <2>2. CASE conn.up
    <3>1. /\ queue'[Len(queue')].session = conn.session
          /\ \E k \in {0, 1} : \A i \in DOMAIN queue' :
               i # Len(queue') => i + k \in DOMAIN queue /\ queue'[i] = queue[i + k]
      <4>1. /\ queue'[Len(queue')] = [seq |-> f.seq, key |-> f.key,
                                      session |-> conn.session]
            /\ \E k \in {0, 1} : \A i \in DOMAIN queue' :
                 i # Len(queue') => i + k \in DOMAIN queue /\ queue'[i] = queue[i + k]
        BY <1>1, <1>4, <2>2, PushContents
      <4> QED BY <4>1
    <3>2. ASSUME OwnFrames PROVE OwnFrames'
      BY <1>4, <3>1, <3>2
    <3> QED BY <1>4, <3>2
  <2> QED BY <2>1, <2>2
<1>5. CASE CaptureQueues
  <2>1. CASE conn.paused
    BY <1>2, <1>5, <2>1 DEF CaptureQueues
  <2>2. CASE ~conn.paused
    BY <1>4, <1>5, <2>2 DEF CaptureQueues, MediaTypeOK, Encoders
  <2> QED BY <2>1, <2>2
<1>6. CASE HelloQueues
  BY <1>4, <1>6 DEF HelloQueues, MediaTypeOK, Hellos
<1>7. CASE QuicConnected
  BY <1>1, <1>7 DEF QuicConnected, Connections
<1>8. CASE DropUnsubscribed
  BY <1>1, <1>8 DEF DropUnsubscribed, Connections
<1>9. CASE Subscribed
  BY <1>1, <1>9 DEF Subscribed, HasCatalog, NoTrack, Connections
<1>10. CASE Flush
  BY <1>10, FlushEffect
<1>11. CASE QuicClosed
  BY <1>1, <1>11 DEF QuicClosed, NoTrack, Connections
<1>12. CASE ControlReceived
  BY <1>1, <1>12 DEF ControlReceived, Connections
<1>13. CASE FrameLost \/ Deliver
  <2>1. track'.flying \subseteq track.flying /\ UNCHANGED <<conn, queue>>
    BY <1>1, <1>13 DEF FrameLost, Deliver, Tracks
  <2> QED BY <2>1
<1> QED BY <1>3, <1>5, <1>6, <1>7, <1>8, <1>9, <1>10, <1>11, <1>14, <1>12, <1>13 DEF MediaNext

-----------------------------------------------------------------------------
(* Order of the numbers.                                                   *)

(* A frame whose number is above those of the queue is pushed in order.    *)
LEMMA PushOrder ==
  ASSUME MediaTypeOK, ConnInv, NEW f \in Frames, Push(f) \/ UNCHANGED queue,
         \A i, j \in DOMAIN queue : i < j => queue[i].seq < queue[j].seq,
         \A i \in DOMAIN queue : queue[i].seq < f.seq
  PROVE  /\ \A i, j \in DOMAIN queue' : i < j => queue'[i].seq < queue'[j].seq
         /\ \A j \in DOMAIN queue' :
              \/ queue'[j].seq = f.seq
              \/ \E i \in DOMAIN queue : queue'[j].seq = queue[i].seq
<1>1. CASE UNCHANGED queue \/ ~conn.up
  BY <1>1 DEF Push
<1>2. CASE Push(f) /\ conn.up
  <2>1. /\ Len(queue') \in Nat /\ DOMAIN queue' = 1 .. Len(queue')
        /\ queue'[Len(queue')].seq = f.seq
        /\ \E k \in {0, 1} : \A i \in DOMAIN queue' :
             i # Len(queue') => i + k \in DOMAIN queue /\ queue'[i] = queue[i + k]
    <3>1. /\ Len(queue') \in Nat /\ DOMAIN queue' = 1 .. Len(queue')
          /\ queue'[Len(queue')] = [seq |-> f.seq, key |-> f.key,
                                    session |-> conn.session]
          /\ \E k \in {0, 1} : \A i \in DOMAIN queue' :
               i # Len(queue') => i + k \in DOMAIN queue /\ queue'[i] = queue[i + k]
      BY <1>2, PushContents DEF MediaTypeOK, ConnInv
    <3> QED BY <3>1
  <2>2. PICK k \in {0, 1} : \A i \in DOMAIN queue' :
             i # Len(queue') => i + k \in DOMAIN queue /\ queue'[i] = queue[i + k]
    BY <2>1
  <2>3. ASSUME NEW i \in DOMAIN queue', NEW j \in DOMAIN queue', i < j
        PROVE  queue'[i].seq < queue'[j].seq
    <3>1. i # Len(queue') /\ i \in Nat /\ j \in Nat
      BY <2>1, <2>3
    <3>2. CASE j = Len(queue')
      BY <2>1, <2>2, <3>1, <3>2
    <3>3. CASE j # Len(queue')
      <4>1. i + k < j + k
        BY <2>3, <3>1
      <4> QED BY <2>2, <3>1, <3>3, <4>1
    <3> QED BY <3>2, <3>3
  <2>4. ASSUME NEW j \in DOMAIN queue'
        PROVE  \/ queue'[j].seq = f.seq
               \/ \E i \in DOMAIN queue : queue'[j].seq = queue[i].seq
    <3>1. CASE j = Len(queue')
      BY <2>1, <3>1
    <3>2. CASE j # Len(queue')
      BY <2>2, <3>2
    <3> QED BY <3>1, <3>2
  <2> QED BY <2>3, <2>4
<1> QED BY <1>1, <1>2

LEMMA NumberTypes ==
  ASSUME MediaTypeOK
  PROVE  /\ pub.seq \in Nat /\ enc.frame \in Frames /\ hello.frame \in Frames
         /\ enc.frame.seq \in Nat /\ hello.frame.seq \in Nat
         /\ got.seq \in Int /\ dejit.last \in Nat /\ dejit.group \in Nat
         /\ track.group \in Nat
         /\ \A f \in track.flying : f.seq \in Nat /\ f.group \in Nat
BY DEF MediaTypeOK, Publishers, Encoders, Hellos, Frames, Seqs, Takings, None, Dejitters,
       Tracks, Flying

(* Every step keeps the order of the numbers in p2pav.c.                   *)
LEMMA OrderKept ==
  ASSUME MediaInv, [MediaNext]_mvars PROVE OrderInv'
<1> USE DEF MediaInv
<1>0. CASE app # "av"
  <2>1. UNCHANGED app
    BY DEF mvars, MediaNext, Capture, CaptureQueues, QuicConnected, HelloNumbers,
       HelloQueues, DropUnsubscribed, Subscribed, Flush, QuicClosed, KeyRequested,
       ControlReceived, FrameLost, Deliver, RequestKeyframe, Toggle, Watchdog,
       TimePasses, Show
  <2> QED BY <1>0, <2>1 DEF OrderInv
<1> SUFFICES ASSUME app = "av", QueueInv, FlyingInv, TakenInv
             PROVE  QueueInv' /\ FlyingInv' /\ TakenInv'
  BY <1>0 DEF OrderInv
<1>1. ASSUME pub'.seq = pub.seq, track'.flying \subseteq track.flying,
             track'.group = track.group, UNCHANGED <<enc, hello, queue, dejit, got>>
      PROVE  QueueInv' /\ FlyingInv' /\ TakenInv'
  BY <1>1 DEF QueueInv, FlyingInv, TakenInv, Before
<1>2. CASE UNCHANGED mvars \/ RequestKeyframe \/ Show
  BY <1>1, <1>2 DEF mvars, pubVars, subVars, RequestKeyframe, Show
<1>3. CASE Toggle \/ Watchdog \/ TimePasses
  BY <1>3 DEF Toggle, Watchdog, TimePasses
<1>4. CASE KeyRequested \/ ControlReceived
  <2>1. /\ pub'.seq = pub.seq
        /\ track'.flying = track.flying /\ track'.group = track.group
    BY <1>4 DEF KeyRequested, ControlReceived, MediaTypeOK, Publishers, Tracks
  <2> QED BY <1>1, <1>4, <2>1 DEF KeyRequested, ControlReceived
<1>5. CASE FrameLost
  BY <1>1, <1>5 DEF FrameLost, MediaTypeOK, Tracks, subVars
(* A number is given: it is above all others.                             *)
<1>6. CASE Capture
  <2>1. /\ enc.at = "idle" /\ hello.at # "numbered"
        /\ enc'.at = "numbered" /\ enc'.frame.seq = pub.seq /\ pub'.seq = pub.seq + 1
        /\ UNCHANGED <<hello, queue, track, dejit, got>>
    BY <1>6 DEF Capture, SendMutexFree, subVars
  <2> QED BY <2>1, NumberTypes, QueueEntries
       DEF QueueInv, FlyingInv, TakenInv, Before, MediaTypeOK
<1>7. CASE HelloNumbers
  <2>1. /\ enc.at = "idle" /\ hello.at # "numbered"
        /\ UNCHANGED <<enc, queue, track, dejit, got>>
    BY <1>7 DEF HelloNumbers, SendMutexFree, subVars
  <2>2. CASE pub.cached
    <3>1. hello'.at = "numbered" /\ hello'.frame.seq = pub.seq /\ pub'.seq = pub.seq + 1
      BY <1>7, <2>2 DEF HelloNumbers, MediaTypeOK, Publishers
    <3> QED BY <2>1, <3>1, NumberTypes, QueueEntries
         DEF QueueInv, FlyingInv, TakenInv, Before, MediaTypeOK
  <2>3. CASE ~pub.cached
    <3>1. hello'.at = "no" /\ UNCHANGED pub
      BY <1>7, <2>3 DEF HelloNumbers
    <3> QED BY <2>1, <3>1 DEF QueueInv, FlyingInv, TakenInv, Before
  <2> QED BY <2>2, <2>3
(* The numbered frame is queued.                                           *)
<1>8. CASE CaptureQueues
  <2>1. /\ enc.at = "numbered" /\ hello.at # "numbered" /\ enc'.at = "idle"
        /\ Push(enc.frame) \/ UNCHANGED queue
        /\ UNCHANGED <<pub, hello, track, dejit, got>>
    BY <1>8 DEF CaptureQueues, QueueInv, subVars
  <2>2. /\ \A i, j \in DOMAIN queue' : i < j => queue'[i].seq < queue'[j].seq
        /\ \A j \in DOMAIN queue' :
              \/ queue'[j].seq = enc.frame.seq
              \/ \E i \in DOMAIN queue : queue'[j].seq = queue[i].seq
    BY <2>1, PushOrder, NumberTypes DEF QueueInv
  <2>3. ASSUME NEW n, Before(n) PROVE Before(n)'
    BY <2>1, <2>2, <2>3 DEF Before
  <2>4. QueueInv'
    BY <2>1, <2>2 DEF QueueInv
  <2> QED BY <2>1, <2>3, <2>4 DEF FlyingInv, TakenInv
<1>9. CASE HelloQueues
  <2>1. /\ hello.at = "numbered" /\ enc.at # "numbered" /\ hello'.at = "no"
        /\ Push(hello.frame) /\ UNCHANGED <<pub, enc, track, dejit, got>>
    BY <1>9 DEF HelloQueues, QueueInv, subVars
  <2>2. /\ \A i, j \in DOMAIN queue' : i < j => queue'[i].seq < queue'[j].seq
        /\ \A j \in DOMAIN queue' :
              \/ queue'[j].seq = hello.frame.seq
              \/ \E i \in DOMAIN queue : queue'[j].seq = queue[i].seq
    BY <2>1, PushOrder, NumberTypes DEF QueueInv
  <2>3. ASSUME NEW n, Before(n) PROVE Before(n)'
    BY <2>1, <2>2, <2>3 DEF Before
  <2>4. QueueInv'
    BY <2>1, <2>2 DEF QueueInv
  <2> QED BY <2>1, <2>3, <2>4 DEF FlyingInv, TakenInv
<1>10. CASE QuicConnected
  <2>1. /\ track.flying = {} /\ hello.at = "no" /\ hello'.at = "want" /\ ~dejit'.posted
        /\ UNCHANGED <<pub, enc, queue, track, got>>
    BY <1>10 DEF QuicConnected, EngineFree, NewDejitter, ConnInv, MediaTypeOK, Hellos
  <2> QED BY <2>1 DEF QueueInv, FlyingInv, TakenInv, Before
<1>11. CASE DropUnsubscribed
  <2>1. queue' = << >> /\ UNCHANGED <<pub, enc, hello, track, dejit, got>>
    BY <1>11 DEF DropUnsubscribed, subVars
  <2> QED BY <2>1 DEF QueueInv, FlyingInv, TakenInv, Before
<1>12. CASE Subscribed \/ QuicClosed
  <2>1. track'.flying = {} /\ UNCHANGED <<pub, enc, hello, queue, dejit, got>>
    BY <1>12 DEF Subscribed, QuicClosed, NoTrack, subVars
  <2> QED BY <2>1 DEF QueueInv, FlyingInv, TakenInv, Before
<1>13. CASE Flush
  <2>1. /\ 1 \in DOMAIN queue
        /\ \A i \in DOMAIN queue' : i + 1 \in DOMAIN queue /\ queue'[i] = queue[i + 1]
        /\ track'.group \in Nat /\ track'.group >= track.group
        /\ \A f \in track'.flying :
              \/ f \in track.flying
              \/ f.seq = queue[1].seq /\ f.group = track'.group
        /\ pub'.seq = pub.seq /\ UNCHANGED <<enc, hello, dejit, got>>
    BY <1>13, FlushEffect
  <2>2. /\ DOMAIN queue = 1 .. Len(queue) /\ Len(queue) \in Nat
        /\ \A i \in DOMAIN queue : queue[i].seq \in Nat
    BY QueueEntries DEF MediaTypeOK
  <2>3. queue' \in Queues
    BY TypesKept DEF MediaTypeOK
  <2>4. \A i \in DOMAIN queue' : i \in Nat /\ i >= 1
    BY <2>3, QueueEntries
  <2>5. ASSUME NEW n, Before(n) PROVE Before(n)' /\ n < queue[1].seq
    BY <2>1, <2>5 DEF Before
  <2>6. QueueInv'
    BY <2>1, <2>2, <2>4 DEF QueueInv
  <2>7. PICK n : n = queue[1].seq
    OBVIOUS
  <2>8. n \in Nat /\ Before(n)'
    BY <2>1, <2>2, <2>4, <2>7 DEF QueueInv, Before
  <2>9. \A f \in track'.flying :
          /\ f.group <= track'.group /\ Before(f.seq)'
          /\ f \in track.flying \/ (f.seq = n /\ f.group = track'.group)
    BY <2>1, <2>5, <2>7, <2>8, NumberTypes DEF FlyingInv
  <2>10. \A f \in track.flying : f.seq < n /\ f.group <= track'.group
    BY <2>1, <2>5, <2>7, NumberTypes DEF FlyingInv
  <2>11. FlyingInv'
    BY <2>1, <2>9, <2>10, NumberTypes DEF FlyingInv
  <2>12. TakenInv'
    BY <2>1, <2>5, <2>7, <2>9 DEF TakenInv
  <2> QED BY <2>6, <2>11, <2>12
<1>14. CASE Deliver
  <2>1. PICK f \in track.flying :
          /\ ~Outdated(f) /\ Receive(f)
          /\ track' = [track EXCEPT !.flying = @ \ {f}]
          /\ dejit' = [last |-> f.seq, posted |-> TRUE, group |-> f.group]
          /\ UNCHANGED <<pub, enc, hello, queue>>
    BY <1>14 DEF Deliver
  <2>2. track'.flying = track.flying \ {f} /\ track'.group = track.group
    BY <2>1 DEF MediaTypeOK, Tracks
  <2>3. got.seq <= f.seq
    BY <2>1, NumberTypes DEF Outdated, TakenInv
  <2>4. \/ got'.seq = got.seq /\ got'.back = got.back
        \/ got'.seq = f.seq /\ got'.back = (got.back \/ f.seq < got.seq)
    <3>1. Take(f) \/ UNCHANGED got
      BY <2>1 DEF Receive
    <3> QED BY <3>1 DEF Take, MediaTypeOK, Takings
  <2>5. Before(f.seq) /\ Before(got'.seq) /\ ~got'.back /\ got'.seq <= f.seq
    <3>1. Before(f.seq) /\ Before(got.seq) /\ ~got.back
      BY DEF FlyingInv, TakenInv
    <3>2. f.seq \in Nat /\ got.seq \in Int
      BY NumberTypes
    <3>3. CASE got'.seq = got.seq /\ got'.back = got.back
      BY <2>3, <3>1, <3>3
    <3>4. CASE got'.seq = f.seq /\ got'.back = (got.back \/ f.seq < got.seq)
      <4>1. ~(f.seq < got.seq)
        BY <2>3, <3>2
      <4>2. ~got'.back
        BY <3>1, <3>4, <4>1
      <4>3. got'.seq <= f.seq /\ Before(got'.seq)
        BY <3>1, <3>2, <3>4
      <4> QED BY <3>1, <4>2, <4>3
    <3> QED BY <2>4, <3>3, <3>4
  <2>6. \A n : Before(n) => Before(n)'
    BY <2>1 DEF Before
  <2>7. QueueInv' /\ FlyingInv'
    BY <2>1, <2>2, <2>6 DEF QueueInv, FlyingInv
  <2>8. TakenInv'
    BY <2>1, <2>2, <2>5, <2>6 DEF TakenInv, FlyingInv
  <2> QED BY <2>7, <2>8
<1> QED BY <1>2, <1>3, <1>4, <1>5, <1>6, <1>7, <1>8, <1>9, <1>10, <1>11, <1>12, <1>13,
   <1>14 DEF MediaNext

-----------------------------------------------------------------------------
(* What the subscriber takes and shows.                                    *)

(* A frame that arrives is taken or dropped: a key frame never waits, and  *)
(* without a gap nothing begins to wait.                                   *)
LEMMA ReceiveEffect ==
  ASSUME MediaInv, NEW f \in Flying, Decodable(f), Receive(f)
  PROVE  /\ sub'.waiting = (sub.waiting /\ ~f.key)
         /\ IF sub.waiting /\ ~f.key THEN UNCHANGED <<got, jitter>> ELSE Take(f)
<1>1. CASE f.key
  BY <1>1 DEF Receive
<1>2. CASE ~f.key
  <2>1. ~Gap(f)
    BY <1>2, NoGapInside
  <2> QED BY <1>2, <2>1 DEF Receive
<1> QED BY <1>1, <1>2

LEMMA TakeEffect ==
  ASSUME MediaTypeOK, NEW f, Take(f)
  PROVE  \/ /\ ~switch.on /\ got'.excused /\ got'.seq = got.seq /\ got'.back = got.back
            /\ UNCHANGED jitter
         \/ /\ got'.seq = f.seq /\ got'.key = f.key
            /\ got'.back = (got.back \/ f.seq < got.seq)
            /\ jitter'.shown = jitter.shown
            /\ jitter'.held \subseteq jitter.held \cup {f.seq}
<1>1. CASE ~switch.on
  BY <1>1 DEF Take, MediaTypeOK, Takings
<1>2. CASE switch.on
  <2>1. /\ got'.seq = f.seq /\ got'.key = f.key
        /\ got'.back = (got.back \/ f.seq < got.seq)
    BY <1>2 DEF Take
  <2>2. jitter' = jitter \/ jitter' = [jitter EXCEPT !.held = Held(f.seq)]
    BY <1>2 DEF Take
  <2>3. Held(f.seq) \subseteq jitter.held \cup {f.seq}
    BY DEF Held
  <2>4. /\ jitter'.shown = jitter.shown
        /\ jitter'.held \subseteq jitter.held \cup {f.seq}
    BY <2>2, <2>3 DEF MediaTypeOK, Jitters
  <2> QED BY <2>1, <2>4
<1> QED BY <1>1, <1>2

(* Every step keeps what was taken and what the jitter buffer holds.       *)
LEMMA GroundJitterKept ==
  ASSUME MediaInv, [MediaNext]_mvars PROVE GroundInv' /\ JitterInv'
<1> USE DEF MediaInv
<1>1. ASSUME UNCHANGED <<dejit, got, jitter>>, sub'.waiting = sub.waiting
      PROVE  GroundInv' /\ JitterInv'
  BY <1>1 DEF GroundInv, JitterInv
<1>2. CASE \/ UNCHANGED mvars \/ Capture \/ CaptureQueues \/ HelloNumbers
           \/ HelloQueues \/ DropUnsubscribed \/ Subscribed \/ Flush \/ ControlReceived
           \/ FrameLost \/ Toggle \/ TimePasses
  BY <1>1, <1>2 DEF mvars, pubVars, subVars, Capture, CaptureQueues, HelloNumbers,
     HelloQueues, DropUnsubscribed, Subscribed, Flush, ControlReceived, FrameLost,
     Toggle, TimePasses
<1>3. CASE QuicClosed \/ KeyRequested \/ RequestKeyframe
  BY <1>1, <1>3 DEF QuicClosed, KeyRequested, RequestKeyframe, MediaTypeOK, Subscribers
<1>4. CASE QuicConnected
  <2>1. ~dejit'.posted /\ UNCHANGED <<got, jitter>>
    BY <1>4 DEF QuicConnected, NewDejitter
  <2> QED BY <2>1 DEF GroundInv, JitterInv
<1>5. CASE Watchdog
  <2>1. /\ got'.seq = got.seq /\ got'.back = got.back /\ UNCHANGED <<dejit, jitter>>
        /\ ~got'.excused => ~got.excused
        /\ sub.waiting => sub'.waiting \/ got'.excused
    BY <1>5 DEF Watchdog, MediaTypeOK, Takings, Subscribers
  <2> QED BY <2>1 DEF GroundInv, JitterInv
<1>6. CASE Show
  <2>1. PICK s \in jitter.held :
          /\ \A t \in jitter.held : s <= t
          /\ jitter' = [held |-> jitter.held \ {s}, shown |-> s]
    BY <1>6 DEF Show
  <2>2. UNCHANGED <<dejit, sub, got>>
    BY <1>6 DEF Show
  <2> QED BY <2>1, <2>2 DEF GroundInv, JitterInv
<1>7. CASE Deliver
  <2>1. PICK f \in track.flying :
          /\ Decodable(f) /\ Receive(f)
          /\ dejit' = [last |-> f.seq, posted |-> TRUE, group |-> f.group]
    BY <1>7 DEF Deliver
  <2>2. f \in Flying
    BY DEF MediaTypeOK, Tracks
  <2>3. /\ sub'.waiting = (sub.waiting /\ ~f.key)
        /\ IF sub.waiting /\ ~f.key THEN UNCHANGED <<got, jitter>> ELSE Take(f)
    BY <2>1, <2>2, ReceiveEffect
  <2>4. CASE sub.waiting /\ ~f.key
    BY <2>3, <2>4 DEF GroundInv, JitterInv
  <2>5. CASE Take(f)
    <3>1. GroundInv'
      BY <2>1, <2>5, TakeEffect DEF GroundInv
    <3>2. f.seq \in Nat /\ got.seq \in Int /\ jitter.shown \in Int
          /\ \A s \in jitter.held : s \in Nat
      BY <2>2 DEF MediaTypeOK, Flying, Seqs, Takings, None, Jitters
    <3>3. JitterInv'
      <4>1. CASE UNCHANGED jitter /\ got'.seq = got.seq /\ got'.back = got.back
        BY <4>1 DEF JitterInv
      <4>2. CASE /\ got'.seq = f.seq /\ got'.back = (got.back \/ f.seq < got.seq)
                 /\ jitter'.shown = jitter.shown
                 /\ jitter'.held \subseteq jitter.held \cup {f.seq}
        <5> SUFFICES ASSUME ~got'.back
                     PROVE  /\ jitter'.shown <= got'.seq
                            /\ \A s \in jitter'.held : jitter'.shown <= s /\ s <= got'.seq
          BY DEF JitterInv
        <5>1. ~got.back /\ got.seq <= f.seq
          <6>1. ~got.back /\ ~(f.seq < got.seq)
            BY <4>2
          <6> QED BY <3>2, <6>1
        <5>2. /\ jitter.shown <= got.seq
              /\ \A s \in jitter.held : jitter.shown <= s /\ s <= got.seq
          BY <5>1 DEF JitterInv
        <5> QED BY <3>2, <4>2, <5>1, <5>2
      <4> QED BY <2>5, <4>1, <4>2, TakeEffect
    <3> QED BY <3>1, <3>3
  <2> QED BY <2>3, <2>4, <2>5
<1> QED BY <1>2, <1>3, <1>4, <1>5, <1>6, <1>7 DEF MediaNext

-----------------------------------------------------------------------------
(* The invariant, and the theorems.                                        *)

LEMMA MediaInvInit == MediaInit => MediaInv
<1> SUFFICES ASSUME MediaInit PROVE MediaInv
  OBVIOUS
<1> USE MediaSizes, MediaTimes DEF MediaInit
<1>1. MediaTypeOK
  <2>1. NoFrame \in Frames
    BY DEF NoFrame, Frames, Seqs
  <2>2. pub \in Publishers /\ enc \in Encoders /\ hello \in Hellos
    BY <2>1 DEF Publishers, Encoders, Hellos
  <2>3. conn \in Connections /\ track \in Tracks /\ dejit \in Dejitters
    BY DEF Connections, Tracks, NoTrack, Dejitters, NewDejitter
  <2>4. queue \in Queues
    BY EmptySeq DEF Queues
  <2>5. sub \in Subscribers /\ got \in Takings
    BY DEF Subscribers, Takings
  <2>6. switch \in Switches
    BY EmptySeq DEF Switches
  <2>7. clock \in Clocks
    BY DEF Clocks, MaxWait
  <2>8. jitter \in Jitters
    <3>1. Cardinality({}) = 0
      BY FS_EmptySet
    <3>2. jitter.held = {} /\ jitter.shown = None
      OBVIOUS
    <3>3. jitter \in [held : SUBSET Seqs, shown : Seqs \cup {None}]
      OBVIOUS
    <3>4. Cardinality(jitter.held) <= JitterSize
      BY <3>1, <3>2
    <3> QED BY <3>3, <3>4 DEF Jitters
  <2> QED BY <2>2, <2>3, <2>4, <2>5, <2>6, <2>7, <2>8 DEF MediaTypeOK
<1>2. GroupsInv
  BY EmptySeq DEF GroupsInv, Pending, NoTrack
<1>3. ConnInv
  BY DEF ConnInv, OwnFrames, NoStaleFrame, NoTrack
<1>4. ControlInv
  BY DEF ControlInv
<1>5. WaitInv
  BY DEF WaitInv, NewDejitter
<1>6. OrderInv
  BY DEF OrderInv, QueueInv, FlyingInv, TakenInv, Before, NoTrack, NewDejitter, None
<1>7. GroundInv /\ JitterInv
  BY DEF GroundInv, JitterInv, NewDejitter, None
<1> QED BY <1>1, <1>2, <1>3, <1>4, <1>5, <1>6, <1>7 DEF MediaInv

LEMMA MediaInvariant == MediaSpec => []MediaInv
<1>1. MediaInv /\ [MediaNext]_mvars => MediaInv'
  BY TypesKept, GroupsKept, ConnKept, ControlKept, WaitKept, OrderKept,
     GroundJitterKept DEF MediaInv
<1> QED BY <1>1, MediaInvInit, PTL DEF MediaSpec

(* Every variable of the path keeps its type: the frame queue and the      *)
(* jitter buffer never hold more than they have room for, numbers and      *)
(* groups stay in range.                                                   *)
THEOREM MediaTypes == MediaSpec => []MediaTypeOK
<1>1. MediaInv => MediaTypeOK
  BY DEF MediaInv
<1> QED BY <1>1, MediaInvariant, PTL

(* No frame queued for one connection is written to another, though a      *)
(* publisher clears the queue neither when a connection ends nor when the  *)
(* next begins.                                                            *)
THEOREM MediaNoStaleFrame == MediaSpec => []NoStaleFrame
<1>1. MediaInv => NoStaleFrame
  BY DEF MediaInv, ConnInv
<1> QED BY <1>1, MediaInvariant, PTL

(* p2pav.c queues frames in the order of their numbers.                    *)
THEOREM MediaSendOrder == MediaSpec => []SendOrder
<1>1. MediaInv => SendOrder
  BY DEF MediaInv, OrderInv, QueueInv, SendOrder
<1> QED BY <1>1, MediaInvariant, PTL

(* A subscriber of p2pav.c never goes back to an older frame, whatever     *)
(* xquic loses or overtakes, and across any number of connections.         *)
THEOREM MediaForward == MediaSpec => []Forward
<1>1. MediaInv => Forward
  BY DEF MediaInv, OrderInv, TakenInv, Forward
<1> QED BY <1>1, MediaInvariant, PTL

(* p2p_peer.c gives up waiting for a key frame in bounded time.            *)
THEOREM MediaWaitBounded == MediaSpec => []WaitBounded
<1>1. MediaInv => WaitBounded
  <2> SUFFICES ASSUME MediaInv PROVE clock.waited < RestartAfter + WaitAfter + 1
    BY DEF WaitBounded, MaxWait
  <2>1. clock.waited \in Nat
    BY MediaTimes DEF MediaInv, MediaTypeOK, Clocks, MaxWait
  <2>2. CASE sub.waiting
    BY <2>1, <2>2, MediaTimes DEF MediaInv, WaitInv
  <2>3. CASE ~sub.waiting
    BY <2>3, MediaTimes DEF MediaInv, WaitInv
  <2> QED BY <2>2, <2>3
<1> QED BY <1>1, MediaInvariant, PTL

(* The publisher pauses exactly for the subscriber whose video is off,     *)
(* unless a message about it was lost.                                     *)
THEOREM MediaPauseAgrees == MediaSpec => []PauseAgrees
<1>1. MediaInv => PauseAgrees
  BY DEF MediaInv, ControlInv, PauseAgrees
<1> QED BY <1>1, MediaInvariant, PTL

(* A frame that is no key frame is taken only after its predecessor, with  *)
(* the exceptions that Grounded names.                                     *)
THEOREM MediaGrounded == MediaSpec => Grounded
<1> DEFINE A == got'.seq # got.seq /\ ~got'.key =>
                  got'.seq = got.seq + 1 \/ got.excused \/ got'.seq = 1
<1>1. ASSUME MediaInv, [MediaNext]_mvars PROVE A
  <2>1. CASE Deliver
    <3>1. PICK f \in track.flying : Decodable(f) /\ Receive(f)
      BY <2>1 DEF Deliver
    <3>2. f \in Flying
      BY <1>1 DEF MediaInv, MediaTypeOK, Tracks
    <3>3. IF sub.waiting /\ ~f.key THEN UNCHANGED <<got, jitter>> ELSE Take(f)
      BY <1>1, <3>1, <3>2, ReceiveEffect
    <3>4. CASE UNCHANGED got
      BY <3>4
    <3>5. CASE Take(f) /\ (~sub.waiting \/ f.key)
      <4>1. CASE got'.seq = got.seq
        BY <4>1
      <4>2. CASE got'.seq = f.seq /\ got'.key = f.key
        BY <1>1, <3>1, <3>5, <4>2 DEF Decodable, MediaInv, GroundInv, WaitInv
      <4> QED BY <1>1, <3>5, <4>1, <4>2, TakeEffect DEF MediaInv
    <3> QED BY <3>3, <3>4, <3>5
  <2>2. CASE Watchdog
    BY <1>1, <2>2 DEF Watchdog, MediaInv, MediaTypeOK, Takings
  <2>3. CASE ~Deliver /\ ~Watchdog
    <3>1. UNCHANGED got
      BY <1>1, <2>3 DEF mvars, subVars, MediaNext, Capture, CaptureQueues, QuicConnected,
         HelloNumbers, HelloQueues, DropUnsubscribed, Subscribed, Flush, QuicClosed,
         KeyRequested, ControlReceived, FrameLost, RequestKeyframe, Toggle, TimePasses,
         Show
    <3> QED BY <3>1
  <2> QED BY <2>1, <2>2, <2>3
<1>2. MediaInv /\ [MediaNext]_mvars => [A]_mvars
  BY <1>1
<1> QED BY <1>2, MediaInvariant, PTL DEF MediaSpec, Grounded

(* p2p_peer.c shows in order what it took in order, though its jitter      *)
(* buffer makes room by dropping the newest frame.                         *)
THEOREM MediaShownInOrder == MediaSpec => ShownInOrder
<1> DEFINE A == jitter'.shown # jitter.shown /\ ~got.back =>
                  jitter'.shown > jitter.shown
<1>1. ASSUME MediaInv, [MediaNext]_mvars PROVE A
  <2>1. CASE Show
    <3>1. PICK s \in jitter.held : jitter'.shown = s
      BY <2>1 DEF Show
    <3>2. s \in Nat /\ jitter.shown \in Int
      BY <1>1 DEF MediaInv, MediaTypeOK, Jitters, Seqs, None
    <3> QED BY <1>1, <3>1, <3>2 DEF MediaInv, JitterInv
  <2>2. CASE Deliver
    <3>1. PICK f \in track.flying : Decodable(f) /\ Receive(f)
      BY <2>2 DEF Deliver
    <3>2. f \in Flying
      BY <1>1 DEF MediaInv, MediaTypeOK, Tracks
    <3>3. UNCHANGED jitter \/ Take(f)
      BY <1>1, <3>1, <3>2, ReceiveEffect
    <3>4. jitter'.shown = jitter.shown
      BY <1>1, <3>3, TakeEffect DEF MediaInv
    <3> QED BY <3>4
  <2>3. CASE ~Show /\ ~Deliver
    <3>1. UNCHANGED jitter
      BY <1>1, <2>3 DEF mvars, subVars, MediaNext, Capture, CaptureQueues, QuicConnected,
         HelloNumbers, HelloQueues, DropUnsubscribed, Subscribed, Flush, QuicClosed,
         KeyRequested, ControlReceived, FrameLost, RequestKeyframe, Toggle, Watchdog,
         TimePasses
    <3> QED BY <3>1
  <2> QED BY <2>1, <2>2, <2>3
<1>2. MediaInv /\ [MediaNext]_mvars => [A]_mvars
  BY <1>1
<1> QED BY <1>2, MediaInvariant, PTL DEF MediaSpec, ShownInOrder
=============================================================================
