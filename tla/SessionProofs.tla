---------------------------- MODULE SessionProofs ----------------------------
(***************************************************************************)
(* Proofs about a session.  First what the operations of the ring and of   *)
(* the packet queue do to the sequence each stands for; then the types of  *)
(* what the actions write; then an inductive invariant that ties where     *)
(* every thread is to what is open, unlocked and allocated; from it the    *)
(* types, the absence of a use after release, the clean stop and the two   *)
(* refinements of BoundedFifo, and at the end the order in which the other *)
(* side hears of a description and what needs it: for every size of the    *)
(* queues and every number of connects and events.                         *)
(*****************************************************************************)
EXTENDS Session, SequenceTheorems, TLAPS

-----------------------------------------------------------------------------
(* The ring of requests.                                                   *)
(*                                                                         *)
(* Queueing on a ring that is not full appends to what it holds.           *)
LEMMA RingEnqueue ==
  ASSUME NEW r \in Rings, NEW m \in Messages, ~RingFull(r)
  PROVE  /\ Enqueued(r, m) \in Rings
         /\ RingContents(Enqueued(r, m)) = Append(RingContents(r), m)
         /\ RingContents(r) \in Seq(Messages \cup {NoMessage})
         /\ Len(RingContents(r)) < PostQueueSize - 1
<1> DEFINE e == Enqueued(r, m)
           n == RingLength(r)
<1> USE PostQueueAssumption DEF Rings, RingSlots, NextInRing, RingFull
<1>1. /\ n \in Nat /\ n < PostQueueSize - 1
      /\ r.head \in RingSlots /\ r.tail \in RingSlots
      /\ r.slot \in [RingSlots -> Messages \cup {NoMessage}]
  BY DEF RingLength
<1>2. /\ e \in Rings /\ e.head = r.head /\ e.tail = NextInRing(r.tail)
      /\ e.slot = [r.slot EXCEPT ![r.tail] = m]
  <2>1. [r.slot EXCEPT ![r.tail] = m] \in [RingSlots -> Messages \cup {NoMessage}]
    BY <1>1
  <2>2. NextInRing(r.tail) \in RingSlots
    BY <1>1
  <2> QED BY <1>1, <2>1, <2>2 DEF Enqueued
<1>3. RingLength(e) = n + 1
  <2>1. r.head \in 0 .. PostQueueSize - 1 /\ r.tail \in 0 .. PostQueueSize - 1
    BY <1>1
  <2>2. NextInRing(r.tail) # r.head
    BY DEF RingFull
  <2>3. e.head = r.head /\ e.tail = NextInRing(r.tail)
    BY <1>2
  <2>4. CASE r.tail + 1 = PostQueueSize
    <3>1. e.tail = 0 /\ r.head # 0 BY <2>2, <2>3, <2>4
    <3> QED BY <2>1, <2>3, <2>4, <3>1 DEF RingLength
  <2>5. CASE r.tail + 1 # PostQueueSize
    <3>1. e.tail = r.tail + 1 /\ r.head # r.tail + 1 BY <2>2, <2>3, <2>5
    <3> QED BY <2>1, <2>3, <2>5, <3>1 DEF RingLength
  <2> QED BY <2>4, <2>5
<1>4. RingSlot(r, n + 1) = r.tail
  BY <1>1 DEF RingLength, RingSlot
<1>5. ASSUME NEW i \in 1 .. n
      PROVE  RingSlot(r, i) \in RingSlots \ {r.tail}
  BY <1>1 DEF RingLength, RingSlot
<1>6. ASSUME NEW i \in 1 .. n + 1 PROVE RingSlot(e, i) = RingSlot(r, i)
  BY <1>2 DEF RingSlot
<1>7. RingContents(r) \in Seq(Messages \cup {NoMessage}) /\ Len(RingContents(r)) = n
  <2>1. \A i \in 1 .. n : r.slot[RingSlot(r, i)] \in Messages \cup {NoMessage}
    BY <1>1, <1>5
  <2> QED BY <1>1, <2>1, IsASeq DEF RingContents
<1>8. RingContents(e) = Append(RingContents(r), m)
  <2>1. \A i \in 1 .. n : e.slot[RingSlot(e, i)] = r.slot[RingSlot(r, i)]
    BY <1>1, <1>2, <1>5, <1>6
  <2>2. e.slot[RingSlot(e, n + 1)] = m
    BY <1>1, <1>2, <1>4, <1>6
  <2>3. RingContents(e) = [i \in 1 .. n + 1 |-> e.slot[RingSlot(e, i)]]
    BY <1>3 DEF RingContents
  <2>4. Append(RingContents(r), m) =
          [i \in 1 .. n + 1 |-> IF i = n + 1 THEN m ELSE r.slot[RingSlot(r, i)]]
    BY <1>1, <1>7, AppendProperties DEF RingContents
  <2> QED BY <1>1, <2>1, <2>2, <2>3, <2>4
<1> QED BY <1>1, <1>2, <1>7, <1>8

(* Taking from a ring that is not empty returns its oldest request.        *)
LEMMA RingDequeue ==
  ASSUME NEW r \in Rings, ~RingIdle(r)
  PROVE  /\ Dequeued(r) \in Rings
         /\ RingContents(r) # << >>
         /\ NextMessage(r) = Head(RingContents(r))
         /\ RingContents(Dequeued(r)) = Tail(RingContents(r))
<1> DEFINE d == Dequeued(r)
           n == RingLength(r)
<1> USE PostQueueAssumption DEF Rings, RingSlots, NextInRing, RingIdle
<1>1. /\ n \in Nat /\ n > 0
      /\ r.head \in RingSlots /\ r.tail \in RingSlots
      /\ r.slot \in [RingSlots -> Messages \cup {NoMessage}]
  BY DEF RingLength
<1>2. /\ d \in Rings /\ d.head = NextInRing(r.head) /\ d.tail = r.tail
      /\ d.slot = [r.slot EXCEPT ![r.head] = NoMessage]
  <2>1. [r.slot EXCEPT ![r.head] = NoMessage] \in [RingSlots -> Messages \cup {NoMessage}]
    BY <1>1
  <2>2. NextInRing(r.head) \in RingSlots
    BY <1>1
  <2> QED BY <1>1, <2>1, <2>2 DEF Dequeued
<1>3. RingLength(d) = n - 1
  <2>1. r.head \in 0 .. PostQueueSize - 1 /\ r.tail \in 0 .. PostQueueSize - 1
    BY <1>1
  <2>2. d.head = NextInRing(r.head) /\ d.tail = r.tail /\ r.head # r.tail
    BY <1>2
  <2>3. CASE r.head + 1 = PostQueueSize
    <3>1. d.head = 0 BY <2>2, <2>3
    <3> QED BY <2>1, <2>2, <2>3, <3>1 DEF RingLength
  <2>4. CASE r.head + 1 # PostQueueSize
    <3>1. d.head = r.head + 1 BY <2>2, <2>4
    <3> QED BY <2>1, <2>2, <2>4, <3>1 DEF RingLength
  <2> QED BY <2>3, <2>4
<1>4. ASSUME NEW i \in 1 .. n - 1
      PROVE  /\ RingSlot(d, i) = RingSlot(r, i + 1)
             /\ RingSlot(r, i + 1) \in RingSlots \ {r.head}
  <2>1. /\ r.head \in 0 .. PostQueueSize - 1 /\ i \in 1 .. PostQueueSize - 2
        /\ d.head = IF r.head + 1 = PostQueueSize THEN 0 ELSE r.head + 1
    BY <1>1, <1>2 DEF RingLength
  <2>2. CASE r.head + 1 = PostQueueSize
    <3>1. d.head = 0 BY <2>1, <2>2
    <3> QED BY <2>1, <2>2, <3>1 DEF RingSlot
  <2>3. CASE r.head + 1 # PostQueueSize
    <3>1. d.head = r.head + 1 BY <2>1, <2>3
    <3> QED BY <2>1, <2>3, <3>1 DEF RingSlot
  <2> QED BY <2>2, <2>3
<1>5. RingContents(r) \in Seq(Messages \cup {NoMessage}) /\ Len(RingContents(r)) = n
  <2>1. \A i \in 1 .. n : RingSlot(r, i) \in RingSlots
    BY <1>1 DEF RingLength, RingSlot
  <2>2. \A i \in 1 .. n : r.slot[RingSlot(r, i)] \in Messages \cup {NoMessage}
    BY <1>1, <2>1
  <2> QED BY <1>1, <2>2, IsASeq DEF RingContents
<1>6. RingContents(r) # << >>
  BY <1>1, <1>5
<1>7. RingContents(d) = Tail(RingContents(r))
  <2>1. RingContents(d) = [i \in 1 .. n - 1 |-> d.slot[RingSlot(d, i)]]
    BY <1>3 DEF RingContents
  <2>2. \A i \in 1 .. n - 1 : d.slot[RingSlot(d, i)] = r.slot[RingSlot(r, i + 1)]
    BY <1>1, <1>2, <1>4
  <2>3. Tail(RingContents(r)) = [i \in 1 .. n - 1 |-> r.slot[RingSlot(r, i + 1)]]
    BY <1>1, <1>5, <1>6, HeadTailProperties DEF RingContents
  <2> QED BY <2>1, <2>2, <2>3
<1>8. NextMessage(r) = Head(RingContents(r))
  <2>1. RingSlot(r, 1) = r.head
    BY <1>1 DEF RingSlot
  <2>2. RingContents(r)[1] = r.slot[r.head]
    BY <1>1, <2>1 DEF RingContents
  <2> QED BY <1>5, <1>6, <2>2 DEF NextMessage
<1> QED BY <1>2, <1>6, <1>7, <1>8

-----------------------------------------------------------------------------
(* The queue of packets.  Its count says how far the tail is ahead.        *)

InStep(q) == QueueSlot(q, q.count + 1) = q.tail

LEMMA QueueIsSeq ==
  ASSUME NEW q \in PacketQueues
  PROVE  /\ QueueContents(q) \in Seq(Packets \cup {NoPacket})
         /\ Len(QueueContents(q)) = q.count
         /\ \A i \in 1 .. q.count : QueueSlot(q, i) \in QueueSlots
<1> USE CapacityAssumption DEF PacketQueues, QueueSlots
<1>1. \A i \in 1 .. q.count : QueueSlot(q, i) \in QueueSlots
  BY DEF QueueSlot
<1>2. \A i \in 1 .. q.count : q.buf[QueueSlot(q, i)] \in Packets \cup {NoPacket}
  BY <1>1
<1> QED BY <1>1, <1>2, IsASeq DEF QueueContents

(* Pushing on a queue with room appends the packet.                        *)
LEMMA QueuePush ==
  ASSUME NEW q \in PacketQueues, InStep(q), NEW x \in Packets, ~QueueFull(q)
  PROVE  /\ Pushed(q, x) \in PacketQueues
         /\ InStep(Pushed(q, x))
         /\ Pushed(q, x).alive = q.alive
         /\ QueueContents(Pushed(q, x)) = Append(QueueContents(q), x)
         /\ Len(QueueContents(q)) < QueueCapacity
<1> DEFINE e == Pushed(q, x)
           n == q.count
<1> USE CapacityAssumption DEF PacketQueues, QueueSlots, NextInQueue
<1>1. /\ n \in Nat /\ n < QueueCapacity
      /\ q.head \in QueueSlots /\ q.tail \in QueueSlots
      /\ q.buf \in [QueueSlots -> Packets \cup {NoPacket}]
  BY DEF QueueFull
<1>2. /\ e \in PacketQueues /\ e.head = q.head /\ e.tail = NextInQueue(q.tail)
      /\ e.count = n + 1 /\ e.alive = q.alive
      /\ e.buf = [q.buf EXCEPT ![q.tail] = x]
  <2>1. [q.buf EXCEPT ![q.tail] = x] \in [QueueSlots -> Packets \cup {NoPacket}]
    BY <1>1
  <2>2. NextInQueue(q.tail) \in QueueSlots
    BY <1>1
  <2> QED BY <1>1, <2>1, <2>2 DEF Pushed
<1>3. ASSUME NEW i \in 1 .. n
      PROVE  QueueSlot(q, i) \in QueueSlots \ {q.tail}
  BY <1>1 DEF QueueSlot, InStep
<1>4. \A i \in 1 .. n + 1 : QueueSlot(e, i) = QueueSlot(q, i)
  BY <1>2 DEF QueueSlot
<1>5. QueueContents(e) = Append(QueueContents(q), x)
  <2>1. \A i \in 1 .. n : e.buf[QueueSlot(e, i)] = q.buf[QueueSlot(q, i)]
    BY <1>1, <1>2, <1>3, <1>4
  <2>2. e.buf[QueueSlot(e, n + 1)] = x
    BY <1>1, <1>2, <1>4 DEF InStep
  <2>3. QueueContents(e) = [i \in 1 .. n + 1 |-> e.buf[QueueSlot(e, i)]]
    BY <1>2 DEF QueueContents
  <2>4. Append(QueueContents(q), x) =
          [i \in 1 .. n + 1 |-> IF i = n + 1 THEN x ELSE q.buf[QueueSlot(q, i)]]
    BY <1>1, QueueIsSeq, AppendProperties DEF QueueContents
  <2> QED BY <1>1, <2>1, <2>2, <2>3, <2>4
<1>6. InStep(e)
  <2>1. /\ q.head \in 0 .. QueueCapacity - 1 /\ q.tail \in 0 .. QueueCapacity - 1
        /\ n \in 0 .. QueueCapacity - 1
        /\ e.tail = IF q.tail + 1 = QueueCapacity THEN 0 ELSE q.tail + 1
        /\ q.tail = IF q.head + n < QueueCapacity THEN q.head + n
                                                  ELSE q.head + n - QueueCapacity
    BY <1>1, <1>2 DEF InStep, QueueSlot
  <2>2. e.tail = IF q.head + n + 1 < QueueCapacity THEN q.head + n + 1
                                                  ELSE q.head + n + 1 - QueueCapacity
    BY <2>1
  <2> QED BY <1>1, <1>2, <2>2 DEF InStep, QueueSlot
<1> QED BY <1>1, <1>2, <1>5, <1>6, QueueIsSeq

(* A full queue refuses the packet.                                        *)
LEMMA QueueRefuses ==
  ASSUME NEW q, NEW x, QueueFull(q) PROVE Pushed(q, x) = q
BY DEF Pushed

(* Popping returns the oldest packet and makes room for one.               *)
LEMMA QueuePop ==
  ASSUME NEW q \in PacketQueues, InStep(q), q.count > 0
  PROVE  /\ Popped(q) \in PacketQueues
         /\ InStep(Popped(q))
         /\ Popped(q).alive = q.alive
         /\ QueueContents(q) # << >>
         /\ QueueContents(Popped(q)) = Tail(QueueContents(q))
<1> DEFINE d == Popped(q)
           n == q.count
<1> USE CapacityAssumption DEF PacketQueues, QueueSlots, NextInQueue
<1>1. /\ n \in Nat /\ n > 0 /\ n <= QueueCapacity
      /\ q.head \in QueueSlots /\ q.tail \in QueueSlots
      /\ q.buf \in [QueueSlots -> Packets \cup {NoPacket}]
  OBVIOUS
<1>2. /\ d \in PacketQueues /\ d.head = NextInQueue(q.head) /\ d.tail = q.tail
      /\ d.count = n - 1 /\ d.alive = q.alive
      /\ d.buf = [q.buf EXCEPT ![q.head] = NoPacket]
  <2>1. [q.buf EXCEPT ![q.head] = NoPacket] \in [QueueSlots -> Packets \cup {NoPacket}]
    BY <1>1
  <2>2. NextInQueue(q.head) \in QueueSlots
    BY <1>1
  <2> QED BY <1>1, <2>1, <2>2 DEF Popped
<1>3. \A i \in 1 .. n : QueueSlot(d, i) = QueueSlot(q, i + 1)
  <2> SUFFICES ASSUME NEW i \in 1 .. n PROVE QueueSlot(d, i) = QueueSlot(q, i + 1)
    OBVIOUS
  <2>1. /\ q.head \in 0 .. QueueCapacity - 1 /\ i \in 1 .. QueueCapacity
        /\ d.head = IF q.head + 1 = QueueCapacity THEN 0 ELSE q.head + 1
    BY <1>1, <1>2
  <2>2. CASE q.head + 1 = QueueCapacity
    <3>1. d.head = 0 BY <2>1, <2>2
    <3> QED BY <2>1, <2>2, <3>1 DEF QueueSlot
  <2>3. CASE q.head + 1 # QueueCapacity
    <3>1. d.head = q.head + 1 BY <2>1, <2>3
    <3> QED BY <2>1, <2>3, <3>1 DEF QueueSlot
  <2> QED BY <2>2, <2>3
<1>4. \A i \in 1 .. n - 1 : QueueSlot(q, i + 1) \in QueueSlots \ {q.head}
  BY <1>1 DEF QueueSlot
<1>5. QueueContents(q) # << >>
  BY <1>1, QueueIsSeq
<1>6. QueueContents(d) = Tail(QueueContents(q))
  <2>1. QueueContents(d) = [i \in 1 .. n - 1 |-> d.buf[QueueSlot(d, i)]]
    BY <1>2 DEF QueueContents
  <2>2. \A i \in 1 .. n - 1 : d.buf[QueueSlot(d, i)] = q.buf[QueueSlot(q, i + 1)]
    BY <1>1, <1>2, <1>3, <1>4
  <2>3. Tail(QueueContents(q)) = [i \in 1 .. n - 1 |-> q.buf[QueueSlot(q, i + 1)]]
    BY <1>1, <1>5, QueueIsSeq, HeadTailProperties DEF QueueContents
  <2> QED BY <2>1, <2>2, <2>3
<1>7. InStep(d)
  BY <1>1, <1>2, <1>3 DEF InStep
<1> QED BY <1>2, <1>5, <1>6, <1>7

-----------------------------------------------------------------------------
(* Types of what the actions write.                                        *)

(* What the steps write to the connection, the session, the counters,      *)
(* what was told, the worker and the agent has the type of each.           *)
LEMMA LinkTypes ==
  /\ NoLink \in Links /\ [NoLink EXCEPT !.postMutex = TRUE] \in Links
  /\ [connected |-> TRUE, running |-> TRUE, workerOn |-> TRUE, post |-> "open",
      sse |-> "open", queueMutex |-> TRUE, postMutex |-> TRUE] \in Links
  /\ \A l \in Links :
       /\ [l EXCEPT !.workerOn = FALSE] \in Links
       /\ [l EXCEPT !.running = FALSE, !.workerOn = FALSE] \in Links
       /\ [l EXCEPT !.queueMutex = FALSE] \in Links
       /\ [l EXCEPT !.sse = IF @ = "open" THEN "shut" ELSE @] \in Links
       /\ [l EXCEPT !.sse = "null", !.post = "null", !.postMutex = FALSE] \in Links
       /\ [l EXCEPT !.connected = FALSE] \in Links
BY DEF Links, NoLink

LEMMA SessionTypes ==
  /\ [running |-> FALSE, statsOn |-> FALSE] \in Sessions
  /\ \A s \in Sessions :
       /\ [s EXCEPT !.running = TRUE] \in Sessions
       /\ [s EXCEPT !.statsOn = TRUE] \in Sessions
       /\ [s EXCEPT !.statsOn = FALSE] \in Sessions
BY DEF Sessions

LEMMA CountTypes ==
  ASSUME used \in Counts
  PROVE  /\ CanConnect => [used EXCEPT !.connects = @ + 1] \in Counts
         /\ used.events < MaxEvents => [used EXCEPT !.events = @ + 1] \in Counts
BY SessionBounds DEF Counts, CanConnect

LEMMA TellingTypes == NothingTold \in Tellings
BY DEF Tellings, NothingTold

LEMMA LostTypes ==
  ASSUME told \in Tellings, NEW S, Lost(S) PROVE told' \in Tellings
BY DEF Tellings, Lost

LEMMA ToldTypes ==
  ASSUME told \in Tellings, NEW m \in Messages, NEW ok, Told(m, ok)
  PROVE  told' \in Tellings
<1>1. /\ [told EXCEPT !.settled = TRUE] \in Tellings
      /\ [told EXCEPT !.early = @ \cup {m}] \in Tellings
  BY DEF Tellings
<1> QED BY <1>1 DEF Told

LEMMA WorkerTypes ==
  /\ NoWorker \in WorkerStates /\ NoWorker.at = "none"
  /\ \A at \in {"wait", "done"} : /\ [NoWorker EXCEPT !.at = at] \in WorkerStates
                                  /\ [NoWorker EXCEPT !.at = at].at = at
  /\ \A m \in Messages : [at |-> "want", msg |-> m] \in WorkerStates
BY DEF WorkerStates, NoWorker

LEMMA RingTypes == EmptyRing \in Rings /\ RingContents(EmptyRing) = << >>
<1>1. EmptyRing \in Rings
  BY PostQueueAssumption DEF EmptyRing, Rings, RingSlots
<1>2. RingLength(EmptyRing) = 0
  BY DEF RingLength, EmptyRing
<1> QED BY <1>1, <1>2 DEF RingContents

LEMMA QueueTypes ==
  /\ NewQueue \in PacketQueues /\ InStep(NewQueue) /\ QueueContents(NewQueue) = << >>
  /\ NoQueue \in PacketQueues /\ InStep(NoQueue) /\ QueueContents(NoQueue) = << >>
  /\ NewQueue.alive /\ ~NoQueue.alive
<1>1. /\ NoQueue \in PacketQueues /\ ~NoQueue.alive
      /\ NoQueue.head = 0 /\ NoQueue.tail = 0 /\ NoQueue.count = 0
  BY CapacityAssumption DEF NoQueue, PacketQueues, QueueSlots
<1>2. /\ NewQueue \in PacketQueues /\ NewQueue.alive
      /\ NewQueue.head = 0 /\ NewQueue.tail = 0 /\ NewQueue.count = 0
  BY <1>1 DEF NewQueue, PacketQueues
<1>3. InStep(NoQueue) /\ InStep(NewQueue)
  BY <1>1, <1>2, CapacityAssumption DEF InStep, QueueSlot
<1>4. QueueContents(NoQueue) = << >> /\ QueueContents(NewQueue) = << >>
  BY <1>1, <1>2 DEF QueueContents
<1> QED BY <1>1, <1>2, <1>3, <1>4

LEMMA IceTypes ==
  /\ NoIce \in IceStates /\ NoIce.at = "none"
  /\ [at |-> "idle", todo |-> Gathered] \in IceStates
  /\ \A x \in IceStates : x.todo # << >> =>
       /\ Head(x.todo) \in Messages
       /\ [at |-> "send", todo |-> x.todo] \in IceStates
       /\ [at |-> "idle", todo |-> Tail(x.todo)] \in IceStates
<1>1. NoIce \in IceStates /\ NoIce.at = "none"
  BY DEF NoIce, IceStates
<1>2. Gathered \in Seq(Messages)
  <2>1. <<"cand", "done">> \in Seq(Messages)
    BY SessionMessages
  <2>2. <<"cand", "sdp", "done">> \in Seq(Messages)
    BY SessionMessages
  <2> QED BY <2>1, <2>2 DEF Gathered
<1>3. ASSUME NEW x \in IceStates, x.todo # << >>
      PROVE  /\ Head(x.todo) \in Messages
             /\ [at |-> "send", todo |-> x.todo] \in IceStates
             /\ [at |-> "idle", todo |-> Tail(x.todo)] \in IceStates
  <2>1. /\ x.todo \in Seq(Messages) /\ x.at \in {"none", "idle", "send"}
    BY DEF IceStates
  <2>2. Head(x.todo) \in Messages /\ Tail(x.todo) \in Seq(Messages)
    BY <1>3, <2>1, HeadTailProperties
  <2> QED BY <2>1, <2>2 DEF IceStates
<1> QED BY <1>1, <1>2, <1>3 DEF IceStates

-----------------------------------------------------------------------------
(* The inductive invariant.                                                *)

(* The queues hold messages and packets; who is about to post has one.     *)
QueuesInv ==
  /\ InStep(pq)
  /\ RingContents(ring) \in Seq(Messages)
  /\ worker.at = "want" => worker.msg \in Messages
  /\ ice.at = "send" => ice.todo # << >>

PosterInv ==
  /\ poster = "main" => main = "hello"
  /\ poster = "worker" => worker.at = "want"
  /\ poster = "reader" => reader = "ask" \/ (reader = "offer" /\ app = "sub")
  /\ poster = "ice" => ice.at = "send" /\ app # "cli"
  /\ reader = "put" => app = "cli"

(* Before connecting and after disconnecting; and while connected.         *)
Apart ==
  /\ ~link.connected /\ ~link.workerOn /\ link.sse = "null" /\ link.post = "null"
  /\ worker.at = "none" /\ reader = "none"

Open ==
  /\ link.connected /\ link.sse = "open" /\ link.post = "open"
  /\ link.postMutex /\ link.queueMutex

WithWorker == Open /\ link.workerOn /\ worker.at \in {"wait", "want"}

(* The worker is joined, the reader is yet to be.                          *)
Parting ==
  /\ link.connected /\ link.sse # "null" /\ link.post = "open" /\ link.postMutex
  /\ ~link.workerOn /\ worker.at = "none"

MainInv ==
  /\ main \in {"off", "connect", "failed", "agents", "queue"} => Apart
  /\ main \in {"hello", "sseup", "up", "unstats"} => WithWorker
  /\ main \in {"hello", "sseup", "failworker", "closing", "closed"} => reader = "none"
  /\ main \in {"stats", "disconnect"} => WithWorker \/ Apart
  /\ main \in {"failworker", "joinworker"} => Open /\ ~link.workerOn
  /\ main = "shut" => Parting \/ Apart
  /\ main = "joinreader" => Parting
  /\ main \in {"closing", "closed"} => ~link.workerOn /\ worker.at = "none"
  /\ main = "closed" => link.sse = "null" /\ link.post = "null"

EngineInv ==
  /\ pq.alive <=> main # "off"
  /\ main \notin {"off", "agents", "queue"} => engine = "on"
  /\ ice.at # "none" => main \notin {"off", "queue"}
  /\ stats # "none" => app # "cli" /\ main \in {"up", "unstats", "stats"}

ThreadsInv == PosterInv /\ MainInv /\ EngineInv
SessionInv == SessionTypeOK /\ QueuesInv /\ ThreadsInv

(* Putting a request in the ring, or losing it, keeps the types.           *)
LEMMA PutTypes ==
  ASSUME ring \in Rings, RingContents(ring) \in Seq(Messages), told \in Tellings,
         NEW m \in Messages, PutInRing(m)
  PROVE  /\ ring' \in Rings /\ RingContents(ring)' \in Seq(Messages)
         /\ told' \in Tellings
<1>1. CASE RingFull(ring)
  BY <1>1, LostTypes DEF PutInRing
<1>2. CASE ~RingFull(ring)
  <2>1. ring' = Enqueued(ring, m) /\ told' = told
    BY <1>2 DEF PutInRing
  <2>2. /\ ring' \in Rings
        /\ RingContents(ring)' = Append(RingContents(ring), m)
    BY <1>2, <2>1, RingEnqueue
  <2>3. Append(RingContents(ring), m) \in Seq(Messages)
    BY AppendProperties
  <2> QED BY <2>1, <2>2, <2>3
<1> QED BY <1>1, <1>2

(* Clearing the client leaves nothing in the ring.                         *)
LEMMA ClearTypes ==
  ASSUME told \in Tellings, ClearClient
  PROVE  /\ link' = NoLink /\ link' \in Links
         /\ ring' \in Rings /\ RingContents(ring)' = << >>
         /\ RingContents(ring)' \in Seq(Messages)
         /\ told' \in Tellings
BY LinkTypes, RingTypes, LostTypes, EmptySeq DEF ClearClient

(* Every step keeps the types.                                             *)
LEMMA TypesKept ==
  ASSUME SessionInv, [SessionNext]_svars
  PROVE  SessionTypeOK' /\ QueuesInv'
<1> USE DEF SessionInv, QueuesInv, SessionTypeOK, clientVars, engineVars,
            Starting, Stopping
<1>1. CASE UNCHANGED svars
  BY <1>1 DEF svars
<1>2. ASSUME NEW t \in Threads, LockPost(t) PROVE SessionTypeOK' /\ QueuesInv'
  BY <1>2 DEF LockPost
<1>3. CASE MainStep
  <2>1. CASE StartEngine
    BY <2>1, QueueTypes, ClearTypes DEF StartEngine
  <2>2. CASE Connected
    BY <2>2, CountTypes, LinkTypes, RingTypes, WorkerTypes, LostTypes,
       EmptySeq DEF Connected, CountConnect
  <2>3. CASE ReaderStarts
    BY <2>3, SessionTypes DEF ReaderStarts
  <2>4. CASE JoinFailedWorker
    BY <2>4, LinkTypes, WorkerTypes, LostTypes DEF JoinFailedWorker
  <2>5. CASE JoinStats
    BY <2>5 DEF JoinStats
  <2>6. CASE Disconnect
    BY <2>6, LinkTypes DEF Disconnect
  <2>7. CASE JoinWorker
    BY <2>7, LinkTypes, WorkerTypes, LostTypes DEF JoinWorker
  <2>8. CASE Shut
    BY <2>8, LinkTypes DEF Shut
  <2>9. CASE JoinReader
    BY <2>9 DEF JoinReader
  <2>10. CASE CloseConns
    BY <2>10, LinkTypes DEF CloseConns
  <2>11. CASE Disconnected
    BY <2>11, LinkTypes DEF Disconnected
  <2>12. CASE ConnectAgain
    BY <2>12, ClearTypes DEF ConnectAgain
  <2>13. CASE StopEngine
    BY <2>13 DEF StopEngine
  <2>14. CASE DestroyAgents
    BY <2>14, IceTypes DEF DestroyAgents
  <2>17. CASE DestroyEngine
    BY <2>17, QueueTypes DEF DestroyEngine
  <2>15. CASE StatsStopped
    BY <2>15 DEF StatsStopped, StatsOnly
  <2>16. ASSUME NEW ok \in BOOLEAN, HelloPosted(ok) PROVE SessionTypeOK' /\ QueuesInv'
    BY <2>16 DEF HelloPosted, Posted, JoinRefused
  <2> QED BY <1>3, <2>1, <2>2, <2>3, <2>4, <2>5, <2>6, <2>7, <2>8, <2>9,
     <2>10, <2>11, <2>12, <2>13, <2>14, <2>15, <2>16, <2>17, <1>2 DEF MainStep, Threads
<1>4. CASE WorkerStep
  <2>1. CASE WorkerTakes
    BY <2>1, RingDequeue, WorkerTypes, HeadTailProperties DEF WorkerTakes
  <2>2. CASE WorkerEnds
    BY <2>2, WorkerTypes DEF WorkerEnds
  <2>3. ASSUME NEW ok \in BOOLEAN, WorkerPosted(ok) PROVE SessionTypeOK' /\ QueuesInv'
    BY <2>3, WorkerTypes, ToldTypes
       DEF WorkerPosted, Posted, ThreadsInv, PosterInv
  <2> QED BY <1>4, <2>1, <2>2, <2>3, <1>2 DEF WorkerStep, Threads
<1>5. CASE ReaderStep
  <2>1. CASE SendDescription
    BY <2>1, LostTypes DEF SendDescription, ReaderOnly
  <2>5. CASE PutDescription
    <3>1. /\ ring' \in Rings /\ RingContents(ring)' \in Seq(Messages)
          /\ told' \in Tellings
      BY <2>5, SessionMessages, PutTypes DEF PutDescription
    <3> QED BY <2>5, <3>1 DEF PutDescription, ReaderOnly
  <2>2. CASE GatherCandidates
    BY <2>2, IceTypes DEF GatherCandidates, ReaderOnly, NextRead
  <2>3. CASE ReaderEnds
    BY <2>3 DEF ReaderEnds, ReaderOnly
  <2>4. ASSUME NEW ok \in BOOLEAN, ReaderPosted(ok) PROVE SessionTypeOK' /\ QueuesInv'
    BY <2>4, SessionMessages, ToldTypes DEF ReaderPosted, Posted, NextRead
  <2> QED BY <1>5, <2>1, <2>2, <2>3, <2>4, <2>5, <1>2 DEF ReaderStep, Threads
<1>6. CASE IceStep
  <2>1. CASE IceSends
    <3>1. /\ Head(ice.todo) \in Messages
          /\ [at |-> "send", todo |-> ice.todo] \in IceStates
          /\ [at |-> "idle", todo |-> Tail(ice.todo)] \in IceStates
      BY <2>1, IceTypes DEF IceSends
    <3>2. told' \in Tellings
      BY <2>1, LostTypes, Zenon DEF IceSends
    <3>4. /\ ice.todo # << >>
          /\ \/ ice' = [at |-> "send", todo |-> ice.todo]
             \/ ice' = [at |-> "idle", todo |-> Tail(ice.todo)]
      BY <2>1, Zenon DEF IceSends
    <3>3. ice' \in IceStates /\ (ice'.at = "send" => ice'.todo # << >>)
      BY <3>1, <3>4
    <3> QED BY <2>1, <3>2, <3>3 DEF IceSends
  <2>2. CASE IceEnqueues
    <3>1. /\ Head(ice.todo) \in Messages
          /\ [at |-> "idle", todo |-> Tail(ice.todo)] \in IceStates
      BY <2>2, IceTypes DEF IceEnqueues
    <3>2. /\ ring' \in Rings /\ RingContents(ring)' \in Seq(Messages)
          /\ told' \in Tellings
      BY <2>2, <3>1, PutTypes DEF IceEnqueues
    <3> QED BY <2>2, <3>1, <3>2 DEF IceEnqueues
  <2>3. ASSUME NEW ok \in BOOLEAN, IcePosted(ok) PROVE SessionTypeOK' /\ QueuesInv'
    <3>1. ice.todo # << >> /\ ice.at = "send"
      BY <2>3 DEF IcePosted, Posted, ThreadsInv, PosterInv
    <3>2. /\ Head(ice.todo) \in Messages
          /\ [at |-> "idle", todo |-> Tail(ice.todo)] \in IceStates
      BY <3>1, IceTypes
    <3>3. told' \in Tellings
      BY <2>3, <3>2, ToldTypes DEF IcePosted
    <3> QED BY <2>3, <3>2, <3>3 DEF IcePosted, Posted
  <2> QED BY <1>6, <2>1, <2>2, <2>3, <1>2 DEF IceStep, Threads
<1>7. CASE StatsStep
  BY <1>7 DEF StatsStep, StatsWake, StatsCalled, StatsOnly
<1>8. CASE EngineTakes
  BY <1>8, QueuePop DEF EngineTakes
<1>9. CASE ConnectFails
  BY <1>9, LinkTypes, CountTypes DEF ConnectFails, CountConnect
<1>10. CASE ReaderFails
  BY <1>10, LinkTypes DEF ReaderFails
<1>11. CASE Stop
  BY <1>11, SessionTypes DEF Stop
<1>12. CASE Reconnect
  BY <1>12 DEF Reconnect
<1>13. CASE StatsStart
  BY <1>13, SessionTypes DEF StatsStart, StatsOnly
<1>14. CASE StatsStop
  BY <1>14, SessionTypes DEF StatsStop, StatsOnly
<1>15. CASE ReadEvent
  BY <1>15, TellingTypes, CountTypes DEF ReadEvent, ReaderOnly
<1>16. CASE ReaderBreaks
  BY <1>16 DEF ReaderBreaks, ReaderOnly
<1>17. CASE IceReceives
  BY <1>17, QueuePush, QueueRefuses DEF IceReceives
<1> QED BY <1>1, <1>3, <1>4, <1>5, <1>6, <1>7, <1>8, <1>9, <1>10, <1>11,
   <1>12, <1>13, <1>14, <1>15, <1>16, <1>17 DEF SessionNext

(* Every step keeps what ties the threads to what they use.                *)
LEMMA ThreadsKept ==
  ASSUME SessionInv, [SessionNext]_svars
  PROVE  ThreadsInv'
<1> USE DEF SessionInv, QueuesInv, SessionTypeOK, Links, ThreadsInv, PosterInv,
            MainInv, EngineInv, Apart, Open, WithWorker, Parting, clientVars, engineVars
<1>1. CASE UNCHANGED svars
  BY <1>1 DEF svars
<1>2. ASSUME NEW t \in Threads, LockPost(t) PROVE ThreadsInv'
  <2>1. Wants(t) /\ poster = NoOne /\ poster' = t
    BY <1>2 DEF LockPost
  <2>2. /\ t = "main" => main = "hello"
        /\ t = "worker" => worker.at = "want"
        /\ t = "reader" => reader = "ask" \/ (reader = "offer" /\ app = "sub")
        /\ t = "ice" => ice.at = "send" /\ app # "cli"
    BY <2>1 DEF Wants, Threads
  <2> QED BY <1>2, <2>1, <2>2 DEF LockPost
<1>3. CASE MainStep
  <2>1. CASE StartEngine
    BY <2>1, QueueTypes DEF StartEngine, ClearClient, NoLink
  <2>2. CASE Connected
    BY <2>2 DEF Connected, CanConnect, NoWorker
  <2>3. CASE ReaderStarts
    BY <2>3 DEF ReaderStarts
  <2>4. CASE JoinFailedWorker
    BY <2>4 DEF JoinFailedWorker, NoLink, NoWorker
  <2>5. CASE JoinStats
    BY <2>5 DEF JoinStats
  <2>6. CASE Disconnect
    BY <2>6 DEF Disconnect
  <2>7. CASE JoinWorker
    BY <2>7 DEF JoinWorker, NoWorker
  <2>8. CASE Shut
    BY <2>8 DEF Shut
  <2>9. CASE JoinReader
    BY <2>9 DEF JoinReader
  <2>10. CASE CloseConns
    BY <2>10 DEF CloseConns
  <2>11. CASE Disconnected
    BY <2>11 DEF Disconnected
  <2>12. CASE ConnectAgain
    BY <2>12 DEF ConnectAgain, ClearClient, NoLink
  <2>13. CASE StopEngine
    BY <2>13 DEF StopEngine
  <2>14. CASE DestroyAgents
    BY <2>14 DEF DestroyAgents, NoIce
  <2>17. CASE DestroyEngine
    BY <2>17, QueueTypes DEF DestroyEngine
  <2>15. CASE StatsStopped
    BY <2>15 DEF StatsStopped, StatsOnly
  <2>16. ASSUME NEW ok \in BOOLEAN, HelloPosted(ok) PROVE ThreadsInv'
    BY <2>16 DEF HelloPosted, Posted, NoOne, JoinRefused
  <2> QED BY <1>3, <2>1, <2>2, <2>3, <2>4, <2>5, <2>6, <2>7, <2>8, <2>9,
     <2>10, <2>11, <2>12, <2>13, <2>14, <2>15, <2>16, <2>17, <1>2 DEF MainStep, Threads
<1>4. CASE WorkerStep
  <2>1. CASE WorkerTakes
    BY <2>1 DEF WorkerTakes
  <2>2. CASE WorkerEnds
    BY <2>2 DEF WorkerEnds, NoWorker
  <2>3. ASSUME NEW ok \in BOOLEAN, WorkerPosted(ok) PROVE ThreadsInv'
    BY <2>3 DEF WorkerPosted, Posted, NoOne, NoWorker
  <2> QED BY <1>4, <2>1, <2>2, <2>3, <1>2 DEF WorkerStep, Threads
<1>5. CASE ReaderStep
  <2>1. CASE SendDescription
    BY <2>1 DEF SendDescription, ReaderOnly
  <2>5. CASE PutDescription
    BY <2>5 DEF PutDescription, ReaderOnly
  <2>2. CASE GatherCandidates
    BY <2>2 DEF GatherCandidates, ReaderOnly, NextRead
  <2>3. CASE ReaderEnds
    BY <2>3 DEF ReaderEnds, ReaderOnly
  <2>4. ASSUME NEW ok \in BOOLEAN, ReaderPosted(ok) PROVE ThreadsInv'
    BY <2>4 DEF ReaderPosted, Posted, NoOne, NextRead
  <2> QED BY <1>5, <2>1, <2>2, <2>3, <2>4, <2>5, <1>2 DEF ReaderStep, Threads
<1>6. CASE IceStep
  <2>1. CASE IceSends
    BY <2>1 DEF IceSends
  <2>2. CASE IceEnqueues
    BY <2>2 DEF IceEnqueues
  <2>3. ASSUME NEW ok \in BOOLEAN, IcePosted(ok) PROVE ThreadsInv'
    BY <2>3 DEF IcePosted, Posted, NoOne
  <2> QED BY <1>6, <2>1, <2>2, <2>3, <1>2 DEF IceStep, Threads
<1>7. CASE StatsStep
  BY <1>7 DEF StatsStep, StatsWake, StatsCalled, StatsOnly
<1>8. CASE EngineTakes
  BY <1>8, QueuePop DEF EngineTakes
<1>9. CASE ConnectFails
  BY <1>9 DEF ConnectFails, CanConnect, NoLink
<1>10. CASE ReaderFails
  BY <1>10 DEF ReaderFails
<1>11. CASE Stop
  BY <1>11 DEF Stop
<1>12. CASE Reconnect
  BY <1>12 DEF Reconnect
<1>13. CASE StatsStart
  BY <1>13 DEF StatsStart, StatsOnly
<1>14. CASE StatsStop
  BY <1>14 DEF StatsStop, StatsOnly
<1>15. CASE ReadEvent
  BY <1>15 DEF ReadEvent, ReaderOnly
<1>16. CASE ReaderBreaks
  BY <1>16 DEF ReaderBreaks, ReaderOnly
<1>17. CASE IceReceives
  BY <1>17, QueuePush, QueueRefuses DEF IceReceives
<1> QED BY <1>1, <1>3, <1>4, <1>5, <1>6, <1>7, <1>8, <1>9, <1>10, <1>11,
   <1>12, <1>13, <1>14, <1>15, <1>16, <1>17 DEF SessionNext

(* Which steps touch the queues.                                           *)
LEMMA QueueSteps ==
  ASSUME [SessionNext]_svars
  PROVE  /\ \/ StartEngine \/ ConnectAgain \/ Connected
            \/ WorkerTakes \/ PutDescription \/ IceEnqueues
            \/ UNCHANGED ring
         /\ \/ StartEngine \/ DestroyEngine \/ IceReceives \/ EngineTakes
            \/ UNCHANGED pq
<1> USE DEF clientVars, engineVars
<1>1. CASE UNCHANGED svars
  BY <1>1 DEF svars
<1>2. ASSUME NEW t \in Threads, LockPost(t) PROVE UNCHANGED <<ring, pq>>
  BY <1>2 DEF LockPost
<1>3. ASSUME NEW t, NEW ok, Posted(t, ok) PROVE UNCHANGED <<ring, pq>>
  BY <1>3 DEF Posted
<1>4. CASE MainStep
  BY <1>2, <1>3, <1>4
     DEF MainStep, StartEngine, ReaderStarts, JoinFailedWorker, JoinStats, Disconnect,
         JoinWorker, Shut, JoinReader, CloseConns, Disconnected, ConnectAgain, StopEngine,
         DestroyAgents, DestroyEngine, StatsStopped, StatsOnly, HelloPosted, Threads,
         Connected
<1>5. CASE WorkerStep
  BY <1>2, <1>3, <1>5 DEF WorkerStep, WorkerEnds, WorkerPosted, Threads, WorkerTakes
<1>6. CASE ReaderStep
  BY <1>2, <1>3, <1>6
     DEF ReaderStep, GatherCandidates, ReaderEnds, ReaderOnly, ReaderPosted, Threads,
         SendDescription, PutDescription
<1>7. CASE IceStep
  BY <1>2, <1>3, <1>7 DEF IceStep, IceSends, IcePosted, IceEnqueues, Threads
<1>8. CASE StatsStep
  BY <1>8 DEF StatsStep, StatsWake, StatsCalled, StatsOnly
<1>9. CASE EngineTakes \/ IceReceives
  BY <1>9 DEF EngineTakes, IceReceives
<1>10. CASE ConnectFails \/ ReaderFails \/ Stop \/ Reconnect \/ StatsStart \/ StatsStop
  BY <1>10 DEF ConnectFails, ReaderFails, Stop, Reconnect, StatsStart, StatsStop, StatsOnly
<1>11. CASE ReadEvent \/ ReaderBreaks
  BY <1>11 DEF ReadEvent, ReaderBreaks, ReaderOnly
<1> QED BY <1>1, <1>4, <1>5, <1>6, <1>7, <1>8, <1>9, <1>10, <1>11 DEF SessionNext

(* The invariant holds at first and every step keeps it.                   *)
LEMMA SessionInvInit == SessionInit => SessionInv
<1> SUFFICES ASSUME SessionInit PROVE SessionInv
  OBVIOUS
<1>1. SessionTypeOK
  <2>1. /\ session \in Sessions /\ told \in Tellings
        /\ link \in Links /\ worker \in WorkerStates
    BY LinkTypes, SessionTypes, WorkerTypes, TellingTypes DEF SessionInit
  <2>2. used \in Counts
    BY SessionBounds DEF SessionInit, Counts
  <2>3. ring \in Rings /\ ice \in IceStates /\ pq \in PacketQueues
    BY RingTypes, IceTypes, QueueTypes DEF SessionInit
  <2>4. /\ app \in {"cli", "pub", "sub"} /\ main = "off" /\ reader = "none"
        /\ poster = NoOne /\ stats = "none" /\ engine = "off"
    BY DEF SessionInit
  <2> QED BY <2>1, <2>2, <2>3, <2>4 DEF SessionTypeOK
<1>2. QueuesInv
  BY RingTypes, WorkerTypes, IceTypes, QueueTypes, EmptySeq DEF SessionInit, QueuesInv
<1>3. ThreadsInv
  BY IceTypes, WorkerTypes, QueueTypes
     DEF SessionInit, ThreadsInv, PosterInv, MainInv, EngineInv, Apart, NoLink, NoOne
<1> QED BY <1>1, <1>2, <1>3 DEF SessionInv

LEMMA SessionInvStep == SessionInv /\ [SessionNext]_svars => SessionInv'
BY TypesKept, ThreadsKept DEF SessionInv

LEMMA SessionInvariant == SessionSpec => []SessionInv
BY SessionInvInit, SessionInvStep, PTL DEF SessionSpec

-----------------------------------------------------------------------------
(* Theorems.                                                               *)

(* Every variable of a session keeps its type: the ring's positions stay   *)
(* on the ring, and the queue of packets never counts more than it holds.  *)
THEOREM SessionTypesOK == SessionSpec => []SessionTypeOK
<1>1. SessionInv => SessionTypeOK
  BY DEF SessionInv
<1> QED BY <1>1, SessionInvariant, PTL

(* While the main thread disconnects and stops, no thread that it has yet  *)
(* to join finds its connection, mutex, engine or queue released.          *)
THEOREM SessionNoUseAfterFree == SessionSpec => []NoUseAfterFree
<1>1. SessionInv => NoUseAfterFree
  BY DEF SessionInv, SessionTypeOK, Starting, Stopping, ThreadsInv, MainInv,
         EngineInv, Apart, Open, WithWorker, Parting, NoUseAfterFree
<1> QED BY <1>1, SessionInvariant, PTL

(* A program that stopped has joined its threads and released what they    *)
(* used, and nobody is in a POST.                                          *)
THEOREM SessionStoppedClean == SessionSpec => []StoppedClean
<1>1. SessionInv => StoppedClean
  BY DEF SessionInv, SessionTypeOK, Threads, ThreadsInv, PosterInv, MainInv,
         EngineInv, Apart, StoppedClean
<1> QED BY <1>1, SessionInvariant, PTL

(* The ring of requests, under all its threads, is a bounded queue.        *)
THEOREM SessionPostFifo == SessionSpec => PostFifoSpec
<1>1. SessionInit => PostFifo!FifoInit
  BY RingTypes DEF SessionInit, PostFifo!FifoInit
<1>2. SessionInv /\ [SessionNext]_svars =>
        [PostFifo!Put \/ PostFifo!Take \/ PostFifo!Drop]_(RingContents(ring))
  <2> SUFFICES ASSUME SessionInv, [SessionNext]_svars
               PROVE  [PostFifo!Put \/ PostFifo!Take \/ PostFifo!Drop]_(RingContents(ring))
    OBVIOUS
  <2> DEFINE Goal == \/ PostFifo!Put \/ PostFifo!Take \/ PostFifo!Drop
                     \/ RingContents(ring)' = RingContents(ring)
  <2>1. ASSUME NEW m \in Messages, PutInRing(m) PROVE Goal
    <3>1. CASE RingFull(ring)
      BY <2>1, <3>1 DEF PutInRing
    <3>2. CASE ~RingFull(ring)
      BY <2>1, <3>2, RingEnqueue DEF PutInRing, SessionInv, SessionTypeOK, PostFifo!Put
    <3> QED BY <3>1, <3>2
  <2>2. CASE Connected
    BY <2>2, RingTypes
       DEF Connected, CanConnect, SessionInv, ThreadsInv, MainInv, Apart, PostFifo!Drop
  <2>8. CASE StartEngine \/ ConnectAgain
    <3>1. link' = NoLink /\ RingContents(ring)' = << >>
      BY <2>8, ClearTypes DEF StartEngine, ConnectAgain, SessionInv, SessionTypeOK
    <3> QED BY <3>1 DEF NoLink, PostFifo!Drop
  <2>3. CASE WorkerTakes
    BY <2>3, RingDequeue DEF WorkerTakes, SessionInv, SessionTypeOK, PostFifo!Take
  <2>4. CASE PutDescription
    BY <2>1, <2>4, SessionMessages DEF PutDescription
  <2>5. CASE IceEnqueues
    BY <2>1, <2>5, IceTypes DEF IceEnqueues, SessionInv, SessionTypeOK, QueuesInv
  <2>6. CASE UNCHANGED ring
    BY <2>6
  <2>7. \/ StartEngine \/ ConnectAgain \/ Connected \/ WorkerTakes \/ PutDescription
        \/ IceEnqueues \/ UNCHANGED ring
    BY QueueSteps
  <2> QED BY <2>2, <2>3, <2>4, <2>5, <2>6, <2>7, <2>8
<1> QED BY <1>1, <1>2, SessionInvariant, PTL DEF SessionSpec, PostFifoSpec, PostFifo!FifoSpec

(* So is the queue of packets between the ICE thread and the engine.       *)
THEOREM SessionPacketFifo == SessionSpec => PacketFifoSpec
<1>1. SessionInit => PacketFifo!FifoInit
  BY QueueTypes DEF SessionInit, PacketFifo!FifoInit
<1>2. SessionInv /\ [SessionNext]_svars =>
        [PacketFifo!Put \/ PacketFifo!Take \/ PacketFifo!Drop]_(QueueContents(pq))
  <2> SUFFICES ASSUME SessionInv, [SessionNext]_svars
               PROVE  [PacketFifo!Put \/ PacketFifo!Take \/ PacketFifo!Drop]_(QueueContents(pq))
    OBVIOUS
  <2>1. CASE StartEngine
    BY <2>1, QueueTypes DEF StartEngine, SessionInv, ThreadsInv, EngineInv, PacketFifo!Drop
  <2>2. CASE DestroyEngine
    BY <2>2, QueueTypes DEF DestroyEngine, PacketFifo!Drop
  <2>3. CASE IceReceives
    <3> PICK x \in Packets : pq' = Pushed(pq, x)
      BY <2>3 DEF IceReceives
    <3>1. CASE QueueFull(pq)
      BY <3>1, QueueRefuses
    <3>2. CASE ~QueueFull(pq)
      BY <3>2, QueuePush DEF SessionInv, SessionTypeOK, QueuesInv, PacketFifo!Put
    <3> QED BY <3>1, <3>2
  <2>4. CASE EngineTakes
    BY <2>4, QueuePop DEF EngineTakes, SessionInv, SessionTypeOK, QueuesInv, PacketFifo!Take
  <2>5. CASE UNCHANGED pq
    BY <2>5
  <2>6. \/ StartEngine \/ DestroyEngine \/ IceReceives \/ EngineTakes \/ UNCHANGED pq
    BY QueueSteps
  <2> QED BY <2>1, <2>2, <2>3, <2>4, <2>5, <2>6
<1> QED BY <1>1, <1>2, SessionInvariant, PTL DEF SessionSpec, PacketFifoSpec, PacketFifo!FifoSpec
-----------------------------------------------------------------------------
(* What the server is told first.                                          *)

(* What the worker posts next.                                             *)
NextPosted ==
  IF worker.at = "want" THEN worker.msg
  ELSE IF RingContents(ring) # << >> THEN Head(RingContents(ring)) ELSE NoMessage

(* The command line programs queue the description before the agent has    *)
(* anything to send, so nothing in the ring is ahead of a description that *)
(* is not settled; and while there is no agent, the ring is empty.         *)
RingOrder ==
  /\ ~told.settled =>
       /\ NextPosted \in {"sdp", NoMessage}
       /\ (IF ice.at = "none" THEN reader = "gather" ELSE ice.todo # << >>)
            => NextPosted = "sdp"
  /\ ice.at = "none" /\ reader # "gather"
       /\ (reader # "none" \/ main \in {"hello", "sseup"})
       => NextPosted = NoMessage

(* Who sends the description in p2pav.c: the reader, before there is an    *)
(* agent; or the publisher's agent, between the candidates and the end.    *)
SenderOrder ==
  /\ NextPosted = NoMessage
  /\ app = "sub" /\ ~told.settled => ice.at = "none" /\ reader # "gather"
  /\ app = "pub" /\ ~told.settled /\ ice.at # "none" =>
       ice.todo \in {<<"cand", "sdp", "done">>, <<"sdp", "done">>}

OrderInv ==
  /\ SignalOrder
  /\ IF app = "cli" THEN RingOrder ELSE SenderOrder
  /\ app # "pub" => ice.todo \in {<< >>, <<"done">>, <<"cand", "done">>}

(* What heads the ring is in the ring.                                     *)
LEMMA OldestInRing ==
  ASSUME ring \in Rings, RingContents(ring) \in Seq(Messages)
  PROVE  /\ ~RingIdle(ring) <=> RingContents(ring) # << >>
         /\ RingContents(ring) # << >> =>
              /\ Head(RingContents(ring)) \in Messages
              /\ Head(RingContents(ring)) \in InRing
<1>1. RingIdle(ring) => RingContents(ring) = << >>
  <2>1. RingIdle(ring) => RingLength(ring) = 0
    BY PostQueueAssumption DEF RingIdle, RingLength, Rings, RingSlots
  <2> QED BY <2>1 DEF RingContents
<1>2. ~RingIdle(ring) => RingContents(ring) # << >>
  BY RingDequeue
<1>3. ASSUME RingContents(ring) # << >>
      PROVE  /\ Head(RingContents(ring)) \in Messages
             /\ Head(RingContents(ring)) \in InRing
  <2>1. Head(RingContents(ring)) = ring.slot[ring.head] /\ ring.head \in RingSlots
    BY <1>1, <1>3, RingDequeue DEF NextMessage, Rings
  <2>2. Head(RingContents(ring)) \in Messages
    BY <1>3, HeadTailProperties
  <2> QED BY <2>1, <2>2, MessagesAssumption DEF InRing
<1> QED BY <1>1, <1>2, <1>3

LEMMA NextPostedTypes ==
  ASSUME SessionInv PROVE NextPosted \in Messages \cup {NoMessage}
BY OldestInRing DEF SessionInv, SessionTypeOK, QueuesInv, NextPosted

(* What queueing a request does to what is posted next: nothing, unless    *)
(* there was nothing to post.                                              *)
LEMMA PutNext ==
  ASSUME SessionInv, NEW m \in Messages, PutInRing(m), UNCHANGED worker
  PROVE  \/ NextPosted' = NextPosted /\ Lost({m})
         \/ /\ NextPosted' = IF NextPosted = NoMessage THEN m ELSE NextPosted
            /\ UNCHANGED told
<1> USE DEF SessionInv, SessionTypeOK, QueuesInv
<1>1. CASE RingFull(ring)
  BY <1>1 DEF PutInRing, NextPosted
<1>2. CASE ~RingFull(ring)
  <2>1. RingContents(ring)' = Append(RingContents(ring), m) /\ UNCHANGED told
    BY <1>2, RingEnqueue DEF PutInRing
  <2>2. CASE RingContents(ring) = << >>
    <3>1. RingContents(ring)' # << >> /\ Head(RingContents(ring)') = m
      BY <2>1, <2>2
    <3> QED BY <2>1, <2>2, <3>1, MessagesAssumption DEF NextPosted
  <2>3. CASE RingContents(ring) # << >>
    <3>1. /\ RingContents(ring)' # << >>
          /\ Head(RingContents(ring)') = Head(RingContents(ring))
      BY <2>1, <2>3
    <3>2. Head(RingContents(ring)) # NoMessage
      BY <2>3, OldestInRing, MessagesAssumption
    <3> QED BY <2>1, <2>3, <3>1, <3>2, MessagesAssumption DEF NextPosted
  <2> QED BY <2>2, <2>3
<1> QED BY <1>1, <1>2

LEMMA LostEffect ==
  ASSUME told \in Tellings, NEW S, Lost(S)
  PROVE  /\ told'.early = told.early
         /\ told'.settled <=> told.settled \/ "sdp" \in S
BY DEF Tellings, Lost

LEMMA ToldEffect ==
  ASSUME told \in Tellings, NEW m, NEW ok, Told(m, ok)
  PROVE  /\ told.settled \/ m = "sdp" => told'.settled
         /\ ~told'.settled => told'.early \subseteq told.early \cup {m}
BY DEF Tellings, Told

(* Messages from the ring lost by connecting or joining the worker settle  *)
(* the description that was to be posted next.                             *)
LEMMA RingLost ==
  ASSUME SessionInv, Lost(InRing), worker.at # "want", NextPosted = "sdp"
  PROVE  told'.settled
<1>1. "sdp" \in InRing
  BY OldestInRing, MessagesAssumption, SessionMessages
     DEF SessionInv, SessionTypeOK, QueuesInv, NextPosted
<1> QED BY <1>1, LostEffect DEF SessionInv, SessionTypeOK

(* What an agent has yet to send, message by message.                      *)
LEMMA AgentSends ==
  ASSUME NEW s
  PROVE  /\ s # << >> /\ s \in {<< >>, <<"done">>, <<"cand", "done">>} =>
              /\ Head(s) \in {"cand", "done"}
              /\ Tail(s) \in {<< >>, <<"done">>}
         /\ s \in {<<"cand", "sdp", "done">>, <<"sdp", "done">>} =>
              \/ Head(s) = "cand" /\ Tail(s) = <<"sdp", "done">>
              \/ Head(s) = "sdp"
<1>1. Head(<<"done">>) = "done" /\ Tail(<<"done">>) = << >>
  OBVIOUS
<1>2. Head(<<"cand", "done">>) = "cand" /\ Tail(<<"cand", "done">>) = <<"done">>
  OBVIOUS
<1>3. /\ Head(<<"cand", "sdp", "done">>) = "cand"
      /\ Tail(<<"cand", "sdp", "done">>) = <<"sdp", "done">>
  OBVIOUS
<1>4. Head(<<"sdp", "done">>) = "sdp"
  OBVIOUS
<1>5. CASE s = <<"done">>
  BY <1>1, <1>5
<1>6. CASE s = <<"cand", "done">>
  BY <1>2, <1>6
<1>7. CASE s = <<"cand", "sdp", "done">>
  BY <1>3, <1>7
<1>8. CASE s = <<"sdp", "done">>
  BY <1>4, <1>8
<1> QED BY <1>5, <1>6, <1>7, <1>8

LEMMA OrderKept ==
  ASSUME SessionInv, OrderInv, [SessionNext]_svars
  PROVE  OrderInv'
<1> USE DEF OrderInv, SignalOrder, RingOrder, SenderOrder, clientVars, engineVars
<1>0. /\ told \in Tellings /\ NoMessage \notin {"sdp", "cand", "done"}
      /\ Messages = {"sdp", "cand", "done"}
      /\ NextPosted \in Messages \cup {NoMessage}
  BY NextPostedTypes, SessionMessages, MessagesAssumption DEF SessionInv, SessionTypeOK
<1>1. CASE UNCHANGED <<app, told, ring, worker, ice>>
           /\ (reader' = reader \/ {reader, reader'} \cap {"gather", "none"} = {})
           /\ (main' \in {"hello", "sseup"} => main \in {"hello", "sseup"})
  <2>1. NextPosted' = NextPosted
    BY <1>1 DEF NextPosted
  <2> QED BY <1>1, <2>1
<1>2. CASE UNCHANGED svars
  BY <1>1, <1>2 DEF svars
<1>3. ASSUME NEW t \in Threads, LockPost(t) PROVE OrderInv'
  BY <1>1, <1>3 DEF LockPost
<1>4. CASE MainStep
  <2>1. CASE StartEngine \/ ConnectAgain
    <3>1. /\ UNCHANGED <<app, ice, reader, worker>> /\ reader = "none"
          /\ worker.at = "none" /\ main' = "connect" /\ ClearClient
      BY <2>1 DEF StartEngine, ConnectAgain, SessionInv, ThreadsInv, MainInv, Apart
    <3>2. NextPosted' = NoMessage
      BY <1>0, <3>1, ClearTypes DEF NextPosted
    <3>3. /\ ~told'.settled => ~told.settled /\ NextPosted # "sdp"
          /\ told'.early = told.early
      BY <1>0, <3>1, RingLost, LostEffect DEF ClearClient
    <3> QED BY <3>1, <3>2, <3>3
  <2>2. CASE Connected
    <3>1. NextPosted' = NoMessage
      BY <2>2, RingTypes DEF Connected, NextPosted, NoWorker
    <3>2. /\ ~told'.settled => ~told.settled /\ NextPosted # "sdp"
          /\ told'.early = told.early
      BY <1>0, <2>2, RingLost, LostEffect
         DEF Connected, CanConnect, SessionInv, ThreadsInv, MainInv, Apart
    <3>3. UNCHANGED <<app, ice, reader>>
      BY <2>2 DEF Connected
    <3> QED BY <3>1, <3>2, <3>3
  <2>3. CASE ReaderStarts
    <3>1. NextPosted' = NextPosted /\ reader = "none"
      BY <2>3 DEF ReaderStarts, NextPosted, SessionInv, ThreadsInv, MainInv
    <3> QED BY <2>3, <3>1 DEF ReaderStarts
  <2>4. CASE JoinFailedWorker \/ JoinWorker
    <3>1. NextPosted' = NextPosted
      BY <2>4 DEF JoinFailedWorker, JoinWorker, NextPosted, NoWorker
    <3>2. /\ ~told'.settled => ~told.settled /\ NextPosted # "sdp"
          /\ told'.early = told.early
      BY <1>0, <2>4, RingLost, LostEffect DEF JoinFailedWorker, JoinWorker
    <3>3. UNCHANGED <<app, ice, reader>> /\ main' \notin {"hello", "sseup"}
      BY <2>4 DEF JoinFailedWorker, JoinWorker
    <3> QED BY <3>1, <3>2, <3>3
  <2>5. CASE JoinStats
    BY <1>1, <2>5 DEF JoinStats
  <2>6. CASE Disconnect
    BY <1>1, <2>6 DEF Disconnect
  <2>8. CASE Shut
    BY <1>1, <2>8 DEF Shut
  <2>9. CASE JoinReader
    <3>1. NextPosted' = NextPosted
      BY <2>9 DEF JoinReader, NextPosted
    <3> QED BY <2>9, <3>1 DEF JoinReader
  <2>10. CASE CloseConns \/ Disconnected
    BY <1>1, <2>10 DEF CloseConns, Disconnected
  <2>13. CASE StopEngine
    BY <1>1, <2>13 DEF StopEngine
  <2>14. CASE DestroyAgents
    <3>1. reader = "none" /\ NextPosted' = NextPosted
      BY <2>14 DEF DestroyAgents, NextPosted, SessionInv, ThreadsInv, MainInv, Apart
    <3>2. ice'.at = "none" /\ ice'.todo = << >>
      BY <2>14 DEF DestroyAgents, NoIce
    <3>3. UNCHANGED <<app, told, reader>> /\ main' = "queue"
      BY <2>14 DEF DestroyAgents
    <3> QED BY <3>1, <3>2, <3>3
  <2>12. CASE DestroyEngine
    BY <1>1, <2>12 DEF DestroyEngine
  <2>15. CASE StatsStopped
    BY <1>1, <2>15 DEF StatsStopped, StatsOnly
  <2>16. ASSUME NEW ok \in BOOLEAN, HelloPosted(ok) PROVE OrderInv'
    <3>1. main = "hello"
      BY <2>16 DEF HelloPosted, Posted, SessionInv, ThreadsInv, PosterInv
    <3> QED BY <1>1, <2>16, <3>1 DEF HelloPosted, Posted
  <2> QED BY <1>4, <2>1, <2>2, <2>3, <2>4, <2>5, <2>6, <2>8, <2>9, <2>10,
     <2>12, <2>13, <2>14, <2>15, <2>16, <1>3 DEF MainStep, Threads
<1>5. CASE WorkerStep
  <2>1. CASE WorkerTakes
    <3>1. NextPosted' = NextPosted
      BY <2>1, RingDequeue, OldestInRing
         DEF WorkerTakes, NextPosted, SessionInv, SessionTypeOK, QueuesInv
    <3> QED BY <2>1, <3>1 DEF WorkerTakes
  <2>2. CASE WorkerEnds
    <3>1. NextPosted' = NextPosted
      BY <2>2 DEF WorkerEnds, NextPosted, NoWorker
    <3> QED BY <2>2, <3>1 DEF WorkerEnds
  <2>3. ASSUME NEW ok \in BOOLEAN, WorkerPosted(ok) PROVE OrderInv'
    <3>1. worker.at = "want" /\ NextPosted = worker.msg /\ worker.msg \in Messages
      BY <2>3 DEF WorkerPosted, Posted, NextPosted, SessionInv, QueuesInv,
                  ThreadsInv, PosterInv
    <3>2. app = "cli"
      BY <1>0, <3>1
    <3>3. told'.settled
      BY <1>0, <2>3, <3>1, <3>2, ToldEffect DEF WorkerPosted
    <3>4. ice.at = "none" /\ reader # "gather" => reader = "none" /\ main \notin {"hello", "sseup"}
      BY <1>0, <3>1, <3>2
    <3> QED BY <2>3, <3>2, <3>3, <3>4 DEF WorkerPosted, Posted
  <2> QED BY <1>5, <2>1, <2>2, <2>3, <1>3 DEF WorkerStep, Threads
<1>6. CASE ReaderStep
  <2>1. CASE SendDescription
    <3>1. UNCHANGED <<app, ring, ice, worker, main>> /\ reader = "offer"
      BY <2>1 DEF SendDescription, ReaderOnly
    <3>2. NextPosted' = NextPosted
      BY <3>1 DEF NextPosted
    <3>3. CASE app # "cli"
      <4>1. UNCHANGED told /\ app = "pub"
        BY <2>1, <3>3 DEF SendDescription, SessionInv, SessionTypeOK
      <4>2. reader' = "gather"
        BY <2>1, <3>3 DEF SendDescription
      <4> QED BY <3>1, <3>2, <4>1, <4>2
    <3>4. CASE app = "cli" /\ link.workerOn
      <4>1. UNCHANGED told /\ reader' = "put"
        BY <2>1, <3>4 DEF SendDescription
      <4> QED BY <1>1, <3>1, <4>1
    <3>5. CASE app = "cli" /\ ~link.workerOn
      <4>1. Lost({"sdp"}) /\ reader' = "gather"
        BY <2>1, <3>5 DEF SendDescription
      <4>2. told'.settled
        BY <1>0, <4>1, LostEffect
      <4> QED BY <3>1, <3>2, <3>5, <4>1, <4>2
    <3> QED BY <3>3, <3>4, <3>5
  <2>5. CASE PutDescription
    <3>1. /\ UNCHANGED <<app, ice, worker, main>> /\ PutInRing("sdp")
          /\ reader = "put" /\ reader' = "gather"
      BY <2>5 DEF PutDescription, ReaderOnly
    <3>2. app = "cli"
      BY <3>1 DEF SessionInv, ThreadsInv, PosterInv
    <3>3. \/ NextPosted' = NextPosted /\ Lost({"sdp"})
          \/ /\ NextPosted' = IF NextPosted = NoMessage THEN "sdp" ELSE NextPosted
             /\ UNCHANGED told
      BY <1>0, <3>1, PutNext
    <3>4. Lost({"sdp"}) => told'.settled
      BY <1>0, LostEffect
    <3> QED BY <1>0, <3>1, <3>2, <3>3, <3>4
  <2>2. CASE GatherCandidates
    <3>1. /\ reader = "gather" /\ reader' \in {"reading", "done"}
          /\ UNCHANGED <<app, told, ring, worker, main>>
      BY <2>2 DEF GatherCandidates, ReaderOnly, NextRead
    <3>2. NextPosted' = NextPosted
      BY <3>1 DEF NextPosted
    <3>3. CASE ice.at # "none"
      <4>1. ice' = ice
        BY <2>2, <3>3 DEF GatherCandidates
      <4> QED BY <3>1, <3>2, <3>3, <4>1
    <3>4. CASE ice.at = "none"
      <4>1. ice'.at = "idle" /\ ice'.todo = Gathered
        BY <2>2, <3>4 DEF GatherCandidates
      <4>2. /\ app = "pub" => Gathered = <<"cand", "sdp", "done">>
            /\ app # "pub" => Gathered = <<"cand", "done">>
        BY DEF Gathered
      <4> QED BY <3>1, <3>2, <3>4, <4>1, <4>2
    <3> QED BY <3>3, <3>4
  <2>3. CASE ReaderEnds
    BY <1>1, <2>3 DEF ReaderEnds, ReaderOnly
  <2>4. ASSUME NEW ok \in BOOLEAN, ReaderPosted(ok) PROVE OrderInv'
    <3>1. UNCHANGED <<app, ring, worker, ice, main>>
      BY <2>4 DEF ReaderPosted, Posted
    <3>2. CASE reader = "ask"
      BY <1>1, <2>4, <3>1, <3>2 DEF ReaderPosted, NextRead
    <3>3. CASE reader # "ask"
      <4>1. app = "sub" /\ reader' = "gather"
        BY <2>4, <3>3 DEF ReaderPosted, Posted, SessionInv, ThreadsInv, PosterInv
      <4>2. told'.settled
        BY <1>0, <2>4, <3>3, ToldEffect DEF ReaderPosted
      <4>3. NextPosted' = NextPosted
        BY <3>1 DEF NextPosted
      <4> QED BY <3>1, <4>1, <4>2, <4>3
    <3> QED BY <3>2, <3>3
  <2> QED BY <1>6, <2>1, <2>2, <2>3, <2>4, <2>5, <1>3 DEF ReaderStep, Threads
<1>7. CASE IceStep
  <2>0. ASSUME ice.todo # << >>
        PROVE  /\ app # "pub" => /\ Head(ice.todo) \in {"cand", "done"}
                                 /\ Tail(ice.todo) \in {<< >>, <<"done">>}
               /\ app = "pub" /\ ~told.settled /\ ice.at # "none" =>
                    \/ Head(ice.todo) = "cand" /\ Tail(ice.todo) = <<"sdp", "done">>
                    \/ Head(ice.todo) = "sdp"
    BY <2>0, AgentSends
  <2>1. CASE IceSends
    <3>1. /\ UNCHANGED <<app, ring, worker, reader, main>> /\ ice.todo # << >>
          /\ ice.at = "idle" /\ ice'.at \in {"idle", "send"}
      BY <2>1 DEF IceSends
    <3>2. NextPosted' = NextPosted
      BY <3>1 DEF NextPosted
    <3>3. CASE ice'.at = "send"
      BY <2>1, <3>1, <3>2, <3>3 DEF IceSends
    <3>4. CASE ice'.at # "send"
      <4>0. ~(link.connected /\ (app = "cli" => link.workerOn))
        BY <2>1, <3>4 DEF IceSends
      <4>3. ice' = [at |-> "idle", todo |-> Tail(ice.todo)] /\ Lost({Head(ice.todo)})
        BY <2>1, <4>0, Zenon DEF IceSends
      <4>1. ice'.todo = Tail(ice.todo) /\ Lost({Head(ice.todo)})
        BY <4>3
      <4>2. /\ told'.early = told.early /\ (~told'.settled => ~told.settled)
            /\ Head(ice.todo) = "sdp" => told'.settled
        BY <1>0, <4>1, LostEffect
      <4> QED BY <1>0, <2>0, <3>1, <3>2, <4>1, <4>2
    <3> QED BY <3>3, <3>4
  <2>2. CASE IceEnqueues
    <3>1. /\ UNCHANGED <<app, worker, reader, main>> /\ ice.todo # << >>
          /\ ice.at = "send" /\ app = "cli" /\ PutInRing(Head(ice.todo))
          /\ ice'.at = "idle" /\ ice'.todo = Tail(ice.todo)
      BY <2>2 DEF IceEnqueues, SessionInv, QueuesInv
    <3>2. \/ NextPosted' = NextPosted /\ Lost({Head(ice.todo)})
          \/ /\ NextPosted' = IF NextPosted = NoMessage THEN Head(ice.todo) ELSE NextPosted
             /\ UNCHANGED told
      BY <1>0, <2>0, <3>1, PutNext
    <3>3. Lost({Head(ice.todo)}) =>
            told'.early = told.early /\ (~told'.settled => ~told.settled)
      BY <1>0, LostEffect
    <3> QED BY <1>0, <2>0, <3>1, <3>2, <3>3
  <2>3. ASSUME NEW ok \in BOOLEAN, IcePosted(ok) PROVE OrderInv'
    <3>1. /\ UNCHANGED <<app, ring, worker, reader, main>> /\ ice.todo # << >>
          /\ ice.at = "send" /\ app # "cli" /\ Told(Head(ice.todo), ok)
          /\ ice'.at = "idle" /\ ice'.todo = Tail(ice.todo)
      BY <2>3 DEF IcePosted, Posted, SessionInv, QueuesInv, ThreadsInv, PosterInv
    <3>2. NextPosted' = NextPosted
      BY <3>1 DEF NextPosted
    <3>3. /\ told.settled \/ Head(ice.todo) = "sdp" => told'.settled
          /\ ~told'.settled => told'.early \subseteq told.early \cup {Head(ice.todo)}
      BY <1>0, <3>1, ToldEffect
    <3>4. CASE app = "sub"
      BY <3>1, <3>2, <3>3, <3>4, <2>0
    <3>5. CASE app = "pub"
      <4>1. CASE told.settled
        BY <3>1, <3>2, <3>3, <3>5, <4>1
      <4>2. CASE ~told.settled
        <5>1. ~told'.settled => /\ Head(ice.todo) = "cand"
                                /\ ice'.todo = <<"sdp", "done">>
                                /\ told'.early \subseteq {"cand"}
          BY <2>0, <3>1, <3>3, <3>5, <4>2
        <5> QED BY <3>1, <3>2, <3>5, <5>1
      <4> QED BY <4>1, <4>2
    <3> QED BY <3>1, <3>4, <3>5 DEF SessionInv, SessionTypeOK
  <2> QED BY <1>7, <2>1, <2>2, <2>3, <1>3 DEF IceStep, Threads
<1>8. CASE StatsStep
  BY <1>1, <1>8 DEF StatsStep, StatsWake, StatsCalled, StatsOnly
<1>9. CASE EngineTakes \/ IceReceives
  BY <1>1, <1>9 DEF EngineTakes, IceReceives
<1>10. CASE ConnectFails \/ ReaderFails
  BY <1>1, <1>10 DEF ConnectFails, ReaderFails
<1>11. CASE Stop \/ Reconnect
  BY <1>1, <1>11 DEF Stop, Reconnect
<1>12. CASE StatsStart \/ StatsStop
  BY <1>1, <1>12 DEF StatsStart, StatsStop, StatsOnly
<1>13. CASE ReadEvent
  <2>1. /\ UNCHANGED <<app, ring, worker, ice, main>>
        /\ reader = "reading" /\ reader' \in {"offer", "ask"}
        /\ told' = IF ice.at = "none" THEN NothingTold ELSE told
    BY <1>13 DEF ReadEvent, ReaderOnly
  <2>2. NextPosted' = NextPosted
    BY <2>1 DEF NextPosted
  <2>3. NothingTold.early = {}
    BY DEF NothingTold
  <2> QED BY <2>1, <2>2, <2>3
<1>14. CASE ReaderBreaks
  BY <1>1, <1>14 DEF ReaderBreaks, ReaderOnly
<1> QED BY <1>2, <1>4, <1>5, <1>6, <1>7, <1>8, <1>9, <1>10, <1>11, <1>12,
   <1>13, <1>14 DEF SessionNext

(* The server is told of no candidate and of no end of gathering before it *)
(* has the description these are about, unless that is given up: in the    *)
(* ring, whose worker posts in order, because the reader queues the        *)
(* description first; in p2pav.c because one thread sends them all, or the *)
(* reader posts the answer before it starts the agent.                     *)
THEOREM SessionSignalOrder == SessionSpec => []SignalOrder
<1>1. SessionInit => OrderInv
  BY RingTypes, WorkerTypes, IceTypes
     DEF SessionInit, OrderInv, SignalOrder, RingOrder, SenderOrder, NextPosted,
         NothingTold, NoIce, NoWorker
<1>2. SessionInv /\ OrderInv /\ [SessionNext]_svars => OrderInv'
  BY OrderKept
<1>3. OrderInv => SignalOrder
  BY DEF OrderInv
<1> QED BY <1>1, <1>2, <1>3, SessionInvariant, PTL DEF SessionSpec
=============================================================================
