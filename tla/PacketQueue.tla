----------------------------- MODULE PacketQueue -----------------------------
(***************************************************************************)
(* The queue of received packets (p2p_packet_queue.c) between the ICE      *)
(* threads and the engine thread: a ring with head, tail and count.  Each  *)
(* operation runs under the queue's mutex.  A slot that was read keeps its *)
(* bytes in the code; here it is cleared.                                  *)
(***************************************************************************)
EXTENDS Naturals, Sequences

CONSTANTS
  QueueCapacity,  \* P2P_PKT_QUEUE_CAP
  Packets         \* what a peer sends

NoPacket == "no packet"

ASSUME CapacityAssumption == QueueCapacity \in Nat /\ QueueCapacity > 0
ASSUME PacketsAssumption == NoPacket \notin Packets

QueueSlots == 0 .. QueueCapacity - 1

(* buf is NULL before p2p_packet_queue_init and after _destroy. *)
PacketQueues ==
  [alive : BOOLEAN, buf : [QueueSlots -> Packets \cup {NoPacket}],
   head : QueueSlots, tail : QueueSlots, count : 0 .. QueueCapacity]

NoQueue == [alive |-> FALSE, buf |-> [i \in QueueSlots |-> NoPacket],
            head |-> 0, tail |-> 0, count |-> 0]
NewQueue == [NoQueue EXCEPT !.alive = TRUE]

(* (i + 1) % q->capacity *)
NextInQueue(i) == IF i + 1 = QueueCapacity THEN 0 ELSE i + 1

QueueFullLate(q) == q.count > QueueCapacity  \* mutant
QueueFull(q) == q.count >= QueueCapacity

(* p2p_packet_queue_push: a full queue drops the packet.                   *)
Pushed(q, x) ==
  IF QueueFull(q) THEN q
  ELSE [alive |-> q.alive, buf |-> [q.buf EXCEPT ![q.tail] = x],
        head |-> q.head, tail |-> NextInQueue(q.tail), count |-> q.count + 1]

(* p2p_packet_queue_pop of a queue that is not empty. *)
PoppedKeepsCount(q) == [q EXCEPT !.head = NextInQueue(q.head)]  \* mutant
Popped(q) ==
  [alive |-> q.alive, buf |-> [q.buf EXCEPT ![q.head] = NoPacket],
   head |-> NextInQueue(q.head), tail |-> q.tail, count |-> q.count - 1]

(* The packets in the queue, in the order they will be popped.             *)
QueueSlot(q, i) ==
  IF q.head + i - 1 < QueueCapacity THEN q.head + i - 1
                                    ELSE q.head + i - 1 - QueueCapacity
QueueContents(q) == [i \in 1 .. q.count |-> q.buf[QueueSlot(q, i)]]
=============================================================================
