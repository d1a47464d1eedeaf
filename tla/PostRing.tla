------------------------------ MODULE PostRing ------------------------------
(***************************************************************************)
(* The ring of asynchronous POST requests of p2p_signaling.c: head and     *)
(* tail, and one slot that stays unused so that a full ring can be told    *)
(* from an empty one.  The caller holds post_queue_mutex.  A slot that was *)
(* read keeps its bytes in the code; here it is cleared.                   *)
(***************************************************************************)
EXTENDS Naturals, Sequences

CONSTANTS
  PostQueueSize,  \* P2P_SIG_POST_QUEUE_SIZE
  Messages        \* the bodies that are posted

NoMessage == "no message"

ASSUME PostQueueAssumption == PostQueueSize \in Nat /\ PostQueueSize > 1
ASSUME MessagesAssumption == NoMessage \notin Messages

RingSlots == 0 .. PostQueueSize - 1

Rings == [slot : [RingSlots -> Messages \cup {NoMessage}],
          head : RingSlots, tail : RingSlots]

(* (i + 1) % P2P_SIG_POST_QUEUE_SIZE *)
NextInRing(i) == IF i + 1 = PostQueueSize THEN 0 ELSE i + 1

EmptyRing == [slot |-> [i \in RingSlots |-> NoMessage], head |-> 0, tail |-> 0]

RingFullNever(r) == FALSE  \* mutant
RingFull(r) == NextInRing(r.tail) = r.head
RingIdle(r) == r.head = r.tail

Enqueued(r, m) ==
  [slot |-> [r.slot EXCEPT ![r.tail] = m], head |-> r.head,
   tail |-> NextInRing(r.tail)]

NextMessage(r) == r.slot[r.head]
Dequeued(r) ==
  [slot |-> [r.slot EXCEPT ![r.head] = NoMessage], head |-> NextInRing(r.head),
   tail |-> r.tail]

(* The requests in the ring, in the order they will be posted. *)
RingLength(r) ==
  IF r.head <= r.tail THEN r.tail - r.head ELSE r.tail + PostQueueSize - r.head
RingSlot(r, i) ==
  IF r.head + i - 1 < PostQueueSize THEN r.head + i - 1
                                    ELSE r.head + i - 1 - PostQueueSize
RingContents(r) == [i \in 1 .. RingLength(r) |-> r.slot[RingSlot(r, i)]]
=============================================================================
