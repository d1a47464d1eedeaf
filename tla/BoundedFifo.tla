----------------------------- MODULE BoundedFifo -----------------------------
(***************************************************************************)
(* What the queues between the threads promise: at most Capacity items,    *)
(* taken out in the order they were put in, none lost or doubled; only     *)
(* when its owner opens or closes the queue is it emptied as a whole.  A   *)
(* queue that is full refuses an item, which changes nothing.              *)
(***************************************************************************)
EXTENDS Naturals, Sequences

CONSTANTS Items, Capacity

VARIABLES fifo, open

FifoInit == fifo = << >>

Put  == \E x \in Items : Len(fifo) < Capacity /\ fifo' = Append(fifo, x)
Take == fifo # << >> /\ fifo' = Tail(fifo)
Drop == (~open \/ ~open') /\ fifo' = << >>

FifoSpec == FifoInit /\ [][Put \/ Take \/ Drop]_fifo
=============================================================================
