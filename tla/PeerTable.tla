----------------------------- MODULE PeerTable ------------------------------
(***************************************************************************)
(* What the engine promises of its slots, whatever its threads do:         *)
(*   - a slot goes from one peer to another only by being empty, and a     *)
(*     peer that has a slot is given no second one;                        *)
(*   - a slot's connection is one that exists and was made for that slot.  *)
(*     Once it is given up it never comes back, though it may exist for    *)
(*     long, and it is gone from the slot at the moment it is destroyed;   *)
(*   - each step is about one slot or one connection.                      *)
(* It does not promise that an empty slot has no connection: that of a     *)
(* peer that is being removed may still be accepted.  Nor that a slot      *)
(* without a name has no peer: a removal may erase the name of the next.   *)
(***************************************************************************)
CONSTANTS Slots, Peers, NoPeer, Conns, NoConn

VARIABLES
  who,   \* the peer each slot is known by
  link,  \* the connection of each slot
  live   \* the connections that exist

TableInit ==
  /\ who = [s \in Slots |-> NoPeer]
  /\ link = [s \in Slots |-> NoConn]
  /\ live = {}

Admit(s, p) ==
  /\ who[s] = NoPeer
  /\ \A t \in Slots : who[t] # p
  /\ who' = [who EXCEPT ![s] = p]
  /\ UNCHANGED <<link, live>>

Evict(s) ==
  /\ who' = [who EXCEPT ![s] = NoPeer]
  /\ link' \in {link, [link EXCEPT ![s] = NoConn]}
  /\ UNCHANGED live

Establish(s, c) ==
  /\ c \notin live
  /\ live' = live \cup {c}
  /\ link' = [link EXCEPT ![s] = c]
  /\ UNCHANGED who

GiveUp(s) ==
  /\ link' = [link EXCEPT ![s] = NoConn]
  /\ UNCHANGED <<who, live>>

Destroy(c) ==
  /\ c \in live
  /\ live' = live \ {c}
  /\ link' = [s \in Slots |-> IF link[s] = c THEN NoConn ELSE link[s]]
  /\ UNCHANGED who

TableNext ==
  \/ \E s \in Slots : Evict(s) \/ GiveUp(s)
  \/ \E s \in Slots : \E p \in Peers : Admit(s, p)
  \/ \E s \in Slots : \E c \in Conns : Establish(s, c)
  \/ \E c \in Conns : Destroy(c)

TableSpec == TableInit /\ [][TableNext]_<<who, link, live>>
=============================================================================
