--------------------------- MODULE MCSignalServer ---------------------------
(* Bounds the requests of a run, and declares what is interchangeable.      *)
EXTENDS SignalServer, TLC

CONSTANT MaxPosts  \* create_room, join_room and leave_room requests

VARIABLE posts

Posted == \E q \in Requests : work[q] = Free /\ work'[q] # Free

BoundedInit == ServerInit /\ posts = 0
BoundedNext ==
  /\ ServerNext
  /\ posts' = IF Posted THEN posts + 1 ELSE posts
  /\ posts' <= MaxPosts
BoundedSpec == BoundedInit /\ [][BoundedNext]_<<svars, posts>>

ServerSymmetry ==
  Permutations(Peers) \cup Permutations(SseConns) \cup Permutations(Rooms)
=============================================================================
