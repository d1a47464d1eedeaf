SPECIFICATION ClientsFairSpec
CONSTANTS
  Peers = {pub, s1}
  pub = pub
  s1 = s1
  Rooms = {room1}
  room1 = room1
  SseConns = {c1, c2}
  c1 = c1
  c2 = c2
  Requests = {q1, q2}
  q1 = q1
  q2 = q2
  MaxSubscribers = 1
  ChanCap = 9
  Publisher = pub
  Room = room1
  Faults = TRUE
  MaxConnects = 4
INVARIANTS ClientsTypeOK HostedRoomExists SeatsOnRecord NoGhostHeard
PROPERTIES SeatFreed ChannelsReleased
\* clients that have connected MaxConnects times stop
CHECK_DEADLOCK FALSE
