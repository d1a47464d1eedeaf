SPECIFICATION ClientsSpec
CONSTANTS
  Peers = {pub, s1}
  pub = pub
  s1 = s1
  Rooms = {room1}
  room1 = room1
  SseConns = {c1, c2}
  c1 = c1
  c2 = c2
  Requests = {q1}
  q1 = q1
  MaxSubscribers = 1
  ChanCap = 2
  Publisher = pub
  Room = room1
  Faults = TRUE
  MaxConnects = 4
INVARIANTS HostedRoomKept
