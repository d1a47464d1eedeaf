SPECIFICATION BoundedSpec
CONSTANTS
  Peers = {a, b}
  a = a
  b = b
  Rooms = {r1, r2}
  r1 = r1
  r2 = r2
  SseConns = {c1, c2}
  c1 = c1
  c2 = c2
  Requests = {q}
  q = q
  MaxSubscribers = 1
  ChanCap = 1
  MaxPosts = 3
INVARIANTS ServerTypeOK RoomCapacity OwnRoomOnly NoDeadChannel
SYMMETRY ServerSymmetry
