SPECIFICATION PublisherSpec
CONSTANTS
  Role = "publisher"
  DeferRemoval = TRUE
  MaxSubscribers = 2
  MaxConns = 1
  PeerIds = {a, b}
  a = a
  b = b
  MaxEvents = 3
INVARIANT UniquePeerIds
PROPERTY TableSpec
SYMMETRY PeerSymmetry
