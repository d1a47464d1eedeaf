SPECIFICATION PublisherFairSpec
CONSTANTS
  Role = "publisher"
  DeferRemoval = TRUE
  MaxSubscribers = 1
  MaxConns = 1
  PeerIds = {a, b}
  a = a
  b = b
  MaxEvents = 0
PROPERTY IceRestartServed
