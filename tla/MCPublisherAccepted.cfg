SPECIFICATION PublisherSpec
CONSTANTS
  Role = "publisher"
  DeferRemoval = TRUE
  MaxSubscribers = 1
  MaxConns = 2
  PeerIds = {a, b}
  a = a
  b = b
  MaxEvents = 0
PROPERTY AcceptedKeepsSession
