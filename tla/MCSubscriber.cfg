SPECIFICATION SubscriberEngineSpec
CONSTANTS
  Role = "subscriber"
  DeferRemoval = TRUE
  MaxSubscribers = 1
  MaxConns = 2
  PeerIds = {pub}
  pub = pub
INVARIANTS SubscriberTypeOK NoDanglingConn NoDanglingSession LiveIsCurrent EmptySlotReusable
PROPERTIES TableSpec QuicStartServed
