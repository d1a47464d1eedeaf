SPECIFICATION SubscriberDrainSpec
CONSTANTS
  Role = "subscriber"
  DeferRemoval = TRUE
  MaxSubscribers = 1
  MaxConns = 1
  PeerIds = {pub}
  pub = pub
PROPERTY WatchdogReconnects
