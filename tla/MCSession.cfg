SPECIFICATION SessionFairSpec
CONSTANTS
  PostQueueSize = 3
  QueueCapacity = 2
  Packets = {p1, p2}
  Messages = {"sdp", "cand", "done"}
  MaxConnects = 2
  MaxEvents = 2
INVARIANTS SessionTypeOK NoUseAfterFree SignalOrder StoppedClean
PROPERTIES PostFifoSpec PacketFifoSpec Stops QueuedTaken
CHECK_DEADLOCK FALSE
