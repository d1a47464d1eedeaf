SPECIFICATION MediaSpec
CONSTANTS
  FrameQueueCap = 2
  JitterSize = 2
  RetryAfter = 1
  WaitAfter = 2
  RestartAfter = 3
  MaxFrames = 4
  MaxToggles = 2
  MaxSessions = 2
INVARIANTS MediaTypeOK NoStaleFrame SendOrder Forward WaitBounded PauseAgrees
PROPERTIES Grounded ShownInOrder
CHECK_DEADLOCK FALSE
