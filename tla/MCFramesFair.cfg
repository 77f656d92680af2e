SPECIFICATION FairSpec
CONSTANTS
  Depth = 1
  FrameIds = 5
  Views = {v1}
  nullptr = nullptr
CHECK_DEADLOCK FALSE
PROPERTIES
  RequestReachesVsync
  CommittedFrameConsumed
