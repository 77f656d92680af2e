SPECIFICATION FairSpec
CONSTANTS
  Depth = 2
  FrameIds = 6
  Views = {v1}
  nullptr = nullptr
CHECK_DEADLOCK FALSE
PROPERTIES
  CommittedFrameConsumed
