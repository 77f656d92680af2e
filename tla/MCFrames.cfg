SPECIFICATION Spec
CONSTANTS
  Depth = 2
  FrameIds = 6
  Views = {v1, v2}
  nullptr = nullptr
CHECK_DEADLOCK FALSE
INVARIANTS
  FramesTypeOK
  SlotsAccounted
  ConsumerFindsItem
  OneRequestPending
  VsyncAskedOnce
PROPERTIES
  ImplementsFrameDelivery
