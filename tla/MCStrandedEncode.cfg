\* Image encodes, decodes and snapshots on an iOS device that goes to the background.
SPECIFICATION GpuSpec
CONSTANTS
    Uploads = {u1}
    Encodes = {e1}
    kMaxTasksAwaitingGPU = 2
INVARIANTS
    NoEncodeStranded
CHECK_DEADLOCK FALSE
