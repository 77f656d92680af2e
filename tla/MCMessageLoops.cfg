\* Two loops, with posts, merges, pauses and joins from every thread.
SPECIFICATION Spec
CONSTANTS
    platform = platform
    ui = ui
    k1 = k1
    kUnmerged = kUnmerged
    Queues <- MCQueues
    Pausable <- MCPausable
    Closures <- MCClosures
    Keys <- NoKeys
    MaxTasks = 3
    MaxTime = 1
    MaxPauses = 1
INVARIANTS
    NoLostWakeup
    RunsOnServicer
    PausesBalanced
PROPERTIES
    PausedStartsNoDartTask
CHECK_DEADLOCK FALSE
