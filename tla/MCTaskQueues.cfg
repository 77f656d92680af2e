\* Every method of the task queue table, called by any thread.
SPECIFICATION TQSpec
CONSTANTS
    platform = platform
    raster = raster
    ui = ui
    k1 = k1
    kUnmerged = kUnmerged
    Queues <- MCQueues
    Closures <- MCClosures
    Keys <- MCKeys
    MaxTasks = 1
    MaxTime = 1
    MaxPauses = 1
SYMMETRY QueueSymmetry
INVARIANTS
    TypeOK
    MergeRecordsAgree
    OwnerNeverSubsumed
    MergedQueuesLive
    OneServicer
CHECK_DEADLOCK FALSE
