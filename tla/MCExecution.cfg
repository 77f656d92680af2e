\* Two loops under fair scheduling, with task observers, execute tasks as promised.
SPECIFICATION FairSpec
CONSTANTS
    platform = platform
    ui = ui
    k1 = k1
    kUnmerged = kUnmerged
    Queues <- MCQueues
    Pausable <- MCPausable
    Closures <- MCClosures
    Keys <- MCKeys
    MaxTasks = 2
    MaxTime = 1
    MaxPauses = 1
PROPERTIES
    ImplementsTaskExecution
    DartEventsRun
CHECK_DEADLOCK FALSE
