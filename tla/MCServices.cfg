\* The components that do not share state, each on a small instance.
SPECIFICATION FairSpec
CONSTANTS
    Workers = {w1, w2}
    Clients = {c1}
    Closures = {k1, k2}
    ForAll = {k3}
    Submissions = {s1, s2}
    Recognizers = {m1, m2, m3}
    nobody = nobody
    Uploads = {u1, u2}
    Encodes = {e1, e2}
    kMaxTasksAwaitingGPU = 2
    MaxPackets = 4
    MaxViews = 2
    GpuObjects = {o1, o2, o3}
    Sizes <- MCSizes
    invalid = invalid
INVARIANTS
    NoSleepOnWork
    ReclaimedAfterFence
    OneVerdictEach
    SweptUnlessHeld
    AnsweredOnce
    NoUploadStranded
    PacketsInOrder
    NothingDangles
    SurfaceGoneOnReturn
    QueuedHasDrain
    ReleasedOnce
PROPERTIES
    ImplementsTaskPool
    DestructorEnds
    SubmittedIsReclaimed
    PacketIsDelivered
    ShellCallsReturn
    ResizeEndsWithItsFrame
CHECK_DEADLOCK FALSE
