CONSTANTS
    Records = {r1, r2}
    Flushes = {f1}
    Shutdowns = {s1}
    Unbounded = {}
    QueueSize = 1
SPECIFICATION FairSpec
PROPERTIES
    RecordNeverBlocks
    BoundedFlushReturns
    ShutdownReturns
    QueuedRunsOrShutdown
