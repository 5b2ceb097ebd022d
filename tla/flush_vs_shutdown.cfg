CONSTANTS
    Records = {r1}
    Flushes = {f1}
    Shutdowns = {s1}
    Unbounded = {f1}
    QueueSize = 1
SPECIFICATION FullyFairSpec
PROPERTY FlushReturns
CHECK_DEADLOCK FALSE
