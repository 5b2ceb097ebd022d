CONSTANTS
    Records = {r1, r2, r3}
    Flushes = {f1}
    Shutdowns = {s1, s2}
    Unbounded = {}
    QueueSize = 2
SPECIFICATION Spec
SYMMETRY CallSymmetry
INVARIANTS
    TypeOK
    DrainCoversPrior
    InOrder
    ShutdownLosesOnlyRacers
    NoJobOnDeadProvider
    NoSilentLoss
    SingleShutdown
PROPERTIES
    ImplementsDelivery
