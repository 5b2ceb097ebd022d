CONSTANTS
    Calls = {c1, c2, c3}
    Operations <- Racing
    Commands = {deploy}
    Features = {dryRun}
    InstallIDs = {i1, i2}
    QueueSize = 1
    None = None
    NoID = NoID
    Load = Load
SPECIFICATION Spec
SYMMETRY IDSymmetry
INVARIANTS
    OneSession
    OneInstall
    ReportedOnce
    Attributed
    MetricsSeeInstallID
