CONSTANTS
    Calls = {c1, c2}
    Operations <- HelpAndCounter
    Commands = {deploy}
    Features = {}
    InstallIDs = {i1}
    QueueSize = 1
    None = None
    NoID = NoID
    Load = Load
SPECIFICATION FairSpec
PROPERTY InstallIDArrives
