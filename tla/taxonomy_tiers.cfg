CONSTANTS
    Calls = {c1, c2}
    Operations <- AllKinds
    Commands = {deploy, push}
    Features = {dryRun}
    InstallIDs = {i1}
    QueueSize = 1
    None = None
    NoID = NoID
    Load = Load
SPECIFICATION Spec
SYMMETRY CallSymmetry
INVARIANTS
    TypeOK
    
    SuggestionRegistered
    DropsCounted
