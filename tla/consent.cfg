CONSTANTS
    Runs = {r1}
    Stores = {s1, s2}
    Setups <- DocumentedSetups
    DefaultTiers = {0, 2}
    Launches <- EveryLaunch
    Absent = Absent
    Damaged = Damaged
SPECIFICATION Spec
SYMMETRY RunSymmetry
INVARIANTS
    TypeOK
    NeverEscalates
    AnonymousInCI
    StoredTierIsUsed
    OptOutIsSilent
    OneCollector
