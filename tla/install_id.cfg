CONSTANTS
    Processes = {p1, p2, p3, p4}
    Old = Old
    Damaged = Damaged
    Absent = Absent
    NoID = NoID
SPECIFICATION Spec
SYMMETRY RunSymmetry
INVARIANTS
    TypeOK
    OnlyPersistedIDs
    StableUnlessDisturbed
