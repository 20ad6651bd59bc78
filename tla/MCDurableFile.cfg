SPECIFICATION Spec
CONSTANTS
    Values = {v1, v2, v3}
    Absent = absent
    Torn = torn
INVARIANTS
    ReadsAreRecent
PROPERTIES
    ImplementsAtomicFile
