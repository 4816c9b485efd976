SPECIFICATION Spec
CONSTANTS
    d1 = d1
    d2 = d2
    a = a
    b = b
    Docs = {d1, d2}
    Fields = {a, b}
    MaxSeq = 3
    MaxCalls = 3
SYMMETRY Symmetry
INVARIANTS
    NamedRevisionIsReplaced
PROPERTIES
    UpsertMerges
CHECK_DEADLOCK FALSE
