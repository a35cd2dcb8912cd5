SPECIFICATION Spec
CONSTANTS
    Values = {r1, r2}
    Addrs = {q1, q2, q3}
    NULL = NULL
    MaxObjId = 4
    SuperSkipped = TRUE
    QtDeletes = TRUE
SYMMETRY Symmetry
INVARIANTS
    TypeOK
    BoundLookup
    NativeKept
    ReverseExact
    DtorAbortsUnregistered
PROPERTIES
    ImplementsBinding
CHECK_DEADLOCK FALSE
