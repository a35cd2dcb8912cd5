\* A Ruby subclass may define initialize without super.
SPECIFICATION Spec
CONSTANTS
    Values = {r1, r2}
    Addrs = {q1, q2}
    NULL = NULL
    MaxObjId = 2
    SuperSkipped = TRUE
    QtDeletes = FALSE
INVARIANTS
    DtorFindsObject
CHECK_DEADLOCK FALSE
