\* The registry alone: any order of addObject on fresh memory and delObject.
SPECIFICATION QomSpec
CONSTANTS
    Values = {r1, r2}
    Addrs = {q1, q2, q3}
    NULL = NULL
    MaxObjId = 4
INVARIANTS
    QomTypeOK
    NoDanglingInfo
    TablesAgree
    RegisteredAllocated
CHECK_DEADLOCK FALSE
