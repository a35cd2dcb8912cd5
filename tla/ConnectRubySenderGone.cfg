\* Qt may delete the sender of a queued event.
SPECIFICATION Spec
CONSTANTS
    QtObjs = {q1}
    RbObjs = {r1}
    NULL = NULL
    Methods = {"qtconnectrb"}
    Destroys = TRUE
    MaxConns = 1
    MaxEmits = 1
    MaxNest = 2
INVARIANTS
    SenderThere
CHECK_DEADLOCK FALSE
