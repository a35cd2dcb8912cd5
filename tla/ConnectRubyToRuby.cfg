\* Ruby signals to Ruby slots, with a fair event loop.
SPECIFICATION FairSpec
CONSTANTS
    QtObjs = {q1}
    RbObjs = {r1}
    NULL = NULL
    Methods = {"rbconnectrb"}
    Destroys = FALSE
    MaxConns = 1
    MaxEmits = 1
    MaxNest = 2
PROPERTIES
    RubySlotRuns
CHECK_DEADLOCK FALSE
