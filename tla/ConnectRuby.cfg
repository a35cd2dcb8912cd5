\* Qt and Ruby signals to Qt and Ruby slots, nested event loops, garbage collection,
\* Qt deleting senders and receivers.
SPECIFICATION FairSpec
CONSTANTS
    QtObjs = {q1, q2}
    RbObjs = {r1, r2}
    NULL = NULL
    Methods = {"qtconnectrb", "qtconnectqt", "rbconnectrb", "rbdisconnectrb"}
    Destroys = TRUE
    MaxConns = 2
    MaxEmits = 3
    MaxNest = 2
INVARIANTS
    TypeOK
    OwnArguments
    RouterAsserts
    ReceiverKept
PROPERTIES
    ImplementsDelivery
    EventuallyRuns
CHECK_DEADLOCK FALSE
