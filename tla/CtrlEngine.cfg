\* Nested calls of the same and of other functions, and exceptions.
SPECIFICATION Spec
CONSTANTS
    exec = exec
    setText = setText
    setTitle = setTitle
    a = a
    b = b
    sval0 = sval0
    Symbols <- MCSymbols
    Args <- MCArgs
    Slots <- MCSlots
    SlotOf <- MCSlotOf
    NULL = NULL
    MaxCalls = 4
    MaxNest = 3
INVARIANTS
    TypeOK
    CachesAgree
    EnginesClean
PROPERTIES
    ImplementsCalls
CHECK_DEADLOCK FALSE
