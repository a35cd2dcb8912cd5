\* display, with one Ruby value.
SPECIFICATION Spec
CONSTANTS
    Records <- MCRecords
    Bases <- MCBases
    Decls <- MCDecls
    Called <- MCDisplay
    Argvs <- MCOneArg
    Word <- MCWord
    NULL = NULL
    CRASH = CRASH
INVARIANTS
    AllPassed
CHECK_DEADLOCK FALSE
