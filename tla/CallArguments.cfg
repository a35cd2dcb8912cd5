\* Calls of Qt classes of the tests and examples with up to three Ruby values.
SPECIFICATION Spec
CONSTANTS
    Records <- MCRecords
    Bases <- MCBases
    Decls <- MCDecls
    Called <- MCCalled
    Argvs <- MCArgvs
    Word <- MCWord
    NULL = NULL
    CRASH = CRASH
INVARIANTS
    TypeOK
    NotHidden
    GivesUpRightly
    CtorTakesAll
    ArgumentsPassed
CHECK_DEADLOCK FALSE
