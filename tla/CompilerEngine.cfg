\* Every reference graph of three callees.
SPECIFICATION Spec
CONSTANTS
    Decls <- MCDecls
    Asts <- MCAsts
    JitMain = "jit"
    NULL = NULL
    MaxRounds = 4
INVARIANTS
    TypeOK
    LostOnlyImplicit
    GeneratedOnce
    EverythingCompiled
CHECK_DEADLOCK FALSE
