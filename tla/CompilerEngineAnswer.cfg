\* One inline function of Qt.
SPECIFICATION Spec
CONSTANTS
    Decls <- QtDecls
    Asts <- MCQt
    JitMain = "jit"
    NULL = NULL
    MaxRounds = 10
INVARIANTS
    AnswersMatch
CHECK_DEADLOCK FALSE
