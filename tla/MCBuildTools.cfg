SPECIFICATION MCSpec
CONSTANTS
    Forms <- ToolForms
    NULL = NULL
    LowerFirst <- MCLowerFirst
    Normalized <- MCNormalized
    Qtified <- MCQtified
    Commands <- MCCommands
    Disk <- MCDisk
    Locales <- MCLocales
    Hash <- MCHash
    Seeds <- MCSeeds
    Faults <- MCFaults
    Objects <- MCObjects
INVARIANTS
    ReaderTypeOK
    OwnedOnce
    DefinedBeforeUse
    EachOwnVariable
    Wired
    FilesFound
    SecondPassFits
PROPERTIES
    ReadsTheForm
    SavedReadsBack
    UicFinishes
    RbrccFinishes
CHECK_DEADLOCK FALSE
