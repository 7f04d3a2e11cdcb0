\* Every short text, collections anywhere, any request for memory failing.
SPECIFICATION FairSpec
CONSTANTS
    HeapSize = 14
    MaxReadDepth = 2
    MayFail = TRUE
    Texts <- AllTexts
INVARIANTS
    TypeOK
    Rooted
    ProtectLayout
    DepthExact
    ScratchExact
    ReadsAsWritten
    ErrorsTellApart
PROPERTIES
    Terminates
CHECK_DEADLOCK FALSE
