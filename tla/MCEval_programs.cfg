\* Every special form and every kind of error, collections at any allocation,
\* and in some programs any request for memory failing.
SPECIFICATION FairSpec
CONSTANTS
    HeapSize = 70
    MaxEvalDepth = 5
    Read <- Load
    Programs <- AllPrograms
    Starved <- StarvedPrograms
INVARIANTS
    TypeOK
    Rooted
    ProtectLayout
    AsExpected
    TailCallsTakeNoRoom
    DepthExact
    ArgvExact
PROPERTIES
    Terminates
