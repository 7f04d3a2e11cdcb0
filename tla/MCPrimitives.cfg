SPECIFICATION Spec
CONSTANTS
    HeapSize = 12
    MaxEqualDepth = 3
    MaxPrintDepth = 3
    MaxReadDepth = 2
    FirstCap = 4
    FixMax = 7
    IntMax = 63
    Calls <- MCCalls
    Cases <- MCCases
    MaxCalls = 2
CHECK_DEADLOCK FALSE
INVARIANTS
    ArithmeticExact
    NeverUndefined
    EqualAgrees
    ReadsBack
    CallsLeaveNothing
