\* The text ends after the dot of a dotted pair.
SPECIFICATION Spec
CONSTANTS
    HeapSize = 12
    MaxReadDepth = 2
    MayFail = FALSE
    Texts <- DottedTexts
INVARIANTS
    TruncatedMidForm
CHECK_DEADLOCK FALSE
