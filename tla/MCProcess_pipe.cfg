SPECIFICATION Spec
CONSTANTS
    MaxBlocks = 40
    SpecialForms <- MCSpecialForms
    Builtins <- MCBuiltins
    FirstSymbols = 3
    FirstRoots = 1
    FirstBindings = 2
    FirstMarks = 2
    Threshold = 2
    Floor = 2
    Callers <- MCPipe
INVARIANTS
    ExitZeroMeansDelivered
