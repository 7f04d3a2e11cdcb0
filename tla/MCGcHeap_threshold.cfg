\* The threshold after a sweep, with an initial threshold above the floor.
SPECIFICATION Spec
CONSTANTS
    Obj = {o1, o2}
    Imm = Imm
    Kinds = {"STRING"}
    Stress = FALSE
    InitialThreshold = 2
    Floor = 1
    WorklistInit = 1
    ProtectInit = 1
    MaxProtect = 1
    MaxBindings = 0
PROPERTIES ThresholdAsDocumented
