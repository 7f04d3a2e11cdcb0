\* Frames and closures, a collection at every allocation (gc_stress).
SPECIFICATION FairSpec
CONSTANTS
    Obj = {o1, o2, o3}
    Imm = Imm
    Kinds = {"ENV", "CLOSURE"}
    Stress = TRUE
    InitialThreshold = 1
    Floor = 1
    WorklistInit = 1
    ProtectInit = 1
    MaxProtect = 0
    MaxBindings = 1
INVARIANTS NoDangling
PROPERTIES AllocatorReturns
