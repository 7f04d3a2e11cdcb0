\* Chains, cycles and sharing among pairs beside leaf objects; collections by
\* threshold.
SPECIFICATION Spec
CONSTANTS
    Obj = {o1, o2, o3}
    Imm = Imm
    Kinds = {"PAIR", "STRING", "PRIMITIVE"}
    Stress = FALSE
    InitialThreshold = 1
    Floor = 2
    WorklistInit = 1
    ProtectInit = 1
    MaxProtect = 1
    MaxBindings = 1
SYMMETRY ObjSymmetry
INVARIANTS TypeOK NoDangling MarksClear WorklistBounded LiveCountExact
PROPERTIES ImplementsAbstractHeap
