\* Definitions, assignments and lookups in nested frames, any growth failing.
SPECIFICATION Spec
CONSTANTS
    Name = {x, y, z}
    Value = {v, w}
    NoValue = NoValue
    FirstCapacity = 1
    MaxFrames = 2
SYMMETRY NameSymmetry
INVARIANTS
    BindsOnce
    ArraysExact
PROPERTIES
    ImplementsScopes
