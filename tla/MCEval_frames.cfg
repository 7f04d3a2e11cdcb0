\* A closure body of two forms whose first tail-calls an allocating closure.
SPECIFICATION Spec
CONSTANTS
    HeapSize = 60
    MaxEvalDepth = 5
    Read <- Load
    Starved = {}
    Programs <- BodyPrograms
INVARIANTS
    Rooted
