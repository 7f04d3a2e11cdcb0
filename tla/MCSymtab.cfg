\* Interning four names with any request failing.
SPECIFICATION Spec
CONSTANTS
    Name = {a, b, c, d}
    Garbage = Garbage
    NoSymbol = NoSymbol
    NoCall = NoCall
    FirstCapacity = 1
    Ceiling = 2
INVARIANTS
    TypeOK
    Unique
    Stable
    BlocksExact
PROPERTIES
    ImplementsInterner
