SPECIFICATION FairSpec
CONSTANTS
    Goroutines = {g1, g2, g3}
    NoOne = NoOne
INVARIANTS
    ItemConserved
PROPERTIES
    ClosedOffStays
    ImplementsGate
    CallsReturn
