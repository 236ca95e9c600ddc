SPECIFICATION FairSpec
CONSTANTS
    URLs = {u1, u2}
    Connected = {u1}
    Waiters = {w1}
    Signers = {s1}
    ErrChanBuffer = 1
    NoOne = NoOne
INVARIANTS
    MapHasOneOwner
    AvailableIsAnyOpen
    PanicsOnlyInClose
PROPERTIES
    ManagementStops
    CallsReturn
