SPECIFICATION Spec
CONSTANTS
    Goroutines = {g1, g2}
    NoOne = NoOne
INVARIANT WaitersUnblockOnClose
