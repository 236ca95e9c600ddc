SPECIFICATION FairSpec
CONSTANTS
    Handlers = {h1, h2}
    MaxHead = 2
    Burst = 1
    MaxLag = 1
INVARIANTS
    SignedIsMined
PROPERTIES
    CacheRegressesWithinLag
    MinedGetsSigned
