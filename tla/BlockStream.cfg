SPECIFICATION FairSpec
CONSTANTS
    MaxBlock = 4
    MaxSessions = 2
INVARIANTS
    ReceivesInOrder
    EOFMeansComplete
PROPERTIES
    FetcherIsReleased
    SessionEnds
