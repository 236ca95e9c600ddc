SPECIFICATION ServicesSpec
CONSTANTS
    ActiveServices = {"library"}
    MaxPool = 4
    MaxHead = 4
    MaxTime = 4
    MaxInt = 4
    CovFiles = {"a.sol", "b.sol"}
    CovExternal = {"b.sol"}
    CovContracts = {"A", "B", "F"}
    WithLibrary = {"B", "F"}
    CovEmbeds <- MCEmbeds
    CovSources <- MCSources
    CovLocations <- MCLocations
    CovAddresses = {"p", "q"}
    MaxFrames = 2
    MaxEvents = 5
    Callers = {"c1", "c2"}
    LockKeys = {"k"}
    MaxFuncs = 2
    Spawns = {"s1", "s2"}
    MaxPages = 3
    PathPrefixes = {1, 2}
    ServerDefs = {"d", "e"}
    ImageServers = {"d"}
    Clients = {"r"}
    IDs = 3
    MetadataOf <- MCMetadataOf
    Animated = {1}
    Impls = {"v1", "v2", "v3", "v4"}
    BadHash = {"v4"}
    Stuck = {"v3"}
    MaxImpls = 3
    MaxSetUps = 5
    q = 5
    SourceList <- MCSourceList
    FileLen <- MCFileLen
    LineLen = 2
    FieldSlices <- MCSlices
    ByteCodes <- MCByteCodes
    SrcMaps <- MCSrcMaps
    EventSigs <- MCSigs
    EventContracts = {"c", "d"}
    EventRequested = {"c"}
    PayloadValues = {0, 1, 255, 256}
    Collections <- MCCollections
INVARIANT NullsSurviveJSON
CHECK_DEADLOCK FALSE
