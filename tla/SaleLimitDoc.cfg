SPECIFICATION ContractsSpec
CONSTANTS
    ActiveContracts = {"sale"}
    MaxBlock = 2
    Callbacks = {c1, c2}
    Requesters = {c1, c2}
    OracleSigners = {s1, s2}
    Salts = {0}
    None = None
    EntropyRequested = EntropyRequested
    MaxRegistrations = 3
    LoopCallbacks = {l1}
    MaxDepth = 1
    NoCallback = NoCallback
    alice = alice
    bob = bob
    allowanceSigner = allowanceSigner
    Nobody = Nobody
    Accounts = {alice, bob}
    Operators <- MCOperators
    Prices = {0, 1}
    InitialPrice = 1
    Limits = {0, 1, 2}
    InitialLimit = 1
    Allowances <- MCAllowances
    Signers = {allowanceSigner}
    MaxNumSellable = 1
    GatingSupply = 1
    InitialHolder = bob
    MaxTime = 1
    SellerContracts = {"public", "signed", "free", "gated", "airdrop"}
    RedeemerContracts = {"mintPass", "recorded", "ranking", "burner"}
    Steered = {"public", "recorded"}
    PoolContracts = {"mintPass"}
    MaxVouchers = 2
    NumProjects = 2
    MaxNumPerProject <- MCMaxNumPerProject
    PassPrice = 1
    NumChoices = 2
    MaxBatch = 2
    MaxNum = 2
    MaxValue = 2
    MaxChanges = 2
INVARIANT ZeroMeansNoLimit
CHECK_DEADLOCK FALSE
