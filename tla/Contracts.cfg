SPECIFICATION ContractsSpec
CONSTANTS
    ActiveContracts = {"oracle", "trigger", "sale"}
    MaxBlock = 2
    Callbacks = {c1, c2}
    Requesters = {c1, c2}
    OracleSigners = {s1, s2}
    Salts = {0}
    None = None
    EntropyRequested = EntropyRequested
    MaxRegistrations = 3
    LoopCallbacks = {l1, l2, l3}
    MaxDepth = 3
    NoCallback = NoCallback
    alice = alice
    bob = bob
    allowanceSigner = allowanceSigner
    Nobody = Nobody
    Accounts = {alice, bob}
    Operators <- MCOperators
    Prices = {0, 1}
    InitialPrice = 1
    Limits = {0, 1, 2}
    InitialLimit = 1
    Allowances <- MCAllowances
    Signers = {allowanceSigner}
    MaxNumSellable = 1
    GatingSupply = 1
    InitialHolder = bob
    MaxTime = 1
    SellerContracts = {"public", "signed", "free", "gated", "airdrop"}
    RedeemerContracts = {"mintPass", "recorded", "ranking", "burner"}
    Steered = {"public", "recorded"}
    PoolContracts = {"mintPass"}
    MaxVouchers = 2
    NumProjects = 2
    MaxNumPerProject <- MCMaxNumPerProject
    PassPrice = 1
    NumChoices = 2
    MaxBatch = 2
    MaxNum = 2
    MaxValue = 2
    MaxChanges = 2
SYMMETRY Symmetry
INVARIANTS
    CallbacksAccounted
    EntropyIsHistorical
    DeliveredIsOnRecord
    NoneLost
    LoopInOrder
    LimitsHold
    MintedIsSold
    GoodsMatchBurns
    EditionsAreContiguous
PROPERTIES
    EntropyIsFinal
    ActsAtomically
    LocksHold
CHECK_DEADLOCK FALSE
