\* A margin is seized that was never set aside.
SPECIFICATION Spec
CONSTANTS
    a1 = a1
    a2 = a2
    a3 = a3
    k1 = k1
    k2 = k2
    k3 = k3
    Accounts = {a1, a2}
    Keys = {k1, k2}
    AssetIds = {}
    VAN = VAN
    None = None
    MaxAmount = 60
    MaxHeight = 9
    PurseIds = {}
    MaxTranches = 1
    DisputeWindow = 1
    RecoveryWindow = 1
    Names = {}
    Salts = {}
    PremiumNames = {}
    RevealDelay = 1
    CommitmentExpiry = 1
    Tickers = {}
    MaxLane = 1
    MaxSequence = 2
    Proposers = {a1}
    EquivocatingKeys = {k2}
    GenesisKey <- FirstDevice
    GenesisBalance = 20
    GenesisCredit = 9
    GenesisGuardians <- NobodyGuards
    GenesisThreshold = 1
    FrozenInPartition = TRUE
    LastHeight = 3
    Kinds = {"NomadSet", "AccountEquivocation"}
    Fees = {0}
    Sums = {0, 9}
    Deadlines = {9}
    GuardianChoices = {}
    ThresholdChoices = {}
INVARIANTS
    NativeNeverMinted
CHECK_DEADLOCK FALSE
