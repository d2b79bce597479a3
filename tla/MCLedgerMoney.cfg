\* Payments, stakes, offline credit, convictions and names, in and out of partition.
SPECIFICATION Spec
CONSTANTS
    a1 = a1
    a2 = a2
    a3 = a3
    k1 = k1
    k2 = k2
    k3 = k3
    Accounts = {a1, a2}
    Keys = {k1, k2}
    AssetIds = {}
    VAN = VAN
    None = None
    MaxAmount = 60
    MaxHeight = 9
    PurseIds = {}
    MaxTranches = 1
    DisputeWindow = 1
    RecoveryWindow = 1
    Names = {n1}
    Salts = {s1}
    PremiumNames = {}
    RevealDelay = 1
    CommitmentExpiry = 1
    Tickers = {}
    MaxLane = 1
    MaxSequence = 2
    Proposers = {a1}
    EquivocatingKeys = {k2}
    GenesisKey <- FirstDevice
    GenesisBalance = 22
    GenesisCredit = 12
    GenesisGuardians <- NobodyGuards
    GenesisThreshold = 1
    FrozenInPartition = FALSE
    LastHeight = 3
    Kinds = {"NameCommit", "NameReveal", "Transfer", "Bond", "Unbond", "NomadSet", "AccountEquivocation", "ValidatorEquivocation"}
    Fees = {7}
    Sums = {4, 12}
    Deadlines = {9}
    GuardianChoices = {}
    ThresholdChoices = {}
INVARIANTS
    TypeOK
    CommitmentsAreLive
    NativeConservation
    SharesWithinCredit
    OfflineExposureBounded
PROPERTIES
    NameNeverReassigned
    SeizureNeedsFreshOffence
CHECK_DEADLOCK FALSE
