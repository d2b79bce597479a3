\* Channels in VAN or a local asset: opened, spent through, closed, disputed, settled.
SPECIFICATION Spec
CONSTANTS
    a1 = a1
    a2 = a2
    a3 = a3
    k1 = k1
    k2 = k2
    k3 = k3
    Accounts = {a1, a2}
    Keys = {k1, k2}
    AssetIds = {x1}
    VAN = VAN
    None = None
    MaxAmount = 60
    MaxHeight = 9
    PurseIds = {p1}
    MaxTranches = 2
    DisputeWindow = 2
    RecoveryWindow = 1
    Names = {}
    Salts = {}
    PremiumNames = {}
    RevealDelay = 1
    CommitmentExpiry = 2
    Tickers = {t1}
    MaxLane = 1
    MaxSequence = 2
    Proposers = {a1}
    EquivocatingKeys = {}
    GenesisKey <- FirstDevice
    GenesisBalance = 30
    GenesisCredit = 6
    GenesisGuardians <- NobodyGuards
    GenesisThreshold = 1
    FrozenInPartition = FALSE
    LastHeight = 4
    Kinds = {"Transfer", "PurseOpen", "AssetCreate", "AssetMint", "AssetBurn", "PurseCloseCooperative", "PurseCloseUnilateral", "PurseDispute"}
    Fees = {3}
    Sums = {3, 6}
    Deadlines = {1, 9}
    GuardianChoices = {}
    ThresholdChoices = {}
INVARIANTS
    NativeConservation
    ClaimCovered
    AssetConservation
    NoElapsedPurseLingers
    OfflineExposureBounded
    SpentWithinShare
PROPERTIES
    ClaimOnlyRises
CHECK_DEADLOCK FALSE
