\* Devices added, revoked and recovered by guardians.
SPECIFICATION Spec
CONSTANTS
    a1 = a1
    a2 = a2
    a3 = a3
    k1 = k1
    k2 = k2
    k3 = k3
    Accounts = {a1, a2, a3}
    Keys = {k1, k2, k3}
    AssetIds = {}
    VAN = VAN
    None = None
    MaxAmount = 60
    MaxHeight = 9
    PurseIds = {}
    MaxTranches = 1
    DisputeWindow = 1
    RecoveryWindow = 1
    Names = {}
    Salts = {}
    PremiumNames = {}
    RevealDelay = 1
    CommitmentExpiry = 1
    Tickers = {}
    MaxLane = 2
    MaxSequence = 3
    Proposers = {a1}
    EquivocatingKeys = {}
    GenesisKey <- FirstDevice
    GenesisBalance = 8
    GenesisCredit = 9
    GenesisGuardians <- OthersGuard
    GenesisThreshold = 2
    FrozenInPartition = TRUE
    LastHeight = 3
    Kinds = {"NomadSet", "DeviceAdd", "DeviceRevoke", "GuardianSet", "RecoveryStart", "RecoveryCancel", "RecoveryFinalise"}
    Fees = {7}
    Sums = {4}
    Deadlines = {9}
    GuardianChoices = {{a2}}
    ThresholdChoices = {0, 1}
INVARIANTS
    LaneHeldByOneDevice
PROPERTIES
    ClockNotRestarted
    DevicesChangeWithNotice
CHECK_DEADLOCK FALSE
