\* The tower takes tokens from anybody.
CONSTANTS
    Accounts = {alice, bob, carol}
    Keys = {}
    AssetIds = {}
    VAN = VAN
    None = None
    MaxAmount = 9
    MaxHeight = 9
    PurseIds = {p1}
    MaxTranches = 4
    DisputeWindow = 2
    NoLink = NoLink
    ThePurse = p1
    Payer = alice
    Payee = bob
    Tower = carol
    Deposit = 9
    TrancheValue = 2
    Lengths <- MCLengths
    Hearsay = TRUE
    MaxMislabelled = 1
    LastHeight = 4
SPECIFICATION Spec
INVARIANTS
    ForgeryCostsTheTowerAlone
CHECK_DEADLOCK FALSE
