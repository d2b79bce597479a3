CONSTANTS
    Accounts = {1, 2, 3, 4, 5}
    Absent = Absent
    MultiplierOne = 2
    MultiplierMax = 4
    MaxWeight = 99
    Sampled = 4
    Active = 3
    TestKeyed = {5}
    AllowTestAlgorithms = FALSE
    LeakGrace = 1
    LeakPeriod = 2
    MaxMissed = 4
    Sides = {east, west}
    Seeds <- MCSeeds
    EpochBlocks = 5
    Genesis <- MCGenesis
    Bonds = {0, 2}
    MaxMoves = 1
SPECIFICATION Spec
INVARIANTS
    TypeOK
    RosterIsFair
    NoWeightFromNothing
    ConflictNeedsDoubleVoters
    LeakNeverHinders
    SplitOutlastsGrace
PROPERTIES
    FinalityReturns
