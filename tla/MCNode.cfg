CONSTANTS
    Accounts = {1, 2, 3}
    Absent = Absent
    MultiplierOne = 1
    MultiplierMax = 2
    MaxWeight = 99
    Sampled = 3
    Active = 2
    TestKeyed = {3}
    AllowTestAlgorithms = FALSE
    EpochsPerPeriod = 2
    FirstPeriod = 5
    ShiftWidth = 2
    SupplyCap = 90
    EpochBlocks = 1
    NoLink = NoLink
    Nodes = {n1, n2}
    alice = alice
    bob = bob
    Users = {alice, bob}
    Payer = alice
    Deposit = 1
    Balance = 1
    Window = 2
    Genesis <- MCGenesis
    Seed <- MCSeed
    MaxRevealCatchup = 2
    Faulty = {2}
    Candidates <- MCCandidates
    MaxHeight = 3
    MaxPublished = 3
SPECIFICATION Spec
SYMMETRY NodeSymmetry
INVARIANTS
    TypeOK
    StateIsItsBranch
    RevealsOnlyAdvance
    ProposalsValidate
    EmissionWithinSchedule
    EvidenceNeedsTwoBlocks
