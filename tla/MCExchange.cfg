CONSTANTS
    Radix = 4
    U64 = 32
    U32 = 16
    U8 = 8
    MaxVarintBytes = 3
    MaxCount = 4
    MaxLength = 3
    MaxObject = 80
    MaxNesting = 3
    Calls = 20
    Samples <- MCSamples
    MaxEdits = 2
    ShortObject = 5
    Depth = 3
    Records <- MCRecords
    KeyOf <- MCKeyOf
    ValueDigests = {v1, v2}
    Leaves = {t1, t2}
    MaxLeaves = 6
    Proposers <- MCProposers
    Epochs = {1, 2}
    Schedules <- MCSchedules
    SegmentLimit = 3
    SampleCount = 2
    Heads = 7
    AccountBytes = 2
    Accounts <- MCAccounts
    Typed = {113, 112, 49, 116, 81}
    MaxTypos = 1
    Chains = {"main", "clone"}
    AccountIds = {"alice", "shop"}
    DeviceKeys = {"phone", "card"}
    RegisteredOn <- MCRegisteredOn
    Kinds = {"pay", "spend", "evidence"}
    EvidenceKinds = {"evidence"}
    MaxSequence = 1
    MaxSigned = 3
SPECIFICATION Spec
INVARIANT CanonicalEncoding
INVARIANT ProofsTellTheTruth
INVARIANT OnlyListedIsIncluded
INVARIANT SamplingCatchesSkippers
INVARIANT MistypedIsRefused
INVARIANT OnlyDoubleSignersAreConvicted
CHECK_DEADLOCK FALSE
