CONSTANTS
    MaxU64 = 15
    FractionBase = 10
    Owners = {o1, o2}
    Signatories = {}
    MaxProposals = 1
    MaxOptions = 2
    MaxTransactions = 0
    MaxTime = 1
    BurnFloor = 1
    MintCeiling = 3
    InitialSupply <- VotingSupply
    OutstandingLimit = 1
    Kinds <- VotingKinds
    GovernanceConfigs <- VotingConfigs
    RealmConfigs <- VotingRealms
    AddinWeights = {}
    MaxAddinWeights = {1, 3}
    HoldUpTimes = {}
    Payloads = {}
SYMMETRY OwnerSymmetry
SPECIFICATION Spec
INVARIANTS
    OpenTallyBackedBySupply
    LiveVotesBacked
    SucceededMeansWon
PROPERTIES
    ExpiredVoteOnlyResolves
CHECK_DEADLOCK FALSE
