CONSTANTS
    MaxU64 = 15
    FractionBase = 10
    Owners = {o1, o2}
    Signatories = {}
    MaxProposals = 1
    MaxOptions = 1
    MaxTransactions = 0
    MaxTime = 1
    BurnFloor = 15
    MintCeiling = 0
    InitialSupply <- ElectorateSupply
    OutstandingLimit = 1
    Kinds <- OneYesNo
    GovernanceConfigs <- ElectorateConfigs
    RealmConfigs <- ElectorateRealms
    AddinWeights = {0, 8}
    MaxAddinWeights = {15}
    HoldUpTimes = {}
    Payloads = {}
SYMMETRY OwnerSymmetry
SPECIFICATION Spec
INVARIANTS
    TalliesMatchRecords
    VetoHasQuorum
CHECK_DEADLOCK FALSE
