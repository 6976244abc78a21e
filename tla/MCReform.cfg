CONSTANTS
    MaxU64 = 15
    FractionBase = 10
    Owners = {o1}
    Signatories = {}
    MaxProposals = 2
    MaxOptions = 1
    MaxTransactions = 1
    MaxTime = 1
    BurnFloor = 15
    MintCeiling = 0
    InitialSupply <- ReformSupply
    OutstandingLimit = 2
    Kinds <- OneYesNo
    GovernanceConfigs <- ReformConfigs
    RealmConfigs <- ReformRealms
    AddinWeights = {}
    MaxAddinWeights = {}
    HoldUpTimes = {0}
    Payloads <- ReformPayloads
SPECIFICATION Spec
INVARIANTS
    VotesCounted
    OutstandingCounted
PROPERTIES
    DecidedIsFinal
CHECK_DEADLOCK FALSE
