CONSTANTS
    MaxU64 = 15
    FractionBase = 10
    Owners = {o1}
    Signatories = {s1, s2}
    MaxProposals = 1
    MaxOptions = 2
    MaxTransactions = 2
    MaxTime = 3
    BurnFloor = 15
    MintCeiling = 0
    InitialSupply <- ExecutionSupply
    OutstandingLimit = 1
    Kinds <- ExecutionKinds
    GovernanceConfigs <- ExecutionConfigs
    RealmConfigs <- ExecutionRealms
    AddinWeights = {}
    MaxAddinWeights = {}
    HoldUpTimes = {1}
    Payloads <- ExecutionPayloads
SPECIFICATION FairSpec
INVARIANTS
    VotingRequiresAllSignatures
    ExecutedOnlyIfApproved
    CompletedMeansAllExecuted
PROPERTIES
    ImplementsOutcome
    
CHECK_DEADLOCK FALSE
