SPECIFICATION MCSpec
SYMMETRY Validator
CONSTANTS
    Validators = {v1, v2}
    None = None
    Rent = 1
    MinimumActive = 1
    MinimumReserve = 1
    Seeds = {0, 1}
    MaxValidators = 2
    MaxEpoch = 2
    MaxU64 = 12
    Reserves = {2, 6}
    Deposits <- SmallDeposits
    Increases = {3}
    Withdrawals = {3}
    Rewards = {1}
    InitialFees <- SomeFees
    Budgets <- SmallBudgets
    FeeChanges <- SomeFeeChanges
INVARIANTS
    Solvent
    UpToDateIsAccurate
    DelegatedStakeListed
PROPERTIES
    PriceHolds
    
