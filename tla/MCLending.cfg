SPECIFICATION MCSpec
SYMMETRY Reserve
CONSTANTS
    Reserves = {r1, r2}
    Obligations = {o1}
    People = {p1}
    None = None
    MaxU64 = 30
    Wad = 1000
    Unit = 1
    SlotsPerYear = 1
    CloseFactor = 50
    CloseAmount = 2
    MaxObligationReserves = 3
    OracleStaleAfter = 2
    MaxSlot = 2
    Inputs = {4, 10, 30}
    Configs <- SmallConfigs
    Quotes <- SmallQuotes
    Returns = {10}
    Wallet = 20
    Opening = {10}
    Budgets <- SmallBudgets
CHECK_DEADLOCK FALSE
INVARIANTS
    LiquidityBacked
    CollateralBacked
PROPERTIES
    LiquidationBounded
    CollateralKeepsWorth
    StaysHealthy
