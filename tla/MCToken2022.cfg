CONSTANTS
    Mints = {m}
    Accounts = {a, b}
    m = m
    a = a
    b = b
    None = None
    MaxU64 = 3
    MaxEpoch = 3
    MintSpaces <- Spaces
    AccountSpaces <- Rooms
    AuthorityChoices <- CreatedWith
    Droppable <- Dropped
    Fees <- HalfAndCapped
    Allowances = {1}
SPECIFICATION Spec
SYMMETRY AccountSymmetry
CHECK_DEADLOCK FALSE
INVARIANTS
    SupplyIsHeld
PROPERTIES
    FeesAreAnnounced
    TransfersPayTheFee
