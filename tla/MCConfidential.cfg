CONSTANTS
    Mints = {m}
    m = m
    a = a
    b = b
    Accounts = {a, b}
    Waiting = {a}
    None = None
    MaxU64 = 3
    MaxEpoch = 2
    MintSpaces <- Spaces
    AccountSpaces <- Rooms
    AuthorityChoices <- CreatedWith
    Droppable = {}
    Fees <- Half
    Allowances = {}
SPECIFICATION MCSpec
CHECK_DEADLOCK FALSE
INVARIANTS
    AppliedAsRead
PROPERTIES
    
    WithdrawalsAreCovered
