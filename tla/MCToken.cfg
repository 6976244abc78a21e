CONSTANTS
    k1 = k1
    k2 = k2
    g = g
    Mints = {m1}
    Accounts = {a1, a2}
    Keys = {k1, k2}
    Multisigs = {g}
    SystemKey = system
    NativeMint = native
    None = none
    MaxU64 = 3
    Reserve = 1
    MaxSigners = 2
    Lamports = 3
    Owners = {g, system}
    Delegates = {k2}
    Allowances = {0, 2}
    CloseAuthorities = {k2}
    MintAuthorities = {k1}
    FreezeAuthorities = {k1}
    MultisigArgs <- BothOfTwo
SYMMETRY AccountSymmetry
SPECIFICATION Spec
INVARIANTS
    SupplyIsHeld
    NativeIsBacked
PROPERTIES
    LossIsAuthorized
    AllowanceIsGranted
CHECK_DEADLOCK FALSE
