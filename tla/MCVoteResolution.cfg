CONSTANTS
    MaxU64 = 15
    FractionBase = 10
    Shapes <- MCShapes
    MaxVoterWeights = {0, 1, 2, 3, 4, 5}
    Percentages = {1, 20, 34, 50, 51, 67, 100}
SPECIFICATION Spec
INVARIANTS
    LoopAgrees
    EarlyTipMatchesFinal
PROPERTIES
    StrictTipIsFinal
CHECK_DEADLOCK FALSE
