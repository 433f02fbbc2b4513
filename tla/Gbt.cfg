SPECIFICATION Spec
CONSTANTS
    N = 4
    Fees = {1, 4}
    Weights = {1, 3}
    MaxBlocks = 3
    MaxBlockWeight = 6
    Reserved = 1
    FailureLimit = 1
INVARIANTS
    TopologicalOrder
    BlockWeightBound
    HeapCurrent
    LeftOutOnlyWhenFull
PROPERTIES
    GreedyBest
    LiftNeverLowers
    Terminates
CHECK_DEADLOCK FALSE
