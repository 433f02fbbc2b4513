SPECIFICATION Spec
CONSTANTS
    N = 3
    Fees = {1, 2, 6}
    Weights = {1, 3}
    MaxBlocks = 3
    MaxBlockWeight = 5
    Reserved = 1
    FailureLimit = 1
INVARIANT AllIncluded
CHECK_DEADLOCK FALSE
