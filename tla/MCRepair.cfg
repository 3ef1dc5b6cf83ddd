CONSTANTS
    MaxSignals = 2
    StartBlock = 1
    MaxBlock = 4
    BatchLimit = 3
    WriteSizes = {1, 2}
    Coinbases = {c1, c2}
    MaxUncles = 2
    ByzantiumBlock = 3
    FrontierBlockReward = 500000
    ByzantiumBlockReward = 300000
SPECIFICATION Spec
CHECK_DEADLOCK FALSE
INVARIANTS RewardsMatchYellowPaper
