CONSTANTS
    Senders = {s1, s2}
    GasUses = {1, 2}
    BlockGasLimit = 3
    BlockPeriod = 10
    Adjustments = {5}
    MaxHeight = 2
    MaxPending = 2
    MaxAdjusted = 10
    BatchSizes = {1, 2}
SPECIFICATION ChainSpec
INVARIANTS TypeOK PendingBlockValid StreamIsFlattening
PROPERTIES UnsubscribeReturns
