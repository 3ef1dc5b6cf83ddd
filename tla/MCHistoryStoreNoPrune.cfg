CONSTANTS
    a1 = a1
    s1 = s1
    hAT = hAT
    hST = hST
    Keys <- MCKeys
    HBuckets = {hAT, hST}
    Bucket <- MCBucket
    AccountsHBucket = hAT
    Vals = {v1, v2}
    Nil = Nil
    NoEntry = NoEntry
    MaxTs = 3
    PruneOnUnwind = FALSE
SPECIFICATION Spec
INVARIANTS AsOfConsistent
