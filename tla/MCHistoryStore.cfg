CONSTANTS
    a1 = a1
    s1 = s1
    hAT = hAT
    hST = hST
    Keys <- MCKeys
    HBuckets = {hAT, hST}
    Bucket <- MCBucket
    AccountsHBucket = hAT
    Vals = {v1, v2}
    Nil = Nil
    NoEntry = NoEntry
    MaxTs = 3
    PruneOnUnwind = TRUE
SPECIFICATION Spec
INVARIANTS TypeOK LiveIsCanonical AsOfConsistent ModifiedAccountsComplete HistoryInv
PROPERTIES StoreSpec
