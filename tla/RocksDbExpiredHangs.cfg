\* One thread, one entry that lives a second.
CONSTANTS
    t1 = t1  t2 = t2  w1 = w1  w2 = w2  d1 = d1  d2 = d2
    Threads = {t1}
    NoThread = NoThread
    Words <- MCWords
    U64Mod = 8
    CacheIds = {1}
    Payloads <- MCData
    StoreArgs <- Mortal
    Prefixes <- OnePrefix
    Limits = {0, 1}
    Faults = {}
    MaxNow = 3
    MaxCrashes = 0
SPECIFICATION FairSpec
PROPERTIES RetrieveReturns
CHECK_DEADLOCK FALSE
