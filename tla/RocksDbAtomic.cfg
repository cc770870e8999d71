\* Two fair threads, two ids, entries that expire, no crash.
CONSTANTS
    t1 = t1  t2 = t2  w1 = w1  w2 = w2  d1 = d1  d2 = d2
    Threads <- MCThreads
    NoThread = NoThread
    Words <- MCWords
    U64Mod = 8
    CacheIds = {1, 2}
    Payloads <- MCData
    StoreArgs <- AndRefused
    Prefixes <- AllPrefixes
    Limits = {0, 1}
    Faults = {}
    MaxNow = 3
    MaxCrashes = 0
SPECIFICATION FairSpec
INVARIANTS TypeOK MutexProtects ParsedIsCurrent WedgedOnlyByExpiry ListSoFar IndInv
PROPERTIES HolderMovesOn WedgedUntilRestart ImplementsKVCache
\* A retrieve of an expired entry locks the process up: that is the code.
CHECK_DEADLOCK FALSE
