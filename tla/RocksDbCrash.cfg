\* Two threads, RocksDB failures, a process crash or a power failure.
CONSTANTS
    t1 = t1  t2 = t2  w1 = w1  w2 = w2  d1 = d1  d2 = d2
    Threads <- MCThreads
    NoThread = NoThread
    Words <- MCWords
    U64Mod = 8
    CacheIds = {1}
    Payloads <- MCData
    StoreArgs <- TwoStores
    Prefixes <- OnePrefix
    Limits <- NoLimit
    Faults = {"write", "read", "iterate"}
    MaxNow = 3
    MaxCrashes = 2
SPECIFICATION Spec
SYMMETRY Symmetry
INVARIANTS EntriesPaired
PROPERTIES ImplementsKVCache
\* A retrieve of an expired entry locks the process up: that is the code.
CHECK_DEADLOCK FALSE
