\* A worker with every RPC and a thread with every call of the connector, two
\* keys; writes may fail and the cache may throw.
CONSTANTS
    t1 = t1  t2 = t2  w1 = w1  w2 = w2  d1 = d1  d2 = d2
    Threads <- MCThreads
    Words <- MCWords
    U64Mod = 8
    CacheIds = {1, 2}
    Payloads <- MCData
    StoreArgs <- MCStoreArgs
    Prefixes <- MCPrefixes
    Limits <- MCLimits
    Faults = {"write"}
    MaxNow = 3
    MaxCrashes = 0
    DefaultModel <- MCModel
    Workers = {t1}
    Callers = {t2}
    Asks <- MCAsks
    Throws = TRUE
    Requests <- MCRequests
SPECIFICATION FrontendsSpec
INVARIANTS TypeOK AnswersWitnessed ScanInOrder ScanComplete FrontendsInv
PROPERTIES Transparent
