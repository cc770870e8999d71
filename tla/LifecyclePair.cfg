\* Two stores that share the flag, one of them with Raft; a wait may begin
\* before start is done, a request may hang.
CONSTANTS
    s1 = s1  s2 = s2
    Stores = {s1, s2}
    RaftStores = {s1}
    Busy = {s1}
    MaxRequests = 1
    Liberties = {"early_wait", "wedge"}
SPECIFICATION LiveSpec
INVARIANTS TypeOK StopHolds WaitMeansStopped LifeInv
PROPERTIES ReverseOrder StartTells StopReturns StopEndsWait EventsEnd
CHECK_DEADLOCK FALSE
