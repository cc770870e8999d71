\* The event thread against the destructor.
CONSTANTS
    s1 = s1  s2 = s2
    Stores = {s1}
    RaftStores = {s1}
    Busy = {s1}
    MaxRequests = 1
    Liberties = {}
SPECIFICATION Spec
INVARIANT EventsConfined
CHECK_DEADLOCK FALSE
