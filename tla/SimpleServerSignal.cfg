\* The server program is sent a signal.
CONSTANTS
    s1 = s1
    Stores = {s1}
    RaftStores = {s1}
    Busy = {s1}
    MaxRequests = 1
    Liberties = {}
SPECIFICATION ServerSpec
PROPERTY SignalStops
CHECK_DEADLOCK FALSE
