\* Two founders; the operations of commands do not fail.
CONSTANTS
    n1 = n1  n2 = n2  v1 = v1
    Node = {n1, n2}
    NoNode = NoNode
    Founders = {n1, n2}
    CacheIds = {1}
    Values = {v1}
    Commands <- StoreAndJoin
    Faults = {}
    MaxRestarts = 0
SPECIFICATION Spec
INVARIANTS ReplicasAgree
CHECK_DEADLOCK FALSE
