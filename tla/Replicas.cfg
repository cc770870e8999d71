\* Two founders; a command each to store, to delete and to remove a node.
CONSTANTS
    n1 = n1  n2 = n2  v1 = v1
    Node = {n1, n2}
    NoNode = NoNode
    Founders = {n1, n2}
    CacheIds = {1}
    Values = {v1}
    Commands <- StoreAndLeave
    Faults = {"apply"}
    MaxRestarts = 1
SPECIFICATION FairSpec
INVARIANTS TypeOK CacheFollowsLog CaughtUpAgree
PROPERTIES OkIsTrue MembersCatchUp
\* Nothing need happen to a cluster.
CHECK_DEADLOCK FALSE
