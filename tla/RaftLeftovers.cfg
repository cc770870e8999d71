\* Three servers, three terms, three entries.
CONSTANTS
    s1 = s1  s2 = s2  s3 = s3
    Server <- MCServer
    Peers <- MCPeers
    Dummy <- MCDummy
    NoVote = NoVote
    Shared = Shared
    Torn = Torn
    Remains <- MCRemains
    NotYet = NotYet
    Done = Done
    MaxTerm = 3
    MaxIndex = 3
    MaxRestarts = 0
    MaxFailures = 0
    MaxTriggers = 0
SPECIFICATION ClusterSpec
SYMMETRY Symmetry
INVARIANTS StateMachineSafety
CHECK_DEADLOCK FALSE
