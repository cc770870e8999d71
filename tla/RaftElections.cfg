\* Three servers, three terms; saves may fail, elections may be triggered.
CONSTANTS
    s1 = s1  s2 = s2  s3 = s3
    Server <- MCServer
    Peers <- MCPeers
    NoVote = NoVote
    Shared = Shared
    Torn = Torn
    Remains <- MCRemains
    NotYet = NotYet
    Done = Done
    MaxTerm = 3
    MaxRestarts = 1
    MaxFailures = 1
    MaxTriggers = 1
SPECIFICATION Spec
SYMMETRY Symmetry
INVARIANTS TypeOK OneLeaderPerTerm FileNearState
PROPERTIES FileKeepsVotes
\* At the bounds nothing is left to happen.
CHECK_DEADLOCK FALSE
