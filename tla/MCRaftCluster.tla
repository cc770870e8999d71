---------------------------- MODULE MCRaftCluster ----------------------------
(***************************************************************************)
(* Small instances of RaftCluster: three servers that know each other.     *)
(***************************************************************************)
EXTENDS RaftCluster, TLC

CONSTANTS s1, s2, s3

MCServer == {s1, s2, s3}
MCPeers  == [s \in MCServer |-> <<s1, s2, s3>>]
MCDummy  == Entry(0, NoVote)
MCRemains == {FreshState}

Symmetry == Permutations(MCServer)
=============================================================================
