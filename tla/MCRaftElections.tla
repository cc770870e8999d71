--------------------------- MODULE MCRaftElections ---------------------------
(***************************************************************************)
(* A small instance of RaftElections: three servers that know each other.  *)
(***************************************************************************)
EXTENDS RaftElections, TLC

CONSTANTS s1, s2, s3

MCServer == {s1, s2, s3}
\* A server may be listed as its own peer, a peer may have no comma.
MCPeers == [s \in MCServer |-> CASE s = s1 -> <<s2, s3>>
                                 [] s = s2 -> <<s1, "", s3>>
                                 [] s = s3 -> <<s1, s2, s3>>]
\* The freed object still shows what it was, or a later term.
MCRemains == {FreshState, State(1, NoVote)}
\* Only the number of the servers a server knows of counts.
Symmetry == Permutations(MCServer)
=============================================================================
