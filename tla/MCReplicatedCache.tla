-------------------------- MODULE MCReplicatedCache --------------------------
(***************************************************************************)
(* Small instances of ReplicatedCache: two nodes, a command each to store  *)
(* and to delete one id, and one that makes a node join or leave.          *)
(***************************************************************************)
EXTENDS ReplicatedCache

CONSTANTS n1, n2, v1

MCStore  == [no |-> 1, op |-> "store", id |-> 1, value |-> v1]
MCDelete == [no |-> 2, op |-> "delete", id |-> 1]
MCAdd    == [no |-> 3, op |-> "add", node |-> n2]
MCRemove == [no |-> 4, op |-> "remove", node |-> n2]

StoreAndLeave == {MCStore, MCDelete, MCRemove}
StoreAndJoin  == {MCStore, MCDelete, MCAdd}
=============================================================================
