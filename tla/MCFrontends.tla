----------------------------- MODULE MCFrontends -----------------------------
(***************************************************************************)
(* A small instance of Frontends.                                          *)
(***************************************************************************)
EXTENDS Frontends

CONSTANTS t1, t2, w1, w2, d1, d2

MCThreads == {t1, t2}
MCWords   == {w1, w2}
MCData    == {d1, d2}
MCModel   == <<w1>>

\* A store from the vLLM side, whose entry lives a second.
Mortal == [model |-> <<w2>>, seq |-> 1, tok |-> 1, data |-> d1, ttl |-> 1]

Nameless == [Mortal EXCEPT !.model = <<>>]

MCStoreArgs == {PutArgs(d) : d \in MCData} \cup {Mortal, Nameless}

MCPrefixes == {CacheIds}
MCLimits   == {0, 1}

MCRequests ==
    [rpc : {"Put"}, key : {1}, value : {d1}]
    \cup [rpc : {"StoreKVCache"}, key : {2}, args : {Mortal}]
    \cup [rpc : {"Get", "Delete"}, key : {1}]
    \cup [rpc : {"RetrieveKVCache", "DeleteKVCache"}, key : {2}]
    \cup [rpc : {"ListKVCacheKeys"}, ids : MCPrefixes, limit : {1}]
    \cup [rpc : {"Scan"}, ids : MCPrefixes, end : {1}, limit : {0}]
    \cup [rpc : {"Scan"}, ids : MCPrefixes, end : {2}, limit : MCLimits]

MCAsks ==
    [op : {"store"}, id : {1}, args : {Mortal, Nameless}]
    \cup [op : {"store"}, id : {2}, args : {PutArgs(d2)}]
    \cup [op : {"retrieve", "delete"}, id : {1, EmptyId}]
    \cup [op : {"list"}, ids : MCPrefixes, limit : {0}]
=============================================================================
