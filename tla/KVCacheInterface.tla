-------------------------- MODULE KVCacheInterface --------------------------
(***************************************************************************)
(* The calls and the results of KVCacheInterface, shared by the abstract   *)
(* specification of a cache and by the modules that implement it.          *)
(***************************************************************************)
EXTENDS Metadata

CONSTANTS
    Threads,    \* the callers: gRPC workers and the state machine's thread
    CacheIds,   \* non-empty cache ids, numbered in RocksDB's byte order
    Payloads,   \* the data strings
    StoreArgs,  \* the arguments of storeKVCache, without the cache id
    Prefixes,   \* a list prefix is the set of the ids that start with it
    Limits,     \* the int32_t limits of listKVCacheKeys
    Faults      \* which RocksDB calls may fail: "write", "read", "iterate"

ASSUME InterfaceAssumption ==
    /\ CacheIds \subseteq Nat \ {0}
    /\ StoreArgs \subseteq
         [model : ModelId, seq : U64, tok : U64, data : Payloads, ttl : U64]
    /\ Prefixes \subseteq SUBSET CacheIds
    /\ Limits \subseteq Int
    /\ Faults \subseteq {"write", "read", "iterate"}

EmptyId == 0    \* the cache_id ""
Ids     == CacheIds \cup {EmptyId}

StoreCalls    == [op : {"store"}, id : Ids, args : StoreArgs]
RetrieveCalls == [op : {"retrieve"}, id : Ids]
DeleteCalls   == [op : {"delete"}, id : Ids]
ListCalls     == [op : {"list"}, ids : Prefixes, limit : Limits]
Calls         == StoreCalls \cup RetrieveCalls \cup DeleteCalls \cup ListCalls
NoCall        == [op |-> "none"]

\* std::optional<KVCacheData> is a set with at most one element.
KVCacheData == [model : ModelId, seq : U64, tok : U64, data : Payloads]

Status(b)  == [ok |-> b]
Found(v)   == [value |-> {v}]
NullOpt    == [value |-> {}]
Keys(s)    == [keys |-> s]
NoReply    == [none |-> TRUE]
Replies    == [ok : BOOLEAN] \cup [value : SUBSET KVCacheData]
                \cup [keys : Seq(CacheIds)] \cup {NoReply}

\* Mutant of Rejected: the check for an empty cache id is missing.
RejectedModelOnly(c) == c.op = "store" /\ c.args.model = <<>>

\* The arguments every operation refuses before it does anything else.
Rejected(c) == \/ c.op # "list" /\ c.id = EmptyId
               \/ c.op = "store" /\ c.args.model = <<>>

\* The function f with key id set to v.
Bind(f, id, v) == [i \in DOMAIN f \cup {id} |-> IF i = id THEN v ELSE f[i]]

\* What a call answers when it is refused or when RocksDB fails under it.
Failure(c) == IF c.op = "retrieve" THEN NullOpt ELSE Status(FALSE)
=============================================================================
