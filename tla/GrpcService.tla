----------------------------- MODULE GrpcService -----------------------------
(***************************************************************************)
(* src/src/common/grpc_service.cpp: the handlers of the key-value RPCs,    *)
(* each run by a worker thread, over any cache that behaves like           *)
(* KVCacheSpec.  All but Scan are one call of the cache; Scan is a list    *)
(* followed by a retrieve per key with nothing held in between.            *)
(***************************************************************************)
EXTENDS KVCacheInterface, FiniteSets, Functions

CONSTANTS
    MaxNow, MaxCrashes,  \* bounds of the cache
    Workers,             \* the threads that run handlers
    DefaultModel,        \* "default_model", the model id of every Put
    Requests             \* the requests the clients send

PutRequests    == [rpc : {"Put"}, key : Ids, value : Payloads]
KeyRpcs        == {"Get", "Delete", "RetrieveKVCache", "DeleteKVCache"}
KeyRequests    == [rpc : KeyRpcs, key : Ids]
StoreRequests  == [rpc : {"StoreKVCache"}, key : Ids, args : StoreArgs]
ListRequests   == [rpc : {"ListKVCacheKeys"}, ids : Prefixes, limit : Limits]
ScanRequests   == [rpc : {"Scan"}, ids : Prefixes, end : Nat, limit : Limits]

\* What Put stores under a key.
PutArgs(v) == [model |-> DefaultModel, seq |-> 0, tok |-> 0, data |-> v, ttl |-> 0]

ASSUME GrpcAssumption ==
    /\ Workers \subseteq Threads
    /\ DefaultModel # <<>>
    /\ \A v \in Payloads : PutArgs(v) \in StoreArgs
    /\ Requests \subseteq PutRequests \cup KeyRequests \cup StoreRequests
                            \cup ListRequests \cup ScanRequests

VARIABLES
    cache, durable, now, pending, answer, since, crashes,  \* the cache
    stage,      \* where each worker is in its handler
    rpc,        \* the request each worker handles
    left,       \* Scan: the keys still to retrieve
    kvs,        \* Scan: the pairs added to the response so far
    response,   \* what the worker is about to send
    witnessed,  \* history: the ids and values in the cache during the request
    gone,       \* history: the key of the request, if it was missing at some time
    steady      \* history: the ids that were there for ever, all through a Scan

Cache == INSTANCE KVCacheSpec

cacheVars   == <<cache, durable, now, pending, answer, since, crashes>>
handlerVars == <<stage, rpc, left, kvs, response>>
historyVars == <<witnessed, gone, steady>>
vars        == <<cacheVars, handlerVars, historyVars>>

NoRpc      == [rpc |-> "none"]
NoResponse == [none |-> TRUE]

Init ==
    /\ Cache!Init
    /\ stage = [t \in Workers |-> "idle"]
    /\ rpc = [t \in Workers |-> NoRpc]
    /\ left = [t \in Workers |-> <<>>]
    /\ kvs = [t \in Workers |-> <<>>]
    /\ response = [t \in Workers |-> NoResponse]
    /\ witnessed = [t \in Workers |-> {}]
    /\ gone = [t \in Workers |-> {}]
    /\ steady = [t \in Workers |-> {}]
-----------------------------------------------------------------------------
\* The call of the cache a handler begins with.
CallOf(q) ==
    CASE q.rpc = "Put" ->
           [op |-> "store", id |-> q.key, args |-> PutArgs(q.value)]
      [] q.rpc = "StoreKVCache" ->
           [op |-> "store", id |-> q.key, args |-> q.args]
      [] q.rpc \in {"Get", "RetrieveKVCache"} ->
           [op |-> "retrieve", id |-> q.key]
      [] q.rpc \in {"Delete", "DeleteKVCache"} ->
           [op |-> "delete", id |-> q.key]
      [] q.rpc \in {"Scan", "ListKVCacheKeys"} ->
           [op |-> "list", ids |-> q.ids, limit |-> q.limit]

\* The response of a handler that makes one call; Get sends the data alone.
ResponseOf(q, a) ==
    CASE q.rpc \in {"Put", "StoreKVCache", "Delete", "DeleteKVCache"} ->
           [success |-> a.ok]
      [] q.rpc = "Get" ->
           [success |-> a.value # {}, data |-> {v.data : v \in a.value}]
      [] q.rpc = "RetrieveKVCache" ->
           [success |-> a.value # {}, found |-> a.value]
      [] q.rpc = "ListKVCacheKeys" ->
           [success |-> TRUE, cache_ids |-> a.keys]

To(t, label) == stage' = [stage EXCEPT ![t] = label]

\* A worker takes up a request and calls the cache.
Receive(t, q) ==
    /\ stage[t] = "idle"
    /\ Cache!Invoke(t, CallOf(q))
    /\ rpc' = [rpc EXCEPT ![t] = q]
    /\ To(t, IF q.rpc = "Scan" THEN "list" ELSE "call")
    /\ UNCHANGED <<left, kvs, response>>

\* The cache has answered: Put, Get, Delete and the four KVCache handlers.
Respond(t) ==
    /\ stage[t] = "call"
    /\ Cache!Return(t)
    /\ response' = [response EXCEPT ![t] = ResponseOf(rpc[t], answer[t])]
    /\ To(t, "send")
    /\ UNCHANGED <<rpc, left, kvs>>

\* Scan has the keys.
ScanListed(t) ==
    /\ stage[t] = "list"
    /\ Cache!Return(t)
    /\ left' = [left EXCEPT ![t] = answer[t].keys]
    /\ To(t, "scan")
    /\ UNCHANGED <<rpc, kvs, response>>

\* Mutant of ScanSkip: the end key is skipped too.
ScanSkipEnd(t) ==
    /\ stage[t] = "scan" /\ left[t] # <<>> /\ Head(left[t]) >= rpc[t].end
    /\ left' = [left EXCEPT ![t] = Tail(@)]
    /\ UNCHANGED <<cacheVars, stage, rpc, kvs, response>>

\* The loop of Scan: pass over a key beyond the end key ...
ScanSkip(t) ==
    /\ stage[t] = "scan" /\ left[t] # <<>> /\ Head(left[t]) > rpc[t].end
    /\ left' = [left EXCEPT ![t] = Tail(@)]
    /\ UNCHANGED <<cacheVars, stage, rpc, kvs, response>>

\* Mutant of ScanRetrieve: the end key is not looked at.
ScanRetrieveBeyond(t) ==
    /\ stage[t] = "scan" /\ left[t] # <<>>
    /\ Cache!Invoke(t, [op |-> "retrieve", id |-> Head(left[t])])
    /\ To(t, "value")
    /\ UNCHANGED <<rpc, left, kvs, response>>

\* ... or ask for the value of the next key ...
ScanRetrieve(t) ==
    /\ stage[t] = "scan" /\ left[t] # <<>> /\ Head(left[t]) <= rpc[t].end
    /\ Cache!Invoke(t, [op |-> "retrieve", id |-> Head(left[t])])
    /\ To(t, "value")
    /\ UNCHANGED <<rpc, left, kvs, response>>

\* Mutants of ScanValue: the value goes under the last key; the pair gets
\* the whole record.
ScanValueMisfiled(t) ==
    /\ stage[t] = "value"
    /\ Cache!Return(t)
    /\ \/ answer[t] = NullOpt /\ UNCHANGED kvs
       \/ \E v \in answer[t].value : kvs' = [kvs EXCEPT ![t] =
            Append(@, [key |-> left[t][Len(left[t])], value |-> v.data])]
    /\ left' = [left EXCEPT ![t] = Tail(@)]
    /\ To(t, "scan")
    /\ UNCHANGED <<rpc, response>>

ScanValueWhole(t) ==
    /\ stage[t] = "value"
    /\ Cache!Return(t)
    /\ \/ answer[t] = NullOpt /\ UNCHANGED kvs
       \/ \E v \in answer[t].value : kvs' = [kvs EXCEPT ![t] =
            Append(@, [key |-> Head(left[t]), value |-> v])]
    /\ left' = [left EXCEPT ![t] = Tail(@)]
    /\ To(t, "scan")
    /\ UNCHANGED <<rpc, response>>

\* ... and add the pair, unless the key is gone by now.
ScanValue(t) ==
    /\ stage[t] = "value"
    /\ Cache!Return(t)
    /\ \/ /\ answer[t] = NullOpt
          /\ UNCHANGED kvs
       \/ \E v \in answer[t].value :
            kvs' = [kvs EXCEPT ![t] = Append(@, [key |-> Head(left[t]), value |-> v.data])]
    /\ left' = [left EXCEPT ![t] = Tail(@)]
    /\ To(t, "scan")
    /\ UNCHANGED <<rpc, response>>

ScanRespond(t) ==
    /\ stage[t] = "scan" /\ left[t] = <<>>
    /\ response' = [response EXCEPT ![t] = [success |-> TRUE, kvs |-> kvs[t]]]
    /\ To(t, "send")
    /\ UNCHANGED <<cacheVars, rpc, left, kvs>>

\* The response leaves; the worker is free.
Send(t) ==
    /\ stage[t] = "send"
    /\ To(t, "idle")
    /\ rpc' = [rpc EXCEPT ![t] = NoRpc]
    /\ kvs' = [kvs EXCEPT ![t] = <<>>]
    /\ response' = [response EXCEPT ![t] = NoResponse]
    /\ UNCHANGED <<cacheVars, left>>

Handle(t) == \/ \E q \in Requests : Receive(t, q)
             \/ Respond(t) \/ Send(t)
             \/ ScanListed(t) \/ ScanSkip(t) \/ ScanRetrieve(t) \/ ScanValue(t) \/ ScanRespond(t)

\* The cache works, the clock ticks.
CacheStep == /\ (\E t \in Threads : Cache!Perform(t)) \/ Cache!Tick
             /\ UNCHANGED handlerVars

Pairs(c) == {<<id, Cache!Value(c[id])>> : id \in DOMAIN c}
Steady(c) == {id \in DOMAIN c : c[id].forever}

\* The history variables look at the cache after every step of a request,
\* up to its response.
Observe ==
    /\ witnessed' = [t \in Workers |->
         IF stage'[t] = "idle" THEN {}
         ELSE IF stage[t] = "send" THEN witnessed[t]
         ELSE witnessed[t] \cup Pairs(cache')]
    /\ gone' = [t \in Workers |->
         IF rpc'[t].rpc \notin KeyRpcs THEN {}
         ELSE IF stage[t] = "send" THEN gone[t]
         ELSE gone[t] \cup ({rpc'[t].key} \ DOMAIN cache')]
    /\ steady' = [t \in Workers |->
         IF rpc'[t].rpc # "Scan" THEN {}
         ELSE IF stage[t] = "idle" THEN Steady(cache')
         ELSE IF stage[t] = "send" THEN steady[t]
         ELSE steady[t] \cap Steady(cache')]

Next == ((\E t \in Workers : Handle(t)) \/ CacheStep) /\ Observe

Spec == Init /\ [][Next]_vars
-----------------------------------------------------------------------------
Stages == {"idle", "call", "list", "scan", "value", "send"}

KeyValues == [key : CacheIds, value : Payloads]

Responses ==
    {NoResponse} \cup [success : BOOLEAN]
    \cup [success : BOOLEAN, data : SUBSET Payloads]
    \cup [success : BOOLEAN, found : SUBSET KVCacheData]
    \cup [success : {TRUE}, cache_ids : Seq(CacheIds)]
    \cup [success : {TRUE}, kvs : Seq(KeyValues)]

TypeOK ==
    /\ pending \in [Threads -> Calls \cup {NoCall}]
    /\ stage \in [Workers -> Stages]
    /\ rpc \in [Workers -> Requests \cup {NoRpc}]
    /\ left \in [Workers -> Seq(CacheIds)]
    /\ kvs \in [Workers -> Seq(KeyValues)]
    /\ response \in [Workers -> Responses]
    /\ \A t \in Workers : steady[t] \subseteq CacheIds

Sending(t, names) == stage[t] = "send" /\ rpc[t].rpc \in names

\* During the request of worker t the cache had data d, or anything, under id.
Had(t, id, d) == \E p \in witnessed[t] : p[1] = id /\ p[2].data = d
Was(t, id)    == \E p \in witnessed[t] : p[1] = id

\* What worker t is about to send was so during its request.
Truthful(t) ==
    LET q == rpc[t]
        r == response[t]
        c == CallOf(q)
        writes == {"Put", "StoreKVCache", "Delete", "DeleteKVCache"}
    IN  /\ Sending(t, {"Put", "StoreKVCache"}) /\ r.success =>
             <<c.id, Cache!Value(c.args)>> \in witnessed[t]
        /\ Sending(t, {"Delete", "DeleteKVCache"}) /\ r.success => q.key \in gone[t]
        /\ Sending(t, writes) /\ ~r.success => Rejected(c) \/ "write" \in Faults
        /\ Sending(t, {"Get"}) => \A d \in r.data : Had(t, q.key, d)
        /\ Sending(t, {"RetrieveKVCache"}) =>
             \A v \in r.found : <<q.key, v>> \in witnessed[t]
        /\ Sending(t, {"Get", "RetrieveKVCache"}) /\ ~r.success =>
             q.key \in gone[t] \/ "read" \in Faults
        /\ Sending(t, {"ListKVCacheKeys"}) =>
             \A id \in Range(r.cache_ids) : id \in q.ids /\ Was(t, id)
        /\ Sending(t, {"Scan"}) =>
             \A i \in DOMAIN r.kvs : Had(t, r.kvs[i].key, r.kvs[i].value)

(***************************************************************************)
(* No response claims what was never so (grpc_service.cpp:35-253): of what *)
(* it says there was a time between request and response.  A store that    *)
(* answers true has put the whole entry there, a delete that answers true  *)
(* has taken the key away; one that answers false was refused or RocksDB   *)
(* failed.  What is found was stored under its key, with all its metadata; *)
(* what is not found was missing, unless RocksDB failed to read it; a key  *)
(* that is listed was there.  In a Scan other requests change the cache    *)
(* between the list and each of the retrieves.                             *)
(***************************************************************************)
AnswersWitnessed == \A t \in Workers : Truthful(t)

(***************************************************************************)
(* A Scan sends its pairs in the order of their keys, each key once, all   *)
(* with the prefix and none beyond the end key, at most limit of them      *)
(* (grpc_service.cpp:121-136).                                             *)
(***************************************************************************)
ScanInOrder ==
    \A t \in Workers : Sending(t, {"Scan"}) =>
      LET q == rpc[t]
          s == response[t].kvs
      IN  /\ \A i, j \in DOMAIN s : i < j => s[i].key < s[j].key
          /\ \A i \in DOMAIN s : s[i].key \in q.ids /\ s[i].key <= q.end
          /\ q.limit > 0 => Len(s) <= q.limit

\* The keys of a Scan that were there all the time are among these, but for
\* those that the end key or the limit leaves out.
NoneMissing(t, keys) ==
    LET q == rpc[t]
        before(id) == {p[1] : p \in {w \in witnessed[t] : w[1] \in q.ids /\ w[1] < id}}
    IN  \A id \in (steady[t] \cap q.ids) \ keys :
           \/ id > q.end
           \/ q.limit > 0 /\ Cardinality(before(id)) >= q.limit

KeysOf(s) == {kv.key : kv \in Range(s)}

(***************************************************************************)
(* A Scan misses no key of its prefix, up to the end key, that was there   *)
(* all the time - unless as many smaller keys as the limit were there: the *)
(* limit counts keys that are gone before their value is read.             *)
(***************************************************************************)
ScanComplete ==
    \A t \in Workers : Sending(t, {"Scan"}) => NoneMissing(t, KeysOf(response[t].kvs))
-----------------------------------------------------------------------------
(***************************************************************************)
(* Why this is so: what the stage of a worker says of its call, of what    *)
(* the cache has answered, and of what its Scan has collected.             *)
(***************************************************************************)
StoredEntries == [model : ModelId, seq : U64, tok : U64, data : Payloads,
                  forever : BOOLEAN, until : Nat]

CacheSound ==
    /\ DOMAIN cache \subseteq CacheIds /\ IsFiniteSet(DOMAIN cache)
    /\ cache \in [DOMAIN cache -> StoredEntries]
    /\ now \in Nat /\ since \in [Threads -> Nat]
    /\ answer \in [Threads -> Replies]
    /\ \A t \in Threads :
         pending[t] # NoCall /\ answer[t] = NoReply => ~Rejected(pending[t])

StageFits(t) ==
    /\ stage[t] = "idle" => kvs[t] = <<>>
    /\ stage[t] # "idle" => rpc[t] \in Requests
    /\ stage[t] \in {"call", "list"} => pending[t] = CallOf(rpc[t]) /\ kvs[t] = <<>>
    /\ stage[t] = "call" => rpc[t].rpc # "Scan"
    /\ stage[t] \in {"list", "scan", "value"} => rpc[t].rpc = "Scan"
    /\ stage[t] = "value" =>
         /\ left[t] # <<>> /\ Head(left[t]) <= rpc[t].end
         /\ pending[t] = [op |-> "retrieve", id |-> Head(left[t])]

\* What the cache has answered worker t was so during its request.
Tells(t) ==
    LET c == pending[t]
        a == answer[t]
    IN  /\ c.op \in {"store", "delete"} =>
             /\ a \in [ok : BOOLEAN]
             /\ a = Status(FALSE) => Rejected(c) \/ "write" \in Faults
        /\ c.op = "store" /\ a = Status(TRUE) => <<c.id, Cache!Value(c.args)>> \in witnessed[t]
        /\ c.op = "delete" /\ a = Status(TRUE) => c.id \in gone[t]
        /\ c.op = "retrieve" =>
             /\ a \in [value : SUBSET KVCacheData]
             /\ \A v \in a.value : <<c.id, v>> \in witnessed[t]
             /\ a.value = {} /\ stage[t] = "call" => c.id \in gone[t] \/ "read" \in Faults
        /\ c.op = "list" =>
             /\ a \in [keys : Seq(CacheIds)]
             /\ Cache!Ascending(a.keys)
             /\ \A id \in Range(a.keys) : id \in c.ids /\ Was(t, id)
             /\ c.limit > 0 => Len(a.keys) <= c.limit

\* A Scan has collected pairs in order, and before the keys it has left.
Collected(t) ==
    LET q == rpc[t]
        s == kvs[t]
    IN  /\ \A i, j \in DOMAIN s : i < j => s[i].key < s[j].key
        /\ Cache!Ascending(left[t])
        /\ \A i \in DOMAIN s, j \in DOMAIN left[t] : s[i].key < left[t][j]
        /\ \A i \in DOMAIN s : /\ s[i].key \in q.ids /\ s[i].key <= q.end
                              /\ Had(t, s[i].key, s[i].value)
        /\ Range(left[t]) \subseteq q.ids
        /\ q.limit > 0 => Len(s) + Len(left[t]) <= q.limit

HistoryFits(t) == /\ IsFiniteSet(witnessed[t])
                  /\ rpc[t].rpc \notin KeyRpcs => gone[t] = {}

WorkerSound(t) ==
    /\ StageFits(t)
    /\ stage[t] \in {"call", "list", "value"} /\ answer[t] # NoReply => Tells(t)
    /\ stage[t] \in {"scan", "value"} \/ Sending(t, {"Scan"}) => Collected(t)
    /\ Sending(t, {"Scan"}) => left[t] = <<>> /\ response[t].kvs = kvs[t]
    /\ Truthful(t)
    /\ HistoryFits(t)

HandlersSound == TypeOK /\ CacheSound /\ \A t \in Workers : WorkerSound(t)

\* While reads succeed, a Scan has or still has to read what was always there.
ReadsSucceed == Faults \cap {"read", "iterate"} = {}

NothingMissed(t) ==
    /\ stage[t] \in {"list", "scan", "value"} => steady[t] \subseteq Steady(cache)
    /\ stage[t] = "list" /\ answer[t] # NoReply => NoneMissing(t, Range(answer[t].keys))
    /\ stage[t] \in {"scan", "value"} \/ Sending(t, {"Scan"}) =>
         NoneMissing(t, KeysOf(kvs[t]) \cup Range(left[t]))
    /\ stage[t] = "value" /\ answer[t] = NullOpt => Head(left[t]) \notin steady[t]

HandlersInv == /\ HandlersSound
               /\ ReadsSucceed => \A t \in Workers : NothingMissed(t)
=============================================================================
