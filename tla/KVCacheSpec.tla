----------------------------- MODULE KVCacheSpec -----------------------------
(***************************************************************************)
(* What KVCacheInterface promises its callers: a map from cache ids to     *)
(* entries with a lifetime, on which every operation takes effect in one   *)
(* step between its call and its return.                                   *)
(*                                                                         *)
(* The one liberty an implementation has is the clock: an operation may    *)
(* judge an entry by any time between its call and its effect, and a list  *)
(* may judge each of its keys by a time of its own.                        *)
(***************************************************************************)
EXTENDS KVCacheInterface, FiniteSets, Functions

CONSTANTS MaxNow, MaxCrashes

VARIABLES
    cache,    \* the entries: a function from the cache ids in use
    durable,  \* the entries that survive a power failure
    now,      \* the clock
    pending,  \* the call each thread waits for
    answer,   \* its result, NoReply until the operation took effect
    since,    \* the time of the call
    crashes

vars == <<cache, durable, now, pending, answer, since, crashes>>

Init ==
    /\ cache = <<>> /\ durable = <<>>
    /\ now = 1
    /\ pending = [t \in Threads |-> NoCall]
    /\ answer = [t \in Threads |-> NoReply]
    /\ since = [t \in Threads |-> 0]
    /\ crashes = 0

\* An entry with lifetime ttl is good up to and including second "until".
Entry(a) == [model |-> a.model, seq |-> a.seq, tok |-> a.tok, data |-> a.data,
             forever |-> a.ttl = 0, until |-> IF a.ttl = 0 THEN 0 ELSE now + a.ttl]

GoodAt(e, time) == e.forever \/ time <= e.until

Value(e) == [model |-> e.model, seq |-> e.seq, tok |-> e.tok, data |-> e.data]

Invoke(t, c) ==
    /\ pending[t] = NoCall
    /\ pending' = [pending EXCEPT ![t] = c]
    /\ since' = [since EXCEPT ![t] = now]
    /\ answer' = [answer EXCEPT ![t] = IF Rejected(c) THEN Failure(c) ELSE NoReply]
    /\ UNCHANGED <<cache, durable, now, crashes>>

Waiting(t, op) == pending[t].op = op /\ answer[t] = NoReply

Reply(t, r) == answer' = [answer EXCEPT ![t] = r]

\* A store replaces the whole entry or, when it answers false, nothing.
PerformStore(t) ==
    LET c == pending[t] IN
    /\ Waiting(t, "store")
    /\ \/ cache' = Bind(cache, c.id, Entry(c.args)) /\ Reply(t, Status(TRUE))
       \/ "write" \in Faults /\ cache' = cache /\ Reply(t, Status(FALSE))

PerformDelete(t) ==
    LET c == pending[t] IN
    /\ Waiting(t, "delete")
    /\ \/ /\ cache' = Restrict(cache, DOMAIN cache \ {c.id})
          /\ Reply(t, Status(TRUE))
       \/ "write" \in Faults /\ cache' = cache /\ Reply(t, Status(FALSE))

\* The value of an entry that was good at some time during the call.
PerformRetrieve(t) ==
    LET id == pending[t].id IN
    /\ Waiting(t, "retrieve")
    /\ \/ /\ id \in DOMAIN cache
          /\ GoodAt(cache[id], since[t])
          /\ Reply(t, Found(Value(cache[id])))
          /\ UNCHANGED cache
       \/ /\ id \notin DOMAIN cache \/ "read" \in Faults
          /\ Reply(t, NullOpt)
          /\ UNCHANGED cache
       \/ /\ id \in DOMAIN cache
          /\ ~GoodAt(cache[id], now)
          /\ Reply(t, NullOpt)
          /\ cache' = Restrict(cache, DOMAIN cache \ {id})

(***************************************************************************)
(* The good ids of the prefix, each once and in order, cut at the limit:   *)
(* every key before the last one listed that was good all along is there,  *)
(* every key there was good at some time during the call.                  *)
(***************************************************************************)
GoodIds(ids, time) == {id \in ids \cap DOMAIN cache : GoodAt(cache[id], time)}

Ascending(s) == \A i, j \in DOMAIN s : i < j => s[i] < s[j]

Listings(ids, limit, from) ==
    LET sure   == GoodIds(ids, now)
        maybe  == GoodIds(ids, from)
        full(s) == limit > 0 /\ Len(s) = limit
    IN  {s \in UNION {[1 .. n -> maybe] : n \in 0 .. Cardinality(maybe)} :
           /\ Ascending(s)
           /\ limit > 0 => Len(s) <= limit
           /\ \A id \in sure \ Range(s) :
                \/ "iterate" \in Faults /\ \A i \in DOMAIN s : s[i] < id
                \/ full(s) /\ s[limit] < id}

PerformList(t) ==
    LET c == pending[t] IN
    /\ Waiting(t, "list")
    /\ \E s \in Listings(c.ids, c.limit, since[t]) : Reply(t, Keys(s))
    /\ UNCHANGED cache

Perform(t) ==
    /\ PerformStore(t) \/ PerformDelete(t) \/ PerformRetrieve(t) \/ PerformList(t)
    /\ UNCHANGED <<durable, now, pending, since, crashes>>

Return(t) ==
    /\ answer[t] # NoReply
    /\ pending' = [pending EXCEPT ![t] = NoCall]
    /\ answer' = [answer EXCEPT ![t] = NoReply]
    /\ since' = [since EXCEPT ![t] = 0]
    /\ UNCHANGED <<cache, durable, now, crashes>>

Tick == /\ now < MaxNow
        /\ now' = now + 1
        /\ UNCHANGED <<cache, durable, pending, answer, since, crashes>>

Sync == /\ durable' = cache
        /\ UNCHANGED <<cache, now, pending, answer, since, crashes>>

\* A restart forgets the calls in progress; power loss goes back to durable.
Restart ==
    /\ crashes < MaxCrashes
    /\ crashes' = crashes + 1
    /\ cache' \in {cache, durable}
    /\ durable' = cache'
    /\ pending' = [t \in Threads |-> NoCall]
    /\ answer' = [t \in Threads |-> NoReply]
    /\ since' = [t \in Threads |-> 0]
    /\ UNCHANGED now

Next == \/ \E t \in Threads, c \in Calls : Invoke(t, c)
        \/ \E t \in Threads : Perform(t) \/ Return(t)
        \/ Tick \/ Sync \/ Restart

Spec == Init /\ [][Next]_vars
=============================================================================
