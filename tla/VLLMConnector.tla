---------------------------- MODULE VLLMConnector ----------------------------
(***************************************************************************)
(* VLLMConnector of src/src/kvcache/vllm_connector.cpp: it checks what it  *)
(* is given, forwards it to the cache and turns every exception into a     *)
(* failure.  The cache is any that behaves like KVCacheSpec or throws      *)
(* before the operation has taken effect; others may use it too.           *)
(***************************************************************************)
EXTENDS KVCacheInterface, FiniteSets, Functions

CONSTANTS
    MaxNow, MaxCrashes,  \* bounds of the cache
    Callers,             \* the threads that call the connector
    Asks,                \* the calls they make
    Throws               \* whether the cache may throw

\* Whoever gives the constants values sees to it that
ConnectorAssumption ==
    Callers \subseteq Threads /\ Asks \subseteq Calls /\ Throws \in BOOLEAN

VARIABLES
    cache, durable, now, pending, answer, since, crashes,  \* the cache
    asked,    \* the call each thread has made of the connector
    given,    \* its result, NoReply until there is one
    called    \* the time of the call

Cache == INSTANCE KVCacheSpec

cacheVars     == <<cache, durable, now, pending, answer, since, crashes>>
connectorVars == <<asked, given, called>>
vars          == <<cacheVars, connectorVars>>

ConnectorInit ==
    /\ asked = [t \in Callers |-> NoCall]
    /\ given = [t \in Callers |-> NoReply]
    /\ called = [t \in Callers |-> 0]

Init == Cache!Init /\ ConnectorInit
-----------------------------------------------------------------------------
\* The arguments the connector refuses by itself.
Refused(c) == \/ c.op # "list" /\ c.id = EmptyId
              \/ c.op = "store" /\ c.args.model = <<>>

\* What it gives instead of an exception.
Caught(c) == IF c.op = "list" THEN Keys(<<>>) ELSE Failure(c)

Give(t, r) == given' = [given EXCEPT ![t] = r]

Ask(t, c) ==
    /\ asked[t] = NoCall
    /\ asked' = [asked EXCEPT ![t] = c]
    /\ called' = [called EXCEPT ![t] = now]
    /\ \/ Refused(c) /\ Give(t, Failure(c)) /\ UNCHANGED cacheVars
       \/ ~Refused(c) /\ Cache!Invoke(t, c) /\ UNCHANGED given

Forward(t) ==
    /\ Cache!Return(t)
    /\ Give(t, answer[t])
    /\ UNCHANGED <<asked, called>>

Unwind(t) ==
    /\ pending[t] # NoCall /\ answer[t] = NoReply
    /\ pending' = [pending EXCEPT ![t] = NoCall]
    /\ since' = [since EXCEPT ![t] = 0]
    /\ UNCHANGED <<cache, durable, now, answer, crashes>>

\* Mutant of Catch: an exception goes for a success.
CatchAsDone(t) ==
    /\ Throws /\ Unwind(t)
    /\ Give(t, IF asked[t].op \in {"store", "delete"} THEN Status(TRUE) ELSE Caught(asked[t]))
    /\ UNCHANGED <<asked, called>>

\* The cache throws.
Catch(t) ==
    /\ Throws /\ Unwind(t)
    /\ Give(t, Caught(asked[t]))
    /\ UNCHANGED <<asked, called>>

GiveBack(t) ==
    /\ given[t] # NoReply
    /\ asked' = [asked EXCEPT ![t] = NoCall]
    /\ given' = [given EXCEPT ![t] = NoReply]
    /\ called' = [called EXCEPT ![t] = 0]
    /\ UNCHANGED cacheVars

Step(t) == (\E c \in Asks : Ask(t, c)) \/ Forward(t) \/ Catch(t) \/ GiveBack(t)

\* The rest of what the cache does, for these threads and for others.
CacheStep ==
    /\ \/ \E t \in Threads \ Callers :
            (\E c \in Calls : Cache!Invoke(t, c)) \/ Cache!Return(t)
       \/ \E t \in Threads : Cache!Perform(t)
       \/ Cache!Tick \/ Cache!Sync
    /\ UNCHANGED connectorVars

Next == (\E t \in Callers : Step(t)) \/ CacheStep

Spec == Init /\ [][Next]_vars
-----------------------------------------------------------------------------
\* The cache as those see it who use the connector, and the others.
Seen == INSTANCE KVCacheSpec WITH
    pending <- [t \in Threads |-> IF t \in Callers THEN asked[t] ELSE pending[t]],
    answer  <- [t \in Threads |-> IF t \in Callers /\ given[t] # NoReply
                                  THEN given[t] ELSE answer[t]],
    since   <- [t \in Threads |-> IF t \in Callers THEN called[t] ELSE since[t]],
    Faults  <- IF Throws THEN {"write", "read", "iterate"} ELSE Faults

(***************************************************************************)
(* "Transparent: Maintains the same interface semantics as the underlying  *)
(* KVCache" (vllm_connector.cpp:20): through the connector the cache still *)
(* behaves like KVCacheSpec, at worst like one under which RocksDB fails,  *)
(* while others use it directly.                                           *)
(***************************************************************************)
Transparent == Seen!Spec
=============================================================================
