--------------------------- MODULE FrontendsProofs ---------------------------
(***************************************************************************)
(* What the handlers of GrpcService answer is true, and the connector is   *)
(* transparent, while both use one cache: for any number of threads, keys, *)
(* stores and requests.                                                    *)
(***************************************************************************)
EXTENDS Frontends, FiniteSetTheorems, SequenceTheorems, TLAPS

USE MetadataAssumption, InterfaceAssumption, GrpcAssumption, FrontendsAssumption

-----------------------------------------------------------------------------
(***************************************************************************)
(* The cache under the handlers.                                           *)
(***************************************************************************)
LEMMA SameInterface ==
    /\ Cache!NoReply = NoReply /\ Cache!NoCall = NoCall /\ Cache!NullOpt = NullOpt
    /\ \A c : Cache!Rejected(c) <=> Rejected(c)
    /\ \A c : Cache!Failure(c) = Failure(c)
    /\ \A b : Cache!Status(b) = Status(b)
    /\ \A v : Cache!Found(v) = Found(v)
    /\ \A s : Cache!Keys(s) = Keys(s)
    /\ \A f, id, v : Cache!Bind(f, id, v) = Bind(f, id, v)
    /\ \A f, S : Cache!Restrict(f, S) = Restrict(f, S)
    /\ \A f : Cache!Range(f) = Range(f)
    /\ \A S : Cache!Cardinality(S) = Cardinality(S)
<1>1. /\ \A c : Cache!Rejected(c) <=> Rejected(c)
      /\ \A c : Cache!Failure(c) = Failure(c)
  BY DEF Cache!Rejected, Rejected, Cache!Failure, Failure, Cache!EmptyId, EmptyId,
         Cache!NullOpt, NullOpt, Cache!Status, Status
<1>2. /\ \A f, id, v : Cache!Bind(f, id, v) = Bind(f, id, v)
      /\ \A f, S : Cache!Restrict(f, S) = Restrict(f, S)
      /\ \A f : Cache!Range(f) = Range(f)
  BY DEF Cache!Bind, Bind, Cache!Restrict, Restrict, Cache!Range, Range
<1>3. \A S : Cache!Cardinality(S) = Cardinality(S)
  BY DEF Cache!Cardinality, Cardinality
<1> QED
  BY <1>1, <1>2, <1>3
     DEF Cache!NoReply, NoReply, Cache!NoCall, NoCall, Cache!NullOpt, NullOpt,
         Cache!Status, Status, Cache!Found, Found, Cache!Keys, Keys

\* The answers tell apart what they are, and from no answer.
LEMMA ReplyTypes ==
    /\ \A b \in BOOLEAN : Status(b) \in Replies /\ Status(b) # NoReply
                          /\ Status(b) \in [ok : BOOLEAN]
    /\ \A v \in KVCacheData : Found(v) \in Replies
    /\ \A v : Found(v) # NoReply /\ Found(v) # NullOpt
    /\ NullOpt \in Replies /\ NullOpt # NoReply /\ NullOpt.value = {}
    /\ \A s \in Seq(CacheIds) : Keys(s) \in Replies
    /\ \A s : Keys(s) # NoReply /\ Keys(s).keys = s
    /\ NoReply \in Replies
    /\ Status(TRUE) # Status(FALSE)
<1>1. \A b \in BOOLEAN : Status(b) \in Replies /\ Status(b) # NoReply
                         /\ Status(b) \in [ok : BOOLEAN]
  BY DEF Status, Replies, NoReply
<1>2. \A v \in KVCacheData : Found(v) \in Replies
  BY DEF Found, Replies
<1>3. \A v : Found(v) # NoReply /\ Found(v) # NullOpt
  <2>1. ASSUME NEW v PROVE Found(v) # NullOpt
    <3>1. Found(v).value = {v} /\ NullOpt.value = {}
      BY DEF Found, NullOpt
    <3> QED
      BY <3>1
  <2> QED
    BY <2>1 DEF Found, NoReply
<1>4. NullOpt \in Replies /\ NullOpt # NoReply /\ NullOpt.value = {}
  BY DEF NullOpt, Replies, NoReply
<1>5. \A s \in Seq(CacheIds) : Keys(s) \in Replies
  BY DEF Keys, Replies
<1>6. \A s : Keys(s) # NoReply /\ Keys(s).keys = s
  BY DEF Keys, NoReply
<1>7. Status(TRUE) # Status(FALSE)
  BY DEF Status
<1> QED
  BY <1>1, <1>2, <1>3, <1>4, <1>5, <1>6, <1>7 DEF Replies

\* A refused call fails.
LEMMA FailureType ==
    ASSUME NEW c \in Calls
    PROVE  Failure(c) \in Replies /\ Failure(c) # NoReply
  BY ReplyTypes DEF Failure

\* An accepted call names a cache id that is not empty, and a model to store.
LEMMA AcceptedCall ==
    ASSUME NEW c \in Calls, ~Rejected(c)
    PROVE  /\ c.op \in {"store", "retrieve", "delete", "list"}
           /\ c.op # "list" => c.id \in CacheIds
           /\ c.op = "store" => c.args \in StoreArgs
           /\ c.op = "list" => c.ids \in Prefixes /\ c.limit \in Limits
  BY DEF Rejected, Calls, StoreCalls, RetrieveCalls, DeleteCalls, ListCalls, Ids, EmptyId

LEMMA NotACall == NoCall \notin Calls /\ NoCall.op = "none"
  BY DEF NoCall, Calls, StoreCalls, RetrieveCalls, DeleteCalls, ListCalls

\* What a thread calls and what it is answered.
LEMMA InvokeIs ==
    ASSUME TypeOK, CacheSound, NEW t \in Threads, NEW c \in Calls, Cache!Invoke(t, c)
    PROVE  /\ pending[t] = NoCall
           /\ pending' = [pending EXCEPT ![t] = c]
           /\ pending' \in [Threads -> Calls \cup {NoCall}]
           /\ pending'[t] = c
           /\ answer'[t] = IF Rejected(c) THEN Failure(c) ELSE NoReply
           /\ \A u \in Threads \ {t} : pending'[u] = pending[u] /\ answer'[u] = answer[u]
           /\ cache' = cache
           /\ CacheSound'
<1>1. /\ pending[t] = NoCall
      /\ pending' = [pending EXCEPT ![t] = c]
      /\ answer' = [answer EXCEPT ![t] = IF Rejected(c) THEN Failure(c) ELSE NoReply]
      /\ since' = [since EXCEPT ![t] = now]
      /\ UNCHANGED <<cache, now>>
  BY SameInterface DEF Cache!Invoke
<1>2. pending \in [Threads -> Calls \cup {NoCall}] /\ answer \in [Threads -> Replies]
  BY DEF TypeOK, CacheSound
<1>3. (IF Rejected(c) THEN Failure(c) ELSE NoReply) \in Replies
  BY FailureType, ReplyTypes
<1>4. \A u \in Threads : pending'[u] # NoCall /\ answer'[u] = NoReply => ~Rejected(pending'[u])
  BY <1>1, <1>2, FailureType DEF CacheSound
<1>5. CacheSound'
  BY <1>1, <1>2, <1>3, <1>4 DEF CacheSound
<1> QED
  BY <1>1, <1>2, <1>5

LEMMA ReturnIs ==
    ASSUME TypeOK, CacheSound, NEW t \in Threads, Cache!Return(t)
    PROVE  /\ answer[t] # NoReply
           /\ pending' = [pending EXCEPT ![t] = NoCall]
           /\ pending' \in [Threads -> Calls \cup {NoCall}]
           /\ pending'[t] = NoCall
           /\ \A u \in Threads \ {t} : pending'[u] = pending[u] /\ answer'[u] = answer[u]
           /\ cache' = cache
           /\ CacheSound'
<1>1. /\ answer[t] # NoReply
      /\ pending' = [pending EXCEPT ![t] = NoCall]
      /\ answer' = [answer EXCEPT ![t] = NoReply]
      /\ since' = [since EXCEPT ![t] = 0]
      /\ UNCHANGED <<cache, now>>
  BY SameInterface DEF Cache!Return
<1>2. pending \in [Threads -> Calls \cup {NoCall}] /\ answer \in [Threads -> Replies]
  BY DEF TypeOK, CacheSound
<1>3. \A u \in Threads : pending'[u] # NoCall /\ answer'[u] = NoReply => ~Rejected(pending'[u])
  BY <1>1, <1>2 DEF CacheSound
<1>4. CacheSound'
  BY <1>1, <1>2, <1>3, ReplyTypes DEF CacheSound
<1> QED
  BY <1>1, <1>2, <1>4
-----------------------------------------------------------------------------
(***************************************************************************)
(* What the cache does to its entries.                                     *)
(***************************************************************************)
LEMMA EntryType ==
    ASSUME CacheSound, NEW a \in StoreArgs
    PROVE  Cache!Entry(a) \in StoredEntries /\ Cache!Value(Cache!Entry(a)) = Cache!Value(a)
<1>1. /\ a.model \in ModelId /\ a.seq \in U64 /\ a.tok \in U64 /\ a.data \in Payloads
      /\ a.ttl \in Nat /\ now \in Nat
  BY DEF U64, CacheSound
<1> QED
  BY <1>1 DEF Cache!Entry, Cache!Value, StoredEntries

LEMMA BindSound ==
    ASSUME CacheSound, NEW id \in CacheIds, NEW e \in StoredEntries, cache' = Bind(cache, id, e)
    PROVE  /\ DOMAIN cache' \subseteq CacheIds /\ IsFiniteSet(DOMAIN cache')
           /\ cache' \in [DOMAIN cache' -> StoredEntries]
           /\ id \in DOMAIN cache' /\ cache'[id] = e
<1>1. DOMAIN cache' = DOMAIN cache \cup {id}
  BY DEF Bind
<1>2. IsFiniteSet(DOMAIN cache \cup {id})
  BY FS_AddElement DEF CacheSound
<1> QED
  BY <1>1, <1>2 DEF CacheSound, Bind

LEMMA RestrictSound ==
    ASSUME CacheSound, NEW id, cache' = Restrict(cache, DOMAIN cache \ {id})
    PROVE  /\ DOMAIN cache' \subseteq CacheIds /\ IsFiniteSet(DOMAIN cache')
           /\ cache' \in [DOMAIN cache' -> StoredEntries]
           /\ id \notin DOMAIN cache'
<1>1. DOMAIN cache' = DOMAIN cache \ {id}
  BY DEF Restrict
<1>2. IsFiniteSet(DOMAIN cache \ {id})
  BY FS_Subset DEF CacheSound
<1> QED
  BY <1>1, <1>2 DEF CacheSound, Restrict

\* A thread that the cache serves has made a call that was accepted.
LEMMA WaitingCall ==
    ASSUME TypeOK, CacheSound, NEW t \in Threads, NEW op, op # "none", Cache!Waiting(t, op)
    PROVE  /\ pending[t] \in Calls /\ pending[t].op = op /\ ~Rejected(pending[t])
           /\ answer[t] = NoReply
<1>1. pending[t].op = op /\ answer[t] = NoReply
  BY SameInterface DEF Cache!Waiting
<1>2. pending[t] # NoCall
  BY <1>1, NotACall
<1> QED
  BY <1>1, <1>2 DEF TypeOK, CacheSound

\* The cache answers one thread, and all stays sound.
LEMMA ServedSound ==
    ASSUME TypeOK, CacheSound, NEW t \in Threads, NEW r \in Replies, r # NoReply, Cache!Reply(t, r),
           UNCHANGED <<now, pending, since>>,
           DOMAIN cache' \subseteq CacheIds, IsFiniteSet(DOMAIN cache'),
           cache' \in [DOMAIN cache' -> StoredEntries]
    PROVE  /\ CacheSound'
           /\ answer'[t] = r
           /\ \A u \in Threads \ {t} : answer'[u] = answer[u]
<1>1. answer' = [answer EXCEPT ![t] = r] /\ answer \in [Threads -> Replies]
  BY DEF Cache!Reply, CacheSound
<1>2. \A u \in Threads : pending'[u] # NoCall /\ answer'[u] = NoReply => ~Rejected(pending'[u])
  BY <1>1 DEF CacheSound
<1> QED
  BY <1>1, <1>2 DEF CacheSound

\* What a listing is.
LEMMA ListingIs ==
    ASSUME CacheSound, NEW ids \in SUBSET CacheIds, NEW limit \in Int, NEW from,
           NEW s \in Cache!Listings(ids, limit, from)
    PROVE  /\ s \in Seq(CacheIds)
           /\ Cache!Ascending(s)
           /\ Range(s) \subseteq ids /\ Range(s) \subseteq DOMAIN cache
           /\ limit > 0 => Len(s) <= limit
           /\ \A id \in Cache!GoodIds(ids, now) \ Range(s) :
                \/ "iterate" \in Faults
                \/ limit > 0 /\ Len(s) = limit /\ s[limit] < id
<1> DEFINE maybe == Cache!GoodIds(ids, from)
<1>1. maybe \subseteq ids /\ maybe \subseteq DOMAIN cache
  BY DEF Cache!GoodIds
<1>2. Cardinality(maybe) \in Nat
  BY <1>1, FS_Subset, FS_CardinalityType DEF CacheSound
<1>3. PICK n \in 0 .. Cardinality(maybe) : s \in [1 .. n -> maybe]
  BY SameInterface DEF Cache!Listings
<1>4. n \in Nat
  BY <1>2, <1>3
<1>5. s \in Seq(maybe)
  BY <1>3, <1>4, SeqDef
<1>6. s \in Seq(CacheIds) /\ Range(s) \subseteq maybe
  BY <1>1, <1>3, <1>5 DEF Range, CacheSound
<1>7. /\ Cache!Ascending(s)
      /\ limit > 0 => Len(s) <= limit
      /\ \A id \in Cache!GoodIds(ids, now) \ Range(s) :
           \/ "iterate" \in Faults
           \/ limit > 0 /\ Len(s) = limit /\ s[limit] < id
  BY SameInterface DEF Cache!Listings
<1> QED
  BY <1>1, <1>6, <1>7

(***************************************************************************)
(* Each operation, as its caller and the others see it.                    *)
(***************************************************************************)
LEMMA StoreIs ==
    ASSUME TypeOK, CacheSound, NEW t \in Threads, Cache!PerformStore(t),
           UNCHANGED <<now, pending, since>>
    PROVE  /\ pending[t].op = "store" /\ CacheSound'
           /\ \A u \in Threads \ {t} : answer'[u] = answer[u]
           /\ \/ /\ answer'[t] = Status(TRUE)
                 /\ pending[t].id \in DOMAIN cache'
                 /\ Cache!Value(cache'[pending[t].id]) = Cache!Value(pending[t].args)
              \/ answer'[t] = Status(FALSE) /\ "write" \in Faults
<1> DEFINE c == pending[t]
<1>1. c.op = "store" /\ c.id \in CacheIds /\ c.args \in StoreArgs
  BY WaitingCall, AcceptedCall DEF Cache!PerformStore
<1>2. CASE cache' = Cache!Bind(cache, c.id, Cache!Entry(c.args)) /\ Cache!Reply(t, Cache!Status(TRUE))
  <2>1. cache' = Bind(cache, c.id, Cache!Entry(c.args)) /\ Cache!Reply(t, Status(TRUE))
    BY <1>2, SameInterface
  <2>2. Cache!Entry(c.args) \in StoredEntries /\ Cache!Value(Cache!Entry(c.args)) = Cache!Value(c.args)
    BY <1>1, EntryType
  <2> HIDE DEF c
  <2>3. /\ DOMAIN cache' \subseteq CacheIds /\ IsFiniteSet(DOMAIN cache')
        /\ cache' \in [DOMAIN cache' -> StoredEntries]
        /\ c.id \in DOMAIN cache' /\ cache'[c.id] = Cache!Entry(c.args)
    BY <1>1, <2>1, <2>2, BindSound
  <2>4. /\ CacheSound' /\ answer'[t] = Status(TRUE)
        /\ \A u \in Threads \ {t} : answer'[u] = answer[u]
    BY <2>1, <2>3, ReplyTypes, ServedSound
  <2> QED
    BY <1>1, <2>2, <2>3, <2>4 DEF c
<1>3. CASE "write" \in Faults /\ cache' = cache /\ Cache!Reply(t, Cache!Status(FALSE))
  <2>1. cache' = cache /\ Cache!Reply(t, Status(FALSE))
    BY <1>3, SameInterface
  <2>2. /\ CacheSound' /\ answer'[t] = Status(FALSE)
        /\ \A u \in Threads \ {t} : answer'[u] = answer[u]
    BY <2>1, ReplyTypes, ServedSound DEF CacheSound
  <2> QED
    BY <1>1, <1>3, <2>2
<1> QED
  BY <1>2, <1>3 DEF Cache!PerformStore

LEMMA DeleteIs ==
    ASSUME TypeOK, CacheSound, NEW t \in Threads, Cache!PerformDelete(t),
           UNCHANGED <<now, pending, since>>
    PROVE  /\ pending[t].op = "delete" /\ CacheSound'
           /\ \A u \in Threads \ {t} : answer'[u] = answer[u]
           /\ \/ answer'[t] = Status(TRUE) /\ pending[t].id \notin DOMAIN cache'
              \/ answer'[t] = Status(FALSE) /\ "write" \in Faults
<1> DEFINE c == pending[t]
<1>1. c.op = "delete"
  BY WaitingCall DEF Cache!PerformDelete
<1>2. CASE cache' = Cache!Restrict(cache, DOMAIN cache \ {c.id}) /\ Cache!Reply(t, Cache!Status(TRUE))
  <2>1. cache' = Restrict(cache, DOMAIN cache \ {c.id}) /\ Cache!Reply(t, Status(TRUE))
    BY <1>2, SameInterface
  <2> HIDE DEF c
  <2>2. /\ DOMAIN cache' \subseteq CacheIds /\ IsFiniteSet(DOMAIN cache')
        /\ cache' \in [DOMAIN cache' -> StoredEntries]
        /\ c.id \notin DOMAIN cache'
    BY <2>1, RestrictSound
  <2>3. /\ CacheSound' /\ answer'[t] = Status(TRUE)
        /\ \A u \in Threads \ {t} : answer'[u] = answer[u]
    BY <2>1, <2>2, ReplyTypes, ServedSound
  <2> QED
    BY <1>1, <2>2, <2>3 DEF c
<1>3. CASE "write" \in Faults /\ cache' = cache /\ Cache!Reply(t, Cache!Status(FALSE))
  <2>1. cache' = cache /\ Cache!Reply(t, Status(FALSE))
    BY <1>3, SameInterface
  <2>2. /\ CacheSound' /\ answer'[t] = Status(FALSE)
        /\ \A u \in Threads \ {t} : answer'[u] = answer[u]
    BY <2>1, ReplyTypes, ServedSound DEF CacheSound
  <2> QED
    BY <1>1, <1>3, <2>2
<1> QED
  BY <1>2, <1>3 DEF Cache!PerformDelete

LEMMA RetrieveIs ==
    ASSUME TypeOK, CacheSound, NEW t \in Threads, Cache!PerformRetrieve(t),
           UNCHANGED <<now, pending, since>>
    PROVE  /\ pending[t].op = "retrieve" /\ CacheSound'
           /\ \A u \in Threads \ {t} : answer'[u] = answer[u]
           /\ \/ /\ pending[t].id \in DOMAIN cache'
                 /\ \E v \in KVCacheData :
                      answer'[t] = Found(v) /\ v = Cache!Value(cache'[pending[t].id])
              \/ /\ answer'[t] = NullOpt
                 /\ pending[t].id \notin DOMAIN cache' \/ "read" \in Faults
<1> DEFINE c == pending[t]
<1>1. c.op = "retrieve"
  BY WaitingCall DEF Cache!PerformRetrieve
<1>2. CASE /\ c.id \in DOMAIN cache
           /\ Cache!Reply(t, Cache!Found(Cache!Value(cache[c.id])))
           /\ UNCHANGED cache
  <2> DEFINE v == Cache!Value(cache[c.id])
  <2>1. v \in KVCacheData /\ v = Cache!Value(cache[c.id])
    BY <1>2 DEF CacheSound, StoredEntries, Cache!Value, KVCacheData
  <2>2. Cache!Reply(t, Found(v))
    BY <1>2, SameInterface
  <2> HIDE DEF v
  <2>3. Found(v) \in Replies /\ Found(v) # NoReply
    BY <2>1, ReplyTypes
  <2>4. /\ CacheSound' /\ answer'[t] = Found(v)
        /\ \A u \in Threads \ {t} : answer'[u] = answer[u]
    BY <1>2, <2>2, <2>3, ServedSound DEF CacheSound
  <2> QED
    BY <1>1, <1>2, <2>1, <2>4
<1>3. CASE /\ c.id \notin DOMAIN cache \/ "read" \in Faults
           /\ Cache!Reply(t, Cache!NullOpt)
           /\ UNCHANGED cache
  <2>1. Cache!Reply(t, NullOpt)
    BY <1>3, SameInterface
  <2>2. /\ CacheSound' /\ answer'[t] = NullOpt
        /\ \A u \in Threads \ {t} : answer'[u] = answer[u]
    BY <1>3, <2>1, ReplyTypes, ServedSound DEF CacheSound
  <2> QED
    BY <1>1, <1>3, <2>2
<1>4. CASE /\ Cache!Reply(t, Cache!NullOpt)
           /\ cache' = Cache!Restrict(cache, DOMAIN cache \ {c.id})
  <2>1. Cache!Reply(t, NullOpt) /\ cache' = Restrict(cache, DOMAIN cache \ {c.id})
    BY <1>4, SameInterface
  <2> HIDE DEF c
  <2>2. /\ DOMAIN cache' \subseteq CacheIds /\ IsFiniteSet(DOMAIN cache')
        /\ cache' \in [DOMAIN cache' -> StoredEntries]
        /\ c.id \notin DOMAIN cache'
    BY <2>1, RestrictSound
  <2>3. /\ CacheSound' /\ answer'[t] = NullOpt
        /\ \A u \in Threads \ {t} : answer'[u] = answer[u]
    BY <2>1, <2>2, ReplyTypes, ServedSound
  <2> QED
    BY <1>1, <2>2, <2>3 DEF c
<1> QED
  BY <1>2, <1>3, <1>4 DEF Cache!PerformRetrieve

LEMMA ListIs ==
    ASSUME TypeOK, CacheSound, NEW t \in Threads, Cache!PerformList(t),
           UNCHANGED <<now, pending, since>>
    PROVE  /\ pending[t].op = "list" /\ CacheSound' /\ cache' = cache
           /\ \A u \in Threads \ {t} : answer'[u] = answer[u]
           /\ pending[t].ids \in SUBSET CacheIds /\ pending[t].limit \in Int
           /\ \E s \in Cache!Listings(pending[t].ids, pending[t].limit, since[t]) :
                s \in Seq(CacheIds) /\ answer'[t] = Keys(s)
<1> DEFINE c == pending[t]
<1>0. c \in Calls /\ c.op = "list" /\ ~Rejected(c)
  BY WaitingCall DEF Cache!PerformList
<1>1. c.ids \in SUBSET CacheIds /\ c.limit \in Int
  <2>1. c.ids \in Prefixes /\ c.limit \in Limits
    BY <1>0, AcceptedCall
  <2> QED
    BY <2>1
<1>2. PICK s \in Cache!Listings(c.ids, c.limit, since[t]) : Cache!Reply(t, Keys(s))
  BY SameInterface DEF Cache!PerformList
<1>3. s \in Seq(CacheIds)
  BY <1>1, ListingIs
<1>4. cache' = cache
  BY DEF Cache!PerformList
<1>5. /\ CacheSound' /\ answer'[t] = Keys(s)
      /\ \A u \in Threads \ {t} : answer'[u] = answer[u]
  BY <1>2, <1>3, <1>4, ReplyTypes, ServedSound DEF CacheSound
<1> QED
  BY <1>0, <1>1, <1>2, <1>3, <1>4, <1>5
-----------------------------------------------------------------------------
(***************************************************************************)
(* What a step leaves of the others.                                       *)
(***************************************************************************)
LEMMA PairsFinite ==
    ASSUME NEW c, IsFiniteSet(DOMAIN c)
    PROVE  IsFiniteSet(Pairs(c))
<1> DEFINE f == [id \in DOMAIN c |-> <<id, Cache!Value(c[id])>>]
<1>1. f \in Surjection(DOMAIN c, Pairs(c))
  BY DEF Surjection, Pairs
<1> QED
  BY <1>1, FS_Surjection

\* The history variables only grow, or only shrink, during a request.
LEMMA Observed ==
    ASSUME Observe, IsFiniteSet(DOMAIN cache'), NEW w \in Workers, HistoryFits(w)
    PROVE  /\ stage'[w] # "idle" => witnessed[w] \subseteq witnessed'[w]
           /\ stage'[w] # "idle" /\ stage[w] # "send" => Pairs(cache') \subseteq witnessed'[w]
           /\ rpc'[w] = rpc[w] => gone[w] \subseteq gone'[w]
           /\ rpc'[w].rpc \in KeyRpcs /\ stage[w] # "send" =>
                {rpc'[w].key} \ DOMAIN cache' \subseteq gone'[w]
           /\ HistoryFits(w)'
<1>1. witnessed'[w] = IF stage'[w] = "idle" THEN {}
                      ELSE IF stage[w] = "send" THEN witnessed[w]
                      ELSE witnessed[w] \cup Pairs(cache')
  BY DEF Observe
<1>2. gone'[w] = IF rpc'[w].rpc \notin KeyRpcs THEN {}
                 ELSE IF stage[w] = "send" THEN gone[w]
                 ELSE gone[w] \cup ({rpc'[w].key} \ DOMAIN cache')
  BY DEF Observe
<1>3. IsFiniteSet({}) /\ IsFiniteSet(witnessed[w] \cup Pairs(cache'))
  BY PairsFinite, FS_Union, FS_EmptySet DEF HistoryFits
<1>4. IsFiniteSet(witnessed'[w])
  BY <1>1, <1>3 DEF HistoryFits
<1>5. rpc'[w] = rpc[w] => gone[w] \subseteq gone'[w]
  BY <1>2 DEF HistoryFits
<1>6. /\ rpc'[w].rpc \in KeyRpcs /\ stage[w] # "send" =>
           {rpc'[w].key} \ DOMAIN cache' \subseteq gone'[w]
      /\ rpc'[w].rpc \notin KeyRpcs => gone'[w] = {}
  BY <1>2
<1> QED
  BY <1>1, <1>4, <1>5, <1>6 DEF HistoryFits

LEMMA SteadyType ==
    ASSUME Observe, DOMAIN cache' \subseteq CacheIds, \A w \in Workers : steady[w] \subseteq CacheIds
    PROVE  \A w \in Workers : steady'[w] \subseteq CacheIds
BY DEF Observe, Steady

\* An entry in the cache was witnessed.
LEMMA PairSeen ==
    ASSUME NEW c, NEW id \in DOMAIN c, NEW S, Pairs(c) \subseteq S
    PROVE  <<id, Cache!Value(c[id])>> \in S
BY DEF Pairs

Untouched(w) ==
    /\ stage'[w] = stage[w] /\ rpc'[w] = rpc[w]
    /\ left'[w] = left[w] /\ kvs'[w] = kvs[w] /\ response'[w] = response[w]
    /\ pending'[w] = pending[w]

\* What was told stays told.
LEMMA TellsKeeps ==
    ASSUME NEW w \in Workers, Tells(w), pending'[w] = pending[w], answer'[w] = answer[w],
           stage'[w] = stage[w], witnessed[w] \subseteq witnessed'[w], gone[w] \subseteq gone'[w]
    PROVE  Tells(w)'
<1> DEFINE c == pending[w]
           a == answer[w]
<1>1. /\ pending'[w] = c /\ answer'[w] = a
      /\ (Rejected(c))' <=> Rejected(c)
  BY DEF Rejected, EmptyId
<1>2. CASE c.op \in {"store", "delete"}
  BY <1>1, <1>2 DEF Tells, Rejected, EmptyId, Cache!Value
<1>3. CASE c.op = "retrieve"
  BY <1>1, <1>3 DEF Tells
<1>4. CASE c.op = "list"
  BY <1>1, <1>4 DEF Tells, Was, Cache!Ascending, Range
<1>5. CASE c.op \notin {"store", "delete", "retrieve", "list"}
  BY <1>1, <1>5 DEF Tells
<1> QED
  BY <1>2, <1>3, <1>4, <1>5

LEMMA CollectedKeeps ==
    ASSUME NEW w \in Workers, Collected(w), rpc'[w] = rpc[w], left'[w] = left[w], kvs'[w] = kvs[w],
           witnessed[w] \subseteq witnessed'[w]
    PROVE  Collected(w)'
BY DEF Collected, Had, Cache!Ascending, Range

LEMMA TruthKeeps ==
    ASSUME NEW w \in Workers, Truthful(w), stage'[w] = stage[w], rpc'[w] = rpc[w],
           response'[w] = response[w], gone[w] \subseteq gone'[w],
           stage'[w] # "idle" => witnessed[w] \subseteq witnessed'[w]
    PROVE  Truthful(w)'
<1>1. CASE stage[w] # "send"
  BY <1>1 DEF Truthful, Sending
<1>2. CASE stage[w] = "send"
  <2>1. witnessed[w] \subseteq witnessed'[w]
    BY <1>2
  <2>2. CallOf(rpc[w])' = CallOf(rpc[w])
    BY DEF CallOf, PutArgs
  <2> QED
    BY <2>1, <2>2 DEF Truthful, Sending, Had, Was, Rejected, EmptyId, Cache!Value, Range
<1> QED
  BY <1>1, <1>2

LEMMA FitsKeeps ==
    ASSUME NEW w \in Workers, StageFits(w), Untouched(w)
    PROVE  StageFits(w)'
BY DEF StageFits, Untouched, CallOf

\* A worker whose handler does not move stays sound if its answer does.
LEMMA WorkerKeeps ==
    ASSUME NEW w \in Workers, WorkerSound(w), Observe, IsFiniteSet(DOMAIN cache'), Untouched(w),
           \/ answer'[w] = answer[w]
           \/ stage[w] \in {"call", "list", "value"} => Tells(w)'
    PROVE  WorkerSound(w)'
<1>1. /\ stage'[w] # "idle" => witnessed[w] \subseteq witnessed'[w]
      /\ gone[w] \subseteq gone'[w] /\ HistoryFits(w)'
  BY Observed DEF WorkerSound, Untouched
<1>2. stage[w] \in {"call", "list", "value"} /\ answer'[w] # NoReply => Tells(w)'
  BY <1>1, TellsKeeps DEF WorkerSound, Untouched
<1>3. stage[w] \in {"scan", "value"} \/ Sending(w, {"Scan"}) => Collected(w)'
  BY <1>1, CollectedKeeps DEF WorkerSound, Untouched, Sending
<1>4. Truthful(w)'
  BY <1>1, TruthKeeps DEF WorkerSound, Untouched
<1>5. StageFits(w)'
  BY FitsKeeps DEF WorkerSound
<1> QED
  BY <1>1, <1>2, <1>3, <1>4, <1>5 DEF WorkerSound, Untouched, Sending
-----------------------------------------------------------------------------
(***************************************************************************)
(* The requests and the calls they make.                                   *)
(***************************************************************************)
\* Each request is of one kind.
LEMMA RequestKinds ==
    ASSUME NEW q \in Requests
    PROVE  /\ q # NoRpc
           /\ \/ q.rpc = "Put" /\ q.key \in Ids /\ q.value \in Payloads
              \/ q.rpc \in KeyRpcs /\ q.key \in Ids
              \/ q.rpc = "StoreKVCache" /\ q.key \in Ids /\ q.args \in StoreArgs
              \/ q.rpc = "ListKVCacheKeys" /\ q.ids \in Prefixes /\ q.limit \in Limits
              \/ q.rpc = "Scan" /\ q.ids \in Prefixes /\ q.limit \in Limits /\ q.end \in Nat
<1>1. q \in PutRequests \cup KeyRequests \cup StoreRequests \cup ListRequests \cup ScanRequests
  OBVIOUS
<1>2. q.rpc \in {"Put", "Get", "Delete", "RetrieveKVCache", "DeleteKVCache", "StoreKVCache",
                 "ListKVCacheKeys", "Scan"}
  BY <1>1 DEF PutRequests, KeyRpcs, KeyRequests, StoreRequests, ListRequests, ScanRequests
<1>3. q # NoRpc
  BY <1>2 DEF NoRpc
<1> QED
  BY <1>1, <1>3 DEF PutRequests, KeyRequests, StoreRequests, ListRequests, ScanRequests

\* The call a handler begins with.
LEMMA CallIs ==
    ASSUME NEW q \in Requests
    PROVE  /\ CallOf(q) \in Calls
           /\ q.rpc = "Put" =>
                CallOf(q) = [op |-> "store", id |-> q.key, args |-> PutArgs(q.value)]
           /\ q.rpc = "StoreKVCache" => CallOf(q) = [op |-> "store", id |-> q.key, args |-> q.args]
           /\ q.rpc \in {"Get", "RetrieveKVCache"} => CallOf(q) = [op |-> "retrieve", id |-> q.key]
           /\ q.rpc \in {"Delete", "DeleteKVCache"} => CallOf(q) = [op |-> "delete", id |-> q.key]
           /\ q.rpc \in {"Scan", "ListKVCacheKeys"} =>
                CallOf(q) = [op |-> "list", ids |-> q.ids, limit |-> q.limit]
<1>1. /\ q.rpc = "Put" =>
           CallOf(q) = [op |-> "store", id |-> q.key, args |-> PutArgs(q.value)]
      /\ q.rpc = "StoreKVCache" => CallOf(q) = [op |-> "store", id |-> q.key, args |-> q.args]
      /\ q.rpc \in {"Get", "RetrieveKVCache"} => CallOf(q) = [op |-> "retrieve", id |-> q.key]
      /\ q.rpc \in {"Delete", "DeleteKVCache"} => CallOf(q) = [op |-> "delete", id |-> q.key]
      /\ q.rpc \in {"Scan", "ListKVCacheKeys"} =>
           CallOf(q) = [op |-> "list", ids |-> q.ids, limit |-> q.limit]
  BY DEF CallOf
<1>2. CallOf(q) \in Calls
  BY <1>1, RequestKinds DEF KeyRpcs, Calls, StoreCalls, RetrieveCalls, DeleteCalls, ListCalls
<1> QED
  BY <1>1, <1>2

\* A handler that retrieves or deletes does so with the key of its request.
LEMMA KeyCall ==
    ASSUME NEW q \in Requests, CallOf(q).op \in {"retrieve", "delete"}
    PROVE  q.rpc \in KeyRpcs /\ q.key = CallOf(q).id
<1>1. q.rpc \in KeyRpcs
  BY RequestKinds, CallIs
<1> QED
  BY <1>1, CallIs DEF KeyRpcs
-----------------------------------------------------------------------------
(***************************************************************************)
(* The cache serves a thread, or the clock ticks.                          *)
(***************************************************************************)
LEMMA StepKeepsTypes ==
    ASSUME TypeOK, CacheSound', Observe, UNCHANGED handlerVars,
           pending' \in [Threads -> Calls \cup {NoCall}]
    PROVE  TypeOK'
BY SteadyType DEF TypeOK, handlerVars, CacheSound

\* What the cache answers a worker was so.
LEMMA ServedTells ==
    ASSUME TypeOK, CacheSound, NEW w \in Workers, WorkerSound(w), Cache!Perform(w), Observe,
           UNCHANGED <<handlerVars, now, pending, since>>,
           stage[w] \in {"call", "list", "value"}
    PROVE  CacheSound' /\ Tells(w)'
<1> DEFINE c == pending[w]
<1>1. /\ w \in Threads /\ pending'[w] = c /\ stage'[w] = stage[w]
      /\ stage[w] # "idle" /\ stage[w] # "send"
  BY DEF handlerVars
<1>a. ASSUME CacheSound' PROVE Pairs(cache') \subseteq witnessed'[w]
  BY <1>1, <1>a, Observed DEF WorkerSound, CacheSound
<1>b. ASSUME CacheSound', stage[w] = "call", c.op \in {"retrieve", "delete"}, c.id \notin DOMAIN cache'
      PROVE  c.id \in gone'[w]
  <2>1. rpc'[w] = rpc[w] /\ rpc[w].rpc \in KeyRpcs /\ rpc[w].key = c.id
    BY <1>b, KeyCall DEF WorkerSound, StageFits, handlerVars
  <2> QED
    BY <1>1, <1>b, <2>1, Observed DEF WorkerSound, CacheSound
<1>2. CASE Cache!PerformStore(w)
  <2>1. c.op = "store" /\ CacheSound'
    BY <1>1, <1>2, StoreIs
  <2>2. CASE /\ answer'[w] = Status(TRUE)
             /\ c.id \in DOMAIN cache' /\ Cache!Value(cache'[c.id]) = Cache!Value(c.args)
    <3>1. <<c.id, Cache!Value(c.args)>> \in witnessed'[w]
      BY <1>a, <2>1, <2>2, PairSeen
    <3> QED
      BY <1>1, <2>1, <2>2, <3>1, ReplyTypes DEF Tells, Cache!Value
  <2>3. CASE answer'[w] = Status(FALSE) /\ "write" \in Faults
    BY <1>1, <2>1, <2>3, ReplyTypes DEF Tells
  <2> QED
    BY <1>1, <1>2, <2>2, <2>3, StoreIs
<1>3. CASE Cache!PerformDelete(w)
  <2>1. c.op = "delete" /\ CacheSound'
    BY <1>1, <1>3, DeleteIs
  <2>2. CASE answer'[w] = Status(TRUE) /\ c.id \notin DOMAIN cache'
    <3>1. stage[w] = "call"
      BY <2>1, CallIs DEF WorkerSound, StageFits
    <3> QED
      BY <1>1, <1>b, <2>1, <2>2, <3>1, ReplyTypes DEF Tells
  <2>3. CASE answer'[w] = Status(FALSE) /\ "write" \in Faults
    BY <1>1, <2>1, <2>3, ReplyTypes DEF Tells
  <2> QED
    BY <1>1, <1>3, <2>2, <2>3, DeleteIs
<1>4. CASE Cache!PerformRetrieve(w)
  <2>1. c.op = "retrieve" /\ CacheSound'
    BY <1>1, <1>4, RetrieveIs
  <2>2. ASSUME c.id \in DOMAIN cache', NEW v \in KVCacheData,
               answer'[w] = Found(v), v = Cache!Value(cache'[c.id])
        PROVE  Tells(w)'
    <3>1. <<c.id, v>> \in witnessed'[w]
      BY <1>a, <2>1, <2>2, PairSeen
    <3>2. answer'[w] = [value |-> {v}]
      BY <2>2 DEF Found
    <3>3. /\ answer'[w] \in [value : SUBSET KVCacheData]
          /\ \A x \in answer'[w].value : <<c.id, x>> \in witnessed'[w]
          /\ answer'[w].value # {}
      BY <2>2, <3>1, <3>2
    <3> QED
      BY <1>1, <2>1, <3>3 DEF Tells
  <2>3. CASE /\ answer'[w] = NullOpt
             /\ c.id \notin DOMAIN cache' \/ "read" \in Faults
    <3>1. answer'[w] \in [value : SUBSET KVCacheData] /\ answer'[w].value = {}
      BY <2>3 DEF NullOpt
    <3>2. stage[w] = "call" => c.id \in gone'[w] \/ "read" \in Faults
      BY <1>b, <2>1, <2>3
    <3> QED
      BY <1>1, <2>1, <3>1, <3>2 DEF Tells
  <2> QED
    BY <1>1, <1>4, <2>1, <2>2, <2>3, RetrieveIs
<1>5. CASE Cache!PerformList(w)
  <2>1. c.op = "list" /\ CacheSound' /\ c.ids \in SUBSET CacheIds /\ c.limit \in Int
    BY <1>1, <1>5, ListIs
  <2>2. PICK s \in Cache!Listings(c.ids, c.limit, since[w]) : s \in Seq(CacheIds) /\ answer'[w] = Keys(s)
    BY <1>1, <1>5, ListIs
  <2>3. /\ Cache!Ascending(s) /\ Range(s) \subseteq c.ids /\ Range(s) \subseteq DOMAIN cache
        /\ c.limit > 0 => Len(s) <= c.limit
    BY <2>1, <2>2, ListingIs
  <2>4. answer'[w] = [keys |-> s]
    BY <2>2 DEF Keys
  <2>5. answer'[w] \in [keys : Seq(CacheIds)] /\ answer'[w].keys = s
    BY <2>2, <2>4
  <2>6. \A id \in Range(s) : id \in c.ids /\ \E p \in witnessed'[w] : p[1] = id
    <3>1. ASSUME NEW id \in Range(s) PROVE \E p \in witnessed'[w] : p[1] = id
      <4>1. id \in DOMAIN cache'
        BY <1>1, <1>5, <2>3, <3>1, ListIs
      <4>2. <<id, Cache!Value(cache'[id])>> \in witnessed'[w]
        BY <1>a, <2>1, <4>1, PairSeen
      <4> QED
        BY <4>2
    <3> QED
      BY <2>3, <3>1
  <2> QED
    BY <1>1, <2>1, <2>3, <2>5, <2>6 DEF Tells, Was, Cache!Ascending, Range
<1> QED
  BY <1>2, <1>3, <1>4, <1>5 DEF Cache!Perform

\* Serving others keeps the cache sound.
LEMMA PerformSound ==
    ASSUME TypeOK, CacheSound, NEW t \in Threads, Cache!Perform(t)
    PROVE  /\ CacheSound' /\ UNCHANGED <<now, pending, since>>
           /\ \A u \in Threads \ {t} : answer'[u] = answer[u]
<1>1. UNCHANGED <<now, pending, since>>
  BY DEF Cache!Perform
<1> QED
  BY <1>1, StoreIs, DeleteIs, RetrieveIs, ListIs DEF Cache!Perform

LEMMA CacheStepSound ==
    ASSUME HandlersSound, CacheStep, Observe
    PROVE  HandlersSound'
<1> USE DEF HandlersSound
<1>1. UNCHANGED handlerVars
  BY DEF CacheStep
<1>2. ASSUME NEW t \in Threads, Cache!Perform(t)
      PROVE  HandlersSound'
  <2>1. /\ CacheSound' /\ UNCHANGED <<now, pending, since>>
        /\ \A u \in Threads \ {t} : answer'[u] = answer[u]
    BY <1>2, PerformSound
  <2>2. TypeOK'
    BY <1>1, <2>1, StepKeepsTypes DEF TypeOK
  <2>3. ASSUME NEW w \in Workers PROVE WorkerSound(w)'
    <3>1. Untouched(w) /\ IsFiniteSet(DOMAIN cache')
      BY <1>1, <2>1 DEF Untouched, handlerVars, CacheSound
    <3>2. CASE w = t /\ stage[w] \in {"call", "list", "value"}
      BY <1>1, <1>2, <2>1, <3>1, <3>2, ServedTells, WorkerKeeps
    <3>3. CASE stage[w] \notin {"call", "list", "value"}
      BY <3>1, <3>3, WorkerKeeps
    <3>4. CASE w # t
      BY <2>1, <3>1, <3>4, WorkerKeeps
    <3> QED
      BY <3>2, <3>3, <3>4
  <2> QED
    BY <2>1, <2>2, <2>3
<1>3. CASE Cache!Tick
  <2>1. now' = now + 1 /\ UNCHANGED <<cache, pending, answer, since>>
    BY <1>3 DEF Cache!Tick
  <2>2. CacheSound'
    BY <2>1 DEF CacheSound
  <2>3. TypeOK'
    BY <1>1, <2>1, <2>2, StepKeepsTypes DEF TypeOK
  <2>4. ASSUME NEW w \in Workers PROVE WorkerSound(w)'
    BY <1>1, <2>1, <2>2, WorkerKeeps DEF Untouched, handlerVars, CacheSound
  <2> QED
    BY <2>2, <2>3, <2>4
<1> QED
  BY <1>2, <1>3 DEF CacheStep
-----------------------------------------------------------------------------
(***************************************************************************)
(* The handlers that make one call.                                        *)
(***************************************************************************)
\* A handler takes a step of its own: what is left to show.
LEMMA HandlerStep ==
    ASSUME HandlersSound, NEW t \in Workers, Observe, TypeOK', CacheSound', WorkerSound(t)',
           \A u \in Workers \ {t} : Untouched(u) /\ answer'[u] = answer[u]
    PROVE  HandlersSound'
<1>1. ASSUME NEW u \in Workers \ {t} PROVE WorkerSound(u)'
  BY <1>1, WorkerKeeps DEF HandlersSound, CacheSound
<1> QED
  BY <1>1 DEF HandlersSound

\* A step of one worker leaves the variables of the others alone.
LEMMA OthersUntouched ==
    ASSUME TypeOK, NEW t \in Workers,
           \A u \in Workers \ {t} : /\ stage'[u] = stage[u] /\ rpc'[u] = rpc[u]
                                    /\ left'[u] = left[u] /\ kvs'[u] = kvs[u]
                                    /\ response'[u] = response[u],
           \A u \in Threads \ {t} : pending'[u] = pending[u] /\ answer'[u] = answer[u]
    PROVE  \A u \in Workers \ {t} : Untouched(u) /\ answer'[u] = answer[u]
BY DEF Untouched

\* A refused call fails: its key, if it has one, is the empty one.
LEMMA FailureTells ==
    ASSUME NEW t \in Workers, pending'[t] \in Calls, Rejected(pending'[t]),
           answer'[t] = Failure(pending'[t]),
           stage'[t] = "call" /\ pending'[t].op = "retrieve" => pending'[t].id \in gone'[t]
    PROVE  Tells(t)'
<1>1. pending'[t].op \in {"store", "retrieve", "delete"}
  BY DEF Rejected, Calls, StoreCalls, RetrieveCalls, DeleteCalls, ListCalls
<1>2. CASE pending'[t].op = "retrieve"
  <2>1. answer'[t] \in [value : SUBSET KVCacheData] /\ answer'[t].value = {}
    BY <1>2 DEF Failure, NullOpt
  <2> QED
    BY <1>2, <2>1 DEF Tells
<1>3. CASE pending'[t].op \in {"store", "delete"}
  <2>1. answer'[t] = Status(FALSE)
    BY <1>3 DEF Failure
  <2> QED
    BY <1>3, <2>1, ReplyTypes DEF Tells, Rejected, EmptyId
<1> QED
  BY <1>1, <1>2, <1>3

LEMMA ReceiveStep ==
    ASSUME HandlersSound, NEW t \in Workers, NEW q \in Requests, Receive(t, q), Observe
    PROVE  HandlersSound'
<1> DEFINE label == IF q.rpc = "Scan" THEN "list" ELSE "call"
<1>1. /\ TypeOK /\ CacheSound /\ WorkerSound(t) /\ t \in Threads
      /\ stage[t] = "idle" /\ Cache!Invoke(t, CallOf(q))
      /\ stage' = [stage EXCEPT ![t] = label]
      /\ rpc' = [rpc EXCEPT ![t] = q]
      /\ UNCHANGED <<left, kvs, response>>
  BY DEF HandlersSound, Receive, To
<1>2. /\ pending' \in [Threads -> Calls \cup {NoCall}]
      /\ pending'[t] = CallOf(q) /\ CallOf(q) \in Calls
      /\ answer'[t] = IF Rejected(CallOf(q)) THEN Failure(CallOf(q)) ELSE NoReply
      /\ \A u \in Threads \ {t} : pending'[u] = pending[u] /\ answer'[u] = answer[u]
      /\ CacheSound'
  BY <1>1, CallIs, InvokeIs
<1> HIDE DEF label
<1>3. label \in {"list", "call"} /\ (label = "list" <=> q.rpc = "Scan")
  BY DEF label
<1>4. /\ stage'[t] = label /\ rpc'[t] = q /\ kvs'[t] = <<>>
      /\ \A u \in Workers \ {t} : stage'[u] = stage[u] /\ rpc'[u] = rpc[u]
  BY <1>1 DEF TypeOK, WorkerSound, StageFits
<1>5. TypeOK'
  BY <1>1, <1>2, <1>3, SteadyType DEF TypeOK, CacheSound, Stages
<1>6. StageFits(t)'
  <2>1. q.rpc = "Scan" => CallOf(q)' = CallOf(q)
    BY DEF CallOf
  <2> QED
    BY <1>2, <1>3, <1>4 DEF StageFits
<1>7. ASSUME answer'[t] # NoReply PROVE Tells(t)'
  <2>1. Rejected(CallOf(q)) /\ answer'[t] = Failure(CallOf(q))
    BY <1>2, <1>7
  <2>2. ASSUME CallOf(q).op = "retrieve" PROVE CallOf(q).id \in gone'[t]
    <3>1. CallOf(q).id = EmptyId
      BY <2>1, <2>2 DEF Rejected
    <3>2. EmptyId \notin DOMAIN cache' /\ IsFiniteSet(DOMAIN cache')
      BY <1>2 DEF CacheSound, EmptyId
    <3>3. rpc'[t].rpc \in KeyRpcs /\ rpc'[t].key = EmptyId
      BY <1>4, <2>2, <3>1, KeyCall
    <3> QED
      BY <1>1, <3>1, <3>2, <3>3, Observed DEF WorkerSound
  <2> QED
    BY <1>2, <2>1, <2>2, FailureTells
<1>8. Truthful(t)'
  BY <1>3, <1>4 DEF Truthful, Sending
<1>9. HistoryFits(t)'
  BY <1>1, <1>2, Observed DEF WorkerSound, CacheSound
<1>10. WorkerSound(t)'
  BY <1>3, <1>4, <1>6, <1>7, <1>8, <1>9 DEF WorkerSound, Sending
<1> QED
  BY <1>1, <1>2, <1>4, <1>5, <1>10, OthersUntouched, HandlerStep

LEMMA AckType ==
    ASSUME NEW a \in [ok : BOOLEAN], NEW r, r = [success |-> a.ok]
    PROVE  r \in Responses /\ r.success = a.ok
<1>1. a.ok \in BOOLEAN
  OBVIOUS
<1>2. r \in [success : BOOLEAN]
  BY <1>1
<1> QED
  BY <1>2 DEF Responses

\* What one call answers is what the handler sends.
LEMMA RespondTruth ==
    ASSUME TypeOK, CacheSound, NEW t \in Workers, NEW q \in Requests, q.rpc # "Scan",
           stage[t] = "call", pending[t] = CallOf(q), Tells(t),
           witnessed[t] \subseteq witnessed'[t], gone[t] \subseteq gone'[t],
           rpc'[t] = q, response'[t] = ResponseOf(q, answer[t])
    PROVE  Truthful(t)' /\ ResponseOf(q, answer[t]) \in Responses
<1> DEFINE a == answer[t]
           c == CallOf(q)
<1>0. /\ CallOf(rpc'[t]) = c
      /\ c.op = "store" \/ c.op = "delete" => a \in [ok : BOOLEAN] /\ a \in {Status(TRUE), Status(FALSE)}
  BY DEF Tells, Status
<1>1. CASE q.rpc \in {"Put", "StoreKVCache"}
  <2>1. c.op = "store"
    BY <1>1, CallIs
  <2>2. /\ a = Status(TRUE) => <<c.id, Cache!Value(c.args)>> \in witnessed'[t]
        /\ a = Status(FALSE) => Rejected(c) \/ "write" \in Faults
    BY <2>1 DEF Tells
  <2>3. ResponseOf(q, a) = [success |-> a.ok]
    BY <1>1 DEF ResponseOf
  <2>4. /\ response'[t].success = a.ok /\ ResponseOf(q, a) \in Responses
        /\ a.ok => a = Status(TRUE)
        /\ ~a.ok => a = Status(FALSE)
    BY <1>0, <2>1, <2>3, AckType DEF Status
  <2> QED
    BY <1>0, <1>1, <2>2, <2>4 DEF Truthful, Sending, Rejected, EmptyId, Cache!Value
<1>2. CASE q.rpc \in {"Delete", "DeleteKVCache"}
  <2>1. c.op = "delete" /\ c.id = q.key
    BY <1>2, CallIs
  <2>2. /\ a = Status(TRUE) => q.key \in gone'[t]
        /\ a = Status(FALSE) => Rejected(c) \/ "write" \in Faults
    BY <2>1 DEF Tells
  <2>3. ResponseOf(q, a) = [success |-> a.ok]
    BY <1>2 DEF ResponseOf
  <2>4. /\ response'[t].success = a.ok /\ ResponseOf(q, a) \in Responses
        /\ a.ok => a = Status(TRUE)
        /\ ~a.ok => a = Status(FALSE)
    BY <1>0, <2>1, <2>3, AckType DEF Status
  <2> QED
    BY <1>0, <1>2, <2>2, <2>4 DEF Truthful, Sending, Rejected, EmptyId
<1>3. CASE q.rpc \in {"Get", "RetrieveKVCache"}
  <2>1. c.op = "retrieve" /\ c.id = q.key
    BY <1>3, CallIs
  <2>2. /\ a.value \in SUBSET KVCacheData
        /\ \A v \in a.value : <<q.key, v>> \in witnessed'[t]
        /\ a.value = {} => q.key \in gone'[t] \/ "read" \in Faults
    BY <2>1 DEF Tells
  <2>3. CASE q.rpc = "Get"
    <3>1. ResponseOf(q, a) = [success |-> a.value # {}, data |-> {v.data : v \in a.value}]
      BY <2>3 DEF ResponseOf
    <3>2. {v.data : v \in a.value} \in SUBSET Payloads
      BY <2>2 DEF KVCacheData
    <3>3. \A d \in {v.data : v \in a.value} : \E p \in witnessed'[t] : p[1] = q.key /\ p[2].data = d
      <4>1. ASSUME NEW v \in a.value PROVE \E p \in witnessed'[t] : p[1] = q.key /\ p[2].data = v.data
        <5>1. <<q.key, v>> \in witnessed'[t] /\ <<q.key, v>>[1] = q.key /\ <<q.key, v>>[2].data = v.data
          BY <2>2, <4>1
        <5> QED
          BY <5>1
      <4> QED
        BY <4>1
    <3>4. ResponseOf(q, a) \in Responses
      BY <3>1, <3>2 DEF Responses
    <3>5. response'[t].data = {v.data : v \in a.value}
      BY <3>1
    <3>6. response'[t].success = (a.value # {})
      BY <3>1
    <3>7. ~response'[t].success => a.value = {}
      BY <3>6
    <3> QED
      BY <2>2, <2>3, <3>3, <3>4, <3>5, <3>7 DEF Truthful, Sending, Had
  <2>4. CASE q.rpc = "RetrieveKVCache"
    <3>1. ResponseOf(q, a) = [success |-> a.value # {}, found |-> a.value]
      BY <2>4 DEF ResponseOf
    <3>2. ResponseOf(q, a) \in Responses
      BY <2>2, <3>1 DEF Responses
    <3>3. response'[t].found = a.value
      BY <3>1
    <3>4. response'[t].success = (a.value # {})
      BY <3>1
    <3>5. ~response'[t].success => a.value = {}
      BY <3>4
    <3> QED
      BY <2>2, <2>4, <3>2, <3>3, <3>5 DEF Truthful, Sending
  <2> QED
    BY <1>3, <2>3, <2>4
<1>4. CASE q.rpc = "ListKVCacheKeys"
  <2>1. c.op = "list" /\ c.ids = q.ids
    BY <1>4, CallIs
  <2>2. /\ a \in [keys : Seq(CacheIds)]
        /\ ResponseOf(q, a) = [success |-> TRUE, cache_ids |-> a.keys]
    BY <1>4, <2>1 DEF Tells, ResponseOf
  <2>3. \A id \in Range(a.keys) : id \in q.ids /\ \E p \in witnessed'[t] : p[1] = id
    BY <2>1 DEF Tells, Was
  <2>4. response'[t].cache_ids = a.keys /\ ResponseOf(q, a) \in Responses
    BY <2>2 DEF Responses
  <2> QED
    BY <1>4, <2>3, <2>4 DEF Truthful, Sending, Was, Range
<1> QED
  BY <1>1, <1>2, <1>3, <1>4, RequestKinds DEF KeyRpcs

LEMMA RespondStep ==
    ASSUME HandlersSound, NEW t \in Workers, Respond(t), Observe
    PROVE  HandlersSound'
<1>1. /\ TypeOK /\ CacheSound /\ WorkerSound(t) /\ t \in Threads
      /\ stage[t] = "call" /\ Cache!Return(t)
      /\ stage' = [stage EXCEPT ![t] = "send"]
      /\ UNCHANGED <<rpc, left, kvs>>
  BY DEF HandlersSound, Respond, To
<1>2. /\ answer[t] # NoReply
      /\ pending' \in [Threads -> Calls \cup {NoCall}]
      /\ \A u \in Threads \ {t} : pending'[u] = pending[u] /\ answer'[u] = answer[u]
      /\ CacheSound'
  BY <1>1, ReturnIs
<1>3. /\ rpc[t] \in Requests /\ rpc[t].rpc # "Scan" /\ pending[t] = CallOf(rpc[t]) /\ Tells(t)
  BY <1>1, <1>2 DEF WorkerSound, StageFits
<1>4. /\ stage'[t] = "send" /\ rpc'[t] = rpc[t]
      /\ \A u \in Workers \ {t} : stage'[u] = stage[u]
  BY <1>1 DEF TypeOK
<1>5. /\ response' = [response EXCEPT ![t] = ResponseOf(rpc[t], answer[t])]
      /\ response'[t] = ResponseOf(rpc[t], answer[t])
  BY DEF Respond, HandlersSound, TypeOK
<1>6. witnessed[t] \subseteq witnessed'[t] /\ gone[t] \subseteq gone'[t] /\ HistoryFits(t)'
  BY <1>1, <1>2, <1>4, Observed DEF WorkerSound, CacheSound
<1>7. Truthful(t)' /\ ResponseOf(rpc[t], answer[t]) \in Responses
  BY <1>1, <1>3, <1>4, <1>5, <1>6, RespondTruth
<1>10. TypeOK'
  BY <1>1, <1>2, <1>5, <1>7, SteadyType DEF TypeOK, CacheSound, Stages
<1>8. WorkerSound(t)'
  BY <1>3, <1>4, <1>6, <1>7 DEF WorkerSound, StageFits, Sending
<1>9. \A u \in Workers \ {t} : response'[u] = response[u]
  BY DEF Respond
<1> QED
  BY <1>1, <1>2, <1>4, <1>8, <1>9, <1>10, OthersUntouched, HandlerStep

LEMMA SendStep ==
    ASSUME HandlersSound, NEW t \in Workers, Send(t), Observe
    PROVE  HandlersSound'
<1>1. /\ TypeOK /\ CacheSound /\ WorkerSound(t) /\ t \in Threads
      /\ stage' = [stage EXCEPT ![t] = "idle"]
      /\ rpc' = [rpc EXCEPT ![t] = NoRpc]
      /\ kvs' = [kvs EXCEPT ![t] = <<>>]
      /\ response' = [response EXCEPT ![t] = NoResponse]
      /\ UNCHANGED <<cacheVars, left>>
  BY DEF HandlersSound, Send, To
<1>2. CacheSound'
  BY <1>1 DEF CacheSound, cacheVars
<1>3. /\ stage'[t] = "idle" /\ kvs'[t] = <<>>
      /\ \A u \in Workers \ {t} : /\ stage'[u] = stage[u] /\ rpc'[u] = rpc[u]
                                  /\ kvs'[u] = kvs[u] /\ response'[u] = response[u]
  BY <1>1 DEF TypeOK
<1>4. TypeOK'
  <2>1. NoResponse \in Responses /\ "idle" \in Stages /\ <<>> \in Seq(KeyValues)
    BY EmptySeq DEF Responses, Stages
  <2> QED
    BY <1>1, <1>2, <2>1, SteadyType DEF TypeOK, CacheSound, cacheVars
<1>5. HistoryFits(t)'
  BY <1>1, <1>2, Observed DEF WorkerSound, CacheSound
<1>6. WorkerSound(t)'
  BY <1>3, <1>5 DEF WorkerSound, StageFits, Truthful, Sending
<1> QED
  BY <1>1, <1>2, <1>3, <1>4, <1>6, OthersUntouched, HandlerStep DEF cacheVars
-----------------------------------------------------------------------------
(***************************************************************************)
(* Scan.                                                                   *)
(***************************************************************************)
LEMMA ScanListedStep ==
    ASSUME HandlersSound, NEW t \in Workers, ScanListed(t), Observe
    PROVE  HandlersSound'
<1>1. /\ TypeOK /\ CacheSound /\ WorkerSound(t) /\ t \in Threads
      /\ stage[t] = "list" /\ Cache!Return(t)
      /\ left' = [left EXCEPT ![t] = answer[t].keys]
      /\ stage' = [stage EXCEPT ![t] = "scan"]
      /\ UNCHANGED <<rpc, kvs, response>>
  BY DEF HandlersSound, ScanListed, To
<1>2. /\ answer[t] # NoReply
      /\ pending' \in [Threads -> Calls \cup {NoCall}]
      /\ \A u \in Threads \ {t} : pending'[u] = pending[u] /\ answer'[u] = answer[u]
      /\ CacheSound'
  BY <1>1, ReturnIs
<1> DEFINE q == rpc[t]
           s == answer[t].keys
<1>3. /\ q \in Requests /\ q.rpc = "Scan" /\ pending[t] = CallOf(q) /\ kvs[t] = <<>> /\ Tells(t)
  BY <1>1, <1>2 DEF WorkerSound, StageFits
<1>4. pending[t].op = "list" /\ pending[t].ids = q.ids /\ pending[t].limit = q.limit
  BY <1>3, CallIs
<1>5. /\ s \in Seq(CacheIds) /\ Cache!Ascending(s) /\ Range(s) \subseteq q.ids
  BY <1>3, <1>4 DEF Tells
<1>6. q.limit > 0 => Len(s) <= q.limit
  BY <1>3, <1>4 DEF Tells
<1> HIDE DEF s
<1>7. /\ stage'[t] = "scan" /\ left'[t] = s /\ rpc'[t] = q /\ kvs'[t] = <<>>
      /\ \A u \in Workers \ {t} : stage'[u] = stage[u] /\ left'[u] = left[u]
  BY <1>1, <1>3 DEF TypeOK, s
<1>8. TypeOK'
  BY <1>1, <1>2, <1>5, SteadyType DEF TypeOK, CacheSound, Stages, s
<1>9. Collected(t)'
  <2>1. Len(<<>>) + Len(s) = Len(s) /\ DOMAIN <<>> = {}
    BY <1>5
  <2> QED
    BY <1>5, <1>6, <1>7, <2>1 DEF Collected, Cache!Ascending, Range
<1>10. HistoryFits(t)'
  BY <1>1, <1>2, Observed DEF WorkerSound, CacheSound
<1>11. WorkerSound(t)'
  BY <1>3, <1>7, <1>9, <1>10 DEF WorkerSound, StageFits, Truthful, Sending
<1> QED
  BY <1>1, <1>2, <1>7, <1>8, <1>11, OthersUntouched, HandlerStep

\* The keys a Scan has left.
LEMMA RestOfKeys ==
    ASSUME NEW s \in Seq(CacheIds), s # <<>>
    PROVE  /\ Tail(s) \in Seq(CacheIds) /\ Head(s) \in CacheIds
           /\ Len(s) \in Nat /\ Len(Tail(s)) = Len(s) - 1
           /\ Head(s) = s[1] /\ 1 \in DOMAIN s
           /\ DOMAIN s = 1 .. Len(s)
           /\ \A i \in DOMAIN Tail(s) : i \in Nat /\ i + 1 \in DOMAIN s /\ Tail(s)[i] = s[i + 1]
           /\ \A i \in DOMAIN s \ {1} : i - 1 \in DOMAIN Tail(s) /\ s[i] = Tail(s)[i - 1]
<1>1. /\ Tail(s) \in Seq(CacheIds) /\ Head(s) \in CacheIds
      /\ Len(Tail(s)) = Len(s) - 1
      /\ \A i \in 1 .. Len(Tail(s)) : Tail(s)[i] = s[i + 1]
  BY HeadTailProperties
<1>2. Len(s) \in Nat \ {0} /\ DOMAIN s = 1 .. Len(s)
  BY EmptySeq, LenProperties
<1>3. DOMAIN Tail(s) = 1 .. Len(s) - 1
  BY <1>1, LenProperties
<1>4. Head(s) = s[1]
  BY <1>2
<1> QED
  BY <1>1, <1>2, <1>3, <1>4

\* A key less to go leaves a collection in order.
LEMMA TailAscends ==
    ASSUME NEW s \in Seq(CacheIds), s # <<>>, Cache!Ascending(s)
    PROVE  /\ Cache!Ascending(Tail(s))
           /\ Range(Tail(s)) \subseteq Range(s)
           /\ \A i \in DOMAIN Tail(s) : Head(s) < Tail(s)[i]
           /\ Range(s) = Range(Tail(s)) \cup {Head(s)}
<1>1. Cache!Ascending(Tail(s))
  BY RestOfKeys DEF Cache!Ascending
<1>2. Range(s) = Range(Tail(s)) \cup {Head(s)}
  <2>1. ASSUME NEW x \in Range(s) PROVE x \in Range(Tail(s)) \cup {Head(s)}
    <3>1. PICK i \in DOMAIN s : s[i] = x
      BY DEF Range
    <3>2. CASE i = 1
      BY <3>1, <3>2, RestOfKeys
    <3>3. CASE i # 1
      <4>1. i - 1 \in DOMAIN Tail(s) /\ s[i] = Tail(s)[i - 1]
        BY <3>3, RestOfKeys
      <4> QED
        BY <3>1, <4>1 DEF Range
    <3> QED
      BY <3>2, <3>3
  <2>2. ASSUME NEW x \in Range(Tail(s)) PROVE x \in Range(s)
    BY RestOfKeys DEF Range
  <2>3. Head(s) \in Range(s)
    BY RestOfKeys DEF Range
  <2> QED
    BY <2>1, <2>2, <2>3
<1>3. \A i \in DOMAIN Tail(s) : Head(s) < Tail(s)[i]
  <2>1. ASSUME NEW i \in DOMAIN Tail(s) PROVE Head(s) < Tail(s)[i]
    <3>1. i + 1 \in DOMAIN s /\ Tail(s)[i] = s[i + 1] /\ 1 < i + 1
      BY RestOfKeys, LenProperties
    <3> QED
      BY <3>1, RestOfKeys DEF Cache!Ascending
  <2> QED
    BY <2>1
<1> QED
  BY <1>1, <1>2, <1>3

\* There is room for what is left, and for one more when one fewer is left.
LEMMA Room ==
    \A n \in Int : \A a, b \in Nat :
      (n > 0 => a + b <= n) =>
        /\ n > 0 => a + (b - 1) <= n
        /\ n > 0 => (a + 1) + (b - 1) <= n
  OBVIOUS

\* A Scan passes over a key.
LEMMA CollectedSkips ==
    ASSUME TypeOK, NEW t \in Workers, Collected(t), left[t] # <<>>, rpc[t] \in Requests, rpc[t].rpc = "Scan",
           rpc'[t] = rpc[t], left'[t] = Tail(left[t]), kvs'[t] = kvs[t],
           witnessed[t] \subseteq witnessed'[t]
    PROVE  Collected(t)'
<1> DEFINE rest == left[t]
<1>1. rest \in Seq(CacheIds) /\ kvs[t] \in Seq(KeyValues) /\ rpc[t].limit \in Int
  BY RequestKinds DEF TypeOK, KeyRpcs
<1>2. Cache!Ascending(left'[t]) /\ Range(left'[t]) \subseteq Range(rest)
  BY <1>1, TailAscends DEF Collected
<1>3. \A i \in DOMAIN kvs[t], j \in DOMAIN left'[t] : kvs[t][i].key < left'[t][j]
  BY <1>1, RestOfKeys DEF Collected
<1>4. rpc[t].limit > 0 => Len(kvs[t]) + Len(left'[t]) <= rpc[t].limit
  <2>1. Len(rest) \in Nat /\ Len(left'[t]) = Len(rest) - 1 /\ Len(kvs[t]) \in Nat
    BY <1>1, RestOfKeys, LenProperties
  <2>2. rpc[t].limit > 0 => Len(kvs[t]) + Len(rest) <= rpc[t].limit
    BY DEF Collected
  <2> HIDE DEF rest
  <2>3. rpc[t].limit > 0 => Len(kvs[t]) + (Len(rest) - 1) <= rpc[t].limit
    BY <1>1, <2>1, <2>2, Room, Zenon
  <2> QED
    BY <2>1, <2>3, Zenon
<1> QED
  BY <1>2, <1>3, <1>4 DEF Collected, Had, Cache!Ascending, Range

LEMMA ScanSkipStep ==
    ASSUME HandlersSound, NEW t \in Workers, ScanSkip(t), Observe
    PROVE  HandlersSound'
<1>1. /\ TypeOK /\ CacheSound /\ WorkerSound(t) /\ t \in Threads
      /\ stage[t] = "scan" /\ left[t] # <<>>
      /\ left' = [left EXCEPT ![t] = Tail(left[t])]
      /\ UNCHANGED <<cacheVars, stage, rpc, kvs, response>>
  BY DEF HandlersSound, ScanSkip
<1>2. CacheSound'
  BY <1>1 DEF CacheSound, cacheVars
<1>3. rpc[t] \in Requests /\ rpc[t].rpc = "Scan" /\ Collected(t)
  BY <1>1 DEF WorkerSound, StageFits
<1>4. /\ left'[t] = Tail(left[t])
      /\ \A u \in Workers \ {t} : left'[u] = left[u]
  BY <1>1 DEF TypeOK
<1>5. Tail(left[t]) \in Seq(CacheIds)
  BY <1>1, RestOfKeys DEF TypeOK
<1>6. TypeOK'
  BY <1>1, <1>2, <1>5, SteadyType DEF TypeOK, CacheSound, cacheVars
<1>7. witnessed[t] \subseteq witnessed'[t] /\ HistoryFits(t)'
  BY <1>1, <1>2, Observed DEF WorkerSound, CacheSound
<1>8. Collected(t)'
  BY <1>1, <1>3, <1>4, <1>7, CollectedSkips
<1>9. WorkerSound(t)'
  BY <1>1, <1>3, <1>7, <1>8 DEF WorkerSound, StageFits, Truthful, Sending
<1> QED
  BY <1>1, <1>2, <1>4, <1>6, <1>9, OthersUntouched, HandlerStep DEF cacheVars

LEMMA ScanRetrieveStep ==
    ASSUME HandlersSound, NEW t \in Workers, ScanRetrieve(t), Observe
    PROVE  HandlersSound'
<1> DEFINE c == [op |-> "retrieve", id |-> Head(left[t])]
<1>1. /\ TypeOK /\ CacheSound /\ WorkerSound(t) /\ t \in Threads
      /\ stage[t] = "scan" /\ left[t] # <<>> /\ Head(left[t]) <= rpc[t].end
      /\ Cache!Invoke(t, c)
      /\ stage' = [stage EXCEPT ![t] = "value"]
      /\ UNCHANGED <<rpc, left, kvs, response>>
  BY DEF HandlersSound, ScanRetrieve, To
<1>2. c \in Calls /\ ~Rejected(c)
  <2>1. Head(left[t]) \in CacheIds
    BY <1>1, RestOfKeys DEF TypeOK
  <2> QED
    BY <2>1 DEF Calls, RetrieveCalls, Ids, Rejected, EmptyId
<1> HIDE DEF c
<1>3. /\ pending' \in [Threads -> Calls \cup {NoCall}]
      /\ pending'[t] = c /\ answer'[t] = NoReply
      /\ \A u \in Threads \ {t} : pending'[u] = pending[u] /\ answer'[u] = answer[u]
      /\ CacheSound'
  BY <1>1, <1>2, InvokeIs
<1>4. rpc[t] \in Requests /\ rpc[t].rpc = "Scan" /\ Collected(t)
  BY <1>1 DEF WorkerSound, StageFits
<1>5. /\ stage'[t] = "value"
      /\ \A u \in Workers \ {t} : stage'[u] = stage[u]
  BY <1>1 DEF TypeOK
<1>6. TypeOK'
  BY <1>1, <1>3, SteadyType DEF TypeOK, CacheSound, Stages
<1>7. witnessed[t] \subseteq witnessed'[t] /\ HistoryFits(t)'
  BY <1>1, <1>3, <1>5, Observed DEF WorkerSound, CacheSound
<1>8. Collected(t)'
  BY <1>1, <1>4, <1>7, CollectedKeeps
<1>9. WorkerSound(t)'
  BY <1>1, <1>3, <1>4, <1>5, <1>7, <1>8 DEF WorkerSound, StageFits, Truthful, Sending, c
<1> QED
  BY <1>1, <1>3, <1>5, <1>6, <1>9, OthersUntouched, HandlerStep

LEMMA PairAppended ==
    \A s \in Seq(KeyValues) : \A kv \in KeyValues :
      /\ Append(s, kv) \in Seq(KeyValues) /\ Len(Append(s, kv)) = Len(s) + 1
      /\ \A i \in 1 .. Len(s) : Append(s, kv)[i] = s[i]
      /\ Append(s, kv)[Len(s) + 1] = kv
  BY AppendProperties

\* A Scan adds the pair of the first key it has left.
LEMMA CollectedAdds ==
    ASSUME TypeOK, NEW t \in Workers, Collected(t), left[t] # <<>>, rpc[t] \in Requests, rpc[t].rpc = "Scan",
           Head(left[t]) <= rpc[t].end, NEW d \in Payloads,
           \E p \in witnessed'[t] : p[1] = Head(left[t]) /\ p[2].data = d,
           rpc'[t] = rpc[t], left'[t] = Tail(left[t]),
           kvs'[t] = Append(kvs[t], [key |-> Head(left[t]), value |-> d]),
           witnessed[t] \subseteq witnessed'[t]
    PROVE  Collected(t)' /\ kvs'[t] \in Seq(KeyValues)
<1> DEFINE rest == left[t]
           s    == kvs[t]
           kv   == [key |-> Head(rest), value |-> d]
<1>1. /\ rest \in Seq(CacheIds) /\ s \in Seq(KeyValues)
      /\ rpc[t].limit \in Int /\ rpc[t].end \in Nat
      /\ Head(rest) \in CacheIds
  BY RequestKinds, RestOfKeys DEF TypeOK, KeyRpcs
<1>2. kv \in KeyValues /\ kv.key = Head(rest) /\ kv.value = d
  BY <1>1 DEF KeyValues
<1> HIDE DEF kv, rest, s
<1>3. /\ Len(s) \in Nat /\ DOMAIN s = 1 .. Len(s)
      /\ kvs'[t] \in Seq(KeyValues) /\ DOMAIN kvs'[t] = 1 .. Len(s) + 1
      /\ Len(kvs'[t]) = Len(s) + 1
      /\ kvs'[t][Len(s) + 1] = kv
      /\ \A i \in DOMAIN s : kvs'[t][i] = s[i] /\ s[i].key \in CacheIds
  <2>0. s \in Seq(KeyValues) /\ kv \in KeyValues
    BY <1>1, <1>2
  <2>1. kvs'[t] = Append(s, kv)
    BY DEF kv, rest, s
  <2>2. /\ kvs'[t] \in Seq(KeyValues) /\ Len(kvs'[t]) = Len(s) + 1
        /\ \A i \in 1 .. Len(s) : kvs'[t][i] = s[i]
        /\ kvs'[t][Len(s) + 1] = kv
    <3>1. /\ Append(s, kv) \in Seq(KeyValues) /\ Len(Append(s, kv)) = Len(s) + 1
          /\ \A i \in 1 .. Len(s) : Append(s, kv)[i] = s[i]
          /\ Append(s, kv)[Len(s) + 1] = kv
      BY <2>0, PairAppended, Zenon
    <3> QED
      BY <2>1, <3>1, Zenon
  <2>3. Len(s) \in Nat /\ DOMAIN s = 1 .. Len(s) /\ \A i \in 1 .. Len(s) : s[i] \in KeyValues
    BY <1>1, LenProperties
  <2>4. DOMAIN kvs'[t] = 1 .. Len(s) + 1
    BY <2>2, LenProperties
  <2> QED
    BY <2>2, <2>3, <2>4 DEF KeyValues
<1>4. /\ Cache!Ascending(left'[t]) /\ Range(left'[t]) \subseteq Range(rest)
      /\ \A j \in DOMAIN left'[t] : Head(rest) < left'[t][j]
      /\ Head(rest) \in Range(rest)
  BY <1>1, TailAscends DEF Collected, rest
<1>5. /\ \A i, j \in DOMAIN s : i < j => s[i].key < s[j].key
      /\ \A i \in DOMAIN s, j \in DOMAIN rest : s[i].key < rest[j]
      /\ \A i \in DOMAIN s : s[i].key \in rpc[t].ids /\ s[i].key <= rpc[t].end
      /\ \A i \in DOMAIN s : \E p \in witnessed'[t] : p[1] = s[i].key /\ p[2].data = s[i].value
      /\ Range(rest) \subseteq rpc[t].ids
  BY DEF Collected, Had, rest, s
<1>6. \A i \in DOMAIN s : s[i].key < Head(rest)
  BY <1>1, <1>5, RestOfKeys DEF rest
<1>7. \A i, j \in DOMAIN kvs'[t] : i < j => kvs'[t][i].key < kvs'[t][j].key
  BY <1>2, <1>3, <1>5, <1>6
<1>8. \A i \in DOMAIN kvs'[t], j \in DOMAIN left'[t] : kvs'[t][i].key < left'[t][j]
  <2>1. \A i \in DOMAIN s, j \in DOMAIN left'[t] : s[i].key < left'[t][j]
    BY <1>1, <1>5, RestOfKeys DEF rest
  <2> QED
    BY <1>2, <1>3, <1>4, <2>1
<1>9. \A i \in DOMAIN kvs'[t] : /\ kvs'[t][i].key \in rpc[t].ids /\ kvs'[t][i].key <= rpc[t].end
                                /\ \E p \in witnessed'[t] :
                                     p[1] = kvs'[t][i].key /\ p[2].data = kvs'[t][i].value
  <2>1. /\ \E p \in witnessed'[t] : p[1] = kv.key /\ p[2].data = kv.value
        /\ kv.key <= rpc[t].end
        /\ kv.key \in rpc[t].ids
    BY <1>2, <1>4, <1>5 DEF rest
  <2>2. ASSUME NEW i \in DOMAIN kvs'[t]
        PROVE  kvs'[t][i] = kv \/ (i \in DOMAIN s /\ kvs'[t][i] = s[i])
    <3>1. i \in 1 .. Len(s) + 1 /\ Len(s) \in Nat /\ DOMAIN s = 1 .. Len(s)
      BY <1>3
    <3>2. i = Len(s) + 1 \/ i \in 1 .. Len(s)
      BY <3>1
    <3> QED
      BY <1>3, <3>2
  <2> QED
    BY <1>5, <2>1, <2>2
<1>10. rpc[t].limit > 0 => Len(kvs'[t]) + Len(left'[t]) <= rpc[t].limit
  <2>1. Len(rest) \in Nat /\ Len(left'[t]) = Len(rest) - 1
    BY <1>1, RestOfKeys DEF rest
  <2>2. rpc[t].limit > 0 => Len(s) + Len(rest) <= rpc[t].limit
    BY DEF Collected, rest, s
  <2>3. rpc[t].limit > 0 => (Len(s) + 1) + (Len(rest) - 1) <= rpc[t].limit
    BY <1>1, <1>3, <2>1, <2>2, Room, Zenon
  <2> QED
    BY <1>3, <2>1, <2>3, Zenon
<1> QED
  BY <1>3, <1>4, <1>5, <1>7, <1>8, <1>9, <1>10 DEF Collected, Had

LEMMA ScanValueStep ==
    ASSUME HandlersSound, NEW t \in Workers, ScanValue(t), Observe
    PROVE  HandlersSound'
<1> DEFINE key == Head(left[t])
<1>1. /\ TypeOK /\ CacheSound /\ WorkerSound(t) /\ t \in Threads
      /\ stage[t] = "value" /\ Cache!Return(t)
      /\ left' = [left EXCEPT ![t] = Tail(left[t])]
      /\ stage' = [stage EXCEPT ![t] = "scan"]
      /\ UNCHANGED <<rpc, response>>
  BY DEF HandlersSound, ScanValue, To
<1>2. /\ answer[t] # NoReply
      /\ pending' \in [Threads -> Calls \cup {NoCall}]
      /\ \A u \in Threads \ {t} : pending'[u] = pending[u] /\ answer'[u] = answer[u]
      /\ CacheSound'
  BY <1>1, ReturnIs
<1>3. /\ rpc[t] \in Requests /\ rpc[t].rpc = "Scan" /\ Collected(t) /\ Tells(t)
      /\ left[t] # <<>> /\ key <= rpc[t].end
      /\ pending[t] = [op |-> "retrieve", id |-> key]
  BY <1>1, <1>2 DEF WorkerSound, StageFits
<1>4. /\ stage'[t] = "scan" /\ left'[t] = Tail(left[t])
      /\ \A u \in Workers \ {t} : stage'[u] = stage[u] /\ left'[u] = left[u]
      /\ "scan" \in Stages
  BY <1>1 DEF TypeOK, Stages
<1>5. Tail(left[t]) \in Seq(CacheIds) /\ key \in CacheIds
  BY <1>1, <1>3, RestOfKeys DEF TypeOK
<1> HIDE DEF key
<1>6. witnessed[t] \subseteq witnessed'[t] /\ HistoryFits(t)'
  BY <1>1, <1>2, <1>4, Observed DEF WorkerSound, CacheSound
<1>7. ASSUME kvs'[t] \in Seq(KeyValues), \A u \in Workers \ {t} : kvs'[u] = kvs[u],
             kvs' \in [Workers -> Seq(KeyValues)], Collected(t)'
      PROVE  HandlersSound'
  <2>1. TypeOK'
    BY <1>1, <1>2, <1>4, <1>5, <1>7, SteadyType DEF TypeOK, CacheSound
  <2>2. WorkerSound(t)'
    BY <1>1, <1>3, <1>4, <1>6, <1>7 DEF WorkerSound, StageFits, Truthful, Sending
  <2> QED
    BY <1>1, <1>2, <1>4, <1>7, <2>1, <2>2, OthersUntouched, HandlerStep
<1>8. CASE UNCHANGED kvs
  <2>1. Collected(t)'
    BY <1>1, <1>3, <1>4, <1>6, <1>8, CollectedSkips
  <2> QED
    BY <1>1, <1>7, <1>8, <2>1 DEF TypeOK
<1>9. ASSUME NEW v \in answer[t].value,
             kvs' = [kvs EXCEPT ![t] = Append(kvs[t], [key |-> key, value |-> v.data])]
      PROVE  HandlersSound'
  <2>1. pending[t].op = "retrieve" /\ pending[t].id = key
    BY <1>3
  <2>2. v \in KVCacheData /\ <<key, v>> \in witnessed'[t]
    BY <1>3, <1>6, <1>9, <2>1 DEF Tells
  <2>7. \E p \in witnessed'[t] : p[1] = key /\ p[2].data = v.data
    BY <2>2
  <2>3. v.data \in Payloads
    BY <2>2 DEF KVCacheData
  <2>4. /\ kvs \in [Workers -> Seq(KeyValues)]
        /\ kvs'[t] = Append(kvs[t], [key |-> key, value |-> v.data])
        /\ \A u \in Workers \ {t} : kvs'[u] = kvs[u]
    BY <1>1, <1>9 DEF TypeOK
  <2>5. Collected(t)' /\ kvs'[t] \in Seq(KeyValues)
    BY <1>1, <1>3, <1>4, <1>6, <2>7, <2>3, <2>4, CollectedAdds DEF key
  <2>6. kvs' \in [Workers -> Seq(KeyValues)]
    BY <1>9, <2>4, <2>5
  <2> QED
    BY <1>7, <2>4, <2>5, <2>6
<1> QED
  BY <1>8, <1>9 DEF ScanValue, key

LEMMA ScanRespondStep ==
    ASSUME HandlersSound, NEW t \in Workers, ScanRespond(t), Observe
    PROVE  HandlersSound'
<1>1. /\ TypeOK /\ CacheSound /\ WorkerSound(t) /\ t \in Threads
      /\ stage[t] = "scan" /\ left[t] = <<>>
      /\ response' = [response EXCEPT ![t] = [success |-> TRUE, kvs |-> kvs[t]]]
      /\ stage' = [stage EXCEPT ![t] = "send"]
      /\ UNCHANGED <<cacheVars, rpc, left, kvs>>
  BY DEF HandlersSound, ScanRespond, To
<1>2. CacheSound'
  BY <1>1 DEF CacheSound, cacheVars
<1>3. rpc[t] \in Requests /\ rpc[t].rpc = "Scan" /\ Collected(t)
  BY <1>1 DEF WorkerSound, StageFits
<1>4. /\ stage'[t] = "send" /\ response'[t] = [success |-> TRUE, kvs |-> kvs[t]]
      /\ \A u \in Workers \ {t} : stage'[u] = stage[u] /\ response'[u] = response[u]
      /\ "send" \in Stages
  BY <1>1 DEF TypeOK, Stages
<1>5. [success |-> TRUE, kvs |-> kvs[t]] \in Responses
  BY <1>1 DEF TypeOK, Responses
<1>6. TypeOK'
  BY <1>1, <1>2, <1>4, <1>5, SteadyType DEF TypeOK, CacheSound, cacheVars
<1>7. witnessed[t] \subseteq witnessed'[t] /\ HistoryFits(t)'
  BY <1>1, <1>2, <1>4, Observed DEF WorkerSound, CacheSound
<1>8. Collected(t)'
  BY <1>1, <1>3, <1>7, CollectedKeeps
<1>9. Truthful(t)'
  <2>1. \A i \in DOMAIN kvs[t] :
          \E p \in witnessed'[t] : p[1] = kvs[t][i].key /\ p[2].data = kvs[t][i].value
    BY <1>3, <1>7 DEF Collected, Had
  <2> QED
    BY <1>1, <1>3, <1>4, <2>1 DEF Truthful, Sending, Had
<1>10. WorkerSound(t)'
  BY <1>1, <1>3, <1>4, <1>7, <1>8, <1>9 DEF WorkerSound, StageFits, Sending
<1> QED
  BY <1>1, <1>2, <1>4, <1>6, <1>10, OthersUntouched, HandlerStep DEF cacheVars
-----------------------------------------------------------------------------
(***************************************************************************)
(* The callers of the connector.                                           *)
(***************************************************************************)
LEMMA SameCache ==
    /\ \A t, c : Connector!Cache!Invoke(t, c) <=> Cache!Invoke(t, c)
    /\ \A t : Connector!Cache!Return(t) <=> Cache!Return(t)
    /\ Connector!NoReply = NoReply /\ Connector!NoCall = NoCall
    /\ \A c : Connector!Failure(c) = Failure(c)
    /\ \A c : Connector!Refused(c) <=> Rejected(c)
<1>1. /\ Connector!Cache!NoReply = Cache!NoReply /\ Connector!Cache!NoCall = Cache!NoCall
      /\ \A c : Connector!Cache!Rejected(c) <=> Cache!Rejected(c)
      /\ \A c : Connector!Cache!Failure(c) = Cache!Failure(c)
  BY DEF Connector!Cache!NoReply, Cache!NoReply, Connector!Cache!NoCall, Cache!NoCall,
         Connector!Cache!Rejected, Cache!Rejected, Connector!Cache!Failure, Cache!Failure,
         Connector!Cache!EmptyId, Cache!EmptyId, Connector!Cache!NullOpt, Cache!NullOpt,
         Connector!Cache!Status, Cache!Status
<1>2. \A t, c : Connector!Cache!Invoke(t, c) <=> Cache!Invoke(t, c)
  BY <1>1 DEF Connector!Cache!Invoke, Cache!Invoke
<1>3. \A t : Connector!Cache!Return(t) <=> Cache!Return(t)
  BY <1>1 DEF Connector!Cache!Return, Cache!Return
<1>4. /\ Connector!NoReply = NoReply /\ Connector!NoCall = NoCall
  BY DEF Connector!NoReply, NoReply, Connector!NoCall, NoCall
<1>5. /\ \A c : Connector!Failure(c) = Failure(c)
      /\ \A c : Connector!Refused(c) <=> Rejected(c)
  BY DEF Connector!Failure, Failure, Connector!NullOpt, NullOpt, Connector!Status, Status,
         Connector!Refused, Rejected, Connector!EmptyId, EmptyId
<1> QED
  BY <1>2, <1>3, <1>4, <1>5

LEMMA CallerIsNoWorker ==
    ASSUME NEW t \in Callers
    PROVE  t \in Threads /\ t \notin Workers /\ Asks \subseteq Calls
BY DEF Connector!ConnectorAssumption, Connector!Calls, Calls, Connector!StoreCalls, StoreCalls,
       Connector!RetrieveCalls, RetrieveCalls, Connector!DeleteCalls, DeleteCalls,
       Connector!ListCalls, ListCalls, Connector!Ids, Ids, Connector!EmptyId, EmptyId

\* The cache has thrown: the call is gone.
LEMMA UnwindSound ==
    ASSUME TypeOK, CacheSound, NEW t \in Threads, Connector!Unwind(t)
    PROVE  /\ CacheSound' /\ pending' \in [Threads -> Calls \cup {NoCall}]
           /\ pending' = [pending EXCEPT ![t] = NoCall] /\ since' = [since EXCEPT ![t] = 0]
           /\ pending[t] # NoCall /\ answer[t] = NoReply
           /\ UNCHANGED <<cache, durable, now, answer, crashes>>
<1>1. /\ pending[t] # NoCall /\ answer[t] = NoReply
      /\ pending' = [pending EXCEPT ![t] = NoCall] /\ since' = [since EXCEPT ![t] = 0]
      /\ UNCHANGED <<cache, durable, now, answer, crashes>>
  BY SameCache DEF Connector!Unwind
<1>2. pending' \in [Threads -> Calls \cup {NoCall}]
  BY <1>1 DEF TypeOK
<1>3. \A u \in Threads : pending'[u] # NoCall /\ answer'[u] = NoReply => ~Rejected(pending'[u])
  BY <1>1 DEF TypeOK, CacheSound
<1> QED
  BY <1>1, <1>2, <1>3 DEF CacheSound

\* Whatever a caller does, the handlers do not notice.
LEMMA CallerStepIs ==
    ASSUME TypeOK, CacheSound, NEW t \in Callers, Connector!Step(t)
    PROVE  /\ CacheSound' /\ pending' \in [Threads -> Calls \cup {NoCall}]
           /\ \A u \in Threads \ {t} : pending'[u] = pending[u] /\ answer'[u] = answer[u]
           /\ UNCHANGED cache
<1>0. t \in Threads /\ Asks \subseteq Calls
  BY CallerIsNoWorker
<1>1. ASSUME UNCHANGED cacheVars
      PROVE  /\ CacheSound' /\ pending' \in [Threads -> Calls \cup {NoCall}]
             /\ \A u \in Threads \ {t} : pending'[u] = pending[u] /\ answer'[u] = answer[u]
             /\ UNCHANGED cache
  BY <1>1 DEF cacheVars, CacheSound, TypeOK
<1>2. ASSUME NEW c \in Asks, Connector!Ask(t, c)
      PROVE  /\ CacheSound' /\ pending' \in [Threads -> Calls \cup {NoCall}]
             /\ \A u \in Threads \ {t} : pending'[u] = pending[u] /\ answer'[u] = answer[u]
             /\ UNCHANGED cache
  <2>1. UNCHANGED cacheVars \/ Cache!Invoke(t, c)
    BY <1>2, SameCache DEF Connector!Ask, Connector!cacheVars, cacheVars
  <2> QED
    BY <1>0, <1>1, <2>1, InvokeIs
<1>3. CASE Connector!Forward(t)
  <2>1. Cache!Return(t)
    BY <1>3, SameCache DEF Connector!Forward
  <2> QED
    BY <1>0, <2>1, ReturnIs
<1>4. CASE Connector!Catch(t)
  <2>1. Connector!Unwind(t)
    BY <1>4 DEF Connector!Catch
  <2> QED
    BY <1>0, <2>1, UnwindSound DEF TypeOK, CacheSound
<1>5. CASE Connector!GiveBack(t)
  BY <1>1, <1>5 DEF Connector!GiveBack, Connector!cacheVars, cacheVars
<1> QED
  BY <1>2, <1>3, <1>4, <1>5 DEF Connector!Step

LEMMA CallerStepSound ==
    ASSUME HandlersSound, NEW t \in Callers, Connector!Step(t), UNCHANGED handlerVars, Observe
    PROVE  HandlersSound'
<1>1. /\ CacheSound' /\ pending' \in [Threads -> Calls \cup {NoCall}]
      /\ \A u \in Threads \ {t} : pending'[u] = pending[u] /\ answer'[u] = answer[u]
  BY CallerStepIs DEF HandlersSound
<1>2. TypeOK'
  BY <1>1, StepKeepsTypes DEF HandlersSound
<1>3. ASSUME NEW w \in Workers PROVE WorkerSound(w)'
  <2>1. Untouched(w) /\ answer'[w] = answer[w]
    BY <1>1, CallerIsNoWorker DEF Untouched, handlerVars
  <2> QED
    BY <1>1, <2>1, WorkerKeeps DEF HandlersSound, CacheSound
<1> QED
  BY <1>1, <1>2, <1>3 DEF HandlersSound
-----------------------------------------------------------------------------
(***************************************************************************)
(* What handlers answer is true.                                           *)
(***************************************************************************)
LEMMA InitSound == Init => HandlersSound
<1> SUFFICES ASSUME Init PROVE HandlersSound
  OBVIOUS
<1>1. /\ cache = <<>> /\ now = 1
      /\ pending = [t \in Threads |-> NoCall] /\ answer = [t \in Threads |-> NoReply]
      /\ since = [t \in Threads |-> 0]
  BY SameInterface DEF Init, Cache!Init
<1>2. TypeOK
  <2>1. /\ <<>> \in Seq(CacheIds) /\ <<>> \in Seq(KeyValues)
        /\ NoResponse \in Responses /\ "idle" \in Stages
    BY EmptySeq DEF Responses, Stages
  <2> QED
    BY <1>1, <2>1 DEF Init, TypeOK
<1>3. CacheSound
  <2>1. DOMAIN cache = {} /\ IsFiniteSet({})
    BY <1>1, FS_EmptySet
  <2>2. cache \in [DOMAIN cache -> StoredEntries]
    BY <1>1, <2>1
  <2> QED
    BY <1>1, <2>1, <2>2, ReplyTypes DEF CacheSound
<1>4. ASSUME NEW t \in Workers PROVE WorkerSound(t)
  <2>1. stage[t] = "idle" /\ kvs[t] = <<>> /\ witnessed[t] = {} /\ gone[t] = {} /\ IsFiniteSet({})
    BY FS_EmptySet DEF Init
  <2> QED
    BY <2>1 DEF WorkerSound, StageFits, Truthful, Sending, HistoryFits
<1> QED
  BY <1>2, <1>3, <1>4 DEF HandlersSound

LEMMA NextSound ==
    HandlersSound /\ [FrontendsNext]_<<vars, connectorVars>> => HandlersSound'
<1> SUFFICES ASSUME HandlersSound, [FrontendsNext]_<<vars, connectorVars>>
             PROVE  HandlersSound'
  OBVIOUS
<1>1. CASE Next
  <2>1. ASSUME NEW t \in Workers, Handle(t), Observe PROVE HandlersSound'
    BY <2>1, ReceiveStep, RespondStep, SendStep, ScanListedStep, ScanSkipStep, ScanRetrieveStep,
       ScanValueStep, ScanRespondStep DEF Handle
  <2> QED
    BY <1>1, <2>1, CacheStepSound DEF Next
<1>2. ASSUME NEW t \in Callers, Connector!Step(t), UNCHANGED handlerVars, Observe
      PROVE  HandlersSound'
  BY <1>2, CallerStepSound
<1>3. CASE UNCHANGED <<vars, connectorVars>>
  <2>1. UNCHANGED vars
    BY <1>3
  <2>2. /\ UNCHANGED <<cache, now, pending, answer, since>>
        /\ UNCHANGED <<stage, rpc, left, kvs, response, witnessed, gone, steady>>
    BY <2>1 DEF vars, cacheVars, handlerVars, historyVars
  <2>3. TypeOK' /\ CacheSound'
    BY <2>2 DEF HandlersSound, TypeOK, CacheSound
  <2>4. ASSUME NEW t \in Workers PROVE WorkerSound(t)'
    <3>1. WorkerSound(t)
      BY DEF HandlersSound
    <3>2. StageFits(t)'
      BY <2>2, <3>1, FitsKeeps DEF WorkerSound, Untouched
    <3>3. stage[t] \in {"call", "list", "value"} /\ answer[t] # NoReply => Tells(t)'
      BY <2>2, <3>1, TellsKeeps DEF WorkerSound
    <3>4. stage[t] \in {"scan", "value"} \/ Sending(t, {"Scan"}) => Collected(t)'
      BY <2>2, <3>1, CollectedKeeps DEF WorkerSound
    <3>5. Truthful(t)'
      BY <2>2, <3>1, TruthKeeps DEF WorkerSound
    <3> QED
      BY <2>2, <3>1, <3>2, <3>3, <3>4, <3>5 DEF WorkerSound, HistoryFits, Sending
  <2> QED
    BY <2>3, <2>4 DEF HandlersSound
<1> QED
  BY <1>1, <1>2, <1>3 DEF FrontendsNext

(***************************************************************************)
(* The stage of a worker says what its call is, what the cache has told it *)
(* and what its Scan has collected (grpc_service.cpp:35-253).              *)
(***************************************************************************)
THEOREM HandlersAreSound == FrontendsSpec => []HandlersSound
<1>1. FrontendsInit => HandlersSound
  BY InitSound DEF FrontendsInit
<1> QED
  BY <1>1, NextSound, PTL DEF FrontendsSpec

(***************************************************************************)
(* The handlers keep every type, the cache under them too.                 *)
(***************************************************************************)
THEOREM TypeCorrect == FrontendsSpec => []TypeOK
<1>1. HandlersSound => TypeOK
  BY DEF HandlersSound
<1> QED
  BY <1>1, HandlersAreSound, PTL

(***************************************************************************)
(* No response claims what was not so during the request                   *)
(* (grpc_service.cpp:35-253), however the requests of others cross it.     *)
(***************************************************************************)
THEOREM AnswersAreTrue == FrontendsSpec => []AnswersWitnessed
<1>1. HandlersSound => AnswersWitnessed
  BY DEF HandlersSound, WorkerSound, AnswersWitnessed
<1> QED
  BY <1>1, HandlersAreSound, PTL

(***************************************************************************)
(* A Scan answers in order, within its prefix, end key and limit           *)
(* (grpc_service.cpp:121-136).                                             *)
(***************************************************************************)
THEOREM ScansAreOrdered == FrontendsSpec => []ScanInOrder
<1>1. HandlersSound => ScanInOrder
  <2> SUFFICES ASSUME HandlersSound, NEW t \in Workers, Sending(t, {"Scan"})
               PROVE  LET q == rpc[t]
                          s == response[t].kvs
                      IN  /\ \A i, j \in DOMAIN s : i < j => s[i].key < s[j].key
                          /\ \A i \in DOMAIN s : s[i].key \in q.ids /\ s[i].key <= q.end
                          /\ q.limit > 0 => Len(s) <= q.limit
    BY DEF ScanInOrder
  <2>1. Collected(t) /\ left[t] = <<>> /\ response[t].kvs = kvs[t]
    BY DEF HandlersSound, WorkerSound
  <2>2. Len(kvs[t]) \in Nat
    BY LenProperties DEF HandlersSound, TypeOK
  <2>3. rpc[t].limit > 0 => Len(kvs[t]) <= rpc[t].limit
    <3>1. rpc[t].limit > 0 => Len(kvs[t]) + Len(left[t]) <= rpc[t].limit
      BY <2>1 DEF Collected
    <3>2. Len(kvs[t]) + Len(left[t]) = Len(kvs[t])
      BY <2>1, <2>2
    <3> QED
      BY <3>1, <3>2
  <2> QED
    BY <2>1, <2>3 DEF Collected
<1> QED
  BY <1>1, HandlersAreSound, PTL
-----------------------------------------------------------------------------
(***************************************************************************)
(* What a Scan may leave out.                                              *)
(***************************************************************************)
Before(q, W, id) == {p[1] : p \in {w \in W : w[1] \in q.ids /\ w[1] < id}}

LEMMA BeforeFinite ==
    ASSUME NEW W, IsFiniteSet(W), NEW q, NEW id
    PROVE  IsFiniteSet(Before(q, W, id)) /\ Cardinality(Before(q, W, id)) \in Nat
<1> DEFINE V == {w \in W : w[1] \in q.ids /\ w[1] < id}
           f == [p \in V |-> p[1]]
<1>1. IsFiniteSet(V)
  BY FS_Subset
<1>2. f \in Surjection(V, Before(q, W, id))
  BY DEF Surjection, Before
<1>3. IsFiniteSet(Before(q, W, id))
  <2> HIDE DEF V, f
  <2> QED
    BY <1>1, <1>2, FS_Surjection
<1> QED
  BY <1>3, FS_CardinalityType

LEMMA BeforeGrows ==
    ASSUME NEW W, NEW X, IsFiniteSet(X), W \subseteq X, NEW q, NEW id, NEW n \in Int,
           Cardinality(Before(q, W, id)) >= n
    PROVE  Cardinality(Before(q, X, id)) >= n
<1>1. IsFiniteSet(Before(q, X, id)) /\ Cardinality(Before(q, X, id)) \in Nat
  BY BeforeFinite
<1>2. Before(q, W, id) \subseteq Before(q, X, id)
  BY DEF Before
<1>3. /\ Cardinality(Before(q, W, id)) <= Cardinality(Before(q, X, id))
      /\ Cardinality(Before(q, W, id)) \in Nat
  BY <1>1, <1>2, FS_Subset, FS_CardinalityType
<1> QED
  BY <1>1, <1>3

\* The keys of a full list are as many as its length.
LEMMA FullList ==
    ASSUME NEW s \in Seq(CacheIds), Cache!Ascending(s), NEW S, IsFiniteSet(S), Range(s) \subseteq S
    PROVE  Cardinality(S) >= Len(s)
<1>1. Len(s) \in Nat /\ DOMAIN s = 1 .. Len(s) /\ s \in [1 .. Len(s) -> CacheIds]
  BY LenProperties
<1>2. s \in Injection(1 .. Len(s), S)
  <2>1. ASSUME NEW i \in 1 .. Len(s), NEW j \in 1 .. Len(s), s[i] = s[j], i # j
        PROVE  FALSE
    <3>1. s[i] \in Nat /\ s[j] \in Nat
      BY <1>1
    <3>2. i < j \/ j < i
      BY <2>1, <1>1
    <3> QED
      BY <2>1, <3>1, <3>2, <1>1 DEF Cache!Ascending
  <2>2. s \in [1 .. Len(s) -> S]
    BY <1>1 DEF Range
  <2> QED
    BY <2>1, <2>2 DEF Injection, IsInjective
<1>3. Cardinality(1 .. Len(s)) <= Cardinality(S) /\ Cardinality(S) \in Nat
  BY <1>2, FS_Injection, FS_CardinalityType
<1>4. Cardinality(1 .. Len(s)) = Len(s)
  <2>1. Cardinality(1 .. Len(s)) = IF 1 > Len(s) THEN 0 ELSE Len(s) - 1 + 1
    BY <1>1, FS_Interval
  <2> QED
    BY <1>1, <2>1
<1> QED
  BY <1>1, <1>3, <1>4

\* What the history variables do in a step of a worker that is not idle.
LEMMA Grown ==
    ASSUME HandlersSound', Observe, NEW w \in Workers, stage[w] # "idle", stage'[w] # "idle"
    PROVE  /\ steady'[w] \subseteq steady[w]
           /\ stage[w] # "send" => steady'[w] \subseteq Steady(cache')
           /\ witnessed[w] \subseteq witnessed'[w]
           /\ IsFiniteSet(witnessed'[w])
<1>1. IsFiniteSet(witnessed'[w])
  BY DEF HandlersSound, WorkerSound, HistoryFits
<1> QED
  BY <1>1 DEF Observe

\* A key may be passed over when it is beyond the end or not there for ever.
LEMMA MissingKeeps ==
    ASSUME NEW w \in Workers, NEW K, NEW L, NoneMissing(w, K), rpc[w] \in Requests, rpc[w].rpc = "Scan",
           rpc'[w] = rpc[w], steady'[w] \subseteq steady[w],
           witnessed[w] \subseteq witnessed'[w], IsFiniteSet(witnessed'[w]),
           \A id \in K \ L : id \in steady'[w] => id > rpc[w].end
    PROVE  NoneMissing(w, L)'
<1> DEFINE q == rpc[w]
<1>1. q.limit \in Int
  BY RequestKinds DEF KeyRpcs
<1>2. ASSUME NEW id \in (steady'[w] \cap q.ids) \ L
      PROVE  \/ id > q.end
             \/ q.limit > 0 /\ Cardinality(Before(q, witnessed'[w], id)) >= q.limit
  <2>1. CASE id \in K
    BY <1>2, <2>1
  <2>2. CASE id \notin K
    <3>1. \/ id > q.end
          \/ q.limit > 0 /\ Cardinality(Before(q, witnessed[w], id)) >= q.limit
      BY <1>2, <2>2 DEF NoneMissing, Before
    <3> QED
      BY <1>1, <3>1, BeforeGrows
  <2> QED
    BY <2>1, <2>2
<1> QED
  BY <1>2 DEF NoneMissing, Before

\* A Scan whose handler does not move misses nothing if its answer does not.
LEMMA MissesKeep ==
    ASSUME HandlersSound, HandlersSound', Observe, NEW w \in Workers, NothingMissed(w), Untouched(w),
           stage[w] = "list" /\ answer'[w] # NoReply => NoneMissing(w, Range(answer[w].keys))'
                                                        \/ answer'[w] = answer[w],
           stage[w] = "value" /\ answer'[w] = NullOpt => Head(left[w]) \notin steady'[w]
                                                         \/ answer'[w] = answer[w]
    PROVE  NothingMissed(w)'
<1>0. /\ stage'[w] = stage[w] /\ rpc'[w] = rpc[w] /\ left'[w] = left[w] /\ kvs'[w] = kvs[w]
  BY DEF Untouched
<1>1. CASE stage[w] \in {"list", "scan", "value"} \/ Sending(w, {"Scan"})
  <2>1. rpc[w] \in Requests /\ rpc[w].rpc = "Scan" /\ stage[w] # "idle"
    BY <1>1 DEF HandlersSound, WorkerSound, StageFits, Sending
  <2>2. /\ steady'[w] \subseteq steady[w]
        /\ stage[w] # "send" => steady'[w] \subseteq Steady(cache')
        /\ witnessed[w] \subseteq witnessed'[w]
        /\ IsFiniteSet(witnessed'[w])
    BY <1>0, <2>1, Grown
  <2>3. ASSUME stage[w] = "list", answer'[w] # NoReply PROVE NoneMissing(w, Range(answer[w].keys))'
    <3>1. CASE answer'[w] = answer[w]
      <4>1. PICK K : K = Range(answer[w].keys)
        OBVIOUS
      <4>2. NoneMissing(w, K)
        BY <2>3, <3>1, <4>1 DEF NothingMissed
      <4>3. NoneMissing(w, K)'
        BY <1>0, <2>1, <2>2, <4>2, MissingKeeps
      <4> QED
        BY <3>1, <4>1, <4>3 DEF Range
    <3> QED
      BY <2>3, <3>1
  <2>4. ASSUME stage[w] \in {"scan", "value"} \/ Sending(w, {"Scan"})
        PROVE  NoneMissing(w, KeysOf(kvs[w]) \cup Range(left[w]))'
    <3>1. PICK K : K = KeysOf(kvs[w]) \cup Range(left[w])
      OBVIOUS
    <3>2. NoneMissing(w, K)
      BY <2>4, <3>1 DEF NothingMissed
    <3>3. NoneMissing(w, K)'
      BY <1>0, <2>1, <2>2, <3>2, MissingKeeps
    <3> QED
      BY <1>0, <3>1, <3>3 DEF KeysOf, Range
  <2>5. ASSUME stage[w] = "value", answer'[w] = NullOpt PROVE Head(left[w]) \notin steady'[w]
    BY <2>2, <2>5 DEF NothingMissed
  <2> QED
    BY <1>0, <2>2, <2>3, <2>4, <2>5 DEF NothingMissed, Sending
<1>2. CASE ~(stage[w] \in {"list", "scan", "value"} \/ Sending(w, {"Scan"}))
  BY <1>0, <1>2 DEF NothingMissed, Sending
<1> QED
  BY <1>1, <1>2

LEMMA KeysAreNumbers ==
    ASSUME NEW s \in Seq(CacheIds)
    PROVE  /\ DOMAIN s = 1 .. Len(s) /\ Len(s) \in Nat
           /\ \A j \in 1 .. Len(s) : s[j] \in Nat
<1>1. DOMAIN s = 1 .. Len(s) /\ Len(s) \in Nat /\ s \in [1 .. Len(s) -> CacheIds]
  BY LenProperties
<1>2. CacheIds \subseteq Nat
  BY InterfaceAssumption
<1> QED
  BY <1>1, <1>2

\* A list that the cache answers misses none of what is there for ever.
LEMMA ServedListMisses ==
    ASSUME ReadsSucceed, HandlersSound, HandlersSound', Observe, NEW w \in Workers, Cache!PerformList(w),
           UNCHANGED <<handlerVars, now, pending, since>>, stage[w] = "list"
    PROVE  NoneMissing(w, Range(answer[w].keys))'
<1> DEFINE q == rpc[w]
<1>0. /\ TypeOK /\ CacheSound /\ w \in Threads
      /\ stage'[w] = "list" /\ rpc'[w] = q
  BY DEF HandlersSound, handlerVars
<1>1. /\ q \in Requests /\ q.rpc = "Scan" /\ pending[w] = CallOf(q)
  BY DEF HandlersSound, WorkerSound, StageFits
<1>2. pending[w].ids = q.ids /\ pending[w].limit = q.limit
  BY <1>1, CallIs
<1>3. /\ q.ids \in SUBSET CacheIds /\ q.limit \in Int /\ cache' = cache
  BY <1>0, <1>2, ListIs
<1>4. PICK s \in Cache!Listings(q.ids, q.limit, since[w]) : s \in Seq(CacheIds) /\ answer'[w] = Keys(s)
  BY <1>0, <1>2, ListIs
<1>5. /\ Cache!Ascending(s) /\ Range(s) \subseteq q.ids /\ Range(s) \subseteq DOMAIN cache
      /\ \A id \in Cache!GoodIds(q.ids, now) \ Range(s) :
           "iterate" \in Faults \/ (q.limit > 0 /\ Len(s) = q.limit /\ s[q.limit] < id)
  <2> DEFINE ids == q.ids
             limit == q.limit
             from == since[w]
  <2>1. ids \in SUBSET CacheIds /\ limit \in Int /\ s \in Cache!Listings(ids, limit, from)
    BY <1>3, <1>4
  <2>2. CacheSound
    BY <1>0
  <2> HIDE DEF ids, limit, from
  <2>3. /\ Cache!Ascending(s)
        /\ Range(s) \subseteq ids /\ Range(s) \subseteq DOMAIN cache
        /\ \A id \in Cache!GoodIds(ids, now) \ Range(s) :
             "iterate" \in Faults \/ (limit > 0 /\ Len(s) = limit /\ s[limit] < id)
    BY <2>1, <2>2, ListingIs
  <2> QED
    BY <2>3 DEF ids, limit
<1>6. /\ steady'[w] \subseteq Steady(cache) /\ IsFiniteSet(witnessed'[w])
      /\ Pairs(cache) \subseteq witnessed'[w]
  <2>1. steady'[w] \subseteq Steady(cache') /\ IsFiniteSet(witnessed'[w])
    BY <1>0, Grown
  <2>2. Pairs(cache') \subseteq witnessed'[w]
    BY <1>0 DEF Observe
  <2> QED
    BY <1>3, <2>1, <2>2
<1>7. ASSUME NEW id \in (steady'[w] \cap q.ids) \ Range(s)
      PROVE  q.limit > 0 /\ Cardinality(Before(q, witnessed'[w], id)) >= q.limit
  <2>1. id \in Cache!GoodIds(q.ids, now)
    BY <1>6, <1>7 DEF Steady, Cache!GoodIds, Cache!GoodAt
  <2>2. q.limit > 0 /\ Len(s) = q.limit /\ s[q.limit] < id
    BY <1>5, <1>7, <2>1 DEF ReadsSucceed
  <2>3. Range(s) \subseteq Before(q, witnessed'[w], id)
    <3>1. ASSUME NEW x \in Range(s) PROVE x \in Before(q, witnessed'[w], id)
      <4>1. PICK i \in DOMAIN s : s[i] = x
        BY DEF Range
      <4>2. /\ DOMAIN s = 1 .. Len(s) /\ Len(s) \in Nat
            /\ \A j \in 1 .. Len(s) : s[j] \in Nat
        BY <1>4, KeysAreNumbers
      <4>3. id \in Nat
        BY <1>3, <1>7
      <4>4. i = q.limit \/ i < q.limit
        BY <2>2, <4>1, <4>2
      <4>5. x < id
        BY <1>5, <2>2, <4>1, <4>2, <4>3, <4>4 DEF Cache!Ascending
      <4>6. <<x, Cache!Value(cache[x])>> \in witnessed'[w]
        BY <1>5, <1>6, PairSeen
      <4> QED
        BY <1>5, <4>5, <4>6 DEF Before
    <3> QED
      BY <3>1
  <2>4. Cardinality(Before(q, witnessed'[w], id)) >= Len(s)
    BY <1>4, <1>5, <1>6, <2>3, BeforeFinite, FullList
  <2> QED
    BY <2>2, <2>4
<1>8. answer'[w].keys = s
  BY <1>4, ReplyTypes
<1> QED
  BY <1>0, <1>7, <1>8 DEF NoneMissing, Before

\* What the cache does to its entries, or the clock, makes no Scan miss any.
LEMMA CacheStepMisses ==
    ASSUME ReadsSucceed, HandlersSound, HandlersSound', CacheStep, Observe,
           NEW w \in Workers, NothingMissed(w)
    PROVE  NothingMissed(w)'
<1>1. UNCHANGED handlerVars /\ TypeOK /\ CacheSound /\ w \in Threads
  BY DEF CacheStep, HandlersSound
<1>2. ASSUME NEW t \in Threads, Cache!Perform(t)
      PROVE  NothingMissed(w)'
  <2>1. /\ UNCHANGED <<now, pending, since>>
        /\ \A u \in Threads \ {t} : answer'[u] = answer[u]
    BY <1>1, <1>2, PerformSound
  <2>2. Untouched(w)
    BY <1>1, <2>1 DEF Untouched, handlerVars
  <2>3. CASE w # t
    BY <1>1, <2>1, <2>2, <2>3, MissesKeep
  <2>4. CASE w = t /\ stage[w] = "list"
    <3>1. rpc[w] \in Requests /\ rpc[w].rpc = "Scan" /\ pending[w] = CallOf(rpc[w])
      BY <2>4 DEF HandlersSound, WorkerSound, StageFits
    <3>2. pending[w].op = "list"
      BY <3>1, CallIs
    <3>3. Cache!PerformList(w)
      BY <1>2, <2>4, <3>2
         DEF Cache!Perform, Cache!PerformStore, Cache!PerformDelete, Cache!PerformRetrieve, Cache!Waiting
    <3>4. NoneMissing(w, Range(answer[w].keys))'
      BY <1>1, <2>1, <2>4, <3>3, ServedListMisses
    <3> QED
      BY <2>2, <2>4, <3>4, MissesKeep
  <2>5. CASE w = t /\ stage[w] = "value"
    <3>1. pending[w] = [op |-> "retrieve", id |-> Head(left[w])]
      BY <2>5 DEF HandlersSound, WorkerSound, StageFits
    <3>2. Cache!PerformRetrieve(w)
      BY <1>2, <2>5, <3>1
         DEF Cache!Perform, Cache!PerformStore, Cache!PerformDelete, Cache!PerformList, Cache!Waiting
    <3>3. answer'[w] = NullOpt => pending[w].id \notin DOMAIN cache' \/ "read" \in Faults
      BY <1>1, <2>1, <3>2, RetrieveIs, ReplyTypes
    <3>4. steady'[w] \subseteq Steady(cache')
      BY <2>2, <2>5, Grown DEF Untouched
    <3>5. answer'[w] = NullOpt => Head(left[w]) \notin steady'[w]
      BY <3>1, <3>3, <3>4 DEF Steady, ReadsSucceed
    <3> QED
      BY <2>2, <2>5, <3>5, MissesKeep
  <2>6. CASE stage[w] \notin {"list", "value"}
    BY <2>2, <2>6, MissesKeep
  <2> QED
    BY <2>3, <2>4, <2>5, <2>6
<1>3. CASE Cache!Tick
  BY <1>1, <1>3, MissesKeep DEF Cache!Tick, Untouched, handlerVars
<1> QED
  BY <1>2, <1>3 DEF CacheStep

\* What a Scan has to bring still is there after a step of its handler.
LEMMA ScanMisses ==
    ASSUME HandlersSound, HandlersSound', Observe, NEW t \in Workers, stage[t] \in {"list", "scan", "value"},
           stage'[t] \in {"scan", "value", "send"}, rpc'[t] = rpc[t],
           stage'[t] = "value" => answer'[t] # NullOpt,
           NEW K, NoneMissing(t, K),
           \A id \in K \ (KeysOf(kvs'[t]) \cup Range(left'[t])) : id \in steady'[t] => id > rpc[t].end
    PROVE  NothingMissed(t)'
<1>1. rpc[t] \in Requests /\ rpc[t].rpc = "Scan"
  BY DEF HandlersSound, WorkerSound, StageFits
<1>2. /\ steady'[t] \subseteq steady[t] /\ steady'[t] \subseteq Steady(cache')
      /\ witnessed[t] \subseteq witnessed'[t] /\ IsFiniteSet(witnessed'[t])
  BY Grown
<1>3. PICK L : L = KeysOf(kvs'[t]) \cup Range(left'[t])
  OBVIOUS
<1>4. NoneMissing(t, L)'
  BY <1>1, <1>2, <1>3, MissingKeeps
<1>5. NoneMissing(t, KeysOf(kvs[t]) \cup Range(left[t]))'
  BY <1>3, <1>4 DEF KeysOf, Range
<1> QED
  BY <1>2, <1>5 DEF NothingMissed

LEMMA KeysOfAppended ==
    ASSUME NEW s \in Seq(KeyValues), NEW kv \in KeyValues
    PROVE  KeysOf(s) \cup {kv.key} \subseteq KeysOf(Append(s, kv))
<1> DEFINE r == Append(s, kv)
<1>1. /\ r \in Seq(KeyValues) /\ Len(r) = Len(s) + 1
      /\ \A i \in 1 .. Len(s) : r[i] = s[i]
      /\ r[Len(s) + 1] = kv
  BY PairAppended, Zenon
<1>2. DOMAIN s = 1 .. Len(s) /\ Len(s) \in Nat
  BY LenProperties
<1> HIDE DEF r
<1>3. DOMAIN r = 1 .. Len(s) + 1
  BY <1>1, LenProperties
<1>4. ASSUME NEW x \in Range(s) PROVE x \in Range(r)
  <2>1. PICK i \in DOMAIN s : s[i] = x
    BY DEF Range
  <2>2. i \in DOMAIN r /\ r[i] = x
    BY <1>1, <1>2, <1>3, <2>1
  <2> QED
    BY <2>2 DEF Range
<1>5. kv \in Range(r)
  BY <1>1, <1>2, <1>3 DEF Range
<1>6. KeysOf(s) \cup {kv.key} \subseteq KeysOf(r)
  BY <1>4, <1>5 DEF KeysOf
<1> QED
  BY <1>6 DEF r

LEMMA ReceiveMisses ==
    ASSUME HandlersSound, NEW t \in Workers, NEW q \in Requests, Receive(t, q), Observe
    PROVE  NothingMissed(t)'
<1>1. /\ TypeOK /\ CacheSound /\ t \in Threads
      /\ stage[t] = "idle" /\ Cache!Invoke(t, CallOf(q)) /\ rpc'[t] = q
      /\ stage'[t] = IF q.rpc = "Scan" THEN "list" ELSE "call"
  BY DEF HandlersSound, Receive, To, TypeOK
<1>2. CASE q.rpc = "Scan"
  <2>1. CallOf(q) \in Calls /\ ~Rejected(CallOf(q))
    BY <1>2, CallIs DEF Rejected
  <2>2. answer'[t] = NoReply
    BY <1>1, <2>1, InvokeIs
  <2>3. steady'[t] = Steady(cache')
    BY <1>1, <1>2 DEF Observe
  <2> QED
    BY <1>1, <1>2, <2>2, <2>3 DEF NothingMissed, Sending
<1>3. CASE q.rpc # "Scan"
  BY <1>1, <1>3 DEF NothingMissed, Sending
<1> QED
  BY <1>2, <1>3

LEMMA ScanListedMisses ==
    ASSUME HandlersSound, HandlersSound', NEW t \in Workers, ScanListed(t), Observe, NothingMissed(t)
    PROVE  NothingMissed(t)'
<1>1. /\ TypeOK /\ CacheSound /\ t \in Threads
      /\ stage[t] = "list" /\ Cache!Return(t) /\ left'[t] = answer[t].keys
      /\ stage'[t] = "scan" /\ rpc'[t] = rpc[t]
  BY DEF HandlersSound, ScanListed, To, TypeOK
<1>2. answer[t] # NoReply
  BY <1>1, ReturnIs
<1>3. PICK K : K = Range(answer[t].keys)
  OBVIOUS
<1>4. NoneMissing(t, K) /\ K = Range(left'[t])
  BY <1>1, <1>2, <1>3 DEF NothingMissed
<1> QED
  BY <1>1, <1>4, ScanMisses

LEMMA ScanSkipMisses ==
    ASSUME HandlersSound, HandlersSound', NEW t \in Workers, ScanSkip(t), Observe, NothingMissed(t)
    PROVE  NothingMissed(t)'
<1>1. /\ stage[t] = "scan" /\ left[t] # <<>> /\ Head(left[t]) > rpc[t].end
      /\ left'[t] = Tail(left[t]) /\ kvs'[t] = kvs[t]
      /\ stage'[t] = "scan" /\ rpc'[t] = rpc[t]
      /\ left[t] \in Seq(CacheIds) /\ Collected(t)
  BY DEF HandlersSound, WorkerSound, ScanSkip, TypeOK
<1>2. PICK K : K = KeysOf(kvs[t]) \cup Range(left[t])
  OBVIOUS
<1>3. NoneMissing(t, K)
  BY <1>1, <1>2 DEF NothingMissed
<1>4. Range(left[t]) = Range(left'[t]) \cup {Head(left[t])}
  BY <1>1, TailAscends DEF Collected
<1>5. \A id \in K \ (KeysOf(kvs'[t]) \cup Range(left'[t])) : id > rpc[t].end
  BY <1>1, <1>2, <1>4
<1> QED
  BY <1>1, <1>3, <1>5, ScanMisses

LEMMA ScanRetrieveMisses ==
    ASSUME HandlersSound, HandlersSound', NEW t \in Workers, ScanRetrieve(t), Observe, NothingMissed(t)
    PROVE  NothingMissed(t)'
<1> DEFINE c == [op |-> "retrieve", id |-> Head(left[t])]
<1>1. /\ TypeOK /\ CacheSound /\ t \in Threads
      /\ stage[t] = "scan" /\ left[t] # <<>> /\ Cache!Invoke(t, c)
      /\ left'[t] = left[t] /\ kvs'[t] = kvs[t]
      /\ stage'[t] = "value" /\ rpc'[t] = rpc[t]
  BY DEF HandlersSound, ScanRetrieve, To, TypeOK
<1>2. c \in Calls /\ ~Rejected(c)
  <2>1. Head(left[t]) \in CacheIds
    BY <1>1, RestOfKeys DEF TypeOK
  <2> QED
    BY <2>1 DEF Calls, RetrieveCalls, Ids, Rejected, EmptyId
<1> HIDE DEF c
<1>3. answer'[t] # NullOpt
  BY <1>1, <1>2, InvokeIs, ReplyTypes
<1>4. PICK K : K = KeysOf(kvs[t]) \cup Range(left[t])
  OBVIOUS
<1>5. NoneMissing(t, K)
  BY <1>1, <1>4 DEF NothingMissed
<1> QED
  BY <1>1, <1>3, <1>4, <1>5, ScanMisses

LEMMA ScanValueMisses ==
    ASSUME HandlersSound, HandlersSound', NEW t \in Workers, ScanValue(t), Observe, NothingMissed(t)
    PROVE  NothingMissed(t)'
<1> DEFINE key == Head(left[t])
<1>1. /\ TypeOK /\ CacheSound /\ t \in Threads /\ stage[t] = "value" /\ Cache!Return(t)
      /\ left'[t] = Tail(left[t]) /\ stage'[t] = "scan" /\ rpc'[t] = rpc[t]
      /\ left[t] \in Seq(CacheIds) /\ left[t] # <<>> /\ Collected(t)
      /\ pending[t] = [op |-> "retrieve", id |-> key]
  BY DEF HandlersSound, WorkerSound, StageFits, ScanValue, To, TypeOK
<1>2. key \in CacheIds /\ Range(left[t]) = Range(left'[t]) \cup {key}
  BY <1>1, RestOfKeys, TailAscends DEF Collected
<1>3. PICK K : K = KeysOf(kvs[t]) \cup Range(left[t])
  OBVIOUS
<1>4. NoneMissing(t, K)
  BY <1>1, <1>3 DEF NothingMissed
<1>5. CASE answer[t] = NullOpt /\ UNCHANGED kvs
  <2>1. key \notin steady'[t]
    BY <1>1, <1>5, Grown DEF NothingMissed
  <2>2. kvs'[t] = kvs[t]
    BY <1>5
  <2> HIDE DEF key
  <2>3. \A id \in K \ (KeysOf(kvs'[t]) \cup Range(left'[t])) : id = key
    BY <1>2, <1>3, <2>2
  <2> QED
    BY <1>1, <1>4, <2>1, <2>3, ScanMisses
<1>6. ASSUME NEW v \in answer[t].value,
             kvs' = [kvs EXCEPT ![t] = Append(kvs[t], [key |-> key, value |-> v.data])]
      PROVE  NothingMissed(t)'
  <2>1. Tells(t)
    BY <1>1, ReturnIs DEF HandlersSound, WorkerSound
  <2>2. v \in KVCacheData
    BY <1>1, <2>1 DEF Tells
  <2> DEFINE kv == [key |-> key, value |-> v.data]
  <2>3. kv \in KeyValues /\ kv.key = key
    BY <1>2, <2>2 DEF KeyValues, KVCacheData
  <2>4. kvs[t] \in Seq(KeyValues) /\ kvs'[t] = Append(kvs[t], kv)
    BY <1>1, <1>6 DEF TypeOK
  <2> HIDE DEF kv, key
  <2>5. KeysOf(kvs[t]) \cup {key} \subseteq KeysOf(kvs'[t])
    BY <2>3, <2>4, KeysOfAppended
  <2>6. K \subseteq KeysOf(kvs'[t]) \cup Range(left'[t])
    BY <1>2, <1>3, <2>5
  <2> QED
    BY <1>1, <1>4, <2>6, ScanMisses
<1> QED
  BY <1>5, <1>6 DEF ScanValue

LEMMA ScanRespondMisses ==
    ASSUME HandlersSound, HandlersSound', NEW t \in Workers, ScanRespond(t), Observe, NothingMissed(t)
    PROVE  NothingMissed(t)'
<1>1. /\ stage[t] = "scan" /\ left'[t] = left[t] /\ kvs'[t] = kvs[t]
      /\ stage'[t] = "send" /\ rpc'[t] = rpc[t]
  BY DEF HandlersSound, ScanRespond, To, TypeOK
<1>2. PICK K : K = KeysOf(kvs[t]) \cup Range(left[t])
  OBVIOUS
<1>3. NoneMissing(t, K)
  BY <1>1, <1>2 DEF NothingMissed
<1> QED
  BY <1>1, <1>2, <1>3, ScanMisses

\* The handlers that make one call collect nothing.
LEMMA OneCallMisses ==
    ASSUME HandlersSound, NEW t \in Workers, Respond(t) \/ Send(t)
    PROVE  NothingMissed(t)'
<1>1. CASE Respond(t)
  <2>1. stage'[t] = "send" /\ rpc'[t].rpc # "Scan"
    BY <1>1 DEF HandlersSound, WorkerSound, StageFits, Respond, To, TypeOK
  <2> QED
    BY <2>1 DEF NothingMissed, Sending
<1>2. CASE Send(t)
  <2>1. stage'[t] = "idle"
    BY <1>2 DEF HandlersSound, Send, To, TypeOK
  <2> QED
    BY <2>1 DEF NothingMissed, Sending
<1> QED
  BY <1>1, <1>2

\* A step of one handler is nothing to the others.
LEMMA HandleIsLocal ==
    ASSUME HandlersSound, NEW t \in Workers, Handle(t)
    PROVE  \A u \in Workers \ {t} : Untouched(u) /\ answer'[u] = answer[u]
<1>1. TypeOK /\ CacheSound /\ t \in Threads
  BY DEF HandlersSound
<1>2. \A u \in Workers \ {t} : /\ stage'[u] = stage[u] /\ rpc'[u] = rpc[u]
                               /\ left'[u] = left[u] /\ kvs'[u] = kvs[u]
                               /\ response'[u] = response[u]
  BY <1>1 DEF Handle, Receive, Respond, Send, ScanListed, ScanSkip, ScanRetrieve, ScanValue, ScanRespond,
              To, TypeOK
<1>3. \A u \in Threads \ {t} : pending'[u] = pending[u] /\ answer'[u] = answer[u]
  <2>1. \/ \E c : Cache!Invoke(t, c)
        \/ Cache!Return(t)
        \/ UNCHANGED <<pending, answer>>
    BY DEF Handle, Receive, Respond, Send, ScanListed, ScanSkip, ScanRetrieve, ScanValue, ScanRespond,
           cacheVars
  <2> QED
    BY <1>1, <2>1 DEF Cache!Invoke, Cache!Return, TypeOK, CacheSound
<1> QED
  BY <1>1, <1>2, <1>3, OthersUntouched

\* Nothing that a Scan should bring is ever missed.
LEMMA NextMisses ==
    ASSUME ReadsSucceed, HandlersSound, \A w \in Workers : NothingMissed(w),
           [FrontendsNext]_<<vars, connectorVars>>
    PROVE  \A w \in Workers : NothingMissed(w)'
<1>0. HandlersSound'
  BY NextSound
<1>1. ASSUME NEW t \in Workers, Handle(t), Observe PROVE \A w \in Workers : NothingMissed(w)'
  <2>1. NothingMissed(t)'
    BY <1>0, <1>1, ReceiveMisses, OneCallMisses, ScanListedMisses, ScanSkipMisses, ScanRetrieveMisses,
       ScanValueMisses, ScanRespondMisses DEF Handle
  <2>2. \A w \in Workers \ {t} : NothingMissed(w)'
    BY <1>0, <1>1, HandleIsLocal, MissesKeep
  <2> QED
    BY <2>1, <2>2
<1>2. CASE CacheStep /\ Observe
  BY <1>0, <1>2, CacheStepMisses
<1>3. ASSUME NEW t \in Callers, Connector!Step(t), UNCHANGED handlerVars, Observe, NEW w \in Workers
      PROVE  NothingMissed(w)'
  <2>1. \A u \in Threads \ {t} : pending'[u] = pending[u] /\ answer'[u] = answer[u]
    BY <1>3, CallerStepIs DEF HandlersSound
  <2>2. Untouched(w) /\ answer'[w] = answer[w]
    BY <1>3, <2>1, CallerIsNoWorker DEF Untouched, handlerVars
  <2> QED
    BY <1>0, <1>3, <2>2, MissesKeep
<1>4. ASSUME UNCHANGED <<vars, connectorVars>>, NEW w \in Workers
      PROVE  NothingMissed(w)'
  <2>1. UNCHANGED vars
    BY <1>4
  <2>2. /\ UNCHANGED <<cache, now, pending, answer, since>>
        /\ UNCHANGED <<stage, rpc, left, kvs, response, witnessed, gone, steady>>
    BY <2>1 DEF vars, cacheVars, handlerVars, historyVars
  <2>3. NothingMissed(w)
    OBVIOUS
  <2>4. ASSUME NEW K, NoneMissing(w, K) PROVE NoneMissing(w, K)'
    <3> DEFINE Leaves(q, W, S) ==
                 \A id \in (S \cap q.ids) \ K :
                   id > q.end \/ (q.limit > 0 /\ Cardinality(Before(q, W, id)) >= q.limit)
    <3>1. Leaves(rpc[w], witnessed[w], steady[w])
      BY <2>4 DEF NoneMissing, Before
    <3>2. Leaves(rpc'[w], witnessed'[w], steady'[w])
      BY <2>2, <3>1
    <3> QED
      BY <3>2 DEF NoneMissing, Before
  <2>5. steady[w] \subseteq Steady(cache) => steady'[w] \subseteq Steady(cache')
    BY <2>2
  <2>6. PICK K, L : K = Range(answer[w].keys) /\ L = KeysOf(kvs[w]) \cup Range(left[w])
    OBVIOUS
  <2>7. K = Range(answer'[w].keys) /\ L = KeysOf(kvs'[w]) \cup Range(left'[w])
    BY <2>2, <2>6
  <2>8. stage[w] = "list" /\ answer[w] # NoReply => NoneMissing(w, K)'
    BY <2>3, <2>4, <2>6 DEF NothingMissed
  <2>9. stage[w] \in {"scan", "value"} \/ Sending(w, {"Scan"}) => NoneMissing(w, L)'
    BY <2>3, <2>4, <2>6 DEF NothingMissed
  <2>10. NoneMissing(w, K)' => NoneMissing(w, Range(answer[w].keys))'
    BY <2>7
  <2>11. NoneMissing(w, L)' => NoneMissing(w, KeysOf(kvs[w]) \cup Range(left[w]))'
    BY <2>7
  <2> QED
    BY <2>2, <2>3, <2>5, <2>8, <2>9, <2>10, <2>11 DEF NothingMissed, Sending
<1> QED
  BY <1>1, <1>2, <1>3, <1>4 DEF FrontendsNext, Next

(***************************************************************************)
(* What the handlers keep at every step of theirs, of the cache and of the *)
(* connector's callers (grpc_service.cpp:35-253); of what a Scan has to    *)
(* bring, if reads succeed.                                                *)
(***************************************************************************)
THEOREM HandlersInvHolds == FrontendsSpec => []HandlersInv
<1>1. FrontendsInit => HandlersInv
  <2> SUFFICES ASSUME FrontendsInit PROVE HandlersInv
    OBVIOUS
  <2>1. HandlersSound
    BY InitSound DEF FrontendsInit
  <2>2. \A w \in Workers : stage[w] = "idle"
    BY DEF FrontendsInit, Init
  <2> QED
    BY <2>1, <2>2 DEF HandlersInv, NothingMissed, Sending
<1>2. HandlersInv /\ [FrontendsNext]_<<vars, connectorVars>> => HandlersInv'
  <2> SUFFICES ASSUME HandlersInv, [FrontendsNext]_<<vars, connectorVars>> PROVE HandlersInv'
    OBVIOUS
  <2>1. HandlersSound'
    BY NextSound DEF HandlersInv
  <2>2. ReadsSucceed => \A w \in Workers : NothingMissed(w)'
    BY NextMisses DEF HandlersInv
  <2> QED
    BY <2>1, <2>2 DEF HandlersInv, ReadsSucceed
<1> QED
  BY <1>1, <1>2, PTL DEF FrontendsSpec

(***************************************************************************)
(* While reads succeed, a Scan leaves out no key that was there all the    *)
(* time but those that its end key or its limit leaves out                 *)
(* (grpc_service.cpp:121-136).                                             *)
(***************************************************************************)
THEOREM ScansMissNothing ==
    ASSUME ReadsSucceed
    PROVE  FrontendsSpec => []ScanComplete
<1>1. HandlersInv => ScanComplete
  <2> SUFFICES ASSUME HandlersInv, NEW t \in Workers, Sending(t, {"Scan"})
               PROVE  NoneMissing(t, KeysOf(response[t].kvs))
    BY DEF ScanComplete
  <2>1. left[t] = <<>> /\ response[t].kvs = kvs[t]
    BY DEF HandlersInv, HandlersSound, WorkerSound
  <2>2. NoneMissing(t, KeysOf(kvs[t]) \cup Range(left[t]))
    BY DEF HandlersInv, NothingMissed
  <2>3. Range(left[t]) = {}
    BY <2>1 DEF Range
  <2>4. KeysOf(kvs[t]) \cup Range(left[t]) = KeysOf(response[t].kvs)
    BY <2>1, <2>3
  <2> QED
    BY <2>2, <2>4
<1> QED
  BY <1>1, HandlersInvHolds, PTL
-----------------------------------------------------------------------------
(***************************************************************************)
(* The connector's callers, step by step.                                  *)
(***************************************************************************)
CallerFits(t) ==
    /\ IF asked[t] # NoCall /\ given[t] = NoReply
       THEN pending[t] = asked[t] /\ since[t] = called[t]
       ELSE pending[t] = NoCall /\ answer[t] = NoReply /\ since[t] = 0
    /\ asked[t] = NoCall => given[t] = NoReply /\ called[t] = 0

\* A caller of whom nothing changes, and whom the cache answers no more than
\* it waits for.
LEMMA CallerKeeps ==
    ASSUME NEW t \in Callers, CallerFits(t), asked'[t] = asked[t], given'[t] = given[t],
           called'[t] = called[t], pending'[t] = pending[t], since'[t] = since[t],
           pending[t] = NoCall => answer'[t] = answer[t], NoCall \notin Calls,
           asked[t] \in Calls \cup {NoCall}
    PROVE  CallerFits(t)'
BY DEF CallerFits

\* A step of one caller is nothing to the other callers.
LEMMA OneCaller ==
    ASSUME CallersInv, NEW t \in Callers, NEW a \in Calls \cup {NoCall}, NEW g \in Replies, NEW n \in Nat,
           asked' = [asked EXCEPT ![t] = a], given' = [given EXCEPT ![t] = g],
           called' = [called EXCEPT ![t] = n],
           \A u \in Threads \ {t} : /\ pending'[u] = pending[u] /\ answer'[u] = answer[u]
                                    /\ since'[u] = since[u],
           CallerFits(t)'
    PROVE  CallersInv'
<1>1. /\ asked' \in [Callers -> Calls \cup {NoCall}]
      /\ given' \in [Callers -> Replies]
      /\ called' \in [Callers -> Nat]
  BY DEF CallersInv
<1>2. ASSUME NEW u \in Callers \ {t} PROVE CallerFits(u)'
  <2>1. /\ asked'[u] = asked[u] /\ given'[u] = given[u] /\ called'[u] = called[u]
        /\ u \in Threads \ {t}
    BY CallerIsNoWorker DEF CallersInv
  <2>2. CallerFits(u) /\ asked[u] \in Calls \cup {NoCall}
    BY DEF CallersInv, CallerFits
  <2> QED
    BY <2>1, <2>2, CallerKeeps, NotACall
<1> QED
  BY <1>1, <1>2 DEF CallersInv, CallerFits

\* The state of the connector and of the cache under it.
Between == HandlersSound /\ CallersInv

LEMMA CallerIs ==
    ASSUME Between, NEW t \in Callers
    PROVE  /\ t \in Threads /\ TypeOK /\ CacheSound /\ CallerFits(t)
           /\ asked[t] \in Calls \cup {NoCall} /\ given[t] \in Replies /\ called[t] \in Nat
           /\ asked \in [Callers -> Calls \cup {NoCall}]
           /\ given \in [Callers -> Replies]
           /\ called \in [Callers -> Nat]
           /\ pending \in [Threads -> Calls \cup {NoCall}]
           /\ answer \in [Threads -> Replies] /\ since \in [Threads -> Nat]
           /\ now \in Nat
BY CallerIsNoWorker DEF Between, HandlersSound, TypeOK, CacheSound, CallersInv, CallerFits

LEMMA AskFits ==
    ASSUME Between, NEW t \in Callers, NEW c \in Asks, Connector!Ask(t, c)
    PROVE  CallersInv'
<1>1. /\ asked[t] = NoCall /\ c \in Calls /\ c # NoCall
      /\ asked' = [asked EXCEPT ![t] = c] /\ called' = [called EXCEPT ![t] = now]
  BY SameCache, CallerIsNoWorker, NotACall DEF Connector!Ask
<1>2. /\ given[t] = NoReply /\ pending[t] = NoCall /\ answer[t] = NoReply /\ since[t] = 0
  BY <1>1, CallerIs DEF CallerFits
<1>3. CASE Rejected(c) /\ given' = [given EXCEPT ![t] = Failure(c)] /\ UNCHANGED cacheVars
  <2>1. Failure(c) \in Replies /\ Failure(c) # NoReply
    BY <1>1, FailureType
  <2>2. CallerFits(t)'
    BY <1>1, <1>2, <1>3, <2>1, CallerIs DEF CallerFits, cacheVars
  <2>3. UNCHANGED <<pending, answer, since>>
    BY <1>3 DEF cacheVars
  <2> QED
    BY <1>1, <1>3, <2>1, <2>2, <2>3, CallerIs, OneCaller DEF Between
<1>4. CASE ~Rejected(c) /\ Cache!Invoke(t, c) /\ UNCHANGED given
  <2>1. /\ pending' = [pending EXCEPT ![t] = c] /\ since' = [since EXCEPT ![t] = now]
        /\ answer' = [answer EXCEPT ![t] = NoReply]
    BY <1>4, SameInterface DEF Cache!Invoke
  <2>2. CallerFits(t)'
    BY <1>1, <1>2, <1>4, <2>1, CallerIs DEF CallerFits
  <2>3. given' = [given EXCEPT ![t] = given[t]]
    BY <1>4, CallerIs
  <2> QED
    BY <1>1, <2>1, <2>2, <2>3, CallerIs, OneCaller DEF Between
<1> QED
  BY <1>3, <1>4, SameCache DEF Connector!Ask, Connector!Give, Connector!cacheVars, cacheVars

LEMMA ForwardFits ==
    ASSUME Between, NEW t \in Callers, Connector!Forward(t)
    PROVE  /\ CallersInv'
           /\ asked[t] # NoCall /\ given[t] = NoReply /\ answer[t] # NoReply
<1>1. /\ Cache!Return(t) /\ given' = [given EXCEPT ![t] = answer[t]]
      /\ UNCHANGED <<asked, called>>
  BY SameCache DEF Connector!Forward, Connector!Give
<1>2. /\ answer[t] # NoReply
      /\ pending' = [pending EXCEPT ![t] = NoCall]
      /\ answer' = [answer EXCEPT ![t] = NoReply]
      /\ since' = [since EXCEPT ![t] = 0]
  BY <1>1, SameInterface DEF Cache!Return
<1>3. asked[t] # NoCall /\ given[t] = NoReply
  BY <1>2, CallerIs DEF CallerFits
<1>4. asked' = [asked EXCEPT ![t] = asked[t]] /\ called' = [called EXCEPT ![t] = called[t]]
  BY <1>1, CallerIs
<1>5. CallerFits(t)'
  BY <1>1, <1>2, <1>3, <1>4, CallerIs DEF CallerFits
<1>6. CallersInv'
  <2>1. asked[t] \in Calls \cup {NoCall} /\ called[t] \in Nat /\ answer[t] \in Replies /\ CallersInv
    BY CallerIs DEF Between
  <2>2. \A u \in Threads \ {t} : /\ pending'[u] = pending[u] /\ answer'[u] = answer[u]
                                /\ since'[u] = since[u]
    BY <1>2, CallerIs
  <2> QED
    BY <1>1, <1>4, <1>5, <2>1, <2>2, OneCaller
<1> QED
  BY <1>2, <1>3, <1>6

LEMMA CatchFits ==
    ASSUME Between, NEW t \in Callers, Connector!Catch(t)
    PROVE  /\ CallersInv'
           /\ asked[t] \in Calls /\ given[t] = NoReply /\ answer[t] = NoReply
           /\ given' = [given EXCEPT ![t] = Connector!Caught(asked[t])]
           /\ Connector!Caught(asked[t]) \in Replies
           /\ Connector!Caught(asked[t]) # NoReply
<1>1. /\ Throws /\ Connector!Unwind(t)
      /\ given' = [given EXCEPT ![t] = Connector!Caught(asked[t])]
      /\ UNCHANGED <<asked, called>>
  BY DEF Connector!Catch, Connector!Give
<1>2. /\ pending[t] # NoCall /\ answer[t] = NoReply
      /\ pending' = [pending EXCEPT ![t] = NoCall] /\ since' = [since EXCEPT ![t] = 0]
      /\ UNCHANGED answer
  BY <1>1, CallerIs, UnwindSound
<1>3. asked[t] # NoCall /\ asked[t] \in Calls /\ given[t] = NoReply
  BY <1>2, CallerIs DEF CallerFits
<1>4. Connector!Caught(asked[t]) \in Replies /\ Connector!Caught(asked[t]) # NoReply
  <2>1. Connector!Caught(asked[t]) = IF asked[t].op = "list" THEN Keys(<<>>) ELSE Failure(asked[t])
    BY SameCache DEF Connector!Caught, Connector!Keys, Keys
  <2>2. <<>> \in Seq(CacheIds)
    BY EmptySeq
  <2>3. Keys(<<>>) \in Replies /\ Keys(<<>>) # NoReply
    BY <2>2, ReplyTypes
  <2>4. Failure(asked[t]) \in Replies /\ Failure(asked[t]) # NoReply
    BY <1>3, FailureType
  <2> QED
    BY <2>1, <2>3, <2>4
<1>5. asked' = [asked EXCEPT ![t] = asked[t]] /\ called' = [called EXCEPT ![t] = called[t]]
  BY <1>1, CallerIs
<1>6. CallerFits(t)'
  BY <1>1, <1>2, <1>3, <1>4, <1>5, CallerIs DEF CallerFits
<1>7. CallersInv'
  <2>1. asked[t] \in Calls \cup {NoCall} /\ called[t] \in Nat /\ CallersInv
    BY CallerIs DEF Between
  <2>2. \A u \in Threads \ {t} : /\ pending'[u] = pending[u] /\ answer'[u] = answer[u]
                                /\ since'[u] = since[u]
    BY <1>2, CallerIs
  <2>3. PICK r \in Replies : given' = [given EXCEPT ![t] = r]
    BY <1>1, <1>4
  <2> QED
    BY <1>5, <1>6, <2>1, <2>2, <2>3, OneCaller
<1> QED
  BY <1>1, <1>2, <1>3, <1>4, <1>7

LEMMA GiveBackFits ==
    ASSUME Between, NEW t \in Callers, Connector!GiveBack(t)
    PROVE  /\ CallersInv' /\ given[t] # NoReply /\ asked[t] # NoCall
           /\ pending[t] = NoCall /\ answer[t] = NoReply /\ since[t] = 0
<1>1. /\ given[t] # NoReply
      /\ asked' = [asked EXCEPT ![t] = NoCall] /\ given' = [given EXCEPT ![t] = NoReply]
      /\ called' = [called EXCEPT ![t] = 0]
      /\ UNCHANGED <<pending, answer, since>>
  BY SameCache DEF Connector!GiveBack, Connector!cacheVars
<1>2. asked[t] # NoCall /\ pending[t] = NoCall /\ answer[t] = NoReply /\ since[t] = 0
  BY <1>1, CallerIs DEF CallerFits
<1>3. CallerFits(t)'
  BY <1>1, <1>2, CallerIs DEF CallerFits
<1> QED
  BY <1>1, <1>2, <1>3, CallerIs, OneCaller, ReplyTypes DEF Between

\* What a handler does to the cache.
LEMMA HandleIs ==
    ASSUME HandlersSound, NEW t \in Workers, Handle(t)
    PROVE  \/ \E c \in Calls : Cache!Invoke(t, c)
           \/ Cache!Return(t)
           \/ UNCHANGED cacheVars
<1>1. ASSUME NEW q \in Requests, Receive(t, q) PROVE \E c \in Calls : Cache!Invoke(t, c)
  BY <1>1, CallIs DEF Receive
<1>2. ASSUME ScanRetrieve(t) PROVE \E c \in Calls : Cache!Invoke(t, c)
  <2> DEFINE c == [op |-> "retrieve", id |-> Head(left[t])]
  <2>1. Head(left[t]) \in CacheIds
    BY <1>2, RestOfKeys DEF ScanRetrieve, HandlersSound, TypeOK
  <2>2. c \in Calls
    BY <2>1 DEF Calls, RetrieveCalls, Ids
  <2> QED
    BY <1>2, <2>2 DEF ScanRetrieve
<1>3. ASSUME Respond(t) \/ ScanListed(t) \/ ScanValue(t) PROVE Cache!Return(t)
  BY <1>3 DEF Respond, ScanListed, ScanValue
<1>4. ASSUME Send(t) \/ ScanSkip(t) \/ ScanRespond(t) PROVE UNCHANGED cacheVars
  BY <1>4 DEF Send, ScanSkip, ScanRespond
<1> QED
  BY <1>1, <1>2, <1>3, <1>4 DEF Handle

\* A call or a return is one thread's.
LEMMA OneThread ==
    ASSUME NEW t \in Threads, TypeOK, CacheSound,
           (\E c \in Calls : Cache!Invoke(t, c)) \/ Cache!Return(t) \/ UNCHANGED cacheVars
    PROVE  \A u \in Threads \ {t} : /\ pending'[u] = pending[u] /\ answer'[u] = answer[u]
                                    /\ since'[u] = since[u]
BY DEF Cache!Invoke, Cache!Return, cacheVars, TypeOK, CacheSound

LEMMA CallersKeep ==
    ASSUME CallersInv, UNCHANGED connectorVars,
           \A t \in Callers : /\ pending'[t] = pending[t] /\ since'[t] = since[t]
                              /\ pending[t] = NoCall => answer'[t] = answer[t]
    PROVE  CallersInv'
<1>1. UNCHANGED <<asked, given, called>>
  BY DEF connectorVars
<1>2. ASSUME NEW t \in Callers PROVE CallerFits(t)'
  <2>1. CallerFits(t) /\ asked[t] \in Calls \cup {NoCall}
    BY DEF CallersInv, CallerFits
  <2> QED
    BY <1>1, <2>1, CallerKeeps, NotACall
<1> QED
  BY <1>1, <1>2 DEF CallersInv, CallerFits

LEMMA HandleFits ==
    ASSUME Between, NEW t \in Workers, Handle(t), UNCHANGED connectorVars
    PROVE  CallersInv'
<1>1. t \in Threads /\ TypeOK /\ CacheSound /\ HandlersSound /\ CallersInv
  BY DEF Between, HandlersSound
<1>2. \A u \in Threads \ {t} : /\ pending'[u] = pending[u] /\ answer'[u] = answer[u]
                               /\ since'[u] = since[u]
  BY <1>1, HandleIs, OneThread
<1> QED
  BY <1>1, <1>2, CallerIsNoWorker, CallersKeep

LEMMA CacheStepFits ==
    ASSUME Between, CacheStep, UNCHANGED connectorVars
    PROVE  CallersInv'
<1>1. TypeOK /\ CacheSound /\ CallersInv
  BY DEF Between, HandlersSound
<1>2. ASSUME NEW t \in Threads, Cache!Perform(t) PROVE CallersInv'
  <2>1. /\ UNCHANGED <<now, pending, since>>
        /\ \A u \in Threads \ {t} : answer'[u] = answer[u]
    BY <1>1, <1>2, PerformSound
  <2>2. pending[t] # NoCall
    BY <1>2, NotACall
       DEF Cache!Perform, Cache!PerformStore, Cache!PerformDelete, Cache!PerformRetrieve, Cache!PerformList,
           Cache!Waiting
  <2>3. \A u \in Callers : pending[u] = NoCall => answer'[u] = answer[u]
    BY <2>1, <2>2, CallerIsNoWorker
  <2> QED
    BY <1>1, <2>1, <2>3, CallersKeep
<1>3. CASE Cache!Tick
  BY <1>1, <1>3, CallersKeep DEF Cache!Tick
<1> QED
  BY <1>2, <1>3 DEF CacheStep

LEMMA InitFits == FrontendsInit => CallersInv
<1> SUFFICES ASSUME FrontendsInit PROVE CallersInv
  OBVIOUS
<1>1. /\ pending = [t \in Threads |-> NoCall] /\ answer = [t \in Threads |-> NoReply]
      /\ since = [t \in Threads |-> 0]
  BY SameInterface DEF FrontendsInit, Init, Cache!Init
<1>2. /\ asked = [t \in Callers |-> NoCall] /\ given = [t \in Callers |-> NoReply]
      /\ called = [t \in Callers |-> 0]
  BY SameCache DEF FrontendsInit, Connector!ConnectorInit
<1> QED
  BY <1>1, <1>2, CallerIsNoWorker, ReplyTypes DEF CallersInv

LEMMA NextFits ==
    Between /\ [FrontendsNext]_<<vars, connectorVars>> => Between'
<1> SUFFICES ASSUME Between, [FrontendsNext]_<<vars, connectorVars>> PROVE Between'
  OBVIOUS
<1>0. HandlersSound'
  BY NextSound DEF Between
<1>1. CASE Next /\ UNCHANGED connectorVars
  BY <1>0, <1>1, HandleFits, CacheStepFits DEF Next, Between
<1>2. ASSUME NEW t \in Callers, Connector!Step(t) PROVE Between'
  BY <1>0, <1>2, AskFits, ForwardFits, CatchFits, GiveBackFits DEF Connector!Step, Between
<1>3. CASE UNCHANGED <<vars, connectorVars>>
  <2>1. UNCHANGED vars /\ UNCHANGED connectorVars
    BY <1>3
  <2>2. UNCHANGED <<pending, answer, since>>
    BY <2>1 DEF vars, cacheVars
  <2> QED
    BY <1>0, <2>1, <2>2, CallersKeep DEF Between
<1> QED
  BY <1>1, <1>2, <1>3 DEF FrontendsNext

(***************************************************************************)
(* Handlers and callers in any order: the invariant of both                *)
(* (grpc_service.cpp:35-253, vllm_connector.cpp:30-113).                   *)
(***************************************************************************)
THEOREM FrontendsInvHolds == FrontendsSpec => []FrontendsInv
<1>1. FrontendsInit => Between
  BY InitSound, InitFits DEF FrontendsInit, Between
<1>2. FrontendsSpec => []Between
  BY <1>1, NextFits, PTL DEF FrontendsSpec
<1>3. HandlersInv /\ Between => FrontendsInv
  BY DEF Between, FrontendsInv
<1> QED
  BY <1>2, <1>3, HandlersInvHolds, PTL
-----------------------------------------------------------------------------
(***************************************************************************)
(* The connector implements the cache that its callers see.                *)
(***************************************************************************)
SeenPending == [t \in Threads |-> IF t \in Callers THEN asked[t] ELSE pending[t]]
SeenAnswer  == [t \in Threads |-> IF t \in Callers /\ given[t] # Connector!NoReply
                                  THEN given[t] ELSE answer[t]]
SeenSince   == [t \in Threads |-> IF t \in Callers THEN called[t] ELSE since[t]]
SeenFaults  == IF Throws THEN {"write", "read", "iterate"} ELSE Faults

LEMMA SeenConstants ==
    /\ Connector!Seen!NoReply = NoReply /\ Connector!Seen!NoCall = NoCall
    /\ Connector!Seen!NullOpt = NullOpt
    /\ \A c : Connector!Seen!Rejected(c) <=> Rejected(c)
    /\ \A c : Connector!Seen!Failure(c) = Failure(c)
    /\ \A b : Connector!Seen!Status(b) = Status(b)
    /\ \A v : Connector!Seen!Found(v) = Found(v)
    /\ \A s : Connector!Seen!Keys(s) = Keys(s)
    /\ \A f, id, v : Connector!Seen!Bind(f, id, v) = Bind(f, id, v)
    /\ \A f, S : Connector!Seen!Restrict(f, S) = Restrict(f, S)
    /\ \A f : Connector!Seen!Range(f) = Range(f)
    /\ \A S : Connector!Seen!Cardinality(S) = Cardinality(S)
    /\ Connector!Seen!Calls = Calls
<1>1. /\ Connector!Seen!NoReply = NoReply /\ Connector!Seen!NoCall = NoCall
      /\ Connector!Seen!NullOpt = NullOpt
      /\ \A b : Connector!Seen!Status(b) = Status(b)
      /\ \A v : Connector!Seen!Found(v) = Found(v)
      /\ \A s : Connector!Seen!Keys(s) = Keys(s)
  BY DEF Connector!Seen!NoReply, NoReply, Connector!Seen!NoCall, NoCall, Connector!Seen!NullOpt, NullOpt,
         Connector!Seen!Status, Status, Connector!Seen!Found, Found, Connector!Seen!Keys, Keys
<1>2. /\ \A c : Connector!Seen!Rejected(c) <=> Rejected(c)
      /\ \A c : Connector!Seen!Failure(c) = Failure(c)
  BY <1>1 DEF Connector!Seen!Rejected, Rejected, Connector!Seen!Failure, Failure,
              Connector!Seen!EmptyId, EmptyId
<1>3. /\ \A f, id, v : Connector!Seen!Bind(f, id, v) = Bind(f, id, v)
      /\ \A f, S : Connector!Seen!Restrict(f, S) = Restrict(f, S)
      /\ \A f : Connector!Seen!Range(f) = Range(f)
      /\ \A S : Connector!Seen!Cardinality(S) = Cardinality(S)
  BY DEF Connector!Seen!Bind, Bind, Connector!Seen!Restrict, Restrict, Connector!Seen!Range, Range,
         Connector!Seen!Cardinality, Cardinality
<1>4. Connector!Seen!Calls = Calls
  BY DEF Connector!Seen!Calls, Calls, Connector!Seen!StoreCalls, StoreCalls,
         Connector!Seen!RetrieveCalls, RetrieveCalls, Connector!Seen!DeleteCalls, DeleteCalls,
         Connector!Seen!ListCalls, ListCalls, Connector!Seen!Ids, Ids, Connector!Seen!EmptyId, EmptyId
<1> QED
  BY <1>1, <1>2, <1>3, <1>4

LEMMA SeenInit ==
    Connector!Seen!Init <=> /\ cache = <<>> /\ durable = <<>> /\ now = 1 /\ crashes = 0
                            /\ SeenPending = [t \in Threads |-> NoCall]
                            /\ SeenAnswer = [t \in Threads |-> NoReply]
                            /\ SeenSince = [t \in Threads |-> 0]
  BY SeenConstants DEF Connector!Seen!Init, SeenPending, SeenAnswer, SeenSince

LEMMA SeenInvoke ==
    ASSUME NEW t, NEW c, SeenPending[t] = NoCall,
           SeenPending' = [SeenPending EXCEPT ![t] = c],
           SeenSince' = [SeenSince EXCEPT ![t] = now],
           SeenAnswer' = [SeenAnswer EXCEPT ![t] = IF Rejected(c) THEN Failure(c) ELSE NoReply],
           UNCHANGED <<cache, durable, now, crashes>>
    PROVE  Connector!Seen!Invoke(t, c)
  BY SeenConstants DEF Connector!Seen!Invoke, SeenPending, SeenAnswer, SeenSince

LEMMA SeenReturn ==
    ASSUME NEW t, SeenAnswer[t] # NoReply,
           SeenPending' = [SeenPending EXCEPT ![t] = NoCall],
           SeenAnswer' = [SeenAnswer EXCEPT ![t] = NoReply],
           SeenSince' = [SeenSince EXCEPT ![t] = 0],
           UNCHANGED <<cache, durable, now, crashes>>
    PROVE  Connector!Seen!Return(t)
  BY SeenConstants DEF Connector!Seen!Return, SeenPending, SeenAnswer, SeenSince

LEMMA SeenTick ==
    ASSUME Cache!Tick, UNCHANGED <<SeenPending, SeenAnswer, SeenSince>>
    PROVE  Connector!Seen!Tick
  BY DEF Cache!Tick, Connector!Seen!Tick, SeenPending, SeenAnswer, SeenSince

LEMMA OneChange ==
    ASSUME NEW t \in Threads, NEW f, NEW g, f = [u \in Threads |-> f[u]], g = [u \in Threads |-> g[u]],
           \A u \in Threads \ {t} : g[u] = f[u]
    PROVE  g = [f EXCEPT ![t] = g[t]]
  OBVIOUS

\* What changes of one thread changes what is seen of that thread.
LEMMA SeenChange ==
    ASSUME NEW t \in Threads,
           \A u \in Threads \ {t} : /\ SeenPending'[u] = SeenPending[u]
                                    /\ SeenAnswer'[u] = SeenAnswer[u]
                                    /\ SeenSince'[u] = SeenSince[u]
    PROVE  /\ SeenPending' = [SeenPending EXCEPT ![t] = SeenPending'[t]]
           /\ SeenAnswer' = [SeenAnswer EXCEPT ![t] = SeenAnswer'[t]]
           /\ SeenSince' = [SeenSince EXCEPT ![t] = SeenSince'[t]]
<1>1. /\ SeenPending = [u \in Threads |-> SeenPending[u]]
      /\ SeenPending' = [u \in Threads |-> SeenPending'[u]]
  BY DEF SeenPending
<1>2. /\ SeenAnswer = [u \in Threads |-> SeenAnswer[u]]
      /\ SeenAnswer' = [u \in Threads |-> SeenAnswer'[u]]
  BY DEF SeenAnswer
<1>3. /\ SeenSince = [u \in Threads |-> SeenSince[u]]
      /\ SeenSince' = [u \in Threads |-> SeenSince'[u]]
  BY DEF SeenSince
<1>4. SeenPending' = [SeenPending EXCEPT ![t] = SeenPending'[t]]
  BY <1>1, OneChange
<1>5. SeenAnswer' = [SeenAnswer EXCEPT ![t] = SeenAnswer'[t]]
  BY <1>2, OneChange
<1>6. SeenSince' = [SeenSince EXCEPT ![t] = SeenSince'[t]]
  BY <1>3, OneChange
<1> QED
  BY <1>4, <1>5, <1>6

LEMMA SeenOf ==
    ASSUME NEW t \in Threads
    PROVE  /\ t \in Callers => /\ SeenPending[t] = asked[t] /\ SeenSince[t] = called[t]
                               /\ given[t] # NoReply => SeenAnswer[t] = given[t]
                               /\ given[t] = NoReply => SeenAnswer[t] = answer[t]
           /\ t \notin Callers => /\ SeenPending[t] = pending[t] /\ SeenSince[t] = since[t]
                                  /\ SeenAnswer[t] = answer[t]
  BY SameCache DEF SeenPending, SeenAnswer, SeenSince

LEMMA SeenOfNext ==
    ASSUME NEW t \in Threads
    PROVE  /\ t \in Callers => /\ SeenPending'[t] = asked'[t] /\ SeenSince'[t] = called'[t]
                               /\ given'[t] # NoReply => SeenAnswer'[t] = given'[t]
                               /\ given'[t] = NoReply => SeenAnswer'[t] = answer'[t]
           /\ t \notin Callers => /\ SeenPending'[t] = pending'[t] /\ SeenSince'[t] = since'[t]
                                  /\ SeenAnswer'[t] = answer'[t]
  BY SameCache DEF SeenPending, SeenAnswer, SeenSince

LEMMA SeenLocal ==
    ASSUME NEW t \in Threads,
           \A u \in Threads \ {t} : /\ pending'[u] = pending[u] /\ answer'[u] = answer[u]
                                    /\ since'[u] = since[u],
           \A u \in Callers \ {t} : asked'[u] = asked[u] /\ given'[u] = given[u] /\ called'[u] = called[u]
    PROVE  /\ SeenPending' = [SeenPending EXCEPT ![t] = SeenPending'[t]]
           /\ SeenAnswer' = [SeenAnswer EXCEPT ![t] = SeenAnswer'[t]]
           /\ SeenSince' = [SeenSince EXCEPT ![t] = SeenSince'[t]]
<1>1. \A u \in Threads \ {t} : /\ SeenPending'[u] = SeenPending[u]
                               /\ SeenAnswer'[u] = SeenAnswer[u]
                               /\ SeenSince'[u] = SeenSince[u]
  BY SeenOf, SeenOfNext
<1> QED
  BY <1>1, SeenChange

\* What is seen is as it was when nothing of its one thread has changed.
LEMMA SeenSame ==
    ASSUME NEW t \in Threads,
           SeenPending' = [SeenPending EXCEPT ![t] = SeenPending'[t]],
           SeenAnswer' = [SeenAnswer EXCEPT ![t] = SeenAnswer'[t]],
           SeenSince' = [SeenSince EXCEPT ![t] = SeenSince'[t]],
           SeenPending'[t] = SeenPending[t], SeenAnswer'[t] = SeenAnswer[t], SeenSince'[t] = SeenSince[t]
    PROVE  UNCHANGED <<SeenPending, SeenAnswer, SeenSince>>
<1>1. /\ SeenPending = [u \in Threads |-> SeenPending[u]]
      /\ SeenAnswer = [u \in Threads |-> SeenAnswer[u]]
      /\ SeenSince = [u \in Threads |-> SeenSince[u]]
  BY DEF SeenPending, SeenAnswer, SeenSince
<1>2. \A f, g : f = [u \in Threads |-> f[u]] /\ g = [f EXCEPT ![t] = f[t]] => g = f
  OBVIOUS
<1> QED
  BY <1>1, <1>2

LEMMA SeenStutter ==
    ASSUME UNCHANGED <<cache, durable, now, crashes>>, UNCHANGED <<SeenPending, SeenAnswer, SeenSince>>
    PROVE  UNCHANGED Connector!Seen!vars
  BY DEF Connector!Seen!vars, SeenPending, SeenAnswer, SeenSince

\* A step as the cache seen takes it.
SeenStep == [Connector!Seen!Next]_(Connector!Seen!vars)

LEMMA SeenSteps ==
    /\ \A t \in Threads, c \in Calls : Connector!Seen!Invoke(t, c) => SeenStep
    /\ \A t \in Threads : Connector!Seen!Perform(t) \/ Connector!Seen!Return(t) => SeenStep
    /\ Connector!Seen!Tick => SeenStep
    /\ UNCHANGED Connector!Seen!vars => SeenStep
  BY SeenConstants DEF SeenStep, Connector!Seen!Next

\* A handler uses the cache as it is.
LEMMA HandleSeen ==
    ASSUME Between, NEW t \in Workers, Handle(t), UNCHANGED connectorVars
    PROVE  SeenStep
<1>1. t \in Threads /\ TypeOK /\ CacheSound /\ HandlersSound /\ t \notin Callers
  BY CallerIsNoWorker DEF Between, HandlersSound
<1>2. \A u \in Threads \ {t} : /\ pending'[u] = pending[u] /\ answer'[u] = answer[u]
                               /\ since'[u] = since[u]
  BY <1>1, HandleIs, OneThread
<1>3. \A u \in Callers \ {t} : asked'[u] = asked[u] /\ given'[u] = given[u] /\ called'[u] = called[u]
  BY DEF connectorVars
<1>4. /\ SeenPending' = [SeenPending EXCEPT ![t] = SeenPending'[t]]
      /\ SeenAnswer' = [SeenAnswer EXCEPT ![t] = SeenAnswer'[t]]
      /\ SeenSince' = [SeenSince EXCEPT ![t] = SeenSince'[t]]
  BY <1>1, <1>2, <1>3, SeenLocal
<1>5. /\ SeenPending[t] = pending[t] /\ SeenAnswer[t] = answer[t] /\ SeenSince[t] = since[t]
      /\ SeenPending'[t] = pending'[t] /\ SeenAnswer'[t] = answer'[t] /\ SeenSince'[t] = since'[t]
  BY <1>1, SeenOf, SeenOfNext
<1>6. ASSUME NEW c \in Calls, Cache!Invoke(t, c) PROVE SeenStep
  <2>1. /\ pending[t] = NoCall /\ pending'[t] = c /\ since'[t] = now
        /\ answer'[t] = IF Rejected(c) THEN Failure(c) ELSE NoReply
        /\ UNCHANGED <<cache, durable, now, crashes>>
    BY <1>1, <1>6, SameInterface DEF Cache!Invoke, TypeOK, CacheSound
  <2>2. Connector!Seen!Invoke(t, c)
    BY <1>4, <1>5, <2>1, SeenInvoke
  <2> QED
    BY <1>1, <2>2, SeenSteps
<1>7. CASE Cache!Return(t)
  <2>1. /\ answer[t] # NoReply /\ pending'[t] = NoCall /\ since'[t] = 0 /\ answer'[t] = NoReply
        /\ UNCHANGED <<cache, durable, now, crashes>>
    BY <1>1, <1>7, SameInterface DEF Cache!Return, TypeOK, CacheSound
  <2>2. Connector!Seen!Return(t)
    BY <1>4, <1>5, <2>1, SeenReturn
  <2> QED
    BY <1>1, <2>2, SeenSteps
<1>8. CASE UNCHANGED cacheVars
  <2>1. UNCHANGED <<SeenPending, SeenAnswer, SeenSince>>
    BY <1>1, <1>4, <1>5, <1>8, SeenSame DEF cacheVars
  <2> QED
    BY <1>8, <2>1, SeenStutter, SeenSteps DEF cacheVars
<1> QED
  BY <1>1, <1>6, <1>7, <1>8, HandleIs

LEMMA AskSeen ==
    ASSUME Between, NEW t \in Callers, NEW c \in Asks, Connector!Ask(t, c)
    PROVE  SeenStep
<1>1. /\ asked[t] = NoCall /\ c \in Calls /\ t \in Threads
      /\ asked' = [asked EXCEPT ![t] = c] /\ called' = [called EXCEPT ![t] = now]
      /\ \/ Rejected(c) /\ given' = [given EXCEPT ![t] = Failure(c)] /\ UNCHANGED cacheVars
         \/ ~Rejected(c) /\ Cache!Invoke(t, c) /\ UNCHANGED given
  BY SameCache, CallerIsNoWorker
     DEF Connector!Ask, Connector!Give, Connector!cacheVars, cacheVars
<1>2. \A u \in Threads \ {t} : /\ pending'[u] = pending[u] /\ answer'[u] = answer[u]
                               /\ since'[u] = since[u]
  BY <1>1, CallerIs, OneThread
<1>3. /\ \A u \in Callers \ {t} : asked'[u] = asked[u] /\ given'[u] = given[u] /\ called'[u] = called[u]
      /\ asked'[t] = c /\ called'[t] = now /\ given[t] = NoReply
  BY <1>1, CallerIs DEF CallerFits
<1>4. /\ SeenPending' = [SeenPending EXCEPT ![t] = SeenPending'[t]]
      /\ SeenAnswer' = [SeenAnswer EXCEPT ![t] = SeenAnswer'[t]]
      /\ SeenSince' = [SeenSince EXCEPT ![t] = SeenSince'[t]]
  BY <1>1, <1>2, <1>3, SeenLocal
<1>5. SeenPending[t] = NoCall /\ SeenPending'[t] = c /\ SeenSince'[t] = now
  BY <1>1, <1>3, SeenOf, SeenOfNext
<1>6. SeenAnswer'[t] = IF Rejected(c) THEN Failure(c) ELSE NoReply
  <2>1. CASE Rejected(c) /\ given' = [given EXCEPT ![t] = Failure(c)]
    <3>1. given'[t] = Failure(c) /\ Failure(c) # NoReply
      BY <1>1, <2>1, CallerIs, FailureType
    <3> QED
      BY <1>1, <2>1, <3>1, SeenOfNext
  <2>2. CASE ~Rejected(c) /\ Cache!Invoke(t, c) /\ UNCHANGED given
    <3>1. given'[t] = NoReply /\ answer'[t] = NoReply
      BY <1>1, <1>3, <2>2, CallerIs, InvokeIs
    <3> QED
      BY <1>1, <2>2, <3>1, SeenOfNext
  <2> QED
    BY <1>1, <2>1, <2>2
<1>7. UNCHANGED <<cache, durable, now, crashes>>
  BY <1>1 DEF Cache!Invoke, cacheVars
<1>8. Connector!Seen!Invoke(t, c)
  BY <1>4, <1>5, <1>6, <1>7, SeenInvoke
<1> QED
  BY <1>1, <1>8, SeenSteps

LEMMA ForwardSeen ==
    ASSUME Between, NEW t \in Callers, Connector!Forward(t)
    PROVE  SeenStep
<1>1. /\ Cache!Return(t) /\ given' = [given EXCEPT ![t] = answer[t]]
      /\ UNCHANGED <<asked, called>>
  BY SameCache DEF Connector!Forward, Connector!Give
<1>2. answer[t] # NoReply /\ given[t] = NoReply /\ t \in Threads
  BY ForwardFits, CallerIs
<1>3. \A u \in Threads \ {t} : /\ pending'[u] = pending[u] /\ answer'[u] = answer[u]
                               /\ since'[u] = since[u]
  BY <1>1, CallerIs, OneThread
<1>4. /\ \A u \in Callers \ {t} : asked'[u] = asked[u] /\ given'[u] = given[u] /\ called'[u] = called[u]
      /\ asked'[t] = asked[t] /\ called'[t] = called[t] /\ given'[t] = answer[t]
  BY <1>1, CallerIs
<1>5. /\ SeenPending' = [SeenPending EXCEPT ![t] = SeenPending'[t]]
      /\ SeenAnswer' = [SeenAnswer EXCEPT ![t] = SeenAnswer'[t]]
      /\ SeenSince' = [SeenSince EXCEPT ![t] = SeenSince'[t]]
  BY <1>2, <1>3, <1>4, SeenLocal
<1>6. SeenPending'[t] = SeenPending[t] /\ SeenAnswer'[t] = SeenAnswer[t] /\ SeenSince'[t] = SeenSince[t]
  BY <1>2, <1>4, SeenOf, SeenOfNext
<1>7. UNCHANGED <<SeenPending, SeenAnswer, SeenSince>>
  BY <1>2, <1>5, <1>6, SeenSame
<1>8. UNCHANGED <<cache, durable, now, crashes>>
  BY <1>1 DEF Cache!Return
<1> QED
  BY <1>7, <1>8, SeenStutter, SeenSteps

LEMMA GiveBackSeen ==
    ASSUME Between, NEW t \in Callers, Connector!GiveBack(t)
    PROVE  SeenStep
<1>1. /\ asked' = [asked EXCEPT ![t] = NoCall] /\ given' = [given EXCEPT ![t] = NoReply]
      /\ called' = [called EXCEPT ![t] = 0]
      /\ UNCHANGED <<cache, durable, now, pending, answer, since, crashes>>
  BY SameCache DEF Connector!GiveBack, Connector!cacheVars
<1>2. given[t] # NoReply /\ answer[t] = NoReply /\ t \in Threads
  BY GiveBackFits, CallerIs
<1>3. /\ \A u \in Callers \ {t} : asked'[u] = asked[u] /\ given'[u] = given[u] /\ called'[u] = called[u]
      /\ asked'[t] = NoCall /\ called'[t] = 0 /\ given'[t] = NoReply /\ answer'[t] = NoReply
  BY <1>1, <1>2, CallerIs
<1>4. /\ SeenPending' = [SeenPending EXCEPT ![t] = SeenPending'[t]]
      /\ SeenAnswer' = [SeenAnswer EXCEPT ![t] = SeenAnswer'[t]]
      /\ SeenSince' = [SeenSince EXCEPT ![t] = SeenSince'[t]]
  BY <1>1, <1>2, <1>3, SeenLocal
<1>5. /\ SeenAnswer[t] # NoReply
      /\ SeenPending'[t] = NoCall /\ SeenAnswer'[t] = NoReply /\ SeenSince'[t] = 0
  BY <1>2, <1>3, SeenOf, SeenOfNext
<1>6. Connector!Seen!Return(t)
  BY <1>1, <1>4, <1>5, SeenReturn
<1> QED
  BY <1>2, <1>6, SeenSteps

\* The operations of the cache seen, one by one.
LEMMA SeenEntries ==
    /\ \A a : Connector!Seen!Entry(a) = Cache!Entry(a)
    /\ \A e, time : Connector!Seen!GoodAt(e, time) <=> Cache!GoodAt(e, time)
    /\ \A e : Connector!Seen!Value(e) = Cache!Value(e)
    /\ \A ids, time : Connector!Seen!GoodIds(ids, time) = Cache!GoodIds(ids, time)
    /\ \A s : Connector!Seen!Ascending(s) <=> Cache!Ascending(s)
<1>1. \A e, time : Connector!Seen!GoodAt(e, time) <=> Cache!GoodAt(e, time)
  BY DEF Connector!Seen!GoodAt, Cache!GoodAt
<1>2. \A ids, time : Connector!Seen!GoodIds(ids, time) = Cache!GoodIds(ids, time)
  BY <1>1 DEF Connector!Seen!GoodIds, Cache!GoodIds
<1>3. /\ \A a : Connector!Seen!Entry(a) = Cache!Entry(a)
      /\ \A e : Connector!Seen!Value(e) = Cache!Value(e)
      /\ \A s : Connector!Seen!Ascending(s) <=> Cache!Ascending(s)
  BY DEF Connector!Seen!Entry, Cache!Entry, Connector!Seen!Value, Cache!Value,
         Connector!Seen!Ascending, Cache!Ascending
<1> QED
  BY <1>1, <1>2, <1>3

LEMMA SeenReplies ==
    /\ \A t, op : Connector!Seen!Waiting(t, op) <=> SeenPending[t].op = op /\ SeenAnswer[t] = NoReply
    /\ \A t, r : Connector!Seen!Reply(t, r) <=> SeenAnswer' = [SeenAnswer EXCEPT ![t] = r]
  BY SeenConstants DEF Connector!Seen!Waiting, Connector!Seen!Reply, SeenPending, SeenAnswer

LEMMA FaultsSeen ==
    Faults \subseteq SeenFaults /\ (Throws => {"write", "read", "iterate"} \subseteq SeenFaults)
  BY InterfaceAssumption DEF SeenFaults

LEMMA SeenStores ==
    ASSUME NEW t, SeenPending[t].op = "store", SeenAnswer[t] = NoReply,
           \/ /\ cache' = Bind(cache, SeenPending[t].id, Cache!Entry(SeenPending[t].args))
              /\ SeenAnswer' = [SeenAnswer EXCEPT ![t] = Status(TRUE)]
           \/ /\ "write" \in SeenFaults /\ cache' = cache
              /\ SeenAnswer' = [SeenAnswer EXCEPT ![t] = Status(FALSE)]
    PROVE  Connector!Seen!PerformStore(t)
<1>1. Connector!Seen!Waiting(t, "store")
  BY SeenReplies
<1>2. \/ /\ cache' = Connector!Seen!Bind(cache, SeenPending[t].id, Connector!Seen!Entry(SeenPending[t].args))
         /\ Connector!Seen!Reply(t, Connector!Seen!Status(TRUE))
      \/ /\ "write" \in SeenFaults /\ cache' = cache
         /\ Connector!Seen!Reply(t, Connector!Seen!Status(FALSE))
  BY SeenReplies, SeenEntries, SeenConstants
<1> QED
  BY <1>1, <1>2 DEF Connector!Seen!PerformStore, SeenPending, SeenFaults

LEMMA SeenDeletes ==
    ASSUME NEW t, SeenPending[t].op = "delete", SeenAnswer[t] = NoReply,
           \/ /\ cache' = Restrict(cache, DOMAIN cache \ {SeenPending[t].id})
              /\ SeenAnswer' = [SeenAnswer EXCEPT ![t] = Status(TRUE)]
           \/ /\ "write" \in SeenFaults /\ cache' = cache
              /\ SeenAnswer' = [SeenAnswer EXCEPT ![t] = Status(FALSE)]
    PROVE  Connector!Seen!PerformDelete(t)
<1>1. Connector!Seen!Waiting(t, "delete")
  BY SeenReplies
<1>2. \/ /\ cache' = Connector!Seen!Restrict(cache, DOMAIN cache \ {SeenPending[t].id})
         /\ Connector!Seen!Reply(t, Connector!Seen!Status(TRUE))
      \/ /\ "write" \in SeenFaults /\ cache' = cache
         /\ Connector!Seen!Reply(t, Connector!Seen!Status(FALSE))
  BY SeenReplies, SeenConstants
<1> QED
  BY <1>1, <1>2 DEF Connector!Seen!PerformDelete, SeenPending, SeenFaults

LEMMA SeenRetrieves ==
    ASSUME NEW t, SeenPending[t].op = "retrieve", SeenAnswer[t] = NoReply, NEW id, id = SeenPending[t].id,
           NEW r, SeenAnswer' = [SeenAnswer EXCEPT ![t] = r],
           \/ /\ id \in DOMAIN cache /\ Cache!GoodAt(cache[id], SeenSince[t])
              /\ r = Found(Cache!Value(cache[id])) /\ cache' = cache
           \/ /\ id \notin DOMAIN cache \/ "read" \in SeenFaults
              /\ r = NullOpt /\ cache' = cache
           \/ /\ id \in DOMAIN cache /\ ~Cache!GoodAt(cache[id], now)
              /\ r = NullOpt /\ cache' = Restrict(cache, DOMAIN cache \ {id})
    PROVE  Connector!Seen!PerformRetrieve(t)
<1>1. Connector!Seen!Waiting(t, "retrieve") /\ Connector!Seen!Reply(t, r)
  BY SeenReplies
<1>2. CASE /\ id \in DOMAIN cache /\ Cache!GoodAt(cache[id], SeenSince[t])
           /\ r = Found(Cache!Value(cache[id])) /\ cache' = cache
  <2>1. /\ SeenPending[t].id \in DOMAIN cache
        /\ Connector!Seen!GoodAt(cache[SeenPending[t].id], SeenSince[t])
    BY <1>2, SeenEntries
  <2>2. r = Connector!Seen!Found(Connector!Seen!Value(cache[SeenPending[t].id]))
    BY <1>2, SeenEntries, SeenConstants
  <2>3. /\ SeenAnswer' = [SeenAnswer EXCEPT ![t] =
                            Connector!Seen!Found(Connector!Seen!Value(cache[SeenPending[t].id]))]
        /\ UNCHANGED cache
    BY <1>2, <2>2
  <2> QED
    BY <1>1, <2>1, <2>3, Zenon
       DEF Connector!Seen!PerformRetrieve, Connector!Seen!Reply, SeenPending, SeenSince, SeenAnswer
<1>3. CASE /\ id \notin DOMAIN cache \/ "read" \in SeenFaults
           /\ r = NullOpt /\ cache' = cache
  <2>1. SeenPending[t].id \notin DOMAIN cache \/ "read" \in SeenFaults
    BY <1>3
  <2>2. r = Connector!Seen!NullOpt
    BY <1>3, SeenConstants
  <2> QED
    BY <1>1, <1>3, <2>1, <2>2 DEF Connector!Seen!PerformRetrieve, SeenPending, SeenFaults
<1>4. CASE /\ id \in DOMAIN cache /\ ~Cache!GoodAt(cache[id], now)
           /\ r = NullOpt /\ cache' = Restrict(cache, DOMAIN cache \ {id})
  <2>1. /\ SeenPending[t].id \in DOMAIN cache
        /\ ~Connector!Seen!GoodAt(cache[SeenPending[t].id], now)
    BY <1>4, SeenEntries
  <2>2. /\ r = Connector!Seen!NullOpt
        /\ cache' = Connector!Seen!Restrict(cache, DOMAIN cache \ {SeenPending[t].id})
    BY <1>4, SeenConstants
  <2> QED
    BY <1>1, <2>1, <2>2 DEF Connector!Seen!PerformRetrieve, SeenPending
<1> QED
  BY <1>2, <1>3, <1>4

\* With more faults there are more lists that may be answered.
LEMMA SeenListings ==
    ASSUME NEW ids, NEW limit, NEW from, NEW s \in Cache!Listings(ids, limit, from)
    PROVE  s \in Connector!Seen!Listings(ids, limit, from)
<1> DEFINE maybe == Cache!GoodIds(ids, from)
           full(r) == limit > 0 /\ Len(r) = limit
<1>1. /\ s \in UNION {[1 .. n -> maybe] : n \in 0 .. Cardinality(maybe)}
      /\ Cache!Ascending(s)
      /\ limit > 0 => Len(s) <= limit
      /\ \A id \in Cache!GoodIds(ids, now) \ Range(s) :
           \/ "iterate" \in Faults /\ \A i \in DOMAIN s : s[i] < id
           \/ full(s) /\ s[limit] < id
  BY SameInterface DEF Cache!Listings
<1>2. \A id \in Cache!GoodIds(ids, now) \ Range(s) :
        \/ "iterate" \in SeenFaults /\ \A i \in DOMAIN s : s[i] < id
        \/ full(s) /\ s[limit] < id
  BY <1>1, FaultsSeen
<1> QED
  BY <1>1, <1>2, SeenEntries, SeenConstants DEF Connector!Seen!Listings, SeenFaults

\* A list may end before its first key when the iterator fails.
LEMMA NothingListed ==
    ASSUME NEW ids, NEW limit \in Int, NEW from, "iterate" \in SeenFaults, IsFiniteSet(DOMAIN cache)
    PROVE  <<>> \in Connector!Seen!Listings(ids, limit, from)
<1> DEFINE maybe == Cache!GoodIds(ids, from)
<1>1. Cardinality(maybe) \in Nat
  BY FS_Subset, FS_CardinalityType DEF Cache!GoodIds
<1>2. <<>> \in [1 .. 0 -> maybe] /\ 0 \in 0 .. Cardinality(maybe)
  BY <1>1
<1>3. <<>> \in UNION {[1 .. n -> maybe] : n \in 0 .. Cardinality(maybe)}
  BY <1>2
<1>4. Cache!Ascending(<<>>) /\ DOMAIN <<>> = {} /\ (limit > 0 => Len(<<>>) <= limit)
  BY DEF Cache!Ascending
<1> HIDE DEF maybe
<1> QED
  BY <1>3, <1>4, SeenEntries, SeenConstants DEF Connector!Seen!Listings, SeenFaults, maybe

LEMMA SeenLists ==
    ASSUME NEW t, SeenPending[t].op = "list", SeenAnswer[t] = NoReply,
           \E s \in Connector!Seen!Listings(SeenPending[t].ids, SeenPending[t].limit, SeenSince[t]) :
             SeenAnswer' = [SeenAnswer EXCEPT ![t] = Keys(s)],
           cache' = cache
    PROVE  Connector!Seen!PerformList(t)
<1>1. Connector!Seen!Waiting(t, "list")
  BY SeenReplies
<1>2. \E s \in Connector!Seen!Listings(SeenPending[t].ids, SeenPending[t].limit, SeenSince[t]) :
        Connector!Seen!Reply(t, Connector!Seen!Keys(s))
  BY SeenReplies, SeenConstants
<1> QED
  BY <1>1, <1>2 DEF Connector!Seen!PerformList, SeenPending, SeenSince

LEMMA SeenPerforms ==
    ASSUME NEW t \in Threads, UNCHANGED <<durable, now, SeenPending, SeenSince, crashes>>,
           \/ Connector!Seen!PerformStore(t) \/ Connector!Seen!PerformDelete(t)
           \/ Connector!Seen!PerformRetrieve(t) \/ Connector!Seen!PerformList(t)
    PROVE  SeenStep
<1>1. Connector!Seen!Perform(t)
  BY DEF Connector!Seen!Perform, SeenPending, SeenSince
<1> QED
  BY <1>1, SeenSteps

\* The cache serves a thread: it is seen to do so.
LEMMA PerformSeen ==
    ASSUME Between, NEW t \in Threads, Cache!Perform(t), UNCHANGED connectorVars
    PROVE  SeenStep
<1>0. TypeOK /\ CacheSound /\ UNCHANGED <<asked, given, called>>
  BY DEF Between, HandlersSound, connectorVars
<1>1. /\ UNCHANGED <<durable, now, pending, since, crashes>>
      /\ \A u \in Threads \ {t} : answer'[u] = answer[u]
  BY <1>0, PerformSound DEF Cache!Perform
<1>2. pending[t] # NoCall /\ answer[t] = NoReply
  BY NotACall, SameInterface
     DEF Cache!Perform, Cache!PerformStore, Cache!PerformDelete, Cache!PerformRetrieve, Cache!PerformList,
         Cache!Waiting
<1>3. t \in Callers => asked[t] = pending[t] /\ called[t] = since[t] /\ given[t] = NoReply
  BY <1>2, CallerIs DEF CallerFits
<1>4. /\ SeenPending[t] = pending[t] /\ SeenAnswer[t] = NoReply /\ SeenSince[t] = since[t]
      /\ SeenPending'[t] = SeenPending[t] /\ SeenAnswer'[t] = answer'[t]
      /\ SeenSince'[t] = SeenSince[t]
  BY <1>0, <1>1, <1>2, <1>3, SeenOf, SeenOfNext
<1>5. /\ SeenPending' = SeenPending /\ SeenSince' = SeenSince
      /\ SeenAnswer' = [SeenAnswer EXCEPT ![t] = answer'[t]]
  <2>1. /\ SeenPending' = [SeenPending EXCEPT ![t] = SeenPending'[t]]
        /\ SeenAnswer' = [SeenAnswer EXCEPT ![t] = SeenAnswer'[t]]
        /\ SeenSince' = [SeenSince EXCEPT ![t] = SeenSince'[t]]
    BY <1>0, <1>1, SeenLocal
  <2>2. SeenPending' = SeenPending /\ SeenSince' = SeenSince
    BY <1>0, <1>1 DEF SeenPending, SeenSince
  <2> QED
    BY <1>4, <2>1, <2>2
<1>6. \A r : Cache!Reply(t, r) => answer'[t] = r
  BY <1>0 DEF Cache!Reply, CacheSound
<1>7. CASE Cache!PerformStore(t)
  <2>1. /\ pending[t].op = "store"
        /\ \/ cache' = Bind(cache, pending[t].id, Cache!Entry(pending[t].args)) /\ answer'[t] = Status(TRUE)
           \/ "write" \in Faults /\ cache' = cache /\ answer'[t] = Status(FALSE)
    BY <1>6, <1>7, SameInterface DEF Cache!PerformStore, Cache!Waiting
  <2>2. Connector!Seen!PerformStore(t)
    BY <1>4, <1>5, <2>1, FaultsSeen, SeenStores
  <2> QED
    BY <1>1, <1>5, <2>2, SeenPerforms
<1>8. CASE Cache!PerformDelete(t)
  <2>1. /\ pending[t].op = "delete"
        /\ \/ cache' = Restrict(cache, DOMAIN cache \ {pending[t].id}) /\ answer'[t] = Status(TRUE)
           \/ "write" \in Faults /\ cache' = cache /\ answer'[t] = Status(FALSE)
    BY <1>6, <1>8, SameInterface DEF Cache!PerformDelete, Cache!Waiting
  <2>2. Connector!Seen!PerformDelete(t)
    BY <1>4, <1>5, <2>1, FaultsSeen, SeenDeletes
  <2> QED
    BY <1>1, <1>5, <2>2, SeenPerforms
<1>9. CASE Cache!PerformRetrieve(t)
  <2>1. PICK id : id = pending[t].id
    OBVIOUS
  <2>2. /\ pending[t].op = "retrieve"
        /\ \/ /\ id \in DOMAIN cache /\ Cache!GoodAt(cache[id], since[t])
              /\ answer'[t] = Found(Cache!Value(cache[id])) /\ cache' = cache
           \/ /\ id \notin DOMAIN cache \/ "read" \in Faults
              /\ answer'[t] = NullOpt /\ cache' = cache
           \/ /\ id \in DOMAIN cache /\ ~Cache!GoodAt(cache[id], now)
              /\ answer'[t] = NullOpt /\ cache' = Restrict(cache, DOMAIN cache \ {id})
    BY <1>6, <1>9, <2>1, SameInterface DEF Cache!PerformRetrieve, Cache!Waiting
  <2>3. Connector!Seen!PerformRetrieve(t)
    BY <1>4, <1>5, <2>1, <2>2, FaultsSeen, SeenRetrieves
  <2> QED
    BY <1>1, <1>5, <2>3, SeenPerforms
<1>10. CASE Cache!PerformList(t)
  <2>1. /\ pending[t].op = "list" /\ cache' = cache
        /\ \E s \in Cache!Listings(pending[t].ids, pending[t].limit, since[t]) : answer'[t] = Keys(s)
    BY <1>6, <1>10, SameInterface DEF Cache!PerformList, Cache!Waiting
  <2>2. PICK s \in Cache!Listings(pending[t].ids, pending[t].limit, since[t]) : answer'[t] = Keys(s)
    BY <2>1
  <2>3. s \in Connector!Seen!Listings(pending[t].ids, pending[t].limit, since[t])
    BY <2>2, SeenListings
  <2>4. Connector!Seen!PerformList(t)
    BY <1>4, <1>5, <2>1, <2>2, <2>3, SeenLists
  <2> QED
    BY <1>1, <1>5, <2>4, SeenPerforms
<1> QED
  BY <1>7, <1>8, <1>9, <1>10 DEF Cache!Perform

\* An exception is seen as a failure of RocksDB.
LEMMA CatchSeen ==
    ASSUME Between, NEW t \in Callers, Connector!Catch(t)
    PROVE  SeenStep
<1> DEFINE c == asked[t]
<1>1. /\ Throws /\ UNCHANGED <<asked, called>>
      /\ UNCHANGED <<cache, durable, now, answer, crashes>>
      /\ pending' = [pending EXCEPT ![t] = NoCall] /\ since' = [since EXCEPT ![t] = 0]
  BY CallerIs, UnwindSound DEF Connector!Catch
<1>2. /\ c \in Calls /\ given[t] = NoReply /\ answer[t] = NoReply /\ t \in Threads
  BY CatchFits, CallerIs
<1>3. PICK r \in Replies : /\ given' = [given EXCEPT ![t] = r] /\ r # NoReply
                           /\ r = IF c.op = "list" THEN Keys(<<>>) ELSE Failure(c)
  <2>1. /\ given' = [given EXCEPT ![t] = Connector!Caught(c)]
        /\ Connector!Caught(c) \in Replies /\ Connector!Caught(c) # NoReply
    BY CatchFits
  <2>2. Connector!Caught(c) = IF c.op = "list" THEN Keys(<<>>) ELSE Failure(c)
    BY SameCache DEF Connector!Caught, Connector!Keys, Keys
  <2> QED
    BY <2>1, <2>2
<1>4. /\ \A u \in Threads \ {t} : /\ pending'[u] = pending[u] /\ answer'[u] = answer[u]
                                  /\ since'[u] = since[u]
      /\ \A u \in Callers \ {t} : asked'[u] = asked[u] /\ given'[u] = given[u] /\ called'[u] = called[u]
      /\ given'[t] = r
  BY <1>1, <1>3, CallerIs
<1>5. /\ SeenPending[t] = c /\ SeenAnswer[t] = NoReply
      /\ SeenPending'[t] = c /\ SeenAnswer'[t] = r /\ SeenSince'[t] = SeenSince[t]
  BY <1>1, <1>2, <1>3, <1>4, SeenOf, SeenOfNext
<1>6. /\ SeenPending' = SeenPending /\ SeenSince' = SeenSince
      /\ SeenAnswer' = [SeenAnswer EXCEPT ![t] = r]
  <2>1. /\ SeenPending' = [SeenPending EXCEPT ![t] = SeenPending'[t]]
        /\ SeenAnswer' = [SeenAnswer EXCEPT ![t] = SeenAnswer'[t]]
        /\ SeenSince' = [SeenSince EXCEPT ![t] = SeenSince'[t]]
    BY <1>2, <1>4, SeenLocal
  <2>2. /\ SeenPending = [u \in Threads |-> SeenPending[u]]
        /\ SeenSince = [u \in Threads |-> SeenSince[u]]
    BY DEF SeenPending, SeenSince
  <2>3. \A f, g : f = [u \in Threads |-> f[u]] /\ g = [f EXCEPT ![t] = f[t]] => g = f
    OBVIOUS
  <2> QED
    BY <1>5, <2>1, <2>2, <2>3
<1>7. {"write", "read", "iterate"} \subseteq SeenFaults
  BY <1>1, FaultsSeen
<1> HIDE DEF c
<1>8. CASE c.op = "store"
  <2>1. r = Status(FALSE)
    BY <1>3, <1>8 DEF Failure
  <2>2. Connector!Seen!PerformStore(t)
    BY <1>1, <1>5, <1>6, <1>7, <1>8, <2>1, SeenStores
  <2> QED
    BY <1>1, <1>2, <1>6, <2>2, SeenPerforms
<1>9. CASE c.op = "delete"
  <2>1. r = Status(FALSE)
    BY <1>3, <1>9 DEF Failure
  <2>2. Connector!Seen!PerformDelete(t)
    BY <1>1, <1>5, <1>6, <1>7, <1>9, <2>1, SeenDeletes
  <2> QED
    BY <1>1, <1>2, <1>6, <2>2, SeenPerforms
<1>10. CASE c.op = "retrieve"
  <2>1. r = NullOpt
    BY <1>3, <1>10 DEF Failure
  <2>2. PICK id : id = SeenPending[t].id
    OBVIOUS
  <2>3. Connector!Seen!PerformRetrieve(t)
    BY <1>1, <1>5, <1>6, <1>7, <1>10, <2>1, <2>2, SeenRetrieves
  <2> QED
    BY <1>1, <1>2, <1>6, <2>3, SeenPerforms
<1>11. CASE c.op = "list"
  <2>1. r = Keys(<<>>)
    BY <1>3, <1>11
  <2>2. <<>> \in Connector!Seen!Listings(c.ids, c.limit, SeenSince[t])
    <3>1. c.limit \in Int
      BY <1>2, <1>11, InterfaceAssumption DEF Calls, StoreCalls, RetrieveCalls, DeleteCalls, ListCalls
    <3>2. IsFiniteSet(DOMAIN cache)
      BY CallerIs DEF CacheSound
    <3>3. PICK from : from = SeenSince[t]
      OBVIOUS
    <3> QED
      BY <1>7, <3>1, <3>2, <3>3, NothingListed
  <2>3. Connector!Seen!PerformList(t)
    BY <1>1, <1>5, <1>6, <1>11, <2>1, <2>2, SeenLists
  <2> QED
    BY <1>1, <1>2, <1>6, <2>3, SeenPerforms
<1> QED
  BY <1>2, <1>8, <1>9, <1>10, <1>11
     DEF Calls, StoreCalls, RetrieveCalls, DeleteCalls, ListCalls

LEMMA InitSeen == FrontendsInit => Connector!Seen!Init
<1> SUFFICES ASSUME FrontendsInit PROVE Connector!Seen!Init
  OBVIOUS
<1>1. /\ cache = <<>> /\ durable = <<>> /\ now = 1 /\ crashes = 0
      /\ pending = [t \in Threads |-> NoCall] /\ answer = [t \in Threads |-> NoReply]
      /\ since = [t \in Threads |-> 0]
  BY SameInterface DEF FrontendsInit, Init, Cache!Init
<1>2. /\ asked = [t \in Callers |-> NoCall] /\ given = [t \in Callers |-> NoReply]
      /\ called = [t \in Callers |-> 0]
  BY SameCache DEF FrontendsInit, Connector!ConnectorInit
<1>3. /\ SeenPending = [t \in Threads |-> NoCall]
      /\ SeenSince = [t \in Threads |-> 0]
  BY <1>1, <1>2 DEF SeenPending, SeenSince
<1>4. SeenAnswer = [t \in Threads |-> NoReply]
  BY <1>1, <1>2, SameCache DEF SeenAnswer
<1> QED
  BY <1>1, <1>3, <1>4, SeenInit

LEMMA NextSeen ==
    Between /\ [FrontendsNext]_<<vars, connectorVars>> => SeenStep
<1> SUFFICES ASSUME Between, [FrontendsNext]_<<vars, connectorVars>> PROVE SeenStep
  OBVIOUS
<1>1. ASSUME NEW t \in Workers, Handle(t), UNCHANGED connectorVars PROVE SeenStep
  BY <1>1, HandleSeen
<1>2. ASSUME CacheStep, UNCHANGED connectorVars PROVE SeenStep
  <2>1. CASE Cache!Tick
    <3>1. UNCHANGED <<SeenPending, SeenAnswer, SeenSince>>
      BY <1>2, <2>1 DEF Cache!Tick, connectorVars, SeenPending, SeenAnswer, SeenSince
    <3> QED
      BY <2>1, <3>1, SeenTick, SeenSteps
  <2> QED
    BY <1>2, <2>1, PerformSeen DEF CacheStep
<1>3. ASSUME NEW t \in Callers, Connector!Step(t) PROVE SeenStep
  BY <1>3, AskSeen, ForwardSeen, CatchSeen, GiveBackSeen DEF Connector!Step
<1>4. CASE UNCHANGED <<vars, connectorVars>>
  <2>1. UNCHANGED vars /\ UNCHANGED connectorVars
    BY <1>4
  <2>2. /\ UNCHANGED <<cache, durable, now, pending, answer, since, crashes>>
        /\ UNCHANGED <<asked, given, called>>
    BY <2>1 DEF vars, cacheVars, connectorVars
  <2>3. UNCHANGED <<SeenPending, SeenAnswer, SeenSince>>
    BY <2>2 DEF SeenPending, SeenAnswer, SeenSince
  <2> QED
    BY <2>2, <2>3, SeenStutter, SeenSteps
<1> QED
  BY <1>1, <1>2, <1>3, <1>4 DEF FrontendsNext, Next

(***************************************************************************)
(* "Transparent: Maintains the same interface semantics as the underlying  *)
(* KVCache" (vllm_connector.cpp:20), whatever the handlers do to the same  *)
(* cache meanwhile: every step of both is a step of KVCacheSpec, or none.  *)
(***************************************************************************)
THEOREM ConnectorIsTransparent == FrontendsSpec => Transparent
<1>1. FrontendsInit => Between
  BY InitSound, InitFits DEF FrontendsInit, Between
<1>2. FrontendsSpec => []Between
  BY <1>1, NextFits, PTL DEF FrontendsSpec
<1>3. Between /\ [FrontendsNext]_<<vars, connectorVars>> => [Connector!Seen!Next]_(Connector!Seen!vars)
  BY NextSeen DEF SeenStep
<1>4. FrontendsSpec => Connector!Seen!Spec
  BY <1>2, <1>3, InitSeen, PTL DEF FrontendsSpec, Connector!Seen!Spec
<1> QED
  BY <1>4 DEF Transparent, Connector!Transparent
=============================================================================
