------------------------ MODULE RocksDbKVCacheProofs ------------------------
(***************************************************************************)
(* IndInv is an inductive invariant of RocksDbKVCache, hence its conjuncts *)
(* hold for any number of threads, ids, stores, restarts and clock ticks.  *)
(***************************************************************************)
EXTENDS RocksDbKVCache, TLAPS

-----------------------------------------------------------------------------
(***************************************************************************)
(* What serializeMetadata and parseMetadata do to each other.              *)
(***************************************************************************)

\* The record serializeMetadata writes has the four segments a parse reads.
LEMMA SerializeType ==
    ASSUME NEW model \in ModelId, model # <<>>,
           NEW seq \in U64, NEW tok \in U64, NEW exp \in U64
    PROVE  /\ serializeMetadata(model, seq, tok, exp) \in MetaString
           /\ Len(serializeMetadata(model, seq, tok, exp)) = Len(model) + 3
  BY DEF serializeMetadata, ModelId, MetaString, Segment

\* A successful parse yields values of the right types.
LEMMA ParseType ==
    ASSUME NEW m \in MetaString, Parses(m)
    PROVE  parseMetadata(m) \in Parsed
  BY DEF parseMetadata, Parses, MetaString, Parsed, ModelId

(***************************************************************************)
(* Parsing gives back what was serialized (rocksdb_kvcache.cpp:393-434)    *)
(* exactly when the model id holds no '|', whatever the numbers are.       *)
(***************************************************************************)
THEOREM RoundTrip ==
    ASSUME NEW model \in ModelId, model # <<>>,
           NEW seq \in U64, NEW tok \in U64, NEW exp \in U64
    PROVE  RoundTrips(model, seq, tok, exp) <=> Len(model) = 1
<1> DEFINE m == serializeMetadata(model, seq, tok, exp)
<1>1. ASSUME Len(model) = 1
      PROVE  RoundTrips(model, seq, tok, exp)
  <2> DEFINE tail == <<seq, tok, exp>>
  <2>0. model \in Seq(Segment) /\ tail \in Seq(Segment) /\ Len(tail) = 3
    BY DEF ModelId, Segment
  <2>1. m[1] = model[1] /\ m[2] = tail[1] /\ m[3] = tail[2] /\ m[4] = tail[3]
    BY <1>1, <2>0 DEF serializeMetadata
  <2>2. model = <<m[1]>>
    BY <1>1, <2>1 DEF ModelId
  <2> QED
    BY <2>1, <2>2 DEF RoundTrips, Parses, parseMetadata
<1>2. ASSUME RoundTrips(model, seq, tok, exp)
      PROVE  Len(model) = 1
  <2>1. parseMetadata(m).model = model
    BY <1>2 DEF RoundTrips
  <2> QED
    BY <2>1 DEF parseMetadata
<1> QED
  BY <1>1, <1>2

USE MetadataAssumption, InterfaceAssumption, RocksDbAssumption

-----------------------------------------------------------------------------
(***************************************************************************)
(* The two batches.                                                        *)
(***************************************************************************)

\* A put batch sets both keys of its id and leaves every other key alone.
LEMMA BatchPutEffect ==
    ASSUME NEW d, IsDatabase(d), NEW id \in CacheIds,
           NEW m \in MetaString, NEW v \in Payloads
    PROVE  LET e == BatchPut(d, id, m, v) IN
           /\ IsDatabase(e)
           /\ DOMAIN e.meta = DOMAIN d.meta \cup {id}
           /\ DOMAIN e.data = DOMAIN d.data \cup {id}
           /\ e.meta[id] = m /\ e.data[id] = v
           /\ \A i \in DOMAIN d.meta \ {id} : e.meta[i] = d.meta[i]
           /\ \A i \in DOMAIN d.data \ {id} : e.data[i] = d.data[i]
  BY DEF BatchPut, IsDatabase, IsKeySpace, Bind

\* A delete batch removes both keys of its id and leaves every other key alone.
LEMMA BatchDeleteEffect ==
    ASSUME NEW d, IsDatabase(d), NEW id
    PROVE  LET e == BatchDelete(d, id) IN
           /\ IsDatabase(e)
           /\ DOMAIN e.meta = DOMAIN d.meta \ {id}
           /\ DOMAIN e.data = DOMAIN d.data \ {id}
           /\ \A i \in DOMAIN d.meta \ {id} : e.meta[i] = d.meta[i]
           /\ \A i \in DOMAIN d.data \ {id} : e.data[i] = d.data[i]
  BY DEF BatchDelete, IsDatabase, IsKeySpace, Restrict

\* The expiration time of a store is a uint64_t.
LEMMA ExpirationTimeType ==
    ASSUME now \in 1 .. MaxNow, NEW ttl \in U64
    PROVE  ExpirationTime(ttl) \in U64
  BY DEF ExpirationTime, U64

LEMMA InitInv == Init => IndInv
<1> SUFFICES ASSUME Init PROVE IndInv
  OBVIOUS
<1>1. IsDatabase(EmptyDb)
  BY DEF EmptyDb, IsDatabase, IsKeySpace
<1>2. NoMeta \in Parsed
  BY DEF NoMeta, Parsed, ModelId, U64
<1>3. TypeOK
  BY <1>1, <1>2 DEF Init, TypeOK, Labels, Replies, U64
<1>4. CallFits /\ MutexProtects /\ ParsedIsCurrent /\ WedgedOnlyByExpiry
  BY DEF Init, CallFits, MutexProtects, ParsedIsCurrent, WedgedOnlyByExpiry,
         Critical
<1>5. EntriesPaired
  BY DEF Init, EntriesPaired, EmptyDb
<1> QED
  BY <1>3, <1>4, <1>5 DEF IndInv
-----------------------------------------------------------------------------
(***************************************************************************)
(* Every step of a thread preserves the invariant.                         *)
(***************************************************************************)

\* A call that is not refused names a cache id that is not empty.
LEMMA AcceptedId ==
    ASSUME NEW c \in StoreCalls \cup RetrieveCalls \cup DeleteCalls, ~Rejected(c)
    PROVE  c.id \in CacheIds
  BY DEF Rejected, StoreCalls, RetrieveCalls, DeleteCalls, Ids, EmptyId

\* A step that leaves the database alone keeps its entries paired.
LEMMA PairedUnchanged ==
    ASSUME EntriesPaired, UNCHANGED <<db, synced>>
    PROVE  EntriesPaired'
  BY DEF EntriesPaired, OfOneStore

LEMMA EnterInv ==
    ASSUME IndInv, NEW t \in Threads, NEW c \in Calls, Enter(t, c)
    PROVE  IndInv'
<1> USE DEF IndInv, Enter, Answer, Goto
<1>1. Failure(c) \in Replies
  BY DEF Failure, Replies, NullOpt, Status
<1>2. TypeOK'
  BY <1>1 DEF TypeOK, Labels, IsDatabase, IsKeySpace
<1>3. CallFits'
  BY DEF TypeOK, CallFits, Calls
<1>4. MutexProtects'
  BY DEF TypeOK, MutexProtects, Critical
<1>5. EntriesPaired'
  BY PairedUnchanged
<1>6. ParsedIsCurrent'
  BY DEF TypeOK, ParsedIsCurrent
<1>7. WedgedOnlyByExpiry'
  BY DEF TypeOK, WedgedOnlyByExpiry
<1> QED
  BY <1>2, <1>3, <1>4, <1>5, <1>6, <1>7

LEMMA LockInv ==
    ASSUME IndInv, NEW t \in Threads, Lock(t)
    PROVE  IndInv'
<1> USE DEF IndInv, Lock, Goto, locals
<1>1. pc[t] = "lock" /\ call[t] \in Calls /\ owner = NoThread
  BY DEF WedgedOnlyByExpiry, CallFits
<1>2. call[t].op \in {"store", "retrieve", "delete", "list"}
  BY <1>1 DEF Calls, StoreCalls, RetrieveCalls, DeleteCalls, ListCalls
<1>3. TypeOK'
  BY <1>1, <1>2 DEF TypeOK, Labels, IsDatabase, IsKeySpace
<1>4. CallFits'
  BY <1>1, <1>2 DEF TypeOK, CallFits, Calls, StoreCalls, RetrieveCalls,
                    DeleteCalls, ListCalls
<1>5. MutexProtects'
  BY <1>1, <1>2 DEF TypeOK, MutexProtects, Critical
<1>6. EntriesPaired'
  BY PairedUnchanged
<1>7. ParsedIsCurrent'
  BY <1>1, <1>2 DEF TypeOK, ParsedIsCurrent
<1>8. WedgedOnlyByExpiry'
  BY <1>1, <1>2 DEF TypeOK, WedgedOnlyByExpiry
<1> QED
  BY <1>3, <1>4, <1>5, <1>6, <1>7, <1>8

(***************************************************************************)
(* A thread below the lock is the only one there.                          *)
(***************************************************************************)
LEMMA OnlyOneCritical ==
    ASSUME IndInv, NEW t \in Threads, pc[t] \in Critical,
           NEW u \in Threads, pc[u] \in Critical
    PROVE  u = t
  BY DEF IndInv, MutexProtects

LEMMA StoreInv ==
    ASSUME IndInv, NEW t \in Threads, Store(t)
    PROVE  IndInv'
<1> DEFINE id  == call[t].id
           a   == call[t].args
           exp == ExpirationTime(a.ttl)
           m   == serializeMetadata(a.model, a.seq, a.tok, exp)
<1>1. pc[t] = "store" /\ owner = t
  BY DEF Store, IndInv, MutexProtects, Critical
<1>2. call[t] \in StoreCalls /\ ~Rejected(call[t])
  BY <1>1 DEF IndInv, CallFits
<1>3. id \in CacheIds /\ a \in StoreArgs /\ a.model # <<>>
  BY <1>2, AcceptedId DEF StoreCalls, Rejected
<1>4. /\ a.model \in ModelId /\ a.seq \in U64 /\ a.tok \in U64
      /\ a.data \in Payloads /\ exp \in U64
  BY <1>3, ExpirationTimeType DEF IndInv, TypeOK
<1>5. m \in MetaString
  BY <1>3, <1>4, SerializeType
<1>6. OfOneStore(m, a.data)
  BY <1>3, <1>4 DEF OfOneStore
<1>7. /\ db' = BatchPut(db, id, m, a.data) \/ db' = db
      /\ \E b \in BOOLEAN : reply' = [reply EXCEPT ![t] = Status(b)]
      /\ pc' = [pc EXCEPT ![t] = "return"]
      /\ UNCHANGED <<synced, now, owner, call, parsed, todo, since, crashes>>
  BY DEF Store, Answer, Goto
<1>8. IsDatabase(db') /\ IsDatabase(synced')
  <2>1. IsDatabase(db) /\ IsDatabase(synced)
    BY DEF IndInv, TypeOK
  <2> HIDE DEF id, a, exp, m
  <2>2. IsDatabase(BatchPut(db, id, m, a.data))
    BY <2>1, <1>3, <1>4, <1>5, BatchPutEffect
  <2> QED
    BY <2>1, <2>2, <1>7
<1>9. TypeOK'
  BY <1>7, <1>8 DEF IndInv, TypeOK, Labels, Replies, Status
<1>10. CallFits'
  BY <1>7 DEF IndInv, TypeOK, CallFits
<1>11. MutexProtects'
  BY <1>1, <1>7 DEF IndInv, TypeOK, MutexProtects, Critical
<1>12. EntriesPaired'
  <2>1. CASE db' = db
    BY <2>1, <1>7, PairedUnchanged DEF IndInv
  <2>2. CASE db' = BatchPut(db, id, m, a.data)
    <3> HIDE DEF id, a, exp, m
    <3>1. /\ DOMAIN db.meta = DOMAIN db.data
          /\ \A i \in DOMAIN db.meta : OfOneStore(db.meta[i], db.data[i])
      BY DEF IndInv, EntriesPaired
    <3> DEFINE e == BatchPut(db, id, m, a.data)
    <3>e. /\ DOMAIN e.meta = DOMAIN db.meta \cup {id}
          /\ DOMAIN e.data = DOMAIN db.data \cup {id}
          /\ e.meta[id] = m /\ e.data[id] = a.data
          /\ \A i \in DOMAIN db.meta \ {id} : e.meta[i] = db.meta[i]
          /\ \A i \in DOMAIN db.data \ {id} : e.data[i] = db.data[i]
      <4>1. IsDatabase(db)
        BY DEF IndInv, TypeOK
      <4> QED
        BY <4>1, <1>3, <1>4, <1>5, BatchPutEffect DEF e
    <3> HIDE DEF e
    <3>2. DOMAIN db'.meta = DOMAIN db'.data
      BY <2>2, <3>1, <3>e DEF e
    <3>3. ASSUME NEW i \in DOMAIN db'.meta
          PROVE  OfOneStore(db'.meta[i], db'.data[i])
      <4>1. CASE i = id
        BY <4>1, <2>2, <3>e, <1>6 DEF e
      <4>2. CASE i # id
        BY <4>2, <2>2, <3>1, <3>e DEF e
      <4> QED
        BY <4>1, <4>2
    <3> QED
      BY <3>2, <3>3, <1>7 DEF IndInv, EntriesPaired, OfOneStore
  <2> QED
    BY <2>1, <2>2, <1>7
<1>13. ASSUME NEW u \in Threads, pc'[u] \in Critical
       PROVE  FALSE
  BY <1>1, <1>7, <1>13, OnlyOneCritical DEF IndInv, TypeOK, Critical
<1>14. ParsedIsCurrent' /\ WedgedOnlyByExpiry'
  BY <1>13 DEF ParsedIsCurrent, WedgedOnlyByExpiry, Critical
<1> QED
  BY <1>9, <1>10, <1>11, <1>12, <1>14 DEF IndInv

LEMMA DeleteInv ==
    ASSUME IndInv, NEW t \in Threads, Delete(t)
    PROVE  IndInv'
<1> DEFINE id == call[t].id
<1>1. pc[t] = "delete" /\ owner = t
  BY DEF Delete, IndInv, MutexProtects, Critical
<1>2. call[t] \in DeleteCalls
  BY <1>1 DEF IndInv, CallFits
<1>3. /\ db' = BatchDelete(db, id) \/ db' = db
      /\ \E r \in Replies : reply' = [reply EXCEPT ![t] = r]
      /\ pc' = [pc EXCEPT ![t] = "return"]
      /\ UNCHANGED <<synced, now, owner, call, parsed, todo, since, crashes>>
  BY DEF Delete, Answer, Goto, Replies, Status, NullOpt, Failure
<1>4. IsDatabase(db') /\ IsDatabase(synced')
  BY <1>3, BatchDeleteEffect DEF IndInv, TypeOK
<1>5. TypeOK'
  BY <1>3, <1>4 DEF IndInv, TypeOK, Labels
<1>6. CallFits'
  BY <1>3 DEF IndInv, TypeOK, CallFits
<1>7. MutexProtects'
  BY <1>1, <1>3 DEF IndInv, TypeOK, MutexProtects, Critical
<1>8. EntriesPaired'
  <2>1. CASE db' = db
    BY <2>1, <1>3, PairedUnchanged DEF IndInv
  <2>2. CASE db' = BatchDelete(db, id)
    <3>1. IsDatabase(db)
      BY DEF IndInv, TypeOK
    <3>2. /\ DOMAIN db.meta = DOMAIN db.data
          /\ \A i \in DOMAIN db.meta : OfOneStore(db.meta[i], db.data[i])
      BY DEF IndInv, EntriesPaired
    <3> DEFINE e == BatchDelete(db, id)
    <3>e. /\ DOMAIN e.meta = DOMAIN db.meta \ {id}
          /\ DOMAIN e.data = DOMAIN db.data \ {id}
          /\ \A i \in DOMAIN db.meta \ {id} : e.meta[i] = db.meta[i]
          /\ \A i \in DOMAIN db.data \ {id} : e.data[i] = db.data[i]
      <4> HIDE DEF id
      <4> QED
        BY <3>1, BatchDeleteEffect
    <3> HIDE DEF id, e
    <3>3. DOMAIN db'.meta = DOMAIN db'.data
      BY <2>2, <3>2, <3>e DEF e
    <3>4. ASSUME NEW i \in DOMAIN db'.meta
          PROVE  OfOneStore(db'.meta[i], db'.data[i])
      BY <2>2, <3>2, <3>e DEF e
    <3> QED
      BY <3>3, <3>4, <1>3 DEF IndInv, EntriesPaired, OfOneStore
  <2> QED
    BY <2>1, <2>2, <1>3
<1>9. ASSUME NEW u \in Threads, pc'[u] \in Critical
      PROVE  FALSE
  BY <1>1, <1>3, <1>9, OnlyOneCritical DEF IndInv, TypeOK, Critical
<1>10. ParsedIsCurrent' /\ WedgedOnlyByExpiry'
  BY <1>9 DEF ParsedIsCurrent, WedgedOnlyByExpiry, Critical
<1> QED
  BY <1>5, <1>6, <1>7, <1>8, <1>10 DEF IndInv

LEMMA GetMetaInv ==
    ASSUME IndInv, NEW t \in Threads, GetMeta(t)
    PROVE  IndInv'
<1> DEFINE id == call[t].id
<1>1. pc[t] = "retrieve" /\ owner = t
  BY DEF GetMeta, IndInv, MutexProtects, Critical
<1>2. call[t] \in RetrieveCalls
  BY <1>1 DEF IndInv, CallFits
<1>3. UNCHANGED <<db, synced, now, owner, call, todo, since, crashes>>
  BY DEF GetMeta
<1>4. CASE /\ Readable(id)
           /\ parsed' = [parsed EXCEPT ![t] = parseMetadata(db.meta[id])]
           /\ pc' = [pc EXCEPT ![t] = "expiry"]
           /\ UNCHANGED reply
  <2>1. parseMetadata(db.meta[id]) \in Parsed
    BY <1>4, ParseType DEF Readable, IndInv, TypeOK, IsDatabase, IsKeySpace
  <2>2. TypeOK'
    BY <1>3, <1>4, <2>1 DEF IndInv, TypeOK, Labels, IsDatabase, IsKeySpace
  <2>3. CallFits'
    BY <1>1, <1>2, <1>3, <1>4 DEF IndInv, TypeOK, CallFits
  <2>4. MutexProtects'
    BY <1>1, <1>3, <1>4 DEF IndInv, TypeOK, MutexProtects, Critical
  <2>5. ParsedIsCurrent'
    BY <1>3, <1>4 DEF IndInv, TypeOK, ParsedIsCurrent, Readable
  <2>6. WedgedOnlyByExpiry'
    BY <1>3, <1>4 DEF IndInv, TypeOK, WedgedOnlyByExpiry
  <2> QED
    BY <2>2, <2>3, <2>4, <2>5, <2>6, <1>3, PairedUnchanged DEF IndInv
<1>5. CASE /\ reply' = [reply EXCEPT ![t] = NullOpt]
           /\ pc' = [pc EXCEPT ![t] = "return"]
           /\ UNCHANGED parsed
  <2>1. TypeOK'
    BY <1>3, <1>5 DEF IndInv, TypeOK, Labels, IsDatabase, IsKeySpace, Replies,
                      NullOpt
  <2>2. CallFits'
    BY <1>3, <1>5 DEF IndInv, TypeOK, CallFits
  <2>3. MutexProtects'
    BY <1>1, <1>3, <1>5 DEF IndInv, TypeOK, MutexProtects, Critical
  <2>4. ParsedIsCurrent' /\ WedgedOnlyByExpiry'
    BY <1>3, <1>5 DEF IndInv, TypeOK, ParsedIsCurrent, WedgedOnlyByExpiry
  <2> QED
    BY <2>1, <2>2, <2>3, <2>4, <1>3, PairedUnchanged DEF IndInv
<1> QED
  BY <1>4, <1>5 DEF GetMeta, Answer, Goto

LEMMA CheckExpiryInv ==
    ASSUME IndInv, NEW t \in Threads, CheckExpiry(t)
    PROVE  IndInv'
<1> DEFINE next == IF IsExpired(parsed[t].exp) THEN "relock" ELSE "data"
<1>1. pc[t] = "expiry" /\ owner = t
  BY DEF CheckExpiry, IndInv, MutexProtects, Critical
<1>2. call[t] \in RetrieveCalls
  BY <1>1 DEF IndInv, CallFits
<1>3. /\ pc' = [pc EXCEPT ![t] = next]
      /\ UNCHANGED <<db, synced, now, owner, locals, crashes>>
  BY DEF CheckExpiry, Goto
<1>4. TypeOK'
  BY <1>3 DEF IndInv, TypeOK, Labels, IsDatabase, IsKeySpace, locals
<1>5. CallFits'
  BY <1>1, <1>2, <1>3 DEF IndInv, TypeOK, CallFits, locals
<1>6. MutexProtects'
  BY <1>1, <1>3 DEF IndInv, TypeOK, MutexProtects, Critical
<1>7. ParsedIsCurrent'
  BY <1>1, <1>3 DEF IndInv, TypeOK, ParsedIsCurrent, locals
<1>8. WedgedOnlyByExpiry'
  <2>1. SUFFICES ASSUME NEW u \in Threads, pc'[u] = "relock"
                 PROVE  /\ owner = u /\ call[u].op = "retrieve"
                        /\ call[u].id \in DOMAIN db.meta
                        /\ parseMetadata(db.meta[call[u].id]).exp \in 1 .. now - 1
    BY <1>3 DEF WedgedOnlyByExpiry, locals
  <2>2. CASE u # t
    BY <2>1, <2>2, <1>3 DEF IndInv, TypeOK, WedgedOnlyByExpiry
  <2>3. CASE u = t
    <3>1. /\ call[t].id \in DOMAIN db.meta
          /\ parsed[t] = parseMetadata(db.meta[call[t].id])
      BY <1>1 DEF IndInv, ParsedIsCurrent
    <3>2. parsed[t].exp \in U64 /\ now \in 1 .. MaxNow
      BY DEF IndInv, TypeOK, Parsed
    <3>3. IsExpired(parsed[t].exp)
      BY <2>1, <2>3, <1>3 DEF IndInv, TypeOK
    <3>4. parsed[t].exp \in 1 .. now - 1
      BY <3>2, <3>3 DEF IsExpired, U64
    <3> QED
      BY <2>3, <1>1, <1>2, <3>1, <3>4 DEF RetrieveCalls
  <2> QED
    BY <2>2, <2>3
<1> QED
  BY <1>3, <1>4, <1>5, <1>6, <1>7, <1>8, PairedUnchanged DEF IndInv

LEMMA GetDataInv ==
    ASSUME IndInv, NEW t \in Threads, GetData(t)
    PROVE  IndInv'
<1> DEFINE id == call[t].id
           p  == parsed[t]
           v  == [model |-> p.model, seq |-> p.seq, tok |-> p.tok,
                  data |-> db.data[id]]
<1>1. pc[t] = "data" /\ owner = t
  BY DEF GetData, IndInv, MutexProtects, Critical
<1>2. ASSUME id \in DOMAIN db.data
      PROVE  Found(v) \in Replies
  <2>1. v \in KVCacheData
    BY <1>2 DEF IndInv, TypeOK, Parsed, KVCacheData, IsDatabase, IsKeySpace
  <2> QED
    BY <2>1 DEF Found, Replies
<1>3. NullOpt \in Replies
  BY DEF NullOpt, Replies
<1>4. /\ \E r \in Replies : reply' = [reply EXCEPT ![t] = r]
      /\ pc' = [pc EXCEPT ![t] = "return"]
      /\ UNCHANGED <<db, synced, now, owner, call, parsed, todo, since, crashes>>
  BY <1>2, <1>3 DEF GetData, Answer, Goto
<1>5. TypeOK'
  BY <1>4 DEF IndInv, TypeOK, Labels, IsDatabase, IsKeySpace
<1>6. CallFits'
  BY <1>4 DEF IndInv, TypeOK, CallFits
<1>7. MutexProtects'
  BY <1>1, <1>4 DEF IndInv, TypeOK, MutexProtects, Critical
<1>8. ParsedIsCurrent' /\ WedgedOnlyByExpiry'
  BY <1>4 DEF IndInv, TypeOK, ParsedIsCurrent, WedgedOnlyByExpiry
<1> QED
  BY <1>4, <1>5, <1>6, <1>7, <1>8, PairedUnchanged DEF IndInv

LEMMA SeekInv ==
    ASSUME IndInv, NEW t \in Threads, Seek(t)
    PROVE  IndInv'
<1>1. pc[t] = "list" /\ owner = t
  BY DEF Seek, IndInv, MutexProtects, Critical
<1>2. call[t] \in ListCalls
  BY <1>1 DEF IndInv, CallFits
<1>3. /\ todo' = [todo EXCEPT ![t] = call[t].ids \cap DOMAIN db.meta]
      /\ reply' = [reply EXCEPT ![t] = Keys(<<>>)]
      /\ pc' = [pc EXCEPT ![t] = "iterate"]
      /\ UNCHANGED <<db, synced, now, owner, call, parsed, since, crashes>>
  BY DEF Seek, Goto
<1>4. call[t].ids \cap DOMAIN db.meta \in SUBSET CacheIds
  BY DEF IndInv, TypeOK, IsDatabase, IsKeySpace
<1>5. Keys(<<>>) \in [keys : Seq(CacheIds)]
  BY DEF Keys
<1>6. TypeOK'
  BY <1>3, <1>4, <1>5 DEF IndInv, TypeOK, Labels, IsDatabase, IsKeySpace, Replies
<1>7. CallFits'
  BY <1>1, <1>2, <1>3, <1>5 DEF IndInv, TypeOK, CallFits
<1>8. MutexProtects'
  BY <1>1, <1>3 DEF IndInv, TypeOK, MutexProtects, Critical
<1>9. ParsedIsCurrent' /\ WedgedOnlyByExpiry'
  BY <1>3 DEF IndInv, TypeOK, ParsedIsCurrent, WedgedOnlyByExpiry
<1> QED
  BY <1>3, <1>6, <1>7, <1>8, <1>9, PairedUnchanged DEF IndInv

LEMMA IterateInv ==
    ASSUME IndInv, NEW t \in Threads, Iterate(t)
    PROVE  IndInv'
<1>1. pc[t] = "iterate" /\ owner = t
  BY DEF Iterate, IndInv, MutexProtects, Critical
<1>2. call[t] \in ListCalls /\ reply[t] \in [keys : Seq(CacheIds)]
  BY <1>1 DEF IndInv, CallFits
<1>3. UNCHANGED <<db, synced, now, owner, call, parsed, since, crashes>>
  BY DEF Iterate
<1>4. /\ \E S \in SUBSET CacheIds : todo' = [todo EXCEPT ![t] = S]
      /\ \E r \in [keys : Seq(CacheIds)] : reply' = [reply EXCEPT ![t] = r]
      /\ \E l \in {"iterate", "return"} : pc' = [pc EXCEPT ![t] = l]
  <2>1. CASE Visit(t)
    <3>1. PICK id \in todo[t] :
            LET keys == IF IsListed(id) THEN Append(reply[t].keys, id)
                                        ELSE reply[t].keys
            IN  /\ todo' = [todo EXCEPT ![t] = @ \ {id}]
                /\ reply' = [reply EXCEPT ![t] = Keys(keys)]
                /\ \E l \in {"iterate", "return"} : pc' = [pc EXCEPT ![t] = l]
      BY <2>1 DEF Visit, Goto
    <3>2. todo[t] \subseteq CacheIds /\ id \in CacheIds
      BY DEF IndInv, TypeOK
    <3>3. todo[t] \ {id} \in SUBSET CacheIds
      BY <3>2
    <3>4. /\ Keys(Append(reply[t].keys, id)) \in [keys : Seq(CacheIds)]
          /\ Keys(reply[t].keys) \in [keys : Seq(CacheIds)]
      BY <1>2, <3>2 DEF Keys
    <3> QED
      BY <3>1, <3>3, <3>4
  <2>2. CASE EndIteration(t)
    <3>1. todo[t] \in SUBSET CacheIds /\ todo' = [todo EXCEPT ![t] = todo[t]]
      BY <2>2 DEF EndIteration, IndInv, TypeOK
    <3>2. reply' = [reply EXCEPT ![t] = reply[t]]
      BY <2>2 DEF EndIteration, IndInv, TypeOK
    <3> QED
      BY <2>2, <1>2, <3>1, <3>2 DEF EndIteration, Goto
  <2> QED
    BY <2>1, <2>2 DEF Iterate
<1>5. TypeOK'
  BY <1>3, <1>4 DEF IndInv, TypeOK, Labels, IsDatabase, IsKeySpace, Replies
<1>6. CallFits'
  BY <1>1, <1>2, <1>3, <1>4 DEF IndInv, TypeOK, CallFits
<1>7. MutexProtects'
  BY <1>1, <1>3, <1>4 DEF IndInv, TypeOK, MutexProtects, Critical
<1>8. ParsedIsCurrent' /\ WedgedOnlyByExpiry'
  BY <1>3, <1>4 DEF IndInv, TypeOK, ParsedIsCurrent, WedgedOnlyByExpiry
<1> QED
  BY <1>3, <1>5, <1>6, <1>7, <1>8, PairedUnchanged DEF IndInv

LEMMA ReturnInv ==
    ASSUME IndInv, NEW t \in Threads, Return(t)
    PROVE  IndInv'
<1> USE DEF Return, Goto, IndInv
<1>1. NoMeta \in Parsed
  BY DEF NoMeta, Parsed, ModelId, U64
<1>2. TypeOK'
  BY <1>1 DEF TypeOK, Labels, IsDatabase, IsKeySpace, Replies, U64
<1>3. CallFits'
  BY DEF TypeOK, CallFits
<1>4. MutexProtects'
  BY DEF TypeOK, MutexProtects, Critical
<1>5. ParsedIsCurrent'
  BY DEF TypeOK, ParsedIsCurrent
<1>6. WedgedOnlyByExpiry'
  BY DEF TypeOK, WedgedOnlyByExpiry, MutexProtects, Critical
<1> QED
  BY <1>2, <1>3, <1>4, <1>5, <1>6, PairedUnchanged
-----------------------------------------------------------------------------
(***************************************************************************)
(* So do the steps of the clock, the disk and a restart.                   *)
(***************************************************************************)
LEMMA TickInv == IndInv /\ Tick => IndInv'
<1> SUFFICES ASSUME IndInv, Tick PROVE IndInv'
  OBVIOUS
<1> USE DEF Tick, IndInv, locals
<1>1. TypeOK'
  BY DEF TypeOK, IsDatabase, IsKeySpace, U64
<1>2. CallFits' /\ MutexProtects' /\ ParsedIsCurrent'
  BY DEF CallFits, MutexProtects, ParsedIsCurrent
<1>3. WedgedOnlyByExpiry'
  <2>1. ASSUME NEW e, e \in 1 .. now - 1
        PROVE  e \in 1 .. now' - 1
    BY <2>1 DEF TypeOK
  <2> QED
    BY <2>1 DEF WedgedOnlyByExpiry
<1> QED
  BY <1>1, <1>2, <1>3, PairedUnchanged

LEMMA SyncInv == IndInv /\ Sync => IndInv'
<1> SUFFICES ASSUME IndInv, Sync PROVE IndInv'
  OBVIOUS
<1> USE DEF Sync, IndInv, locals
<1>1. TypeOK'
  BY DEF TypeOK, IsDatabase, IsKeySpace
<1>2. CallFits' /\ MutexProtects' /\ ParsedIsCurrent' /\ WedgedOnlyByExpiry'
  BY DEF CallFits, MutexProtects, ParsedIsCurrent, WedgedOnlyByExpiry
<1>3. EntriesPaired'
  BY DEF EntriesPaired, OfOneStore
<1> QED
  BY <1>1, <1>2, <1>3

LEMMA RestartInv == IndInv /\ Restart => IndInv'
<1> SUFFICES ASSUME IndInv, Restart PROVE IndInv'
  OBVIOUS
<1> USE DEF Restart, IndInv
<1>1. NoMeta \in Parsed
  BY DEF NoMeta, Parsed, ModelId, U64
<1>2. TypeOK'
  BY <1>1 DEF TypeOK, Labels, IsDatabase, IsKeySpace, Replies, U64
<1>3. CallFits' /\ MutexProtects' /\ ParsedIsCurrent' /\ WedgedOnlyByExpiry'
  BY DEF CallFits, MutexProtects, ParsedIsCurrent, WedgedOnlyByExpiry, Critical
<1>4. EntriesPaired'
  BY DEF EntriesPaired, OfOneStore
<1> QED
  BY <1>2, <1>3, <1>4
-----------------------------------------------------------------------------
LEMMA NextInv == IndInv /\ [Next]_vars => IndInv'
<1> SUFFICES ASSUME IndInv, [Next]_vars PROVE IndInv'
  OBVIOUS
<1>1. ASSUME NEW t \in Threads, Call(t) PROVE IndInv'
  BY <1>1, EnterInv DEF Call
<1>2. ASSUME NEW t \in Threads, Work(t) PROVE IndInv'
  BY <1>2, LockInv, StoreInv, DeleteInv, GetMetaInv, CheckExpiryInv, GetDataInv,
     SeekInv, IterateInv, ReturnInv DEF Work
<1>3. CASE UNCHANGED vars
  BY <1>3, PairedUnchanged
     DEF vars, locals, IndInv, TypeOK, CallFits, MutexProtects, ParsedIsCurrent,
         WedgedOnlyByExpiry, IsDatabase, IsKeySpace
<1> QED
  BY <1>1, <1>2, <1>3, TickInv, SyncInv, RestartInv DEF Next

\* The inductive invariant holds in every behaviour of the cache.
THEOREM Invariance == Spec => []IndInv
  BY InitInv, NextInv, PTL DEF Spec

\* Every variable keeps its type.
THEOREM TypeCorrect == Spec => []TypeOK
<1>1. IndInv => TypeOK
  BY DEF IndInv
<1> QED
  BY <1>1, Invariance, PTL

\* Whoever works on the database holds mutex_: two operations never overlap.
THEOREM MutualExclusion == Spec => []MutexProtects
<1>1. IndInv => MutexProtects
  BY DEF IndInv
<1> QED
  BY <1>1, Invariance, PTL

(***************************************************************************)
(* Metadata and data of an id stem from one store, in the database and in  *)
(* whatever a power failure leaves of it.                                  *)
(***************************************************************************)
THEOREM Pairing == Spec => []EntriesPaired
<1>1. IndInv => EntriesPaired
  BY DEF IndInv
<1> QED
  BY <1>1, Invariance, PTL

\* What a retrieve has parsed is what the database still holds.
THEOREM Freshness == Spec => []ParsedIsCurrent
<1>1. IndInv => ParsedIsCurrent
  BY DEF IndInv
<1> QED
  BY <1>1, Invariance, PTL

\* A thread waits for its own mutex only when it retrieves an expired entry.
THEOREM WedgeCause == Spec => []WedgedOnlyByExpiry
<1>1. IndInv => WedgedOnlyByExpiry
  BY DEF IndInv
<1> QED
  BY <1>1, Invariance, PTL

(***************************************************************************)
(* Once a thread waits for its own mutex, the mutex and the database stay  *)
(* as they are until the process is restarted.                             *)
(***************************************************************************)
LEMMA WedgedStep ==
    ASSUME IndInv, Next, NEW t \in Threads, pc[t] = "relock"
    PROVE  \/ crashes' # crashes
           \/ pc'[t] = "relock" /\ owner' = owner /\ db' = db
<1>1. owner = t /\ owner # NoThread
  BY DEF IndInv, WedgedOnlyByExpiry
<1>2. ASSUME NEW u \in Threads, Work(u)
      PROVE  pc'[t] = "relock" /\ owner' = owner /\ db' = db
  <2>1. pc[u] \in Critical \ {"relock"} => FALSE
    BY <1>1 DEF IndInv, MutexProtects
  <2>2. CASE Return(u)
    BY <1>1, <2>2 DEF Return, Goto, IndInv, TypeOK
  <2> QED
    BY <1>1, <1>2, <2>1, <2>2
       DEF Work, Lock, Store, Delete, GetMeta, CheckExpiry, GetData, Seek, Iterate,
           Critical
<1>3. ASSUME NEW u \in Threads, Call(u)
      PROVE  pc'[t] = "relock" /\ owner' = owner /\ db' = db
  BY <1>3 DEF Call, Enter, Answer, Goto, IndInv, TypeOK
<1>4. Restart => crashes' # crashes
  BY DEF Restart, IndInv, TypeOK
<1> QED
  BY <1>2, <1>3, <1>4 DEF Next, Tick, Sync

THEOREM WedgeForever == Spec => WedgedUntilRestart
<1>1. IndInv /\ [Next]_vars =>
        [\A t \in Threads : pc[t] = "relock" =>
            \/ crashes' # crashes
            \/ pc'[t] = "relock" /\ owner' = owner /\ db' = db]_vars
  BY WedgedStep
<1> QED
  BY <1>1, Invariance, PTL DEF Spec, WedgedUntilRestart
=============================================================================
