-------------------------- MODULE RocksDbRefinement --------------------------
(***************************************************************************)
(* RocksDbKVCache implements KVCacheSpec when no model id holds a '|' and  *)
(* no lifetime overflows.                                                  *)
(***************************************************************************)
EXTENDS RocksDbKVCacheProofs, FiniteSetTheorems, SequenceTheorems

USE MetadataAssumption, InterfaceAssumption, RocksDbAssumption

\* The clock is a natural number.
LEMMA ClockType == TypeOK => /\ now \in Nat \ {0} /\ MaxNow \in Nat
                             /\ \A t \in Threads : since[t] \in Nat
  BY DEF TypeOK, U64

LEMMA InitJudged == Init => JudgedInTime /\ ListSoFar
  BY DEF Init, JudgedInTime, ListSoFar

-----------------------------------------------------------------------------
(***************************************************************************)
(* Judging in time.                                                        *)
(***************************************************************************)
LEMMA JudgedWork ==
    ASSUME IndInv, JudgedInTime, NEW t \in Threads, Work(t)
    PROVE  JudgedInTime'
<1> USE DEF IndInv, TypeOK, JudgedInTime, Goto, Answer, locals
<1>0. /\ Status(TRUE) # NoReply /\ Status(FALSE) # NoReply /\ NullOpt # NoReply
      /\ \A v : Found(v) # NoReply
      /\ \A s : Keys(s) # NoReply
      /\ Failure(call[t]) # NoReply
  BY DEF Status, NullOpt, Found, Keys, NoReply, Failure
<1>1. CASE Lock(t)
  <2>1. call[t].op # "data" /\ call[t].op \notin {"idle", "return"}
    BY <1>1 DEF Lock, CallFits, WedgedOnlyByExpiry, Calls, StoreCalls, RetrieveCalls,
                DeleteCalls, ListCalls
  <2> QED
    BY <1>1, <2>1 DEF Lock
<1>r. ASSUME NEW r, r # NoReply, Answer(t, r), UNCHANGED <<now, call, parsed, since>>
      PROVE  JudgedInTime'
  BY <1>r
<1>2. CASE Store(t)
  <2> HIDE DEF Answer, JudgedInTime, TypeOK, IndInv
  <2> QED
    BY <1>0, <1>2, <1>r DEF Store
<1>3. CASE Delete(t)
  <2> HIDE DEF Answer, JudgedInTime, TypeOK, IndInv
  <2> QED
    BY <1>0, <1>3, <1>r DEF Delete
<1>4. CASE GetMeta(t)
  BY <1>0, <1>4 DEF GetMeta
<1>5. CASE CheckExpiry(t)
  <2>1. parsed[t].exp \in Nat /\ now \in Nat /\ since[t] \in Nat
    BY ClockType DEF Parsed, U64
  <2>2. ~IsExpired(parsed[t].exp) => parsed[t].exp = 0 \/ since[t] <= parsed[t].exp
    BY <2>1 DEF IsExpired
  <2> QED
    BY <1>5, <2>2 DEF CheckExpiry
<1>6. CASE GetData(t)
  BY <1>0, <1>6 DEF GetData
<1>7. CASE Seek(t)
  BY <1>7 DEF Seek
<1>8. CASE Iterate(t)
  <2>1. reply[t] # NoReply
    <3>1. reply[t] \in [keys : Seq(CacheIds)]
      BY <1>8 DEF Iterate, CallFits
    <3>2. \A k : [keys |-> k] # NoReply
      BY DEF NoReply
    <3> QED
      BY <3>1, <3>2
  <2> QED
    BY <1>0, <1>8, <2>1 DEF Iterate, Visit, EndIteration
<1>9. CASE Return(t)
  BY <1>9, ClockType DEF Return
<1> QED
  BY <1>1, <1>2, <1>3, <1>4, <1>5, <1>6, <1>7, <1>8, <1>9 DEF Work

LEMMA JudgedNext ==
    ASSUME IndInv, JudgedInTime, [Next]_vars
    PROVE  JudgedInTime'
<1>1. ASSUME NEW t \in Threads, NEW c \in Calls, Enter(t, c)
      PROVE  JudgedInTime'
  <2>1. Failure(c) # NoReply /\ now \in Nat
    BY ClockType DEF Failure, NullOpt, Status, NoReply, IndInv
  <2> QED
    BY <1>1, <2>1 DEF Enter, Answer, Goto, IndInv, TypeOK, JudgedInTime
<1>2. CASE Tick
  BY <1>2, ClockType DEF Tick, locals, IndInv, JudgedInTime
<1>3. CASE Sync
  BY <1>3 DEF Sync, locals, JudgedInTime
<1>4. CASE Restart
  BY <1>4, ClockType DEF Restart, IndInv, JudgedInTime
<1>5. CASE UNCHANGED vars
  BY <1>5 DEF vars, locals, JudgedInTime
<1> QED
  BY <1>1, <1>2, <1>3, <1>4, <1>5, JudgedWork DEF Next, Call
-----------------------------------------------------------------------------
(***************************************************************************)
(* Lists.                                                                  *)
(***************************************************************************)

\* The expiration time of a record that parses is a natural number.
LEMMA ExpType ==
    ASSUME NEW id, Readable(id)
    PROVE  parseMetadata(db.meta[id]).exp \in Nat
  BY DEF Readable, Parses, parseMetadata, U64

\* What is expired stays expired.
LEMMA ExpiredStays ==
    ASSUME TypeOK, now' \in Nat, now' >= now, UNCHANGED db, NEW id, ~IsListed(id)
    PROVE  ~IsListed(id)'
  BY ClockType, ExpType DEF IsListed, IsExpired, Readable

\* A step that leaves a list and the database alone keeps it correct.
LEMMA CollectedFrame ==
    ASSUME TypeOK, now' \in Nat, now' >= now, UNCHANGED db, NEW t \in Threads, Collected(t),
           call'[t] = call[t], reply'[t] = reply[t], todo'[t] = todo[t],
           since'[t] = since[t]
    PROVE  Collected(t)'
<1>1. \A id : GoodFrom(id, since[t]) => GoodFrom(id, since[t])'
  BY DEF GoodFrom, Readable
<1>2. \A id : ~IsListed(id) => ~IsListed(id)'
  BY ExpiredStays
<1> QED
  BY <1>1, <1>2 DEF Collected

\* The iterator starts at the first key of the prefix with nothing collected.
LEMMA SeekCollected ==
    ASSUME IndInv, NEW t \in Threads, Seek(t)
    PROVE  Collected(t)'
<1>1. /\ todo'[t] = call'[t].ids \cap DOMAIN db'.meta
      /\ reply'[t] = Keys(<<>>)
  BY DEF Seek, IndInv, TypeOK
<1>2. reply'[t].keys = <<>>
  BY <1>1 DEF Keys
<1> QED
  BY <1>1, <1>2 DEF Collected

(***************************************************************************)
(* A visit appends the smallest key to come, if it is not expired.         *)
(***************************************************************************)
LEMMA VisitCollected ==
    ASSUME IndInv, JudgedInTime, NEW t \in Threads, pc[t] = "iterate", Collected(t),
           Visit(t), UNCHANGED <<db, now, call, since>>, pc'[t] = "iterate"
    PROVE  Collected(t)'
<1> DEFINE ids   == call[t].ids \cap DOMAIN db.meta
           keys  == reply[t].keys
           limit == call[t].limit
<1>1. PICK id \in todo[t] :
        LET new == IF IsListed(id) THEN Append(keys, id) ELSE keys
        IN  /\ \A other \in todo[t] : id <= other
            /\ todo' = [todo EXCEPT ![t] = @ \ {id}]
            /\ reply' = [reply EXCEPT ![t] = Keys(new)]
            /\ pc' = [pc EXCEPT ![t] = IF IsListed(id) /\ limit > 0 /\ Len(new) >= limit
                                       THEN "return" ELSE "iterate"]
  BY DEF Visit, Goto
<1> DEFINE new == IF IsListed(id) THEN Append(keys, id) ELSE keys
<1>2. /\ keys \in Seq(CacheIds) /\ CacheIds \subseteq Nat
      /\ todo[t] \subseteq CacheIds /\ call[t] \in ListCalls /\ limit \in Int
  BY DEF IndInv, TypeOK, CallFits, ListCalls
<1>3. new \in Seq(CacheIds)
  BY <1>2
<1>4. /\ todo'[t] = todo[t] \ {id} /\ reply'[t].keys = new
  BY <1>1 DEF IndInv, TypeOK, Keys
<1>5. \A other \in todo'[t] : other \in Nat /\ id < other
  <2>1. id \in Nat /\ \A other \in todo[t] : other \in Nat /\ id <= other
    BY <1>1, <1>2
  <2>2. ASSUME NEW other \in todo'[t]
        PROVE  other \in Nat /\ id < other
    <3>1. other \in todo[t] /\ other # id
      BY <1>4
    <3> QED
      BY <2>1, <3>1
  <2> QED
    BY <2>2
<1>6. \A i, j \in DOMAIN new : i < j => new[i] < new[j]
  BY <1>2 DEF Collected
<1>7. ASSUME NEW i \in DOMAIN new
      PROVE  /\ new[i] \in ids
             /\ GoodFrom(new[i], since[t])
             /\ \A other \in todo'[t] : new[i] < other
  <2>1. CASE i \in DOMAIN keys /\ new[i] = keys[i]
    BY <2>1, <1>4 DEF Collected
  <2>2. CASE IsListed(id) /\ new[i] = id
    <3>1. GoodFrom(id, since[t])
      <4>1. Readable(id) => parseMetadata(db.meta[id]).exp \in Nat
        BY ExpType
      <4>2. since[t] \in Nat /\ now \in Nat /\ since[t] <= now
        BY ClockType DEF IndInv, JudgedInTime
      <4> QED
        BY <2>2, <4>1, <4>2 DEF GoodFrom, IsListed, IsExpired
    <3> QED
      BY <2>2, <3>1, <1>5 DEF Collected
  <2> QED
    BY <2>1, <2>2, <1>2
<1>8. ASSUME NEW k \in ids \ todo'[t]
      PROVE  k \in Range(new) \/ ~IsListed(k)
  <2>1. CASE k = id /\ IsListed(id)
    <3>1. new = Append(keys, id)
      BY <2>1
    <3>2. Len(new) \in DOMAIN new /\ new[Len(new)] = id
      BY <3>1, <1>2
    <3> QED
      BY <2>1, <3>2 DEF Range
  <2>2. CASE k = id /\ ~IsListed(id)
    BY <2>2
  <2>3. CASE k # id
    <3>1. k \in Range(keys) \/ ~IsListed(k)
      BY <2>3, <1>4 DEF Collected
    <3>2. \A i \in DOMAIN keys : i \in DOMAIN new /\ new[i] = keys[i]
      BY <1>2
    <3> QED
      BY <3>1, <3>2 DEF Range
  <2> QED
    BY <2>1, <2>2, <2>3
<1>9. limit > 0 => Len(new) < limit
  <2>1. CASE IsListed(id)
    BY <2>1, <1>1, <1>3, <1>2 DEF IndInv, TypeOK
  <2>2. CASE ~IsListed(id)
    BY <2>2 DEF Collected
  <2> QED
    BY <2>1, <2>2
<1> HIDE DEF new
<1>10. /\ \A k : GoodFrom(k, since[t]) <=> GoodFrom(k, since[t])'
       /\ \A k : IsListed(k) <=> IsListed(k)'
  BY DEF GoodFrom, IsListed, IsExpired, Readable
<1>11. todo'[t] \subseteq ids
  BY <1>4 DEF Collected
<1> QED
  BY <1>4, <1>6, <1>7, <1>8, <1>9, <1>10, <1>11 DEF Collected

LEMMA ListSoFarNext ==
    ASSUME IndInv, JudgedInTime, ListSoFar, [Next]_vars
    PROVE  ListSoFar'
<1> SUFFICES ASSUME NEW t \in Threads, pc'[t] = "iterate"
             PROVE  Collected(t)'
  BY DEF ListSoFar
<1>0. TypeOK /\ now \in Nat
  BY ClockType DEF IndInv
<1>f. ASSUME pc[t] = "iterate", UNCHANGED db, now' \in Nat, now' >= now,
             call'[t] = call[t], reply'[t] = reply[t], todo'[t] = todo[t],
             since'[t] = since[t]
      PROVE  Collected(t)'
  BY <1>0, <1>f, CollectedFrame DEF ListSoFar
<1>1. ASSUME NEW u \in Threads, NEW c \in Calls, Enter(u, c)
      PROVE  Collected(t)'
  <2>1. u # t /\ pc[t] = "iterate"
    BY <1>1 DEF Enter, Answer, Goto, IndInv, TypeOK
  <2> QED
    BY <2>1, <1>1, <1>0, <1>f DEF Enter, Answer, Goto, TypeOK
<1>2. ASSUME NEW u \in Threads, u # t, Work(u)
      PROVE  Collected(t)'
  <2>1. pc[t] = "iterate"
    BY <1>2 DEF Work, Lock, Store, Delete, GetMeta, CheckExpiry, GetData, Seek, Iterate,
                Visit, EndIteration, Return, Answer, Goto, IndInv, TypeOK
  <2>2. owner = t /\ pc[u] \notin Critical
    BY <2>1, <1>2, OnlyOneCritical DEF IndInv, MutexProtects, Critical
  <2>3. Return(u)
    BY <2>2, <1>2 DEF Work, Lock, Store, Delete, GetMeta, CheckExpiry, GetData, Seek,
                      Iterate, Critical, IndInv, TypeOK
  <2> QED
    BY <2>1, <2>3, <1>2, <1>0, <1>f DEF Return, TypeOK
<1>3. CASE Work(t)
  <2>1. CASE Seek(t)
    BY <2>1, SeekCollected
  <2>2. CASE Iterate(t)
    <3>1. pc[t] = "iterate" /\ Collected(t)
      BY <2>2 DEF Iterate, ListSoFar
    <3>2. CASE Visit(t)
      BY <2>2, <3>1, <3>2, VisitCollected DEF Iterate
    <3>3. CASE EndIteration(t)
      BY <3>3 DEF EndIteration, Goto, IndInv, TypeOK
    <3> QED
      BY <2>2, <3>2, <3>3 DEF Iterate
  <2>3. CASE Lock(t)
    BY <2>3 DEF Lock, Goto, IndInv, TypeOK, CallFits, Calls, StoreCalls, RetrieveCalls,
                DeleteCalls, ListCalls, WedgedOnlyByExpiry
  <2>4. ~(Store(t) \/ Delete(t) \/ GetMeta(t) \/ CheckExpiry(t) \/ GetData(t) \/ Return(t))
    BY DEF Store, Delete, GetMeta, CheckExpiry, GetData, Return, Answer, Goto,
           IndInv, TypeOK
  <2> QED
    BY <1>3, <2>1, <2>2, <2>3, <2>4 DEF Work
<1>4. CASE Tick
  BY <1>4, <1>0, <1>f DEF Tick, locals
<1>5. CASE Sync
  BY <1>5, <1>0, <1>f DEF Sync, locals
<1>6. CASE Restart
  BY <1>6 DEF Restart
<1>7. CASE UNCHANGED vars
  BY <1>7, <1>0, <1>f DEF vars, locals
<1> QED
  BY <1>1, <1>2, <1>3, <1>4, <1>5, <1>6, <1>7 DEF Next, Call

THEOREM RefInvariance == Spec => []RefInv
<1>1. Init => RefInv
  BY InitInv, InitJudged DEF RefInv
<1>2. RefInv /\ [Next]_vars => RefInv'
  BY NextInv, JudgedNext, ListSoFarNext DEF RefInv
<1> QED
  BY <1>1, <1>2, PTL DEF Spec

(***************************************************************************)
(* A list in progress has collected, in order and below its limit, every   *)
(* key it has passed over that is not expired.                             *)
(***************************************************************************)
THEOREM ListProgress == Spec => []ListSoFar
<1>1. RefInv => ListSoFar
  BY DEF RefInv
<1> QED
  BY <1>1, RefInvariance, PTL
-----------------------------------------------------------------------------
(***************************************************************************)
(* The refinement.  PlainStores is what it needs of the callers: at most   *)
(* one segment per model id, lifetimes that end before the clock wraps.    *)
(***************************************************************************)
PlainStores ==
    /\ IsFiniteSet(CacheIds)
    /\ \A a \in StoreArgs : Len(a.model) <= 1 /\ a.ttl + MaxNow < U64Mod

\* A model id that is not empty has one segment.
LEMMA OneSegment ==
    ASSUME NEW s \in Seq(Segment), s # <<>>, Len(s) <= 1
    PROVE  Len(s) = 1
<1>1. Len(s) \in Nat /\ Len(s) # 0
  BY EmptySeq, LenProperties
<1>2. \A n \in Nat : n # 0 /\ n <= 1 => n = 1
  OBVIOUS
<1> QED
  BY <1>1, <1>2

\* Every record in a database with paired entries parses.
LEMMA PlainParses ==
    ASSUME PlainStores, NEW m \in MetaString, NEW v, OfOneStore(m, v)
    PROVE  Parses(m)
<1>1. PICK a \in StoreArgs, exp \in U64 :
            m = serializeMetadata(a.model, a.seq, a.tok, exp)
  BY DEF OfOneStore
<1>2. /\ a.model \in ModelId /\ a.seq \in U64 /\ a.tok \in U64
      /\ Len(a.model) <= 1
  BY DEF PlainStores
<1>3. a.model # <<>>
  <2>1. SUFFICES ASSUME a.model = <<>> PROVE FALSE
    OBVIOUS
  <2>2. m = <<a.seq, a.tok, exp>>
    BY <1>1, <2>1 DEF serializeMetadata
  <2> QED
    BY <2>2 DEF MetaString
<1>4. Len(a.model) = 1
  <2>1. a.model \in Seq(Segment)
    BY <1>2 DEF ModelId
  <2> QED
    BY <2>1, <1>2, <1>3, OneSegment
<1>5. RoundTrips(a.model, a.seq, a.tok, exp)
  BY <1>2, <1>3, <1>4, RoundTrip
<1> QED
  BY <1>1, <1>5 DEF RoundTrips

LEMMA PlainReadable ==
    ASSUME PlainStores, IndInv, NEW id \in DOMAIN db.meta
    PROVE  Readable(id)
  BY PlainParses DEF IndInv, TypeOK, IsDatabase, IsKeySpace, EntriesPaired, Readable

\* A number below the modulus does not wrap.
LEMMA SmallMod ==
    ASSUME NEW x \in Nat, NEW n \in Nat, x < n
    PROVE  x % n = x
  BY SMTT(30)

\* What a store writes is the entry of the abstract cache.
LEMMA StoredEntry ==
    ASSUME PlainStores, TypeOK, NEW a \in StoreArgs, a.model # <<>>
    PROVE  EntryOf(serializeMetadata(a.model, a.seq, a.tok, ExpirationTime(a.ttl)), a.data)
             = Abs!Entry(a)
<1> DEFINE exp == ExpirationTime(a.ttl)
<1>1. /\ a.model \in ModelId /\ a.seq \in U64 /\ a.tok \in U64 /\ a.ttl \in U64
      /\ Len(a.model) = 1
  <2>1. /\ a.model \in Seq(Segment) /\ a.seq \in U64 /\ a.tok \in U64 /\ a.ttl \in U64
        /\ Len(a.model) <= 1
    BY DEF PlainStores, ModelId
  <2>2. Len(a.model) = 1
    BY <2>1, OneSegment
  <2> QED
    BY <2>1, <2>2 DEF ModelId
<1>2. exp = IF a.ttl = 0 THEN 0 ELSE now + a.ttl
  <2>1. a.ttl \in Nat /\ now \in Nat /\ U64Mod \in Nat /\ now + a.ttl < U64Mod
    BY <1>1, ClockType DEF PlainStores, TypeOK, U64
  <2>2. (now + a.ttl) % U64Mod = now + a.ttl
    BY <2>1, SmallMod
  <2> QED
    BY <2>2 DEF ExpirationTime
<1>3. exp \in U64
  BY <1>1, ExpirationTimeType DEF TypeOK
<1>4. (exp = 0) <=> (a.ttl = 0)
  <2>1. now \in Nat \ {0} /\ a.ttl \in Nat
    BY <1>1, ClockType DEF U64
  <2> QED
    BY <1>2, <2>1
<1> HIDE DEF exp
<1>5. parseMetadata(serializeMetadata(a.model, a.seq, a.tok, exp))
        = [model |-> a.model, seq |-> a.seq, tok |-> a.tok, exp |-> exp]
  BY <1>1, <1>3, RoundTrip DEF RoundTrips
<1>6. EntryOf(serializeMetadata(a.model, a.seq, a.tok, exp), a.data) = Abs!Entry(a)
  BY <1>2, <1>4, <1>5 DEF EntryOf, Abs!Entry
<1> QED
  BY <1>6 DEF exp

LEMMA EntriesOfPut ==
    ASSUME NEW d, IsDatabase(d), DOMAIN d.meta = DOMAIN d.data,
           NEW id \in CacheIds, NEW m \in MetaString, NEW v \in Payloads
    PROVE  Entries(BatchPut(d, id, m, v)) = Bind(Entries(d), id, EntryOf(m, v))
<1> DEFINE e == BatchPut(d, id, m, v)
<1>1. /\ DOMAIN e.meta = DOMAIN d.meta \cup {id}
      /\ e.meta[id] = m /\ e.data[id] = v
      /\ \A i \in DOMAIN d.meta \ {id} : e.meta[i] = d.meta[i] /\ e.data[i] = d.data[i]
  <2>1. DOMAIN e.meta = DOMAIN d.meta \cup {id} /\ e.meta[id] = m /\ e.data[id] = v
    BY BatchPutEffect
  <2>2. /\ \A i \in DOMAIN d.meta \ {id} : e.meta[i] = d.meta[i]
        /\ \A i \in DOMAIN d.data \ {id} : e.data[i] = d.data[i]
    BY DEF BatchPut, Bind
  <2> QED
    BY <2>1, <2>2
<1> HIDE DEF e
<1>2. Entries(e) = Bind(Entries(d), id, EntryOf(m, v))
  BY <1>1 DEF Entries, Bind
<1> QED
  BY <1>2 DEF e

LEMMA EntriesOfDelete ==
    ASSUME NEW d, IsDatabase(d), DOMAIN d.meta = DOMAIN d.data, NEW id
    PROVE  Entries(BatchDelete(d, id)) = Restrict(Entries(d), DOMAIN Entries(d) \ {id})
<1> DEFINE e == BatchDelete(d, id)
<1>1. /\ DOMAIN e.meta = DOMAIN d.meta \ {id}
      /\ \A i \in DOMAIN d.meta \ {id} : e.meta[i] = d.meta[i] /\ e.data[i] = d.data[i]
  BY BatchDeleteEffect
<1> HIDE DEF e
<1>2. Entries(e) = Restrict(Entries(d), DOMAIN Entries(d) \ {id})
  BY <1>1 DEF Entries, Restrict
<1> QED
  BY <1>2 DEF e
-----------------------------------------------------------------------------
(***************************************************************************)
(* Every step of the code is a step of the abstract cache or none.         *)
(***************************************************************************)

(***************************************************************************)
(* The abstract cache speaks of the same calls and results.                *)
(***************************************************************************)
LEMMA SameInterface ==
    /\ Abs!NoReply = NoReply /\ Abs!NoCall = NoCall /\ Abs!NullOpt = NullOpt
    /\ Abs!Calls = Calls
    /\ \A c : Abs!Rejected(c) <=> Rejected(c)
    /\ \A c : Abs!Failure(c) = Failure(c)
    /\ \A b : Abs!Status(b) = Status(b)
    /\ \A v : Abs!Found(v) = Found(v)
    /\ \A s : Abs!Keys(s) = Keys(s)
    /\ \A f, id, v : Abs!Bind(f, id, v) = Bind(f, id, v)
    /\ \A f, S : Abs!Restrict(f, S) = Restrict(f, S)
    /\ \A f : Abs!Range(f) = Range(f)
    /\ \A S : Abs!Cardinality(S) = Cardinality(S)
<1>1. Abs!Calls = Calls
  BY DEF Abs!Calls, Calls, Abs!StoreCalls, StoreCalls, Abs!RetrieveCalls, RetrieveCalls,
         Abs!DeleteCalls, DeleteCalls, Abs!ListCalls, ListCalls, Abs!Ids, Ids,
         Abs!EmptyId, EmptyId
<1>2. /\ \A c : Abs!Rejected(c) <=> Rejected(c)
      /\ \A c : Abs!Failure(c) = Failure(c)
  BY DEF Abs!Rejected, Rejected, Abs!Failure, Failure, Abs!EmptyId, EmptyId,
         Abs!NullOpt, NullOpt, Abs!Status, Status
<1>3. /\ \A f, id, v : Abs!Bind(f, id, v) = Bind(f, id, v)
      /\ \A f, S : Abs!Restrict(f, S) = Restrict(f, S)
      /\ \A f : Abs!Range(f) = Range(f)
  BY DEF Abs!Bind, Bind, Abs!Restrict, Restrict, Abs!Range, Range
<1>4. \A S : Abs!Cardinality(S) = Cardinality(S)
  BY DEF Abs!Cardinality, Cardinality
<1> QED
  BY <1>1, <1>2, <1>3, <1>4
     DEF Abs!NoReply, NoReply, Abs!NoCall, NoCall, Abs!NullOpt, NullOpt,
         Abs!Status, Status, Abs!Found, Found, Abs!Keys, Keys

\* A thread that is about to return has given its answer.
LEMMA AnswerGiven ==
    ASSUME TypeOK, NEW t \in Threads, NEW r, Answer(t, r)
    PROVE  Answers' = [Answers EXCEPT ![t] = r]
  BY DEF TypeOK, Answer, Goto, Answers

\* A thread that moves on inside its operation has not.
LEMMA AnswerNone ==
    ASSUME TypeOK, NEW t \in Threads, NEW l, pc[t] # "return", l # "return", Goto(t, l),
           \E r : reply' = [reply EXCEPT ![t] = r]
    PROVE  Answers' = Answers
  BY DEF TypeOK, Goto, Answers

LEMMA AnswerPending ==
    ASSUME NEW t \in Threads, pc[t] # "return"
    PROVE  Answers[t] = NoReply
  BY DEF Answers

LEMMA InitRefines == Init => Abs!Init
<1> SUFFICES ASSUME Init PROVE Abs!Init
  OBVIOUS
<1>1. Entries(db) = <<>> /\ Entries(synced) = <<>>
  BY DEF Init, EmptyDb, Entries
<1>2. Answers = [t \in Threads |-> NoReply]
  BY DEF Init, Answers
<1> QED
  BY <1>1, <1>2, SameInterface DEF Init, Abs!Init

LEMMA EnterRefines ==
    ASSUME RefInv, NEW t \in Threads, NEW c \in Calls, Enter(t, c)
    PROVE  Abs!Invoke(t, c)
<1>1. pc[t] = "idle" /\ call[t] = NoCall
  BY DEF Enter, RefInv, JudgedInTime
<1>2. Answers' = [Answers EXCEPT ![t] = IF Rejected(c) THEN Failure(c) ELSE NoReply]
  <2>1. CASE Rejected(c)
    BY <2>1, AnswerGiven DEF Enter, RefInv, IndInv
  <2>2. CASE ~Rejected(c)
    BY <2>2, <1>1 DEF Enter, Goto, Answers, RefInv, IndInv, TypeOK
  <2> QED
    BY <2>1, <2>2
<1> QED
  BY <1>1, <1>2, SameInterface DEF Enter, Abs!Invoke

LEMMA ReturnRefines ==
    ASSUME RefInv, NEW t \in Threads, Return(t)
    PROVE  Abs!Return(t)
<1>1. pc[t] = "return" /\ reply[t] # NoReply
  BY DEF Return, RefInv, JudgedInTime
<1>2. Answers[t] # NoReply
  BY <1>1 DEF Answers
<1>3. Answers' = [Answers EXCEPT ![t] = NoReply]
  BY DEF Return, Goto, Answers, RefInv, IndInv, TypeOK
<1> QED
  BY <1>2, <1>3, SameInterface DEF Return, Abs!Return

LEMMA StoreRefines ==
    ASSUME RefInv, PlainStores, NEW t \in Threads, Store(t)
    PROVE  Abs!Perform(t)
<1> DEFINE id == call[t].id
           a  == call[t].args
           m  == serializeMetadata(a.model, a.seq, a.tok, ExpirationTime(a.ttl))
<1>1. pc[t] = "store" /\ call[t] \in StoreCalls /\ ~Rejected(call[t])
  BY DEF Store, RefInv, IndInv, CallFits
<1>2. /\ id \in CacheIds /\ a \in StoreArgs /\ a.model # <<>> /\ call[t].op = "store"
      /\ a.data \in Payloads
  BY <1>1, AcceptedId DEF StoreCalls, Rejected
<1>3. m \in MetaString
  <2>1. /\ a.model \in ModelId /\ a.seq \in U64 /\ a.tok \in U64
        /\ ExpirationTime(a.ttl) \in U64
    BY <1>2, ExpirationTimeType DEF RefInv, IndInv, TypeOK
  <2> QED
    BY <1>2, <2>1, SerializeType
<1>4. EntryOf(m, a.data) = Abs!Entry(a)
  BY <1>2, StoredEntry DEF RefInv, IndInv
<1>5. IsDatabase(db) /\ DOMAIN db.meta = DOMAIN db.data
  BY DEF RefInv, IndInv, TypeOK, EntriesPaired
<1>6. Entries(BatchPut(db, id, m, a.data)) = Bind(Entries(db), id, Abs!Entry(a))
  <2> HIDE DEF id, a, m
  <2> QED
    BY <1>2, <1>3, <1>4, <1>5, EntriesOfPut
<1>7. Abs!Waiting(t, "store")
  BY <1>1, <1>2, AnswerPending, SameInterface DEF Abs!Waiting
<1>8. Abs!PerformStore(t)
  <2>1. CASE db' = BatchPut(db, id, m, a.data) /\ Answer(t, Status(TRUE))
    BY <2>1, <1>6, <1>7, AnswerGiven, SameInterface
       DEF Abs!PerformStore, Abs!Reply, RefInv, IndInv
  <2>2. CASE "write" \in Faults /\ db' = db /\ Answer(t, Status(FALSE))
    BY <2>2, <1>7, AnswerGiven, SameInterface
       DEF Abs!PerformStore, Abs!Reply, RefInv, IndInv
  <2> QED
    BY <2>1, <2>2 DEF Store
<1> QED
  BY <1>8 DEF Store, Abs!Perform

LEMMA DeleteRefines ==
    ASSUME RefInv, NEW t \in Threads, Delete(t)
    PROVE  Abs!Perform(t)
<1> DEFINE id == call[t].id
<1>1. pc[t] = "delete" /\ call[t] \in DeleteCalls /\ call[t].op = "delete"
  BY DEF Delete, RefInv, IndInv, CallFits, DeleteCalls
<1>2. IsDatabase(db) /\ DOMAIN db.meta = DOMAIN db.data
  BY DEF RefInv, IndInv, TypeOK, EntriesPaired
<1>3. Entries(BatchDelete(db, id)) = Restrict(Entries(db), DOMAIN Entries(db) \ {id})
  <2> HIDE DEF id
  <2> QED
    BY <1>2, EntriesOfDelete
<1>4. Abs!Waiting(t, "delete")
  BY <1>1, AnswerPending, SameInterface DEF Abs!Waiting
<1>5. Abs!PerformDelete(t)
  <2>1. CASE db' = BatchDelete(db, id) /\ Answer(t, Status(TRUE))
    BY <2>1, <1>3, <1>4, AnswerGiven, SameInterface
       DEF Abs!PerformDelete, Abs!Reply, RefInv, IndInv
  <2>2. CASE "write" \in Faults /\ db' = db /\ Answer(t, Status(FALSE))
    BY <2>2, <1>4, AnswerGiven, SameInterface
       DEF Abs!PerformDelete, Abs!Reply, RefInv, IndInv
  <2> QED
    BY <1>1, <2>1, <2>2 DEF Delete, Failure
<1> QED
  BY <1>5 DEF Delete, Abs!Perform

\* An entry of the abstract cache is good as long as its record says.
LEMMA GoodMeans ==
    ASSUME NEW id \in DOMAIN db.meta, NEW time
    PROVE  LET exp == parseMetadata(db.meta[id]).exp
           IN  Abs!GoodAt(Entries(db)[id], time) <=> exp = 0 \/ time <= exp
  BY DEF Abs!GoodAt, Entries, EntryOf

\* A step inside an operation that leaves the database alone is no step.
LEMMA InnerStep ==
    ASSUME UNCHANGED <<db, synced, now, call, since, crashes>>, Answers' = Answers
    PROVE  UNCHANGED Abs!vars
  BY DEF Abs!vars

LEMMA GetMetaRefines ==
    ASSUME RefInv, PlainStores, NEW t \in Threads, GetMeta(t)
    PROVE  Abs!Perform(t) \/ UNCHANGED Abs!vars
<1> DEFINE id == call[t].id
<1>0. TypeOK /\ pc[t] = "retrieve" /\ call[t] \in RetrieveCalls
  BY DEF GetMeta, RefInv, IndInv, CallFits
<1>1. CASE /\ Readable(id) /\ Goto(t, "expiry") /\ UNCHANGED reply
  <2>1. reply' = [reply EXCEPT ![t] = reply[t]]
    BY <1>0, <1>1 DEF TypeOK
  <2>2. Answers' = Answers
    BY <1>0, <1>1, <2>1, AnswerNone
  <2> QED
    BY <2>2, InnerStep DEF GetMeta
<1>2. CASE /\ ~Readable(id) \/ "read" \in Faults
           /\ Answer(t, NullOpt)
  <2>1. id \notin DOMAIN db.meta \/ "read" \in Faults
    BY <1>2, PlainReadable DEF RefInv
  <2>2. Abs!Waiting(t, "retrieve")
    BY <1>0, AnswerPending, SameInterface DEF Abs!Waiting, RetrieveCalls
  <2>3. Answers' = [Answers EXCEPT ![t] = NullOpt]
    BY <1>0, <1>2, AnswerGiven
  <2>4. Abs!PerformRetrieve(t)
    BY <2>1, <2>2, <2>3, SameInterface DEF GetMeta, Abs!PerformRetrieve, Abs!Reply, Entries
  <2> QED
    BY <2>4 DEF GetMeta, Abs!Perform
<1> QED
  BY <1>1, <1>2 DEF GetMeta

LEMMA GetDataRefines ==
    ASSUME RefInv, PlainStores, NEW t \in Threads, GetData(t)
    PROVE  Abs!Perform(t)
<1> DEFINE id == call[t].id
           p  == parsed[t]
           v  == [model |-> p.model, seq |-> p.seq, tok |-> p.tok, data |-> db.data[id]]
<1>0. TypeOK /\ pc[t] = "data" /\ call[t] \in RetrieveCalls
  BY DEF GetData, RefInv, IndInv, CallFits
<1>1. id \in DOMAIN db.meta /\ DOMAIN db.data = DOMAIN db.meta
      /\ p = parseMetadata(db.meta[id])
  BY <1>0 DEF RefInv, IndInv, ParsedIsCurrent, EntriesPaired
<1>2. Abs!GoodAt(Entries(db)[id], since[t])
  BY <1>0, <1>1, GoodMeans DEF RefInv, JudgedInTime
<1>3. Abs!Value(Entries(db)[id]) = v
  BY <1>1 DEF Abs!Value, Entries, EntryOf
<1>4. Abs!Waiting(t, "retrieve")
  BY <1>0, AnswerPending, SameInterface DEF Abs!Waiting, RetrieveCalls
<1>5. CASE Answer(t, Found(v))
  <2>1. Answers' = [Answers EXCEPT ![t] = Found(Abs!Value(Entries(db)[id]))]
    BY <1>0, <1>3, <1>5, AnswerGiven
  <2>2. id \in DOMAIN Entries(db)
    BY <1>1 DEF Entries
  <2>3. Abs!PerformRetrieve(t)
    BY <1>2, <1>4, <2>1, <2>2, SameInterface
       DEF GetData, Abs!PerformRetrieve, Abs!Reply
  <2> QED
    BY <2>3 DEF GetData, Abs!Perform
<1>6. CASE "read" \in Faults /\ Answer(t, NullOpt)
  <2>1. Answers' = [Answers EXCEPT ![t] = NullOpt]
    BY <1>0, <1>6, AnswerGiven
  <2>2. Abs!PerformRetrieve(t)
    BY <1>4, <1>6, <2>1, SameInterface DEF GetData, Abs!PerformRetrieve, Abs!Reply
  <2> QED
    BY <2>2 DEF GetData, Abs!Perform
<1> QED
  BY <1>1, <1>5, <1>6 DEF GetData

\* Waiting for the mutex, comparing times and seeking are invisible.
LEMMA LockRefines ==
    ASSUME RefInv, NEW t \in Threads, Lock(t) \/ CheckExpiry(t) \/ Seek(t)
    PROVE  UNCHANGED Abs!vars
<1>0. TypeOK /\ reply' = [reply EXCEPT ![t] = reply'[t]]
  BY DEF Lock, CheckExpiry, Seek, locals, RefInv, IndInv, TypeOK
<1>1. ASSUME NEW l, pc[t] # "return", l # "return", Goto(t, l)
      PROVE  Answers' = Answers
  BY <1>0, <1>1, AnswerNone
<1>2. CASE Lock(t)
  <2>1. call[t].op # "return"
    BY <1>2 DEF Lock, RefInv, IndInv, CallFits, WedgedOnlyByExpiry, Calls, StoreCalls,
                RetrieveCalls, DeleteCalls, ListCalls
  <2>2. Answers' = Answers
    BY <1>1, <1>2, <2>1 DEF Lock
  <2> QED
    BY <1>2, <2>2, InnerStep DEF Lock, locals
<1>3. CASE CheckExpiry(t)
  BY <1>1, <1>3, InnerStep DEF CheckExpiry, locals
<1>4. CASE Seek(t)
  BY <1>1, <1>4, InnerStep DEF Seek
<1> QED
  BY <1>2, <1>3, <1>4

\* A strictly ascending sequence over a finite set is no longer than the set.
LEMMA AscendingLength ==
    ASSUME NEW S, IsFiniteSet(S), S \subseteq Nat, NEW s \in Seq(S),
           \A i, j \in DOMAIN s : i < j => s[i] < s[j]
    PROVE  /\ Cardinality(S) \in Nat
           /\ Len(s) \in 0 .. Cardinality(S)
           /\ s \in [1 .. Len(s) -> S]
<1>1. /\ Len(s) \in Nat /\ DOMAIN s = 1 .. Len(s)
      /\ s \in [1 .. Len(s) -> S]
  BY LenProperties
<1>2. s \in Injection(1 .. Len(s), S)
  <2>1. ASSUME NEW i \in 1 .. Len(s), NEW j \in 1 .. Len(s), s[i] = s[j], i # j
        PROVE  FALSE
    <3>1. s[i] \in Nat /\ s[j] \in Nat
      BY <1>1
    <3>2. i < j \/ j < i
      BY <2>1, <1>1
    <3> QED
      BY <2>1, <3>1, <3>2, <1>1
  <2> QED
    BY <1>1, <2>1 DEF Injection, IsInjective
<1>3. Cardinality(1 .. Len(s)) <= Cardinality(S)
  BY <1>2, FS_Injection
<1>4. Cardinality(1 .. Len(s)) = Len(s)
  <2>1. \A n \in Nat : Cardinality(1 .. n) = n
    <3>1. ASSUME NEW n \in Nat PROVE Cardinality(1 .. n) = IF 1 > n THEN 0 ELSE n - 1 + 1
      BY <3>1, FS_Interval
    <3> QED
      BY <3>1
  <2> QED
    BY <1>1, <2>1
<1>5. Cardinality(S) \in Nat
  BY FS_CardinalityType
<1> QED
  BY <1>1, <1>3, <1>4, <1>5

(***************************************************************************)
(* What the loop returns is a listing the abstract cache allows.           *)
(***************************************************************************)
LEMMA ListReply ==
    ASSUME RefInv, PlainStores, NEW t \in Threads, pc[t] = "iterate",
           NEW s \in Seq(CacheIds), Answer(t, Keys(s)),
           UNCHANGED <<db, synced, now, call, since, crashes>>,
           \A i, j \in DOMAIN s : i < j => s[i] < s[j],
           \A i \in DOMAIN s : s[i] \in call[t].ids \cap DOMAIN db.meta
                               /\ GoodFrom(s[i], since[t]),
           call[t].limit > 0 => Len(s) <= call[t].limit,
           \A id \in call[t].ids \cap DOMAIN db.meta :
              \/ id \in Range(s) \/ ~IsListed(id)
              \/ "iterate" \in Faults /\ \A i \in DOMAIN s : s[i] < id
              \/ call[t].limit > 0 /\ Len(s) = call[t].limit /\ s[call[t].limit] < id
    PROVE  Abs!Perform(t)
<1> DEFINE ids   == call[t].ids
           limit == call[t].limit
           maybe == Abs!GoodIds(ids, since[t])
           sure  == Abs!GoodIds(ids, now)
<1>0. /\ TypeOK /\ call[t] \in ListCalls
      /\ \A id \in DOMAIN db.meta : Readable(id)
  BY PlainReadable DEF RefInv, IndInv, CallFits
<1>1. \A id \in ids \cap DOMAIN db.meta : GoodFrom(id, since[t]) => id \in maybe
  BY <1>0, GoodMeans DEF GoodFrom, Abs!GoodIds, Entries
<1>2. \A id \in sure : id \in ids \cap DOMAIN db.meta /\ IsListed(id)
  <2>1. ASSUME NEW id \in sure
        PROVE  id \in ids \cap DOMAIN db.meta /\ IsListed(id)
    <3>1. id \in ids \cap DOMAIN db.meta /\ Abs!GoodAt(Entries(db)[id], now)
      BY <2>1 DEF Abs!GoodIds, Entries
    <3>2. parseMetadata(db.meta[id]).exp \in Nat /\ now \in Nat
      BY <3>1, <1>0, ExpType, ClockType
    <3>3. \/ parseMetadata(db.meta[id]).exp = 0
          \/ now <= parseMetadata(db.meta[id]).exp
      BY <3>1, GoodMeans
    <3>4. ~IsExpired(parseMetadata(db.meta[id]).exp)
      BY <3>2, <3>3 DEF IsExpired
    <3> QED
      BY <3>1, <3>4 DEF IsListed
  <2> QED
    BY <2>1
<1>3. maybe \subseteq CacheIds
  BY DEF Abs!GoodIds, Entries, RefInv, IndInv, TypeOK, IsDatabase, IsKeySpace
<1> HIDE DEF maybe, sure
<1>4. s \in Seq(maybe)
  <2>1. Len(s) \in Nat /\ DOMAIN s = 1 .. Len(s) /\ \A i \in 1 .. Len(s) : s[i] \in maybe
    BY <1>1, LenProperties
  <2> QED
    BY <2>1, SeqDef
<1>5. IsFiniteSet(maybe)
  BY <1>3, FS_Subset DEF PlainStores
<1>6. Len(s) \in 0 .. Cardinality(maybe) /\ s \in [1 .. Len(s) -> maybe]
  BY <1>3, <1>4, <1>5, AscendingLength
<1>7. Abs!Ascending(s)
  BY DEF Abs!Ascending
<1>8. s \in Abs!Listings(ids, limit, since[t])
  BY <1>2, <1>6, <1>7, SameInterface DEF maybe, sure, Abs!Listings
<1>9. Abs!Waiting(t, "list")
  BY <1>0, AnswerPending, SameInterface DEF Abs!Waiting, ListCalls
<1>10. Answers' = [Answers EXCEPT ![t] = Keys(s)]
  BY <1>0, AnswerGiven
<1>11. Abs!PerformList(t)
  BY <1>8, <1>9, <1>10, SameInterface DEF Abs!PerformList, Abs!Reply
<1> QED
  BY <1>11 DEF Abs!Perform

LEMMA IterateRefines ==
    ASSUME RefInv, PlainStores, NEW t \in Threads, Iterate(t)
    PROVE  Abs!Perform(t) \/ UNCHANGED Abs!vars
<1> DEFINE ids   == call[t].ids \cap DOMAIN db.meta
           keys  == reply[t].keys
           limit == call[t].limit
<1>0. /\ TypeOK /\ pc[t] = "iterate" /\ call[t] \in ListCalls /\ Collected(t)
      /\ reply[t] \in [keys : Seq(CacheIds)]
      /\ UNCHANGED <<db, synced, now, call, since, crashes>>
  BY DEF Iterate, RefInv, IndInv, CallFits, ListSoFar
<1>1. /\ keys \in Seq(CacheIds) /\ reply[t] = Keys(keys) /\ limit \in Int
      /\ Len(keys) \in Nat
  <2>1. PICK k \in Seq(CacheIds) : reply[t] = [keys |-> k]
    BY <1>0
  <2>2. keys = k
    BY <2>1
  <2>3. limit \in Int
    BY <1>0 DEF ListCalls
  <2>4. Len(k) \in Nat
    BY LenProperties
  <2> QED
    BY <2>1, <2>2, <2>3, <2>4 DEF Keys
<1>2. ASSUME NEW l, l # "return", Goto(t, l), NEW r, reply' = [reply EXCEPT ![t] = r]
      PROVE  UNCHANGED Abs!vars
  <2>1. Answers' = Answers
    BY <1>0, <1>2, AnswerNone
  <2> QED
    BY <1>0, <2>1, InnerStep
<1>3. CASE EndIteration(t)
  <2>1. Answer(t, Keys(keys))
    BY <1>0, <1>1, <1>3 DEF EndIteration, Answer, TypeOK
  <2>2. \A id \in ids : \/ id \in Range(keys) \/ ~IsListed(id)
                        \/ "iterate" \in Faults /\ \A i \in DOMAIN keys : keys[i] < id
    BY <1>0, <1>3 DEF EndIteration, Collected
  <2>3. limit > 0 => Len(keys) <= limit
    BY <1>0, <1>1 DEF Collected
  <2>4. /\ \A i, j \in DOMAIN keys : i < j => keys[i] < keys[j]
        /\ \A i \in DOMAIN keys : keys[i] \in ids /\ GoodFrom(keys[i], since[t])
    BY <1>0 DEF Collected
  <2> QED
    BY <1>0, <1>1, <2>1, <2>2, <2>3, <2>4, ListReply
<1>4. CASE Visit(t)
  <2>1. PICK id \in todo[t] :
          LET new == IF IsListed(id) THEN Append(keys, id) ELSE keys
          IN  /\ \A other \in todo[t] : id <= other
              /\ reply' = [reply EXCEPT ![t] = Keys(new)]
              /\ Goto(t, IF IsListed(id) /\ limit > 0 /\ Len(new) >= limit
                         THEN "return" ELSE "iterate")
    BY <1>4 DEF Visit
  <2> DEFINE new == Append(keys, id)
  <2>2. CASE ~(IsListed(id) /\ limit > 0 /\ Len(new) >= limit)
    BY <2>1, <2>2, <1>2
  <2>3. CASE IsListed(id) /\ limit > 0 /\ Len(new) >= limit
    <3>1. Answer(t, Keys(new))
      BY <2>1, <2>3 DEF Answer
    <3>2. /\ id \in ids /\ id \in CacheIds /\ todo[t] \subseteq CacheIds
          /\ CacheIds \subseteq Nat
      BY <1>0, <2>1 DEF Collected, TypeOK, IsDatabase, IsKeySpace
    <3>3. /\ new \in Seq(CacheIds) /\ Len(new) = Len(keys) + 1
          /\ DOMAIN new = 1 .. Len(keys) + 1 /\ DOMAIN keys = 1 .. Len(keys)
          /\ new[Len(keys) + 1] = id
          /\ \A i \in DOMAIN keys : new[i] = keys[i]
      BY <1>1, <3>2
    <3>4. Len(new) = limit /\ new[limit] = id
      BY <1>0, <1>1, <2>3, <3>3 DEF Collected
    <3> HIDE DEF new
    <3>5. \A i, j \in DOMAIN new : i < j => new[i] < new[j]
      <4>1. ASSUME NEW i \in DOMAIN new, NEW j \in DOMAIN new, i < j
            PROVE  new[i] < new[j]
        <5>1. i \in DOMAIN keys /\ (j = Len(keys) + 1 \/ j \in DOMAIN keys)
          BY <4>1, <1>1, <3>3
        <5>2. /\ \A k \in DOMAIN keys : keys[k] < id
              /\ \A k, l \in DOMAIN keys : k < l => keys[k] < keys[l]
          BY <1>0, <2>1 DEF Collected
        <5> QED
          BY <4>1, <5>1, <5>2, <3>3
      <4> QED
        BY <4>1
    <3>6. GoodFrom(id, since[t])
      <4>1. Readable(id) => parseMetadata(db.meta[id]).exp \in Nat
        BY ExpType
      <4>2. since[t] \in Nat /\ now \in Nat /\ since[t] <= now
        BY ClockType DEF RefInv, IndInv, JudgedInTime
      <4> QED
        BY <2>3, <4>1, <4>2 DEF GoodFrom, IsListed, IsExpired
    <3>7. \A i \in DOMAIN new : new[i] \in ids /\ GoodFrom(new[i], since[t])
      <4>1. ASSUME NEW i \in DOMAIN new
            PROVE  new[i] \in ids /\ GoodFrom(new[i], since[t])
        <5>1. i = Len(keys) + 1 \/ i \in DOMAIN keys
          BY <1>1, <3>3
        <5> QED
          BY <5>1, <1>0, <3>2, <3>3, <3>6 DEF Collected
      <4> QED
        BY <4>1
    <3>8. \A k \in ids : \/ k \in Range(new) \/ ~IsListed(k)
                         \/ limit > 0 /\ Len(new) = limit /\ new[limit] < k
      <4>1. ASSUME NEW k \in ids
            PROVE  \/ k \in Range(new) \/ ~IsListed(k)
                   \/ limit > 0 /\ Len(new) = limit /\ new[limit] < k
        <5>1. CASE k \in todo[t]
          <6>1. k = id \/ id < k
            <7>1. k \in Nat /\ id \in Nat
              BY <3>2, <5>1
            <7>2. id <= k
              BY <2>1, <5>1
            <7> QED
              BY <7>1, <7>2
          <6>2. id \in Range(new)
            BY <1>1, <3>3 DEF Range
          <6> QED
            BY <6>1, <6>2, <3>4, <2>3
        <5>2. CASE k \notin todo[t]
          <6>1. k \in Range(keys) \/ ~IsListed(k)
            BY <1>0, <5>2 DEF Collected
          <6>2. k \in Range(keys) => k \in Range(new)
            BY <1>1, <3>3 DEF Range
          <6> QED
            BY <6>1, <6>2
        <5> QED
          BY <5>1, <5>2
      <4> QED
        BY <4>1
    <3>9. limit > 0 => Len(new) <= limit
      BY <1>1, <3>4
    <3> QED
      BY <1>0, <3>1, <3>3, <3>5, <3>7, <3>8, <3>9, ListReply
  <2> QED
    BY <2>2, <2>3
<1> QED
  BY <1>3, <1>4 DEF Iterate

LEMMA NextRefines ==
    ASSUME RefInv, PlainStores, [Next]_vars
    PROVE  [Abs!Next]_(Abs!vars)
<1>1. ASSUME NEW t \in Threads, NEW c \in Calls, Enter(t, c)
      PROVE  Abs!Next
  BY <1>1, EnterRefines, SameInterface DEF Abs!Next
<1>2. ASSUME NEW t \in Threads, Work(t)
      PROVE  Abs!Perform(t) \/ Abs!Return(t) \/ UNCHANGED Abs!vars
  BY <1>2, LockRefines, StoreRefines, DeleteRefines, GetMetaRefines, GetDataRefines,
     IterateRefines, ReturnRefines DEF Work
<1>3. CASE Tick
  <2>1. UNCHANGED Answers
    BY <1>3 DEF Tick, locals, Answers
  <2>2. Abs!Tick
    BY <1>3, <2>1 DEF Tick, locals, Abs!Tick
  <2> QED
    BY <2>2 DEF Abs!Next
<1>4. CASE Sync
  <2>1. UNCHANGED Answers
    BY <1>4 DEF Sync, locals, Answers
  <2>2. Abs!Sync
    BY <1>4, <2>1 DEF Sync, locals, Abs!Sync
  <2> QED
    BY <2>2 DEF Abs!Next
<1>5. CASE Restart
  <2>1. Answers' = [t \in Threads |-> NoReply]
    BY <1>5 DEF Restart, Answers
  <2>2. Abs!Restart
    BY <1>5, <2>1, SameInterface DEF Restart, Abs!Restart
  <2> QED
    BY <2>2 DEF Abs!Next
<1>6. CASE UNCHANGED vars
  BY <1>6 DEF vars, locals, Abs!vars, Answers
<1> QED
  BY <1>1, <1>2, <1>3, <1>4, <1>5, <1>6 DEF Next, Call, Abs!Next

(***************************************************************************)
(* The code of rocksdb_kvcache.cpp implements the abstract cache: every    *)
(* operation is atomic, a retrieve returns what was stored last or         *)
(* nothing, lists are complete and ordered, also across restarts.          *)
(***************************************************************************)
THEOREM Refinement ==
    ASSUME PlainStores
    PROVE  Spec => ImplementsKVCache
<1>1. RefInv /\ [Next]_vars => [Abs!Next]_(Abs!vars)
  BY NextRefines
<1> QED
  BY <1>1, InitRefines, RefInvariance, PTL DEF Spec, ImplementsKVCache, Abs!Spec
=============================================================================
