--------------------------- MODULE RocksDbKVCache ---------------------------
(***************************************************************************)
(* src/src/storage/rocksdb_kvcache.cpp: the RocksDB implementation of      *)
(* KVCacheInterface.  Any number of threads call the four operations; each *)
(* operation takes the object's one non-recursive std::mutex and works on  *)
(* the database in several steps, between which other threads, the clock   *)
(* and a crash may move.                                                   *)
(***************************************************************************)
EXTENDS KVCacheInterface, Functions

CONSTANTS
    NoThread,    \* the mutex is free
    MaxNow,      \* bound: the clock stops here
    MaxCrashes   \* bound: number of restarts

ASSUME RocksDbAssumption ==
    /\ NoThread \notin Threads
    /\ MaxNow \in U64 \ {0}
    /\ MaxCrashes \in Nat

VARIABLES
    db,      \* what db_ answers: the "meta:" keys and the "data:" keys
    synced,  \* a state of db the operating system has written to disk
    now,     \* system_clock in seconds
    owner,   \* the thread that holds mutex_
    pc,      \* where each thread is in the operation it executes
    call,    \* the call each thread executes
    reply,   \* what each thread's operation returns
    parsed,  \* retrieve: the metadata parsed from the record it read
    todo,    \* list: the ids its iterator has still to visit
    since,   \* history: the time at which each thread made its call
    crashes  \* number of restarts so far

locals == <<call, reply, parsed, todo, since>>
vars   == <<db, synced, now, owner, pc, locals, crashes>>

NoMeta  == [model |-> <<>>, seq |-> 0, tok |-> 0, exp |-> 0]
EmptyDb == [meta |-> <<>>, data |-> <<>>]

Init ==
    /\ db = EmptyDb /\ synced = EmptyDb
    /\ now = 1
    /\ owner = NoThread
    /\ pc = [t \in Threads |-> "idle"]
    /\ call = [t \in Threads |-> NoCall]
    /\ reply = [t \in Threads |-> NoReply]
    /\ parsed = [t \in Threads |-> NoMeta]
    /\ todo = [t \in Threads |-> {}]
    /\ since = [t \in Threads |-> 0]
    /\ crashes = 0
-----------------------------------------------------------------------------
(***************************************************************************)
(* RocksDB as the code uses it.  A WriteBatch is applied as a whole; a     *)
(* failed Write applies nothing.                                           *)
(***************************************************************************)
\* Mutant of BatchPut: the data key is forgotten.
BatchPutMetaOnly(d, id, m, v) == [d EXCEPT !.meta = Bind(d.meta, id, m)]

BatchPut(d, id, m, v) == [meta |-> Bind(d.meta, id, m),
                          data |-> Bind(d.data, id, v)]

BatchDelete(d, id) == [meta |-> Restrict(d.meta, DOMAIN d.meta \ {id}),
                       data |-> Restrict(d.data, DOMAIN d.data \ {id})]

\* 0 means the entry never expires; the sum is a uint64_t.
ExpirationTime(ttl) == IF ttl = 0 THEN 0 ELSE (now + ttl) % U64Mod

\* Mutant of IsExpired: an entry expires a second early.
IsExpiredEarly(exp) == exp > 0 /\ now >= exp

IsExpired(exp) == exp > 0 /\ now > exp
-----------------------------------------------------------------------------
Goto(t, label) == pc' = [pc EXCEPT ![t] = label]

Answer(t, r) == reply' = [reply EXCEPT ![t] = r] /\ Goto(t, "return")

\* Mutant of Enter: a store without a model id is let through.
EnterUnchecked(t, c) ==
    /\ pc[t] = "idle"
    /\ call' = [call EXCEPT ![t] = c]
    /\ since' = [since EXCEPT ![t] = now]
    /\ IF c.op # "list" /\ c.id = EmptyId
       THEN Answer(t, Failure(c))
       ELSE Goto(t, "lock") /\ UNCHANGED reply
    /\ UNCHANGED <<db, synced, now, owner, parsed, todo, crashes>>

(***************************************************************************)
(* A thread enters an operation.  Bad arguments are refused before the     *)
(* lock is taken.                                                          *)
(***************************************************************************)
Enter(t, c) ==
    /\ pc[t] = "idle"
    /\ call' = [call EXCEPT ![t] = c]
    /\ since' = [since EXCEPT ![t] = now]
    /\ IF Rejected(c)
       THEN Answer(t, Failure(c))
       ELSE Goto(t, "lock") /\ UNCHANGED reply
    /\ UNCHANGED <<db, synced, now, owner, parsed, todo, crashes>>

Call(t) == \E c \in Calls : Enter(t, c)

\* Mutants of Lock: no mutual exclusion; a recursive mutex.
LockAnyway(t) ==
    /\ pc[t] \in {"lock", "relock"}
    /\ owner' = t
    /\ Goto(t, IF pc[t] = "relock" THEN "delete" ELSE call[t].op)
    /\ UNCHANGED <<db, synced, now, locals, crashes>>

LockRecursive(t) == owner \in {NoThread, t} /\ LockAnyway(t)

(***************************************************************************)
(* std::lock_guard: waits until the mutex is free.  A retrieve that found  *)
(* its entry expired waits here too ("relock"), inside deleteKVCache, with *)
(* the mutex already its own.                                              *)
(***************************************************************************)
Lock(t) ==
    /\ pc[t] \in {"lock", "relock"}
    /\ owner = NoThread
    /\ owner' = t
    /\ Goto(t, IF pc[t] = "relock" THEN "delete" ELSE call[t].op)
    /\ UNCHANGED <<db, synced, now, locals, crashes>>

\* Mutant of Store: the status of the write is ignored.
StoreIgnoringStatus(t) ==
    LET a == call[t].args
        m == serializeMetadata(a.model, a.seq, a.tok, ExpirationTime(a.ttl))
    IN  /\ pc[t] = "store"
        /\ \/ db' = BatchPut(db, call[t].id, m, a.data)
           \/ "write" \in Faults /\ db' = db
        /\ Answer(t, Status(TRUE))
        /\ UNCHANGED <<synced, now, owner, call, parsed, todo, since, crashes>>

\* storeKVCache under the lock: read the clock, write both keys in a batch.
Store(t) ==
    LET id == call[t].id
        a  == call[t].args
        m  == serializeMetadata(a.model, a.seq, a.tok, ExpirationTime(a.ttl))
        d  == BatchPut(db, id, m, a.data)
    IN  /\ pc[t] = "store"
        /\ \/ db' = d /\ Answer(t, Status(TRUE))
           \/ "write" \in Faults /\ db' = db /\ Answer(t, Status(FALSE))
        /\ UNCHANGED <<synced, now, owner, call, parsed, todo, since, crashes>>

\* deleteKVCache under the lock: both keys go in one batch, present or not.
Delete(t) ==
    /\ pc[t] = "delete"
    /\ \/ /\ db' = BatchDelete(db, call[t].id)
          /\ Answer(t, IF call[t].op = "delete" THEN Status(TRUE) ELSE NullOpt)
       \/ /\ "write" \in Faults
          /\ db' = db
          /\ Answer(t, Failure(call[t]))
    /\ UNCHANGED <<synced, now, owner, call, parsed, todo, since, crashes>>

(***************************************************************************)
(* retrieveKVCache under the lock: read and parse the metadata, compare    *)
(* its expiration time with the clock, then read the data.                 *)
(***************************************************************************)
Readable(id) == id \in DOMAIN db.meta /\ Parses(db.meta[id])

GetMeta(t) ==
    LET id == call[t].id IN
    /\ pc[t] = "retrieve"
    /\ \/ /\ Readable(id)
          /\ parsed' = [parsed EXCEPT ![t] = parseMetadata(db.meta[id])]
          /\ Goto(t, "expiry")
          /\ UNCHANGED reply
       \/ /\ ~Readable(id) \/ "read" \in Faults
          /\ Answer(t, NullOpt)
          /\ UNCHANGED parsed
    /\ UNCHANGED <<db, synced, now, owner, call, todo, since, crashes>>

\* Mutant of CheckExpiry: the lock is released before the data is read.
CheckExpiryUnlocks(t) ==
    /\ pc[t] = "expiry"
    /\ owner' = NoThread
    /\ Goto(t, IF IsExpired(parsed[t].exp) THEN "relock" ELSE "data")
    /\ UNCHANGED <<db, synced, now, locals, crashes>>

CheckExpiry(t) ==
    /\ pc[t] = "expiry"
    /\ Goto(t, IF IsExpired(parsed[t].exp) THEN "relock" ELSE "data")
    /\ UNCHANGED <<db, synced, now, owner, locals, crashes>>

GetData(t) ==
    LET id == call[t].id
        p  == parsed[t]
    IN  /\ pc[t] = "data"
        /\ \/ /\ id \in DOMAIN db.data
              /\ Answer(t, Found([model |-> p.model, seq |-> p.seq,
                                  tok |-> p.tok, data |-> db.data[id]]))
           \/ /\ id \notin DOMAIN db.data \/ "read" \in Faults
              /\ Answer(t, NullOpt)
        /\ UNCHANGED <<db, synced, now, owner, call, parsed, todo, since,
                       crashes>>
-----------------------------------------------------------------------------
(***************************************************************************)
(* listKVCacheKeys under the lock: seek to the prefix, then visit the keys *)
(* in order, reading the clock for each of them.  A record that does not   *)
(* parse is listed.  An iterator error ends the loop and is only logged.   *)
(***************************************************************************)
Seek(t) ==
    /\ pc[t] = "list"
    /\ todo' = [todo EXCEPT ![t] = call[t].ids \cap DOMAIN db.meta]
    /\ reply' = [reply EXCEPT ![t] = Keys(<<>>)]
    /\ Goto(t, "iterate")
    /\ UNCHANGED <<db, synced, now, owner, call, parsed, since, crashes>>

\* Mutant of IsListed: expired entries are not filtered out.
IsListedAlways(id) == id \in CacheIds

IsListed(id) == Readable(id) => ~IsExpired(parseMetadata(db.meta[id]).exp)

\* Mutant of Visit: the limit is exceeded by one.
VisitOverLimit(t) ==
    \E id \in todo[t] :
      LET keys == IF IsListed(id) THEN Append(reply[t].keys, id) ELSE reply[t].keys
      IN  /\ \A other \in todo[t] : id <= other
          /\ todo' = [todo EXCEPT ![t] = @ \ {id}]
          /\ reply' = [reply EXCEPT ![t] = Keys(keys)]
          /\ Goto(t, IF call[t].limit > 0 /\ Len(keys) > call[t].limit
                     THEN "return" ELSE "iterate")

Visit(t) ==
    \E id \in todo[t] :
      LET limit == call[t].limit
          keys  == IF IsListed(id) THEN Append(reply[t].keys, id)
                                   ELSE reply[t].keys
      IN  /\ \A other \in todo[t] : id <= other
          /\ todo' = [todo EXCEPT ![t] = @ \ {id}]
          /\ reply' = [reply EXCEPT ![t] = Keys(keys)]
          /\ Goto(t, IF IsListed(id) /\ limit > 0 /\ Len(keys) >= limit
                     THEN "return" ELSE "iterate")

\* Mutant of EndIteration: the loop starts over.
EndIterationRestarts(t) ==
    /\ todo[t] = {} \/ "iterate" \in Faults
    /\ Goto(t, "list")
    /\ UNCHANGED <<todo, reply>>

EndIteration(t) ==
    /\ todo[t] = {} \/ "iterate" \in Faults
    /\ Goto(t, "return")
    /\ UNCHANGED <<todo, reply>>

Iterate(t) ==
    /\ pc[t] = "iterate"
    /\ Visit(t) \/ EndIteration(t)
    /\ UNCHANGED <<db, synced, now, owner, call, parsed, since, crashes>>
-----------------------------------------------------------------------------
\* The operation returns; its lock_guard, if it got that far, unlocks.
Return(t) ==
    /\ pc[t] = "return"
    /\ owner' = IF owner = t THEN NoThread ELSE owner
    /\ Goto(t, "idle")
    /\ call' = [call EXCEPT ![t] = NoCall]
    /\ reply' = [reply EXCEPT ![t] = NoReply]
    /\ parsed' = [parsed EXCEPT ![t] = NoMeta]
    /\ todo' = [todo EXCEPT ![t] = {}]
    /\ since' = [since EXCEPT ![t] = 0]
    /\ UNCHANGED <<db, synced, now, crashes>>

\* Every step of an operation that a thread has entered.
Work(t) == \/ Lock(t) \/ Store(t) \/ Delete(t)
           \/ GetMeta(t) \/ CheckExpiry(t) \/ GetData(t)
           \/ Seek(t) \/ Iterate(t) \/ Return(t)
-----------------------------------------------------------------------------
\* The system clock advances by a second.
Tick ==
    /\ now < MaxNow
    /\ now' = now + 1
    /\ UNCHANGED <<db, synced, owner, pc, locals, crashes>>

\* WriteOptions() has sync = false: the log reaches the disk later.
Sync ==
    /\ crashes < MaxCrashes
    /\ synced' = db
    /\ UNCHANGED <<db, now, owner, pc, locals, crashes>>

(***************************************************************************)
(* The process ends and the constructor opens the database again.  When    *)
(* only the process died the database is as it was; when the machine did,  *)
(* it is as last synced.  Threads and the mutex are gone.                  *)
(***************************************************************************)
Restart ==
    /\ crashes < MaxCrashes
    /\ crashes' = crashes + 1
    /\ db' \in {db, synced}
    /\ synced' = db'
    /\ owner' = NoThread
    /\ pc' = [t \in Threads |-> "idle"]
    /\ call' = [t \in Threads |-> NoCall]
    /\ reply' = [t \in Threads |-> NoReply]
    /\ parsed' = [t \in Threads |-> NoMeta]
    /\ todo' = [t \in Threads |-> {}]
    /\ since' = [t \in Threads |-> 0]
    /\ UNCHANGED now

Next == \/ \E t \in Threads : Call(t) \/ Work(t)
        \/ Tick \/ Sync \/ Restart

Spec     == Init /\ [][Next]_vars
FairSpec == Spec /\ \A t \in Threads : WF_vars(Work(t))
-----------------------------------------------------------------------------
\* A function from the ids that have a key of this kind.
IsKeySpace(f, S) == DOMAIN f \subseteq CacheIds /\ f \in [DOMAIN f -> S]

IsDatabase(d) == /\ d = [meta |-> d.meta, data |-> d.data]
                 /\ IsKeySpace(d.meta, MetaString)
                 /\ IsKeySpace(d.data, Payloads)

Labels == {"idle", "lock", "relock", "store", "delete", "retrieve", "expiry",
           "data", "list", "iterate", "return"}

\* The type invariant of all the variables.
TypeOK ==
    /\ IsDatabase(db) /\ IsDatabase(synced)
    /\ now \in 1 .. MaxNow
    /\ owner \in Threads \cup {NoThread}
    /\ pc \in [Threads -> Labels]
    /\ call \in [Threads -> Calls \cup {NoCall}]
    /\ reply \in [Threads -> Replies]
    /\ parsed \in [Threads -> Parsed]
    /\ todo \in [Threads -> SUBSET CacheIds]
    /\ since \in [Threads -> 0 .. MaxNow]
    /\ crashes \in 0 .. MaxCrashes

\* The labels at which a thread works on the database (rocksdb_kvcache.cpp:132,
\* 198, 289, 325: everything below the lock_guard).
Critical == {"store", "delete", "retrieve", "expiry", "data", "list",
             "iterate", "relock"}

(***************************************************************************)
(* "Thread safety is ensured by a mutex lock" (rocksdb_kvcache.cpp:99):    *)
(* whoever works on the database holds the mutex, and nobody keeps it      *)
(* outside an operation.                                                   *)
(***************************************************************************)
MutexProtects ==
    \A t \in Threads : /\ pc[t] \in Critical => owner = t
                       /\ owner = t => pc[t] \in Critical \cup {"return"}

(***************************************************************************)
(* Metadata and data of an id always stem from one and the same store, in  *)
(* the running database and in every state a power failure can go back to  *)
(* (the WriteBatch of rocksdb_kvcache.cpp:159-164 and 292-296).            *)
(***************************************************************************)
OfOneStore(m, v) == \E a \in StoreArgs, exp \in U64 :
                       /\ m = serializeMetadata(a.model, a.seq, a.tok, exp)
                       /\ v = a.data

EntriesPaired ==
    \A d \in {db, synced} :
       /\ DOMAIN d.meta = DOMAIN d.data
       /\ \A id \in DOMAIN d.meta : OfOneStore(d.meta[id], d.data[id])

(***************************************************************************)
(* Between its two Gets a retrieve works with the metadata the database    *)
(* still holds: what it parsed is not stale (rocksdb_kvcache.cpp:203-248). *)
(***************************************************************************)
ParsedIsCurrent ==
    \A t \in Threads : pc[t] \in {"expiry", "data", "relock"} =>
       /\ call[t].id \in DOMAIN db.meta
       /\ parsed[t] = parseMetadata(db.meta[call[t].id])

(***************************************************************************)
(* The only way a thread comes to wait for a mutex it holds itself is a    *)
(* retrieve of an entry that is past its last good second, still there     *)
(* (rocksdb_kvcache.cpp:234-237 calling 289).                              *)
(***************************************************************************)
WedgedOnlyByExpiry ==
    \A t \in Threads : pc[t] = "relock" =>
       LET id == call[t].id IN
       /\ owner = t /\ call[t].op = "retrieve" /\ id \in DOMAIN db.meta
       /\ parseMetadata(db.meta[id]).exp \in 1 .. now - 1

(***************************************************************************)
(* From then on it waits, the mutex stays locked and no other operation    *)
(* touches the database until the process is restarted                     *)
(* (rocksdb_kvcache.cpp:289).                                              *)
(***************************************************************************)
WedgedUntilRestart ==
    [][\A t \in Threads : pc[t] = "relock" =>
          \/ crashes' # crashes
          \/ pc'[t] = "relock" /\ owner' = owner /\ db' = db]_vars

(***************************************************************************)
(* The holder of the mutex always comes to unlock it, unless it waits for  *)
(* itself: the locked regions have no other unbounded wait or loop.        *)
(***************************************************************************)
HolderMovesOn ==
    \A t \in Threads : owner = t ~> owner # t \/ pc[t] = "relock"

(***************************************************************************)
(* A thread below the lock executes the operation it was called for, with  *)
(* arguments the checks before the lock (rocksdb_kvcache.cpp:110-118, 191, *)
(* 282) let through.                                                       *)
(***************************************************************************)
CallFits ==
    \A t \in Threads :
       /\ pc[t] = "lock" => call[t] \in Calls
       /\ pc[t] = "store" => call[t] \in StoreCalls
       /\ pc[t] = "delete" => call[t] \in DeleteCalls
       /\ pc[t] \in {"retrieve", "expiry", "data", "relock"} =>
             call[t] \in RetrieveCalls
       /\ pc[t] \in {"list", "iterate"} => call[t] \in ListCalls
       /\ pc[t] = "iterate" => reply[t] \in [keys : Seq(CacheIds)]
       /\ pc[t] \notin {"idle", "return"} => ~Rejected(call[t])

(***************************************************************************)
(* While a list iterates (rocksdb_kvcache.cpp:341-371), the keys collected *)
(* so far are in order, precede the keys still to come, were good when the *)
(* call was made and are fewer than the limit; a key it has passed over is *)
(* expired.                                                                *)
(***************************************************************************)
GoodFrom(id, time) ==
    Readable(id) => LET exp == parseMetadata(db.meta[id]).exp
                    IN  exp = 0 \/ time <= exp

Collected(t) ==
    LET ids  == call[t].ids \cap DOMAIN db.meta
        keys == reply[t].keys
    IN  /\ todo[t] \subseteq ids
        /\ \A i, j \in DOMAIN keys : i < j => keys[i] < keys[j]
        /\ \A i \in DOMAIN keys : /\ keys[i] \in ids
                                  /\ GoodFrom(keys[i], since[t])
                                  /\ \A id \in todo[t] : keys[i] < id
        /\ \A id \in ids \ todo[t] : id \in Range(keys) \/ ~IsListed(id)
        /\ call[t].limit > 0 => Len(keys) < call[t].limit

ListSoFar == \A t \in Threads : pc[t] = "iterate" => Collected(t)

\* A retrieve reads the data of an entry that was good during the call
\* (rocksdb_kvcache.cpp:229-244); calls and results are there when due.
JudgedInTime ==
    \A t \in Threads :
       /\ since[t] <= now
       /\ pc[t] = "data" => parsed[t].exp = 0 \/ since[t] <= parsed[t].exp
       /\ pc[t] = "idle" => call[t] = NoCall
       /\ pc[t] = "return" => reply[t] # NoReply

\* The inductive invariant behind the safety theorems.
IndInv == /\ TypeOK /\ CallFits /\ MutexProtects
          /\ EntriesPaired /\ ParsedIsCurrent /\ WedgedOnlyByExpiry

\* What the refinement of the abstract cache needs beyond it.
RefInv == IndInv /\ JudgedInTime /\ ListSoFar
-----------------------------------------------------------------------------
(***************************************************************************)
(* The code implements the abstract cache: an entry is what the two keys   *)
(* of its id say, an operation has taken effect when it is about to return.*)
(***************************************************************************)
EntryOf(m, v) == LET p == parseMetadata(m) IN
    [model |-> p.model, seq |-> p.seq, tok |-> p.tok, data |-> v,
     forever |-> p.exp = 0, until |-> p.exp]

Entries(d) == [id \in DOMAIN d.meta |-> EntryOf(d.meta[id], d.data[id])]

Answers == [t \in Threads |-> IF pc[t] = "return" THEN reply[t] ELSE NoReply]

Abs == INSTANCE KVCacheSpec WITH
    cache   <- Entries(db),
    durable <- Entries(synced),
    pending <- call,
    answer  <- Answers

(***************************************************************************)
(* Every operation is atomic, a retrieve returns exactly what was stored   *)
(* last or nothing, expired entries are not returned, lists are complete   *)
(* and ordered, and all of this across crashes.  It holds for model ids    *)
(* without '|' and for lifetimes that do not overflow.                     *)
(***************************************************************************)
ImplementsKVCache == Abs!Spec
-----------------------------------------------------------------------------
(***************************************************************************)
(* What the repository's tests and comments say and the code does not do.  *)
(***************************************************************************)

\* tests/rocksdb_kvcache_test.cpp:292-295: a retrieve of an expired entry
\* returns (nullopt).
RetrieveReturns ==
    \A t \in Threads : call[t].op = "retrieve" ~> pc[t] = "idle"
=============================================================================
