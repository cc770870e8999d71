# SLDMKVCacheStore in TLA+

A verification project for SLDMKVCacheStore, a key/value cache for language-model
KV tensors: a RocksDB store behind a gRPC service, with NuRaft meant to replicate it.
Sources are cited as in the repository (`src/storage/rocksdb_kvcache.cpp:237`);
`PROJECT.json` maps every definition to its lines.

## 1. The system

| component | state | operations | talks to |
|---|---|---|---|
| `RocksDbKVCache` (storage/rocksdb_kvcache.cpp) | `db_` with a `meta:<id>` and a `data:<id>` key per entry, `mutex_` | store, retrieve, delete, list | RocksDB |
| `VLLMConnector` (kvcache/vllm_connector.cpp) | a pointer to the cache | the same four, after checking for empty ids; exceptions become failures | cache |
| `GrpcService` (common/grpc_service.cpp) | server, `raft_engine_`, the global `shutdown_requested` | Put, Get, Delete, Scan, Store/Retrieve/Delete/ListKVCache, AddNode, RemoveNode, GetClusterInfo; start, stop, wait | cache directly, Raft engine for membership only |
| `SLDMKVCacheStore` (common/sldmkvcachestore.cpp) | the four parts above | construct, start, stop, wait | all |
| `RaftEngine` (raft/raft_engine.cpp) | NuRaft server, `ready_`, detached event thread | start, stop, addServer, removeServer, executeCommand, waitForReady, triggerLeaderElection | NuRaft, state manager, state machine |
| `SimpleMemoryLogStore` (raft/raft_state_manager.cpp:14-124) | `entries_`, `start_idx_`, `last_idx_`, no lock | append, write_at, log_entries, entry_at, compact, ... | called by NuRaft |
| `RaftStateManager` (raft/raft_state_manager.cpp:126-313) | `server_state_`, `cluster_config_`, two files | read/save state, load/save config | called by NuRaft and by `triggerLeaderElection` |
| `KVCacheStateMachine` (raft/kvcache_state_machine.cpp) | pointer to the cache, `last_committed_idx_` (always 0) | commit, snapshots (refused) | cache |
| examples, Python client, tests | - | - | gRPC |

What each has to get right:

* **RocksDbKVCache** - the two keys of an entry belong together at every instant and
  after every crash; a retrieve returns one store's metadata and data, never an expired
  entry; a list is complete, ordered and cut at its limit; every call returns. Threads of
  the gRPC server interleave inside it, the clock moves on between its steps, RocksDB may fail.
* **GrpcService** - a Scan is a list and many retrieves without a lock across them; stop
  must reach wait; writes should reach the other replicas.
* **RaftEngine / facade** - start either succeeds or leaves nothing running; the event
  thread lives as long as the engine; a waiter is woken by stop.
* **SimpleMemoryLogStore** - what NuRaft relies on: after an overwrite no entry of the
  replaced suffix is visible, compaction leaves a log whose bounds make sense.
* **RaftStateManager** - a term or a vote once answered for is never forgotten.
* **KVCacheStateMachine** - replicas that apply the same log hold the same entries.
* **VLLMConnector** - whoever calls it sees the cache as it is, and never an exception.

## 2. Modules

| module | what it is |
|---|---|
| `Metadata` | the `model|seq|tokens|expiration` record, its writer and its parser |
| `KVCacheInterface` | the calls and results of `KVCacheInterface` (kvcache_interface.h) |
| `KVCacheSpec` | abstract specification: an atomic map with lifetimes |
| `RocksDbKVCache` | the RocksDB implementation, thread by thread and step by step |
| `GrpcService` | the key-value RPC handlers over any cache that behaves like `KVCacheSpec` |
| `VLLMConnector` | the connector over any cache that behaves like `KVCacheSpec` or throws |
| `Frontends` | handlers and connector side by side on one cache |
| `StoreLifecycle` | construction, start, wait, stop and destruction of the stores of a process |
| `SimpleServer` | the example server program around one store |
| `LogStore` | the in-memory log of Raft as a value, and its operations |
| `RaftStateManager` | what is read and saved of a server's term and vote, its configuration |
| `RaftElections` | elections of NuRaft (external) over the state manager, triggered elections, restarts |
| `RaftCluster` | extends it with the logs: appends and commits of NuRaft over `LogStore` |
| `CommittedLog` | abstract specification: one log, of which each server knows the beginning for good |
| `ReplicatedCache` | the caches of the nodes under the log of commands, and what goes around it |
| `RocksDbKVCacheProofs`, `RocksDbRefinement`, `StoreLifecycleProofs`, `LogStoreProofs`, `RaftElectionsProofs`, `RaftClusterProofs`, `ReplicatedCacheProofs`, `FrontendsProofs` | theorems |
| `MCRocksDbKVCache`, `MCFrontends`, `MCStoreLifecycle`, `MCSimpleServer`, `MCRaftElections`, `MCRaftCluster`, `MCReplicatedCache` | instances for TLC |

What composes what: `RocksDbKVCache` implements `KVCacheSpec`; `GrpcService` and `VLLMConnector` each run
over `KVCacheSpec` and `Frontends` puts them on the same one; `SimpleServer` runs one store of
`StoreLifecycle`; `RaftElections` extends `RaftStateManager`, `RaftCluster` extends `RaftElections` and
uses `LogStore`. `CommittedLog` is where Raft and the state machines meet: `RaftCluster` implements it
(`CommandsStand`), and what the nodes of `ReplicatedCache` apply is it again (`NodesApplyOneLog`). An
operation on a node's cache is one step there, as in `KVCacheSpec`. The product of all of them is too large for TLC.

### Metadata
A string is the sequence of its `|`-separated segments, because splitting there is all the
code does with it; a segment `std::stoull` accepts (it ignores trailing garbage) is the number
it yields, any other is a word. `""` is the empty sequence. `U64Mod` stands for 2^64.

### RocksDbKVCache
Each thread has a program counter; between two labels any other thread, the clock or a
crash may act.

| code | model |
|---|---|
| checks before the lock (110-118, 191, 282) | `Enter` |
| `std::lock_guard` (132, 198, 289, 325) | `Lock`; unlocking is in `Return` |
| store: expiration time, metadata, `WriteBatch` (139-176) | `Store` |
| delete (291-308) | `Delete` |
| retrieve: Get and parse metadata (201-221), expiry (229-244), Get data (246-265) | `GetMeta`, `CheckExpiry`, `GetData` |
| list: iterator, one key at a time, iterator error (330-381) | `Seek`, `Visit`, `EndIteration` |
| `system_clock`, write-back, process or machine restart | `Tick`, `Sync`, `Restart` |

A database is a record of two partial functions (the two kinds of keys). Ids are numbered
in byte order, a prefix is the set of the ids that start with it. `synced` is a state of the
database that has reached the disk: `WriteOptions()` does not sync, so a power failure goes
back to it while a mere process crash does not. `Faults` names the RocksDB calls that may fail.
A `catch` block answers what a failed RocksDB call answers and is the same branch.

When a retrieve finds its entry expired it calls `deleteKVCache`, which locks `mutex_` again
(237, 289). Locking a `std::mutex` twice is undefined; the default pthread mutex of the
Linux builds blocks for ever, and that is what `Lock` does: at label `relock` it
waits for a mutex that its own thread holds.

### KVCacheSpec
`Invoke`, one atomic `Perform`, `Return`. An implementation may judge an entry's lifetime by
any time between call and effect, and each key of a list by a time of its own - the code
reads the clock per key (354), so two keys with the same expiration time may be one in and
one out of the same list. A list may end early when RocksDB's iterator may fail, as in the code the caller cannot tell
(373-376). The refinement mapping reads an entry off its two keys, takes
`call` as the pending call, and the reply as given when the thread is about to return.

### GrpcService
A worker takes up a request, calls the cache and sends the response. All handlers but Scan are one
call (`Receive`, `Respond`, `Send`). Scan is a list (`Receive`, `ScanListed`) and a retrieve per key
up to the end key (`ScanSkip`, `ScanRetrieve`, `ScanValue`), with nothing held in between, so it is no snapshot: two of its pairs
need never have been in the cache together. What holds instead is `AnswersWitnessed` and
`ScanComplete`. `AnswersWitnessed` speaks of all eight handlers and of both kinds of answers: a store that answers
true has put the whole entry there, a delete that answers true has taken the key away, a value that is found
was stored with all its metadata, a key that is not found was missing, a key that is listed was there, and a
store or delete that answers false was refused or RocksDB failed. Three history variables say what was so during a request:
`witnessed`, the entries that were there at some time, `gone`, the keys that were missing at some time, and
`steady`, the keys that were there all the time. `HandlersInv` is why the answers are true: what
the stage of a worker says of its call, its answer and what its Scan has collected.

The cache is `KVCacheSpec`, not `RocksDbKVCache`: by `Refinement` what holds of the handlers over the
first holds over the second, with `PlainStores`. No request outlives the process, so there is no
restart. The handlers' `catch` blocks are left out: the cache lets no exception out.
`start_key` is used as a prefix, which the comment in the code admits (119).

### VLLMConnector and Frontends
A thread asks the connector (`Ask`), which refuses an empty id or model itself and otherwise calls the
cache; it forwards the answer (`Forward`) or, when the cache throws, gives the caller a failure instead
(`Catch`; a list becomes an empty one). An exception leaves an operation that has not taken effect.
`Transparent` is the claim of the code's comment (vllm_connector.cpp:20) as a refinement: with the
connector's callers in place of the cache's, what happens is still a behaviour of `KVCacheSpec` - of one
whose RocksDB fails, if the cache throws. In `Frontends` handlers use the cache at the same time, so the
mapping leaves their threads as they are. Lifetimes, failing writes and exceptions all happen.
`FrontendsInv` is the inductive invariant of both: `HandlersInv`, and `CallersInv`, that a caller of the connector
waits for the cache until it is given an answer and has nothing left there afterwards.

### StoreLifecycle
Three threads of the application use a store: `main` constructs, starts and destroys it, `waiter`
calls `wait`, `stopper` calls `stop`, and so may `main`. With them run the handlers of the gRPC server (a count of
requests), and the detached event thread of the Raft engine.

| code | model |
|---|---|
| constructors (sldmkvcachestore.cpp:33, grpc_service.cpp:347) | `Construct`: NuRaft runs from here on, `shutdown_requested` is cleared |
| `start`: Raft engine, its event thread, `ready_`, gRPC server | `CallStart`, `EngineStart`, `EngineReady`, `ServiceStart` |
| the rest of `start`, with the server up (sldmkvcachestore.cpp:158-195): the leader is asked for, perhaps an election triggered, seconds of sleep; true, or an exception, then `stop` and false | `StartSettles`, `StartFails` |
| `stop`: `Shutdown()`, the flag, NuRaft down, `ready_` | `CallStop`, `ServerShutdown`, `ServerDrained`, `SetFlag`, `EngineStop`, `EngineUnready` |
| destructor | `CallDestroy`, the steps of stop, `Free` |
| `wait` on the server or the flag | `CallWait`, `WaitReturns` |
| `handleRaftEvents` | `EventLoop` |

gRPC is external: `Shutdown()` refuses new requests and returns, to each of several callers, when the
handlers have ended. `server_` and `shutdown_requested` are read and written without a lock
(355, 399, 425); the model takes each access as atomic. The triggered election itself is in `RaftElections`;
here it is the window in which start has a server and has not returned. A store is started once, and destroyed when no
other thread is in it. After `Free` the event thread reads anything.

`shutdown_requested` is one variable for all stores, as in the code. So a wait that began before its store had a server
may be ended by the stop of another store, or left asleep when a constructor clears the flag between a stop and
the waiter's look at it. `WaitMeansStopped` and `StopEndsWait` say exactly this, and the
model tells the two ends of a wait apart: `done`, from the wait for the own server, and `woken`, by the flag. When the
Raft engine fails to start, start answers false and leaves NuRaft running, which the constructor has started
(sldmkvcachestore.cpp:130): `StartTells` says that Raft runs after a false in this case and in no other.

`Liberties` lets a run allow more: a stop while start runs, a wait before it is done, a request that
hangs, as one on an expired entry does. `Busy` bounds a run: the stores that are waited for, sent requests, and
stopped other than by a failed start or the destructor.

### SimpleServer
`main` of simple_server.cpp as the order in which it makes the calls above, plus the signal handler.

### LogStore
A log is a record of a function from indices to entries, `start` and `last`, which are `entries_`,
`start_idx_` and `last_idx_`; the constructor's dummy sits at index 0. `append` is `AppendEntry`,
`write_at` is `WriteAt` (it binds one index and keeps what is behind it), `log_entries` is
`LogEntries` (the missing are left out, the end is cut), `term_at`, `entry_at`, `last_entry` and
`next_slot` are `TermAt`, `Stored`, `LastTerm` and `NextSlot`, `compact` is `Compact`. `pack`, `apply_pack` and
`flush` are empty in the code.

### RaftStateManager and RaftElections
`server_state_` starts as a pointer to the object NuRaft works on and changes: that is `Shared`. The first save
replaces it by a copy (`SaveState`), and only then is what `read_state` answers what was saved. A save has three
outcomes. If the file cannot be opened nothing changes (254-257). If it is opened it is empty from then on, and nobody
looks whether `write` succeeds (259-260): the copy in memory is renewed although what was on disk is `Torn`; a crash
between the open and the write leaves the same file. Otherwise both are the new state (`SaveFile`). No code
reads the file back, as the constructor always begins at term 0 (146-156) and the engine has removed the directory
before (raft_engine.cpp:512-519).

The constructor calls `save_state(*server_state_)`, and `save_state` replaces the object that its argument refers to
before it reads term and vote through it (156, 263-265). What it then reads is undefined: any of `Remains`, of which
`FreshState` is one, is the state NuRaft starts with (`Init`, `Restart`), while the file says `FreshState`. TLC takes
the fresh state and another one, the proofs any set. `ClusterConfig` is this server and its peers, itself and those without a comma left out.

In `RaftElections` NuRaft is external: `Timeout`, `LearnTerm`, `Vote`, `BecomeLeader`, `HearLeader` are as
Raft prescribes, each saving its state where Raft must. A request and its answer are one action, so a
lost message is an action that does not happen, a late one an action that happens later or, if its term
has passed, has no effect. `TriggerRead` and `TriggerSave` are triggerLeaderElection
(raft_engine.cpp:655-679), two steps because NuRaft goes on in between: a vote saved there in a later term than the one
read is overwritten, in memory and on disk. `FileKeepsVotes` exempts that step and the torn file, and says that
nothing else loses a vote. `Restart` forgets everything, as the code does.

### RaftCluster
`Lead`, `TakeCommand`, `AskVote`, `StepDown` and `Replicate` add the logs: a vote also takes an up-to-date log,
a leader appends, a follower's log is changed through `AppendEntry` and `WriteAt` entry by entry
(`StoreEntries`), and the leader commits what a majority has. Servers do not restart here.
`stale` records that `WriteAt` has left entries of an older term behind a newer one - it is what makes
committed commands differ (finding `raft_leftovers`), and `SafeUnlessStale` and `LeaderHasCommitted`
say that nothing else does. `CommandsStand` says the same to whoever applies the commands, step by step: `CommittedLog` with the committed part
of each log for `known` and `stale` for `broken`. `ClusterInv` is why: the inductive invariant, which the
run checks with them.

### ReplicatedCache
| code | model |
|---|---|
| `executeCommand` (raft_engine.cpp:439-490): refused by who does not lead; else taken, and the caller waits | `ExecuteCommand`, `Reply` (in `Apply`), `CommandFails` |
| `AddNode`, `RemoveNode`, `addServer`, `removeServer` (grpc_service.cpp:256, raft_engine.cpp:346-385): `isLeader`, then `add_srv` | `CheckLeader`, `ChangeMembers` |
| NuRaft: replication, commit by a majority, elections, deposition | `Replicate`, `Commit`, `Elect`, `Depose` |
| `KVCacheStateMachine::commit` (kvcache_state_machine.cpp:112-180), on every member, at its own time | `Apply` |
| a restart: the Raft directory removed (raft_engine.cpp:512-519), a new and empty log store (534-541, raft_state_manager.cpp:158-160), `last_commit_index` 0 (kvcache_state_machine.cpp:246), a database that stays | `Restart` |
| Put, Delete, StoreKVCache, DeleteKVCache and the connector | `Write` |

`log` is what has been committed. Each node has a log store of its own: the first `kept` commands of `log` and after
them `tail`. A leader takes commands into its tail, `Replicate` brings another member's log store nearer to the leader's,
and `Commit` moves a command from the tails to `log` once a majority of the configuration has it. `Elect` asks for a
majority of the configuration the candidate knows, of nodes that have no more than it has; what it has is the log from then on.
Without restarts that is everything committed (`NothingLost`). A restarted node has nothing, may vote for others
that have nothing, and may be elected itself: the log then ends where the new leader's does, and if a committed
command went that way `lost` says so. A node that is the only member and restarts has nobody to get its
commands from: its cache is all that is left of them. `LostByRestart` is the exception that `CacheFollowsLog`,
`CaughtUpAgree` and `MembersCatchUp` make; what they say of restarts is about those after which some leader still has the log.
`apart` is a history variable: the ids a node was given or denied
outside the log. Entries live for ever here: when each node applies a store, its lifetime begins
there, and nothing in the repository promises that lifetimes agree. Nobody in the repository calls
`executeCommand`: the model's clients do. A refused call leaves no trace, so a
command may be asked of one node after the other.

## 3. Runs

| run | instance | shows |
|---|---|---|
| `rocksdb_atomic` | 2 fair threads, 2 ids, 2 entries (one mortal) and one refused, 2 prefixes, limits 0 and 1, clock 1..3 | mutual exclusion, no stale metadata, a correct list at every step of its loop, refinement of `KVCacheSpec`, what can wedge the cache and that it stays wedged, and that the holder of the mutex comes to unlock it or waits for itself |
| `rocksdb_crash` | 2 threads, 1 id, every RocksDB call may fail, 2 restarts, clock 1..3 | metadata and data stay paired on disk, refinement across failures and crashes |
| `frontends` | a worker with every key-value RPC, a connector thread with every call, 2 keys, writes that fail, a cache that throws, clock 1..3 | a response, positive or negative, claims only what was so during the request; a Scan is ordered, bounded, and misses nothing that was there throughout, with the invariant that makes it so; the connector is transparent |
| `lifecycle_pair` | 2 stores, one with Raft and busy with waits, requests and two stopping threads, the other constructed, started and destroyed; starts that fail at three places, early waits, requests that may hang, fair | start tells what runs and what does not; a stop holds, is ordered, returns unless a request hangs, and ends the wait unless a constructor clears the flag; only another store's stop ends a wait early; the event thread ends |
| `raft_elections` | 3 servers, 3 terms, 1 triggered election, 1 save that fails to open or to write the file, 1 restart, constructors that start with the fresh state or another | one leader per term unless a restart forgets; what the state file is worth |
| `raft_cluster` | 3 servers, 3 terms, 4 entries | committed commands agree, leaders have them and nobody takes them back (refinement of `CommittedLog`), until a log is stale, and the invariant that makes it so |
| `replicas` | 2 nodes; a store, a delete and a removal; failing operations, writes around Raft, 1 restart that empties a log store; fair | caches follow the log, nodes that caught up agree on what only the log touched, members catch up - unless the restart lost a committed command; answers are true |
| `rocksdb_expired_hangs` | 1 thread | finding: a retrieve of an expired entry never returns |
| `lifecycle_events_outlive` | 1 store | finding: the event thread outlives its engine |
| `server_signal` | the example server, fair | finding: a signal does not end it |
| `raft_leftovers` | 3 servers, 3 terms, 3 entries | finding: two servers commit different commands at one index, after write_at |
| `replicas_put` | 2 founders, nothing fails | finding: a Put reaches the cache of one node only |

Disagreements of code and text that have no run, because a theorem's condition says it or nothing would be
left to check:

* a model id with `|` is stored and never found again (`RoundTrip`, in both directions);
* a stop while start runs is undone by the rest of start (`NoEarlyStop`), a stop while a request hangs does
  not return (`StopReturns` says so);
* sldmkvcachestore.cpp:117-118 says that if a component fails to start "previously started components are properly
  stopped": when the Raft engine fails, start only returns false (130), and NuRaft, running since the constructor,
  goes on until the store is stopped or destroyed (`StartTells`);
* with several stores in a process a stop wakes the waits of others on the flag, and another's constructor takes a
  stop back from those that have not looked yet (grpc_service.cpp:355, 408-413; `WaitMeansStopped`, `StopEndsWait`);
* deleting what is not there answers true (rocksdb_kvcache.cpp:296; rocksdb_kvcache_test.cpp:202-204
  expects false), a lifetime of -1 is accepted (142; rocksdb_kvcache_test.cpp:323-326);
* the event thread may end before `ready_` is set (raft_engine.cpp:292 and 302);
* raft_state_manager.h:21-22 promises "durability across process restarts": every start forgets (`forgot`), and a
  cluster can lose committed commands when a node restarts (`LostByRestart`);
* save_state empties the state file and reports nothing when the write fails: the vote on disk is gone (`Torn`);
  a vote that NuRaft saves between the two halves of triggerLeaderElection is overwritten (both exempted by
  name in `FileKeepsVotes`);
* the constructor of the state manager reads a state it has just freed (raft_state_manager.cpp:156, 263-265; `Remains`);
* sldmkvcachestore.cpp:166 says "Leader election triggered": NuRaft is never told, only its file changes
  (`TriggerSave`);
* AddNode answers true when the change is accepted, not when it is made (`OkIsTrue`).

Bounds: two threads suffice for every race in the cache because all state is behind one mutex; two ids
for list order and limits; clock 1..3 gives "before", "last good second" and "expired" for an
entry of lifetime 1; `U64Mod` = 8 is above every sum of the two; two restarts let a power failure
follow a crash. Two stores share a flag: one of them does everything, the other is constructed, started and
destroyed, which sets and clears the flag as any use of it does; one request at a time is enough, as stop waits for the last. In `frontends` one handler and one connector
thread are enough to put a store, a delete or an expiry between any two steps of a Scan. Three servers
are the least with a majority that leaves one out, three terms let a leader of the first come back after a
second has overwritten it, four entries let a stale suffix decide a vote. One store command, one
delete, one removal and one restart let a node apply the delete, lose its log and apply the store again while the other has
finished, and let the last member of a cluster restart with nobody to tell it what was committed.
Thread and server symmetry is used in safety runs only.

Fairness is weak fairness of each thread's own steps (the OS schedules runnable threads);
nothing is assumed of who gets a mutex next, so no property says that a given caller is served. In
`StoreLifecycle` it is weak fairness of what goes on by itself once called, and of handlers that do
not hang; that an application calls anything is not assumed. In `ReplicatedCache` it is weak
fairness of NuRaft's commit, of its replication to each member, which it repeats until it is acknowledged, and of each
node's apply, its own threads; elections are not fair, so `MembersCatchUp`
is about runs in which some node leads for good.

Deadlock is not checked where an expired entry can be retrieved or all stores may be destroyed, where
elections and logs are at their bounds, and where nothing need happen to a cluster: there the system does stop.

## 4. Proofs

`RocksDbKVCacheProofs`: `RoundTrip`, that a record parses back exactly when the model id has no `|`, for all
numbers and model ids; and that `IndInv` is inductive. Types alone are not: that a step keeps its types needs
that a thread below the lock runs the operation it was called for (`CallFits`); that an entry's two
keys stay paired and that parsed metadata is current needs that nobody else is below the lock
(`MutexProtects`). There is one lemma per action, then `Invariance`, and from it the conjuncts as
theorems and `WedgeForever` as an action property. Assumptions: those on the constants
(`MetadataAssumption`, `InterfaceAssumption`, `RocksDbAssumption`), no finiteness.

`RocksDbRefinement`: `Refinement`, that every step of the code is a step of `KVCacheSpec` or none. It
assumes `PlainStores`: model ids have no `|`, `now + ttl` stays below `U64Mod` and there are finitely
many ids (a list is no longer than the number of ids it may hold). The first two are needed: `RoundTrip`
fails for any other model id, and a sum that overflows ends an entry's life early. The invariant behind it, `RefInv`,
adds to `IndInv` that a retrieve reads data only of an entry that was good during its call
(`JudgedInTime`) and what a list has collected at every step of its loop (`ListSoFar`): only with these
does the answer of the last step follow from a state of the database.

`StoreLifecycleProofs`, for any number of stores and requests: `TypeCorrect` under every liberty;
`LifeCorrect`, `StopSafety`, `ShutdownOrder`, `StartOutcome` if nobody stops a store while it starts
(`NoEarlyStop`: such a stop finds nothing to stop and start goes on). A step changes one store only (`Local`), but for
the flag, so `SameInv` carries the invariant over for the others. What is inductive is `LifeInv`: that a stop
*holds* needs that start is over when a stop begins (`Turns`), that there is no server before start has made one and
one while start settles (`StartHas`), and that the second of two threads in `stop` finds what the first has
undone (`StopHas`). For waits there are three theorems, as the stores share the flag. `WaitSafety`, under `NoEarlyStop`, for
waits at any time: a wait ends when the own server has gone, or early because another store's stop has set the
flag, and for no other reason; behind it, that the flag is only set after some store has come past it. `OneStoreWaits`: with
one store the exception is gone. `ServerWaits` needs no assumption: a wait that found a server ends only with that server.
With an early stop and one store a wait on the flag can end while start goes on to serve.

`LogStoreProofs`, for logs and entries of any size: `AppendKeepsForm`, `WriteAtKeepsTheRest` (which also says
what the finding `raft_leftovers` lives on: everything behind the overwritten entry stays) and
`CompactKeepsForm`, with the bound that compact itself does not check.

`RaftElectionsProofs`, for any number of servers: `OneLeader` from `ElectionInv`. That there is one leader per
term is not inductive: it needs that each leader has a majority (`LeadersElected`), that two candidates of a
term have no vote in common (`VotesDisjoint`), and for that, that who voted for a candidate has voted for
nobody else while in its term (`VotesBind`). `MajoritiesMeet` counts: the configuration of each server lists every
server. `FileIsNear` and `VotesStayOnFile` come from `FileInv`: NuRaft has every vote that `read_state` answers with, and
before a triggered election is never behind it, nor behind the term that was read (`ReadBehind`); the file is the last state that
was saved, or torn (`FileIsCopy`). `Remains` is any set of states with the fresh one in it. Every step is one of few kinds
(`Steps`): NuRaft casts a ballot that keeps the one before, or reads, saves, restarts.
`ClusterElects` shows that `RaftCluster` implements `RaftElections`, so `ClusterHasOneLeader` holds whatever the
logs are like: write_at breaks the agreement of logs, never that of elections.

`RaftClusterProofs`, for any number of servers, terms and entries: `ClusterIsSafe` and
`LeadersHaveCommitted` from `ClusterInv`, which holds while no log is stale. That committed commands agree is far from
inductive: two quorums share a server, but why has nobody since made it drop what it acknowledged?
`Pledged` answers: each server of a set has the entry, in later terms voted only for candidates that have it,
and any log with a later entry has it. A leader's acknowledgements are pledged, or a quorum has
moved on to later terms and they will never be enough (`Lost`); a commit needs a quorum of
them (`CommitsPledged`), from which no later vote can pass a candidate without the entry. That a candidate with a
more up-to-date log has the entry needs that logs match (`LogsMatch`), that their terms rise and every
entry is from a leader duly elected (`LogsRise`, `Elected`), and that a leader has all entries of its term
(`LeadersHold`). `OneLeader` is used on the way: `ClusterElects` gives the cluster `ElectionInv`. What the loop of `StoreEntries`
leaves in a log and what `LogEntries` answers is proved for any length (`StoreEntriesIs`, `StoredIs`); the induction is
`InductionInSet`, a count of a set of numbers, as the provers cannot use the library's.
`ClusterKeepsOneLog` is the refinement of `CommittedLog`: every step only extends what each server has committed
(`CommittedKept`: it overwrites nothing there because a leader has it, at the same index, in the same term), and
any two are one the beginning of the other because they agree as far as both go.

`ReplicatedCacheProofs`, for any number of nodes, commands and restarts. `NothingLost`: no leader lacks a committed
command before some node has restarted. By itself this is not inductive: an election in an old configuration might miss
what a newer one has committed. `KeepInv` adds `QuorumsKeep`, that each command is with a majority of the configuration
before it: a candidate asks the configuration before the first command it lacks, where its voters would meet
that majority (`MajoritiesMeet`) and be asked to vote for less than they have. A change of members is in force once it is
committed, as NuRaft has it. `CacheFollows` is from `FollowInv`, which says that there is a latest command on each id the
node has seen - carried along by the steps, as the provers have no induction over sets - and holds through restarts that
leave some leader the log; when they do not, `lost` ends it. `ReplicasFollow` follows: two nodes that have applied the whole log
have the same latest command. `NodesApplyOneLog` is the other side of `ClusterKeepsOneLog`, until a node restarts.
`OkMeansDone` needs only who waits for what (`CallsInv`).

`FrontendsProofs`, for any number of workers, callers of the connector, keys, stores and requests: `AnswersAreTrue`,
`ScansAreOrdered`, `ScansMissNothing` and `ConnectorIsTransparent` from `FrontendsInv`. That a response is true says
nothing of the steps before it; the invariant does: what the cache has answered was so by then (`Tells`), the pairs
a Scan has collected were so and lie before the keys it has left (`Collected`), for a key that is not found or
was deleted that it was missing at some time of the request (`gone`), and of the keys that were always
there each is among the two, unless the end key or the limit leaves it out (`NothingMissed`). Others
cannot spoil this, as all that is said of the cache is that something was so at some time, or always. A negative
answer is explained by a refused call or a failure that `Faults` allows. `ScansMissNothing` has
an assumption, `ReadsSucceed`: when a read of RocksDB fails, retrieve answers nothing, list ends early, and
the Scan leaves out their keys and still reports success. That many smaller keys fill a limit is counted with
`FullList`. For `ConnectorIsTransparent` each step of handlers, callers and cache is a step of the `KVCacheSpec` that is
seen or none: an answer passed on is none, an exception is an operation that RocksDB failed.

Only model-checked: liveness (what must happen under fairness, `HolderMovesOn`, `StopReturns`, `StopEndsWait`,
`EventsEnd`, `MembersCatchUp`: the provers have no rule for it here), and `SimpleServer`.

## 5. Assumptions and limits

A failed RocksDB write applies nothing; the system clock does not go back; a retrieve's or store's
single clock reading and the step around it are one action (the mutex is held, nobody can tell).
NuRaft and gRPC are external and taken to do what they document; a command's buffer is taken to
arrive as it was sent.

Not modelled, and why:

* a constructor that cannot open the database: no object, the process ends;
* data races on the log store (it has no lock) and on `server_`: no finite set of outcomes;
* the lifetimes of replicated entries, see `ReplicatedCache`;
* snapshots: refused by the state machine, so that compact is never called (`Compact` is proved about only);
* load_config and load_server_state: nothing calls them with a state in which they do anything; load_config
  would lock a mutex it holds (raft_state_manager.cpp:180);
* GetClusterInfo and waitForReady, which change nothing; a waitForReady without a timeout would not be
  woken by stop (raft_engine.cpp:495), and nothing in the repository makes that call;
* a second start of a stopped store;
* the Python client, which was generated from another proto file and cannot talk to this server; the
  example client and the status thread of the example server, which print; tests, read as statements.

## 6. Plan

1. (done) `Metadata`, `KVCacheSpec`, `RocksDbKVCache` and their proofs.
2. (done) `GrpcService`, `VLLMConnector` and `Frontends` over the cache.
3. (done) `LogStore`, `RaftStateManager`, `RaftElections`, `RaftCluster`.
4. (done) `ReplicatedCache`.
5. (done) `StoreLifecycle`, `SimpleServer`.
6. (done) That committed commands agree in `RaftCluster` while no log is stale.
7. (done) The Scan of `GrpcService` and the transparency of the connector, proved.
8. (done) `CommittedLog` between `RaftCluster` and `ReplicatedCache`, both refinements proved.
