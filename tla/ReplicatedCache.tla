--------------------------- MODULE ReplicatedCache ---------------------------
(***************************************************************************)
(* The caches of the nodes of a cluster: commands that go through Raft     *)
(* (RaftEngine::executeCommand, addServer and removeServer) and are        *)
(* applied by KVCacheStateMachine::commit, and writes of the gRPC handlers *)
(* and of the connector, which go to the node's own cache.                 *)
(*                                                                         *)
(* NuRaft is external: one log of committed commands (CommittedLog, which  *)
(* RaftCluster keeps) and, in each node's log store, how many of them it   *)
(* has and what it has after them.  A log store does not outlive its       *)
(* process, the cache does.  A cache operation is one step (KVCacheSpec);  *)
(* entries live for ever.                                                  *)
(***************************************************************************)
EXTENDS Naturals, Sequences, FiniteSets, Functions

CONSTANTS
    Node, NoNode,
    Founders,      \* the nodes in the configuration all start with
    CacheIds, Values,
    Commands,      \* the commands that are submitted, each of them once
    Faults,        \* {"apply"} if a cache operation of a command may fail
    MaxRestarts

\* Command, as far as the type makes use of it; no tells commands apart.
StoreCommands  == [no : Nat, op : {"store"}, id : CacheIds, value : Values]
DeleteCommands == [no : Nat, op : {"delete"}, id : CacheIds]
CacheCommands  == StoreCommands \cup DeleteCommands
\* The configuration entries of add_srv and remove_srv.
ConfCommands   == [no : Nat, op : {"add", "remove"}, node : Node]

ASSUME ReplicationAssumption ==
    /\ IsFiniteSet(Node) /\ NoNode \notin Node
    /\ Founders \subseteq Node
    /\ Commands \subseteq CacheCommands \cup ConfCommands
    /\ Faults \subseteq {"apply"}

VARIABLES
    log,       \* the committed commands
    kept,      \* per node: how many of them its log store has
    tail,      \* per node: what its log store has after those
    leader,    \* the leader of the latest term, or NoNode
    leads,     \* what isLeader answers, per node
    applied,   \* per node: how many of the committed commands it has applied
    cache,     \* per node: the entries, a function from the ids in use
    at,        \* the node each command is being asked of, or NoNode
    answer,    \* and what has come of it
    restarts,
    apart,     \* history: the ids a node was given or denied outside the log
    lost       \* history: a node has led that lacked a committed command

raftVars == <<log, kept, tail, leader, leads, lost>>
nodeVars == <<applied, cache, apart>>
callVars == <<at, answer>>
vars == <<raftVars, nodeVars, callVars, restarts>>

Init ==
    /\ log = <<>>
    /\ tail = [n \in Node |-> <<>>]
    /\ kept = [n \in Node |-> 0]
    /\ leader = NoNode
    /\ leads = [n \in Node |-> FALSE]
    /\ lost = FALSE
    /\ applied = [n \in Node |-> 0]
    /\ cache = [n \in Node |-> <<>>]
    /\ at = [c \in Commands |-> NoNode]
    /\ answer = [c \in Commands |-> "unsent"]
    /\ restarts = 0
    /\ apart = [n \in Node |-> {}]
-----------------------------------------------------------------------------
Asked(c, n, a) == at' = [at EXCEPT ![c] = n] /\ answer' = [answer EXCEPT ![c] = a]
Answered(c, a) == at' = [at EXCEPT ![c] = NoNode] /\ answer' = [answer EXCEPT ![c] = a]

\* The changes of node n among the first k commands of the log ...
Changes(n, k) == {i \in 1 .. k : log[i] \in ConfCommands /\ log[i].node = n}

\* ... and the configuration after them.
Config(k) ==
    {n \in Node : IF Changes(n, k) = {} THEN n \in Founders
                  ELSE \E i \in Changes(n, k) : /\ log[i].op = "add"
                                                /\ \A j \in Changes(n, k) : j <= i}

Majority(R, C) == 2 * Cardinality(R \cap C) > Cardinality(C)

Take(n, c) == tail' = [tail EXCEPT ![n] = Append(@, c)]

\* Mutant of ExecuteCommand: the caller is answered when the leader has taken it.
AnswerTaken(n, c) ==
    /\ c \in CacheCommands /\ answer[c] = "unsent" /\ leads[n]
    /\ Take(n, c) /\ Answered(c, "ok")
    /\ UNCHANGED <<log, kept, leader, leads, lost, nodeVars, restarts>>

\* executeCommand on node n: a leader takes the command and the caller waits.
\* (Another node answers nullptr, and the command may be submitted again.)
ExecuteCommand(n, c) ==
    /\ c \in CacheCommands /\ answer[c] = "unsent" /\ leads[n]
    /\ Take(n, c) /\ Asked(c, n, "waiting")
    /\ UNCHANGED <<log, kept, leader, leads, lost, nodeVars, restarts>>

\* The request times out, or the leader gives it up when it is deposed.
CommandFails(c) ==
    /\ answer[c] = "waiting"
    /\ Answered(c, "null")
    /\ UNCHANGED <<raftVars, nodeVars, restarts>>

\* AddNode and RemoveNode: addServer and removeServer ask isLeader ...
CheckLeader(n, c) ==
    /\ c \in ConfCommands /\ answer[c] = "unsent" /\ leads[n]
    /\ Asked(c, n, "checked")
    /\ UNCHANGED <<raftVars, nodeVars, restarts>>

\* ... and then NuRaft, which refuses for its own reasons.
Accepts(n, c) ==
    /\ leads[n]
    /\ \A i \in DOMAIN tail[n] : tail[n][i] \in CacheCommands
    /\ IF c.op = "add" THEN c.node \notin Config(kept[n]) ELSE c.node \in Config(kept[n]) \ {n}

\* Mutant of ChangeMembers: the answer of isLeader is all that counts.
ChangeIfChecked(c) ==
    /\ answer[c] = "checked"
    /\ Answered(c, "ok")
    /\ IF Accepts(at[c], c) THEN Take(at[c], c) ELSE UNCHANGED tail
    /\ UNCHANGED <<log, kept, leader, leads, lost, nodeVars, restarts>>

ChangeMembers(c) ==
    /\ answer[c] = "checked"
    /\ \/ Accepts(at[c], c) /\ Take(at[c], c) /\ Answered(c, "ok")
       \/ ~Accepts(at[c], c) /\ UNCHANGED tail /\ Answered(c, "unsent")
    /\ UNCHANGED <<log, kept, leader, leads, lost, nodeVars, restarts>>
-----------------------------------------------------------------------------
\* Node n has the first k entries of the leader's log store.
Has(n, k) ==
    \/ k <= kept[n]
    \/ /\ kept[n] = Len(log) /\ k - kept[n] <= Len(tail[n])
       /\ \A i \in 1 .. k - kept[n] : tail[n][i] = tail[leader][i]

\* Node n gets entries from the leader, up to the k-th of its log store.
Replicate(n) ==
    /\ leader \notin {NoNode, n} /\ n \in Config(Len(log))
    /\ \E k \in 1 .. Len(log) + Len(tail[leader]) :
       /\ ~Has(n, k)
       /\ kept' = [kept EXCEPT ![n] = IF k < Len(log) THEN k ELSE Len(log)]
       /\ tail' = [tail EXCEPT ![n] = SubSeq(tail[leader], 1, k - Len(log))]
    /\ leads' = [leads EXCEPT ![n] = FALSE]
    /\ UNCHANGED <<log, leader, lost, nodeVars, callVars, restarts>>

\* A majority has the first of the commands that the leader has taken.
Commit ==
    /\ leader # NoNode /\ tail[leader] # <<>>
    /\ LET c == Head(tail[leader])
           holders == {n \in Node : kept[n] = Len(log) /\ tail[n] # <<>> /\ Head(tail[n]) = c}
       IN  /\ Majority(holders, Config(Len(log)))
           /\ log' = Append(log, c)
           /\ kept' = [n \in Node |-> IF n \in holders THEN kept[n] + 1 ELSE kept[n]]
           /\ tail' = [n \in Node |-> IF n \in holders THEN Tail(tail[n]) ELSE tail[n]]
    /\ UNCHANGED <<leader, leads, lost, nodeVars, callVars, restarts>>

(***************************************************************************)
(* Node n wins an election in the configuration that it knows, with the    *)
(* votes of nodes that have no more than it has.  Its log is the log from  *)
(* now on: what it lacks is lost, and others have that in vain.            *)
(***************************************************************************)
Elect(n) ==
    /\ n # leader
    /\ n \in Config(kept[n])
    /\ Majority({m \in Node : kept[m] <= kept[n]}, Config(kept[n]))
    /\ leader' = n
    /\ leads' = [leads EXCEPT ![n] = TRUE]
    /\ log' = SubSeq(log, 1, kept[n])
    /\ kept' = [m \in Node |-> IF kept[m] < kept[n] THEN kept[m] ELSE kept[n]]
    /\ tail' = [m \in Node |-> SubSeq(log, kept[n] + 1, kept[m]) \o tail[m]]
    /\ lost' = (lost \/ kept[n] < Len(log))
    /\ UNCHANGED <<nodeVars, callVars, restarts>>

\* A former leader learns of its successor.
Depose(n) ==
    /\ leads[n] /\ n # leader
    /\ leads' = [leads EXCEPT ![n] = FALSE]
    /\ UNCHANGED <<log, kept, tail, leader, lost, nodeVars, callVars, restarts>>
-----------------------------------------------------------------------------
Bind(f, id, v) == [i \in DOMAIN f \cup {id} |-> IF i = id THEN v ELSE f[i]]

\* The caller who waits on node n for c gets its answer.
Reply(n, c) == IF at[c] = n /\ answer[c] = "waiting" THEN Answered(c, "ok")
               ELSE UNCHANGED callVars

\* Mutant of Effect: a DELETE is passed over.
EffectOfStore(f, c) == IF c.op = "store" THEN Bind(f, c.id, c.value) ELSE f

\* What storing or deleting makes of a cache.
Effect(f, c) == IF c.op = "store" THEN Bind(f, c.id, c.value)
                ELSE Restrict(f, DOMAIN f \ {c.id})

\* Mutant of Apply: the state machine stops at a command that fails.
ApplyStopsAtFailure(n) ==
    LET c == log[applied[n] + 1] IN
    /\ leader # NoNode /\ applied[n] < kept[n]
    /\ c \in CacheCommands
    /\ applied' = [applied EXCEPT ![n] = @ + 1]
    /\ cache' = [cache EXCEPT ![n] = Effect(@, c)]
    /\ apart' = [apart EXCEPT ![n] = @ \ {c.id}]
    /\ Reply(n, c)
    /\ UNCHANGED <<raftVars, restarts>>

(***************************************************************************)
(* Node n applies the next command, as it learns from a leader.  NuRaft    *)
(* counts it as applied whatever commit answers, and so does the caller    *)
(* who waits for it on this node.                                          *)
(***************************************************************************)
Apply(n) ==
    LET c == log[applied[n] + 1] IN
    /\ leader # NoNode /\ applied[n] < kept[n]
    /\ applied' = [applied EXCEPT ![n] = @ + 1]
    /\ \/ /\ c \in CacheCommands
          /\ cache' = [cache EXCEPT ![n] = Effect(@, c)]
          /\ apart' = [apart EXCEPT ![n] = @ \ {c.id}]
       \/ /\ c \in CacheCommands /\ "apply" \in Faults
          /\ apart' = [apart EXCEPT ![n] = @ \cup {c.id}]
          /\ UNCHANGED cache
       \/ c \in ConfCommands /\ UNCHANGED <<cache, apart>>
    /\ Reply(n, c)
    /\ UNCHANGED <<raftVars, restarts>>

\* A Put, a Delete or their like at node n: its own cache, nothing else.
Write(n, id) ==
    /\ \/ \E v \in Values : cache' = [cache EXCEPT ![n] = Bind(@, id, v)]
       \/ cache' = [cache EXCEPT ![n] = Restrict(@, DOMAIN @ \ {id})]
    /\ apart' = [apart EXCEPT ![n] = @ \cup {id}]
    /\ UNCHANGED <<raftVars, applied, callVars, restarts>>

\* The process of node n ends and starts again, and the state machine says
\* that it has applied k commands.
RestartAt(n, k) ==
    /\ restarts < MaxRestarts
    /\ restarts' = restarts + 1
    /\ applied' = [applied EXCEPT ![n] = k]
    /\ kept' = [kept EXCEPT ![n] = 0]
    /\ tail' = [tail EXCEPT ![n] = <<>>]
    /\ leads' = [leads EXCEPT ![n] = FALSE]
    /\ leader' = IF leader = n THEN NoNode ELSE leader
    /\ answer' = [c \in Commands |-> IF at[c] = n THEN "null" ELSE answer[c]]
    /\ at' = [c \in Commands |-> IF at[c] = n THEN NoNode ELSE at[c]]
    /\ UNCHANGED <<log, cache, apart, lost>>

\* Mutant of Restart: last_commit_index counts the dummy entry.
RestartOneAhead(n) == RestartAt(n, 1)

(***************************************************************************)
(* The cache is there after a restart.  The Raft directory has been        *)
(* removed, the log store is new and empty, last_commit_index is 0: the    *)
(* commands must come back from a leader, if one has them.                 *)
(***************************************************************************)
Restart(n) == RestartAt(n, 0)

Next ==
    \/ \E n \in Node, c \in Commands : ExecuteCommand(n, c) \/ CheckLeader(n, c)
    \/ \E c \in Commands : CommandFails(c) \/ ChangeMembers(c)
    \/ Commit
    \/ \E n \in Node : Elect(n) \/ Depose(n) \/ Replicate(n) \/ Apply(n) \/ Restart(n)
    \/ \E n \in Node, id \in CacheIds : Write(n, id)

\* Raft goes on by itself; elections, timeouts and clients do what they like.
Fairness ==
    WF_vars(Commit) /\ \A n \in Node : WF_vars(Replicate(n)) /\ WF_vars(Apply(n))

Spec == Init /\ [][Next]_vars
FairSpec == Spec /\ Fairness
-----------------------------------------------------------------------------
TypeOK ==
    /\ log \in Seq(Commands)
    /\ kept \in [Node -> Nat] /\ \A n \in Node : kept[n] <= Len(log)
    /\ tail \in [Node -> Seq(Commands)]
    /\ leader \in Node \cup {NoNode}
    /\ leads \in [Node -> BOOLEAN]
    /\ applied \in [Node -> Nat] /\ (lost \/ \A n \in Node : applied[n] <= kept[n])
    /\ cache \in [Node -> UNION {[I -> Values] : I \in SUBSET CacheIds}]
    /\ at \in [Commands -> Node \cup {NoNode}]
    /\ answer \in [Commands -> {"unsent", "checked", "waiting", "ok", "null"}]
    /\ restarts \in Nat
    /\ apart \in [Node -> SUBSET CacheIds]
    /\ lost \in BOOLEAN

\* The commands on an id among the first k of the log.
Touching(id, k) == {i \in 1 .. k : log[i] \in CacheCommands /\ log[i].id = id}

\* The cache f has on id what command c leaves there.
Shows(f, c) == IF c.op = "store" THEN c.id \in DOMAIN f /\ f[c.id] = c.value
               ELSE c.id \notin DOMAIN f

(***************************************************************************)
(* A node's cache shows the last command on each id that the node has      *)
(* applied; where it has applied none it may show an old one (it has       *)
(* restarted), but nothing that is not in the log at all.  Ids that were   *)
(* written around Raft or failed are apart, and after a restart commands   *)
(* that were committed may be lost (kvcache_state_machine.cpp:112-180, 246,*)
(* raft_engine.cpp:512-541).                                               *)
(***************************************************************************)
LostByRestart == lost /\ restarts > 0

CacheFollowsLog ==
    LostByRestart \/
    \A n \in Node : \A id \in CacheIds \ apart[n] :
       /\ \A i \in Touching(id, applied[n]) :
            (\A j \in Touching(id, applied[n]) : j <= i) => Shows(cache[n], log[i])
       /\ Touching(id, Len(log)) = {} => id \notin DOMAIN cache[n]

(***************************************************************************)
(* "NuRaft ensures all nodes eventually see the same data" (README.md:295),*)
(* as far as it goes: nodes that have applied the whole log agree on all   *)
(* ids that were not written around Raft, though they restarted, joined    *)
(* late, and applied everything again - unless a restart has made the      *)
(* cluster lose what it had committed.                                     *)
(***************************************************************************)
CaughtUp(n) == applied[n] = Len(log)

Same(f, g, id) == /\ id \in DOMAIN f <=> id \in DOMAIN g
                  /\ id \in DOMAIN f => f[id] = g[id]

CaughtUpAgree ==
    LostByRestart \/
    \A m, n \in Node : CaughtUp(m) /\ CaughtUp(n) =>
      \A id \in CacheIds \ (apart[m] \cup apart[n]) : Same(cache[m], cache[n], id)

(***************************************************************************)
(* The same without the exception, as README.md:261-276 has it: a Put is   *)
(* forwarded to NuRaft, and each node applies it.                          *)
(***************************************************************************)
ReplicasAgree ==
    Faults = {} =>
      \A m, n \in Config(Len(log)) : CaughtUp(m) /\ CaughtUp(n) =>
        \A id \in CacheIds : Same(cache[m], cache[n], id)

(***************************************************************************)
(* executeCommand answers a buffer only when the command is in the log and *)
(* this node has applied it, whichever of timeout, commit and new leader   *)
(* comes first (raft_engine.cpp:461-490); whether the operation succeeded  *)
(* it does not say, and a restart may lose the log.  That addServer or     *)
(* removeServer answers true means less: the change is in the hands of the *)
(* node that was asked, even if it lost the lead in between (349-385).     *)
(***************************************************************************)
OkIsTrue ==
    [][\A c \in Commands : answer[c] # "ok" /\ answer'[c] = "ok" =>
         \E n \in Node : at[c] = n /\
           IF c \in CacheCommands THEN \E i \in 1 .. applied'[n] : log'[i] = c
           ELSE leads[n] /\ c \in Range(tail'[n])]_vars

(***************************************************************************)
(* Once the cluster has a leader for good every member has applied the     *)
(* whole log, from the start after a restart, whatever of it failed -      *)
(* unless restarts have lost it.                                           *)
(***************************************************************************)
MembersCatchUp ==
    <>[](leader # NoNode) /\ []~LostByRestart =>
      \A n \in Node : []<>(n \in Config(Len(log)) => CaughtUp(n))

\* Why nothing is lost before a restart: each command is where a majority of
\* the configuration before it has it, and who lacks it cannot win there.
QuorumsKeep ==
    \A k \in 0 .. Len(log) - 1 : Majority({n \in Node : kept[n] > k}, Config(k))
=============================================================================
