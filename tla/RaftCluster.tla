----------------------------- MODULE RaftCluster -----------------------------
(***************************************************************************)
(* The logs of the Raft servers: NuRaft, external and as Raft prescribes,  *)
(* over SimpleMemoryLogStore of src/src/raft/raft_state_manager.cpp, on    *)
(* top of the elections of RaftElections.                                  *)
(*                                                                         *)
(* The servers run on: what a restart forgets RaftElections shows.         *)
(* A request and its answer are one action, the answer may be lost.  A     *)
(* command is known by its term and the server that took it; commands and  *)
(* the configuration entry of a new leader look alike.                     *)
(***************************************************************************)
EXTENDS RaftElections

CONSTANTS
    Dummy,      \* the entry at index 0
    MaxIndex    \* bound of the logs

Store == INSTANCE LogStore

Entry(t, s) == [term |-> t, from |-> s]

ASSUME ClusterAssumption == Dummy = Entry(0, NoVote) /\ MaxIndex \in Nat

VARIABLES
    log,       \* the log stores
    commit,    \* the index up to which each server has committed
    matched,   \* what a leader knows of the other logs
    stale      \* history: an overwrite has left older entries behind it

logVars == <<log, commit, matched, stale>>
clusterVars == <<vars, logVars>>

Nothing == [r \in Server |-> 0]

ClusterInit ==
    /\ Init
    /\ log = [s \in Server |-> Store!NewLog]
    /\ commit = [s \in Server |-> 0]
    /\ matched = [s \in Server |-> Nothing]
    /\ stale = FALSE

Largest(I) == CHOOSE i \in I : \A j \in I : j <= i
Least(I)   == CHOOSE i \in I : \A j \in I : i <= j
-----------------------------------------------------------------------------
\* The candidate's log is no older than that of the voter.
UpToDate(candidate, voter) ==
    \/ Store!LastTerm(candidate) > Store!LastTerm(voter)
    \/ /\ Store!LastTerm(candidate) = Store!LastTerm(voter)
       /\ Store!NextSlot(candidate) >= Store!NextSlot(voter)

StepDown(s, r) ==
    /\ LearnTerm(s, r)
    /\ matched' = [matched EXCEPT ![s] = Nothing]
    /\ UNCHANGED <<log, commit, stale>>

AskVote(s, c) ==
    /\ Vote(s, c)
    /\ UpToDate(log[c], log[s])
    /\ UNCHANGED logVars

AppendTo(s) ==
    /\ Store!NextSlot(log[s]) <= MaxIndex
    /\ log' = [log EXCEPT ![s] = Store!AppendEntry(@, Entry(state[s].term, s))]

\* A leader begins with the configuration as an entry of its term.
Lead(s) ==
    /\ BecomeLeader(s)
    /\ AppendTo(s)
    /\ matched' = [matched EXCEPT ![s] = Nothing]
    /\ UNCHANGED <<commit, stale>>

\* executeCommand at the leader: the command goes into its log.
TakeCommand(s) ==
    /\ role[s] = "leader"
    /\ AppendTo(s)
    /\ UNCHANGED <<vars, commit, matched, stale>>
-----------------------------------------------------------------------------
\* Where the log of a leader and that of a follower last agree.
Agreement(leader, follower) ==
    Largest({i \in 0 .. leader.last :
               i <= follower.last /\ Store!TermAt(leader, i) = Store!TermAt(follower, i)})

(***************************************************************************)
(* How a follower stores the entries that come after index prev: it skips  *)
(* those it has, overwrites from the first that differs, appends the rest. *)
(***************************************************************************)
StoreEntries(mine, prev, entries) ==
    LET differs == {k \in DOMAIN entries :
                      \/ prev + k >= Store!NextSlot(mine)
                      \/ Store!TermAt(mine, prev + k) # entries[k].term}
        after[k \in Least(differs) - 1 .. Len(entries)] ==
           IF k < Least(differs) THEN mine
           ELSE IF prev + k < Store!NextSlot(mine)
                THEN Store!WriteAt(after[k - 1], prev + k, entries[k])
                ELSE Store!AppendEntry(after[k - 1], entries[k])
    IN  IF differs = {} THEN mine ELSE after[Len(entries)]

\* What the leader has committed once it knows the logs to match as in m.
CommittedBy(s, m) ==
    Largest({i \in 0 .. log[s].last : i <= commit[s]
               \/ Majority(s, {s} \cup {r \in Server : m[r] >= i})})

(***************************************************************************)
(* Leader s sends r the entries it lacks and its commit index; if the      *)
(* answer arrives, it knows r's log to match.                              *)
(***************************************************************************)
Replicate(s, r) ==
    LET prev    == Agreement(log[s], log[r])
        entries == Store!LogEntries(log[s], prev + 1, Store!NextSlot(log[s]))
        stored  == StoreEntries(log[r], prev, entries)
        learnt  == Largest({commit[s], commit[r]})
        told    == [matched[s] EXCEPT ![r] = log[s].last]
    IN  /\ HearLeader(r, s)
        /\ log' = [log EXCEPT ![r] = stored]
        /\ stale' = (stale \/ ~Store!TermsAscend(stored))
        /\ \/ /\ matched' = [matched EXCEPT ![s] = told]
              /\ commit' = [commit EXCEPT ![r] = learnt, ![s] = CommittedBy(s, told)]
           \/ /\ UNCHANGED matched
              /\ commit' = [commit EXCEPT ![r] = learnt]

ClusterNext ==
    \E s \in Server :
       \/ Timeout(s) /\ UNCHANGED logVars
       \/ Lead(s) \/ TakeCommand(s)
       \/ \E r \in Server : StepDown(s, r) \/ AskVote(s, r) \/ Replicate(s, r)

ClusterSpec == ClusterInit /\ [][ClusterNext]_clusterVars
-----------------------------------------------------------------------------
ClusterTypeOK ==
    /\ DOMAIN log = Server
    /\ commit \in [Server -> Nat]
    /\ matched \in [Server -> [Server -> 0 .. MaxIndex]]
    /\ stale \in BOOLEAN
    /\ \A s \in Server :
         /\ Store!WellFormed(log[s]) /\ log[s].start = 1 /\ log[s].entries[0] = Dummy
         /\ commit[s] <= log[s].last /\ log[s].last <= MaxIndex

(***************************************************************************)
(* "NuRaft ensures all nodes eventually see the same data" (README.md:295):*)
(* what two servers have committed at the same index is the same command.  *)
(***************************************************************************)
StateMachineSafety ==
    \A s, r \in Server : \A i \in 1 .. MaxIndex :
      i <= commit[s] /\ i <= commit[r] => log[s].entries[i] = log[r].entries[i]

(***************************************************************************)
(* Among servers that do not restart one thing only lets committed         *)
(* commands differ: a log in which write_at left older entries behind      *)
(* newer ones (51-57), which then passes for longer and older than it is.  *)
(***************************************************************************)
SafeUnlessStale == StateMachineSafety \/ stale

(***************************************************************************)
(* Until then a leader has every entry that anyone has committed in a term *)
(* no later than its own, however requests, answers and elections cross.   *)
(***************************************************************************)
LeaderHasCommitted ==
    ~stale =>
      \A l, s \in Server : role[l] = "leader" /\ state[s].term <= state[l].term =>
        \A i \in 1 .. commit[s] :
          Store!Stored(log[l], i) /\ log[l].entries[i] = log[s].entries[i]

(***************************************************************************)
(* Until then the state machines get what they rely on: no server takes    *)
(* back a command that it has committed, though logs are overwritten and   *)
(* leaders change, and all servers have committed the beginning of one log.*)
(***************************************************************************)
Committed(s) == [i \in 1 .. commit[s] |-> log[s].entries[i]]

OneLog == INSTANCE CommittedLog
          WITH known <- [s \in Server |-> Committed(s)], broken <- stale

CommandsStand == OneLog!Spec
-----------------------------------------------------------------------------
\* Why this is so, as long as no log is stale.  What each server knows:
Holds(s, i, t) == i \in 1 .. log[s].last /\ log[s].entries[i].term = t

IsQuorum(Q) == \E s \in Server : Majority(s, Q)

\* Where two logs have an entry of one term they are alike up to the first.
LogsMatch ==
    \A s, r \in Server : \A i \in 1 .. log[s].last, k \in 1 .. log[r].last :
      i <= k /\ log[s].entries[i].term = log[r].entries[k].term =>
        \A j \in 1 .. i : log[s].entries[j] = log[r].entries[j]

\* x has won the election of term t, and nobody else will.
Elected(t, x) ==
    \E Q \in SUBSET Server :
      /\ IsQuorum(Q)
      /\ \A q \in Q :
           \/ state[q].term > t
           \/ state[q].term = t /\ state[q].votedFor = x
      /\ \A c \in Server \ {x} :
            Campaigns(c) /\ state[c].term = t => votes[c] \cap Q = {}

\* Entries come from the winners of elections and rise in their terms.
LogsRise ==
    \A s \in Server :
      /\ Store!TermsAscend(log[s])
      /\ \A i \in 1 .. log[s].last :
           LET e == log[s].entries[i]
           IN  /\ e.from \in Server /\ Elected(e.term, e.from)
               /\ e.term <= state[s].term
               /\ e.term <= state[e.from].term
               /\ role[e.from] = "candidate" => e.term < state[e.from].term

\* A leader has the entries of its term, and knows of no others' but those.
LeadersHold ==
    \A l \in Server : role[l] = "leader" =>
      /\ Holds(l, log[l].last, state[l].term)
      /\ \A s \in Server : \A i \in 1 .. log[s].last :
           Holds(s, i, state[l].term) => Holds(l, i, state[l].term)
      /\ \A r \in Server : matched[l][r] = 0 \/ Holds(l, matched[l][r], state[l].term)

(***************************************************************************)
(* The servers of A stand by the entry of term t at index i: they have it, *)
(* and voted in later terms only for who has it, and every later entry was *)
(* stored behind it.  Once a quorum does so it is committed for good.      *)
(***************************************************************************)
Pledged(t, i, A) ==
    /\ \A q \in A : Holds(q, i, t) /\ t <= state[q].term
    /\ \A c \in Server :
         Campaigns(c) /\ state[c].term > t /\ ~Holds(c, i, t) => votes[c] \cap A = {}
    /\ \A s \in Server : \A k \in 1 .. log[s].last :
         log[s].entries[k].term > t => Holds(s, i, t)

\* The servers that leader l knows to have its entry at index i ...
Acknowledged(l, i) == {l} \cup {r \in Server : matched[l][r] >= i}

\* ... and when these will never be a quorum.
Lost(l, i) ==
    \E Q \in SUBSET Server :
      IsQuorum(Q) /\ \A q \in Q : state[q].term > state[l].term /\ matched[l][q] < i

LeadersPledge ==
    \A l \in Server : \A i \in 1 .. log[l].last :
      role[l] = "leader" /\ Holds(l, i, state[l].term) =>
        Pledged(state[l].term, i, Acknowledged(l, i)) \/ Lost(l, i)

CommitsPledged ==
    \A s \in Server : commit[s] = 0 \/
      \E Q \in SUBSET Server :
        IsQuorum(Q) /\ Pledged(log[s].entries[commit[s]].term, commit[s], Q)

(***************************************************************************)
(* While no log is stale (51-57) all of this holds at once, across lost    *)
(* elections, crossing answers and overwritten suffixes: log matching,     *)
(* and that what a quorum has acknowledged cannot be voted away.  It is    *)
(* inductive, and the two properties above follow from it.                 *)
(***************************************************************************)
ClusterInv ==
    stale \/ (LogsMatch /\ LogsRise /\ LeadersHold /\ LeadersPledge /\ CommitsPledged)
=============================================================================
