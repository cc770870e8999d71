---------------------------- MODULE RaftElections ----------------------------
(***************************************************************************)
(* Elections of the Raft servers that src/src/raft/raft_engine.cpp starts: *)
(* NuRaft, which is external and here as Raft prescribes, keeps its term   *)
(* and its vote with the state manager of this program, which              *)
(* triggerLeaderElection also uses.                                        *)
(*                                                                         *)
(* A request and its answer are one action; one that is lost is an action  *)
(* that does not happen.  What the voters think of the candidate's log is  *)
(* left open (RaftCluster settles it).                                     *)
(***************************************************************************)
EXTENDS RaftStateManager, FiniteSets

CONSTANTS
    NotYet,       \* a server has not triggered an election
    Done,         \* it has
    MaxTerm, MaxRestarts, MaxFailures, MaxTriggers   \* bounds

Ballots == [term : Nat, votedFor : Server \cup {NoVote}]

ASSUME ElectionAssumption ==
    /\ IsFiniteSet(Server)
    /\ NoVote \notin Server
    /\ Shared \notin Ballots /\ Torn \notin Ballots
    /\ Remains \subseteq Ballots /\ FreshState \in Remains
    /\ NotYet \notin Nat /\ Done \notin Nat /\ NotYet # Done

VARIABLES
    state,         \* NuRaft's term and vote, per server
    role,          \* "follower", "candidate" or "leader"
    votes,         \* the votes a candidate or leader has got in its term
    server_state,  \* the state managers' state
    file,          \* the state files
    trigger,       \* triggerLeaderElection: the term it has read
    restarts, failures,   \* counters for the bounds
    forgot         \* history: a restart has forgotten a term

savedVars == <<server_state, file, failures>>
vars == <<state, role, votes, savedVars, trigger, restarts, forgot>>

Init ==
    /\ state \in [Server -> Remains]
    /\ role = [s \in Server |-> "follower"]
    /\ votes = [s \in Server |-> {}]
    /\ server_state = [s \in Server |-> Shared]
    /\ file = [s \in Server |-> FreshState]
    /\ trigger = [s \in Server |-> NotYet]
    /\ restarts = 0 /\ failures = 0
    /\ forgot = FALSE

Majority(s, R) == 2 * Cardinality(R) > Len(ClusterConfig(s))
-----------------------------------------------------------------------------
Outcomes == {"unopened", "unwritten", "written"}

\* save_state; the file may not be opened, or not be written.
Save(s, new) ==
    \E outcome \in IF failures < MaxFailures THEN Outcomes ELSE {"written"} :
       /\ server_state' = [server_state EXCEPT ![s] = SaveState(@, new, outcome)]
       /\ file' = [file EXCEPT ![s] = SaveFile(@, new, outcome)]
       /\ failures' = IF outcome = "written" THEN failures ELSE failures + 1

\* NuRaft changes its state and saves it.
SetState(s, new) ==
    /\ state' = [state EXCEPT ![s] = new]
    /\ Save(s, new)

\* The election timeout of s.
Timeout(s) ==
    /\ role[s] # "leader"
    /\ state[s].term < MaxTerm
    /\ SetState(s, State(state[s].term + 1, s))
    /\ role' = [role EXCEPT ![s] = "candidate"]
    /\ votes' = [votes EXCEPT ![s] = {s}]
    /\ UNCHANGED <<trigger, restarts, forgot>>

\* A request or an answer of r shows s a later term.
LearnTerm(s, r) ==
    /\ state[s].term < state[r].term
    /\ SetState(s, State(state[r].term, NoVote))
    /\ role' = [role EXCEPT ![s] = "follower"]
    /\ votes' = [votes EXCEPT ![s] = {}]
    /\ UNCHANGED <<trigger, restarts, forgot>>

\* Mutant of Vote: the voter's earlier vote does not count.
VoteAgain(s, c) ==
    /\ s # c /\ role[c] = "candidate"
    /\ state[s].term = state[c].term
    /\ SetState(s, State(state[s].term, c))
    /\ votes' = [votes EXCEPT ![c] = @ \cup {s}]
    /\ UNCHANGED <<role, trigger, restarts, forgot>>

\* Candidate c asks s for its vote and gets it.
Vote(s, c) ==
    /\ s # c
    /\ role[c] = "candidate"
    /\ state[s].term = state[c].term
    /\ state[s].votedFor \in {NoVote, c}
    /\ SetState(s, State(state[s].term, c))
    /\ votes' = [votes EXCEPT ![c] = @ \cup {s}]
    /\ UNCHANGED <<role, trigger, restarts, forgot>>

BecomeLeader(s) ==
    /\ role[s] = "candidate"
    /\ Majority(s, votes[s])
    /\ role' = [role EXCEPT ![s] = "leader"]
    /\ UNCHANGED <<state, votes, savedVars, trigger, restarts, forgot>>

\* Leader s sends a request to r, which is in its term.
HearLeader(r, s) ==
    /\ s # r
    /\ role[s] = "leader"
    /\ state[r].term = state[s].term
    /\ role' = [role EXCEPT ![r] = "follower"]
    /\ votes' = [votes EXCEPT ![r] = {}]
    /\ UNCHANGED <<state, savedVars, trigger, restarts, forgot>>
-----------------------------------------------------------------------------
\* triggerLeaderElection, called once at the end of start by a server that
\* does not lead, reads the state ...
TriggerRead(s) ==
    /\ trigger[s] = NotYet
    /\ Cardinality({r \in Server : trigger[r] # NotYet}) < MaxTriggers
    /\ role[s] # "leader"
    /\ trigger' = [trigger EXCEPT ![s] = ReadState(server_state[s], state[s]).term]
    /\ UNCHANGED <<state, role, votes, savedVars, restarts, forgot>>

\* ... and saves the next term without a vote.  NuRaft is not told.
TriggerSave(s) ==
    /\ trigger[s] \in Nat
    /\ Save(s, State(trigger[s] + 1, NoVote))
    /\ trigger' = [trigger EXCEPT ![s] = Done]
    /\ UNCHANGED <<state, role, votes, restarts, forgot>>

\* The process of s ends and starts again, with nothing of what it knew: the
\* Raft directory is removed.
Restart(s) ==
    /\ restarts < MaxRestarts
    /\ restarts' = restarts + 1
    /\ \E shown \in Remains : state' = [state EXCEPT ![s] = shown]
    /\ server_state' = [server_state EXCEPT ![s] = Shared]
    /\ file' = [file EXCEPT ![s] = FreshState]
    /\ role' = [role EXCEPT ![s] = "follower"]
    /\ votes' = [votes EXCEPT ![s] = {}]
    /\ trigger' = [trigger EXCEPT ![s] = NotYet]
    /\ forgot' = (forgot \/ state'[s] # state[s])
    /\ UNCHANGED failures

Next ==
    \E s \in Server :
       \/ Timeout(s) \/ BecomeLeader(s)
       \/ \E r \in Server : LearnTerm(s, r) \/ Vote(s, r) \/ HearLeader(s, r)
       \/ TriggerRead(s) \/ TriggerSave(s)
       \/ Restart(s)

Spec == Init /\ [][Next]_vars
-----------------------------------------------------------------------------
TypeOK ==
    /\ state \in [Server -> Ballots]
    /\ role \in [Server -> {"follower", "candidate", "leader"}]
    /\ votes \in [Server -> SUBSET Server]
    /\ server_state \in [Server -> Ballots \cup {Shared}]
    /\ file \in [Server -> Ballots \cup {Torn}]
    /\ trigger \in [Server -> Nat \cup {NotYet, Done}]
    /\ restarts \in Nat /\ failures \in Nat
    /\ forgot \in BOOLEAN

(***************************************************************************)
(* No two servers lead in the same term - as long as no restart has made a *)
(* server forget its term and its vote, which the constructor does every   *)
(* time (raft_engine.cpp:512-519, raft_state_manager.cpp:146-156).         *)
(* Elections that are triggered and saves that fail do no harm.            *)
(***************************************************************************)
OneLeaderPerTerm ==
    forgot \/ \A s, r \in Server :
      role[s] = "leader" /\ role[r] = "leader" /\ state[s].term = state[r].term => s = r

\* What read_state of server s answers.
Read(s) == ReadState(server_state[s], state[s])

\* A ballot gives way to a later term, or to a vote where there was none.
KeepsVote(old, new) ==
    /\ new.term >= old.term
    /\ new.term = old.term /\ old.votedFor # NoVote => new.votedFor = old.votedFor

VoteLost(old, new) == old.votedFor # NoVote /\ ~KeepsVote(old, new)

(***************************************************************************)
(* A vote that was saved stays until a later term in what read_state       *)
(* answers, whatever saves fail and whatever election is triggered, and on *)
(* disk unless a write has failed after the open (241-266).  One case only *)
(* loses it: NuRaft saves a later term than triggerLeaderElection has read *)
(* before that saves its own (raft_engine.cpp:664-673).                    *)
(***************************************************************************)
FileKeepsVotes ==
    [][\A s \in Server :
         \/ restarts' # restarts
         \/ trigger[s] \in Nat /\ trigger'[s] = Done /\ Read(s).term > trigger[s]
         \/ /\ ~VoteLost(Read(s), Read(s)')
            /\ file[s] # Torn /\ file'[s] # Torn => ~VoteLost(file[s], file'[s])]_vars

(***************************************************************************)
(* A triggered election changes the file behind NuRaft's back, but as long *)
(* as every save succeeds the file is NuRaft's state, or at most one term  *)
(* ahead of it and without a vote (raft_engine.cpp:655-679); before the    *)
(* first save it is fresh, whatever the freed object shows (156, 263-265). *)
(***************************************************************************)
FileNearState ==
    failures = 0 => \A s \in Server :
      \/ file[s] = state[s]
      \/ server_state[s] = Shared /\ file[s] = FreshState /\ state[s] \in Remains
      \/ trigger[s] = Done /\ file[s].votedFor = NoVote /\ file[s].term <= state[s].term + 1
-----------------------------------------------------------------------------
\* Why there is one leader per term: who has voted for a candidate of a term
\* has not voted otherwise in it, so the votes of two candidates are disjoint,
\* and each leader has a majority of them.
Campaigns(c) == role[c] # "follower"

VotesBind ==
    \A c, s \in Server : Campaigns(c) /\ s \in votes[c] =>
       /\ state[s].term >= state[c].term
       /\ state[s].term = state[c].term => state[s].votedFor = c

VotesDisjoint ==
    \A c, d \in Server :
       /\ Campaigns(c) /\ Campaigns(d) /\ c # d
       /\ state[c].term = state[d].term
       => votes[c] \cap votes[d] = {}

LeadersElected == \A s \in Server : role[s] = "leader" => Majority(s, votes[s])

ElectionInv == LeadersElected /\ (forgot \/ (VotesBind /\ VotesDisjoint))

\* Why the votes stay: NuRaft has the votes that were saved, and the term
\* that was read for a triggered election is no later than its own.
ReadBehind ==
    \A s \in Server : /\ ~VoteLost(Read(s), state[s])
                      /\ trigger[s] # Done => KeepsVote(Read(s), state[s])
                      /\ trigger[s] \in Nat => trigger[s] <= state[s].term

\* The file is the last state that was saved.
FileIsCopy ==
    \A s \in Server : file[s] \in {Torn, IF server_state[s] = Shared THEN FreshState
                                                                    ELSE server_state[s]}

FileInv == ReadBehind /\ FileIsCopy /\ FileNearState
=============================================================================
