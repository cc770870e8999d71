-------------------------- MODULE RaftStateManager --------------------------
(***************************************************************************)
(* RaftStateManager of src/src/raft/raft_state_manager.cpp: what NuRaft    *)
(* and triggerLeaderElection read and save through it.                     *)
(*                                                                         *)
(* server_state_ is a pointer.  Until the first save of NuRaft succeeds it *)
(* is the very object NuRaft changes (NuRaft took it with read_state), and *)
(* that is the value Shared; from then on it is a copy.  A save can end in *)
(* three ways: "unopened", "unwritten" (the open has emptied the file, the *)
(* write fails and nobody looks) or "written".  Nobody reads the file.     *)
(***************************************************************************)
EXTENDS Integers, Sequences

CONSTANTS
    Server,
    NoVote,    \* voted_for -1
    Shared,
    Torn,      \* what is left of the file when the write after the open fails
    Remains,   \* the states a freed srv_state may still show
    Peers      \* Peers[s]: the peers s is configured with, "" for one without a comma

State(t, v) == [term |-> t, votedFor |-> v]

\* The constructor never recovers: it saves term 0 and no vote.  In memory it
\* keeps what the object its argument refers to shows once save_state has
\* freed it: anything of Remains.  (That this save succeeds is assumed.)
FreshState == State(0, NoVote)

\* read_state, where live is the state NuRaft is in.
ReadState(server_state, live) == IF server_state = Shared THEN live ELSE server_state

\* Mutants of SaveState: a failure resets the copy; the fields are mixed up.
SaveStateOrReset(server_state, state, outcome) ==
    IF outcome = "written" THEN state ELSE FreshState

SaveStateMixedUp(server_state, state, outcome) ==
    IF outcome = "unopened" THEN server_state ELSE State(state.term, state.term)

\* save_state renews its copy unless the file cannot be opened.
SaveState(server_state, state, outcome) ==
    IF outcome = "unopened" THEN server_state ELSE state

\* Mutant of SaveFile: the vote is not written.
SaveFileTermOnly(file, state, outcome) ==
    IF outcome = "unopened" THEN file ELSE State(state.term, NoVote)

\* What save_state makes of the file; a crash after the open tears it too.
SaveFile(file, state, outcome) ==
    CASE outcome = "unopened"  -> file
      [] outcome = "unwritten" -> Torn
      [] outcome = "written"   -> state

\* init_cluster_config: this server and then its peers, itself left out.
ClusterConfig(s) ==
    LET other(p) == p # "" /\ p # s
    IN  <<s>> \o SelectSeq(Peers[s], other)

ASSUME ConfigAssumption ==
    \A s \in Server :
       /\ ClusterConfig(s) \in Seq(Server)
       /\ Server = {ClusterConfig(s)[i] : i \in DOMAIN ClusterConfig(s)}
=============================================================================
