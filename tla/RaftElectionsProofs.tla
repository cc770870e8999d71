------------------------- MODULE RaftElectionsProofs -------------------------
(***************************************************************************)
(* Proofs about elections and about the state file, for any number of      *)
(* servers, terms, restarts, failures and triggered elections, and that    *)
(* the cluster with its logs elects as RaftElections has it.               *)
(***************************************************************************)
EXTENDS RaftCluster, FiniteSetTheorems, TLAPS

\* Ballots are what State makes.
LEMMA StateType ==
  ASSUME NEW t \in Nat, NEW v \in Server \cup {NoVote}
  PROVE  /\ State(t, v) \in Ballots
         /\ State(t, v).term = t /\ State(t, v).votedFor = v
BY DEF State, Ballots

LEMMA FreshType == FreshState \in Ballots /\ FreshState.term = 0
BY StateType DEF FreshState

\* Whether or not the save succeeds the state manager has a ballot.
LEMMA SaveType ==
  ASSUME TypeOK, NEW s \in Server, NEW new \in Ballots, Save(s, new)
  PROVE  /\ server_state' \in [Server -> Ballots \cup {Shared}]
         /\ file' \in [Server -> Ballots \cup {Torn}]
         /\ failures' \in Nat
BY DEF Save, SaveState, SaveFile, Outcomes, TypeOK

LEMMA SetStateType ==
  ASSUME TypeOK, NEW s \in Server, NEW new \in Ballots, SetState(s, new)
  PROVE  /\ state' \in [Server -> Ballots]
         /\ server_state' \in [Server -> Ballots \cup {Shared}]
         /\ file' \in [Server -> Ballots \cup {Torn}]
         /\ failures' \in Nat
         /\ state'[s] = new /\ \A r \in Server \ {s} : state'[r] = state[r]
<1>1. Save(s, new)
  BY DEF SetState
<1> QED
  BY <1>1, SaveType DEF SetState, TypeOK

\* The ballots that NuRaft's actions cast.
LEMMA Casts ==
  ASSUME TypeOK, NEW s \in Server, NEW r \in Server
  PROVE  /\ State(state[s].term + 1, s) \in Ballots
         /\ State(state[r].term, NoVote) \in Ballots
         /\ State(state[s].term, r) \in Ballots
         /\ state[s] \in Ballots /\ state[s].term \in Nat
<1>1. state[s] \in Ballots /\ state[r] \in Ballots
  BY DEF TypeOK
<1>2. state[s].term \in Nat /\ state[r].term \in Nat
  BY <1>1 DEF Ballots
<1> QED
  BY <1>1, <1>2, StateType

\* The ballot that a triggered election saves.
LEMMA TriggerCasts ==
  ASSUME NEW s \in Server, TriggerSave(s)
  PROVE  /\ Save(s, State(trigger[s] + 1, NoVote))
         /\ State(trigger[s] + 1, NoVote) \in Ballots
<1>1. trigger[s] \in Nat /\ Save(s, State(trigger[s] + 1, NoVote))
  BY DEF TriggerSave
<1>2. trigger[s] + 1 \in Nat
  BY <1>1
<1>3. State(trigger[s] + 1, NoVote) \in Ballots
  BY <1>2, StateType
<1> QED
  BY <1>1, <1>3

\* A read of the state manager finds a ballot.
LEMMA ReadType ==
  ASSUME TypeOK, NEW s \in Server
  PROVE  ReadState(server_state[s], state[s]).term \in Nat
<1>1. ReadState(server_state[s], state[s]) \in Ballots
  BY DEF ReadState, TypeOK
<1> QED
  BY <1>1 DEF Ballots
-----------------------------------------------------------------------------
LEMMA InitType == Init => TypeOK
<1> SUFFICES ASSUME Init PROVE TypeOK
  OBVIOUS
<1>1. /\ state \in [Server -> Ballots]
      /\ server_state \in [Server -> Ballots \cup {Shared}]
      /\ file \in [Server -> Ballots \cup {Torn}]
  BY FreshType, ElectionAssumption DEF Init
<1>2. /\ role \in [Server -> {"follower", "candidate", "leader"}]
      /\ votes \in [Server -> SUBSET Server]
      /\ trigger \in [Server -> Nat \cup {NotYet, Done}]
  BY DEF Init
<1>3. restarts \in Nat /\ failures \in Nat /\ forgot \in BOOLEAN
  BY DEF Init
<1> QED
  BY <1>1, <1>2, <1>3 DEF TypeOK

LEMMA NextType == TypeOK /\ [Next]_vars => TypeOK'
<1> SUFFICES ASSUME TypeOK, [Next]_vars PROVE TypeOK'
  OBVIOUS
<1>1. ASSUME NEW s \in Server, Timeout(s) PROVE TypeOK'
  <2>1. SetState(s, State(state[s].term + 1, s)) /\ State(state[s].term + 1, s) \in Ballots
    BY <1>1, Casts DEF Timeout
  <2> QED
    BY <1>1, <2>1, SetStateType DEF Timeout, TypeOK
<1>2. ASSUME NEW s \in Server, NEW r \in Server, LearnTerm(s, r) PROVE TypeOK'
  <2>1. SetState(s, State(state[r].term, NoVote)) /\ State(state[r].term, NoVote) \in Ballots
    BY <1>2, Casts DEF LearnTerm
  <2> QED
    BY <1>2, <2>1, SetStateType DEF LearnTerm, TypeOK
<1>3. ASSUME NEW s \in Server, NEW c \in Server, Vote(s, c) PROVE TypeOK'
  <2>1. SetState(s, State(state[s].term, c)) /\ State(state[s].term, c) \in Ballots
    BY <1>3, Casts DEF Vote
  <2> QED
    BY <1>3, <2>1, SetStateType DEF Vote, TypeOK
<1>4. ASSUME NEW s \in Server, BecomeLeader(s) PROVE TypeOK'
  BY <1>4 DEF BecomeLeader, savedVars, TypeOK
<1>5. ASSUME NEW r \in Server, NEW s \in Server, HearLeader(r, s) PROVE TypeOK'
  BY <1>5 DEF HearLeader, savedVars, TypeOK
<1>6. ASSUME NEW s \in Server, TriggerRead(s) PROVE TypeOK'
  BY <1>6, ReadType DEF TriggerRead, savedVars, TypeOK
<1>7. ASSUME NEW s \in Server, TriggerSave(s) PROVE TypeOK'
  <2>1. Save(s, State(trigger[s] + 1, NoVote)) /\ State(trigger[s] + 1, NoVote) \in Ballots
    BY <1>7, TriggerCasts
  <2> QED
    BY <1>7, <2>1, SaveType DEF TriggerSave, TypeOK
<1>8. ASSUME NEW s \in Server, Restart(s) PROVE TypeOK'
  BY <1>8, FreshType, ElectionAssumption DEF Restart, TypeOK
<1>9. CASE UNCHANGED vars
  BY <1>9 DEF vars, savedVars, TypeOK
<1> QED
  BY <1>1, <1>2, <1>3, <1>4, <1>5, <1>6, <1>7, <1>8, <1>9 DEF Next

(***************************************************************************)
(* The variables have their types, in any number of terms and restarts.    *)
(***************************************************************************)
THEOREM TypeCorrect == Spec => []TypeOK
BY InitType, NextType, PTL DEF Spec
-----------------------------------------------------------------------------
\* The configuration of a server has room for every server.
LEMMA ConfigCovers ==
  ASSUME NEW s \in Server
  PROVE  Len(ClusterConfig(s)) \in Nat /\ Cardinality(Server) <= Len(ClusterConfig(s))
<1> DEFINE config == ClusterConfig(s)
           n == Len(config)
<1>1. config \in Seq(Server) /\ Server = {config[i] : i \in DOMAIN config}
  BY ConfigAssumption
<1>2. n \in Nat /\ DOMAIN config = 1 .. n /\ config \in [1 .. n -> Server]
  BY <1>1
<1>3. config \in Surjection(1 .. n, Server)
  BY <1>1, <1>2 DEF Surjection
<1>4. IsFiniteSet(1 .. n) /\ Cardinality(1 .. n) = n
  BY <1>2, FS_Interval
<1>5. Cardinality(Server) <= Cardinality(1 .. n)
  BY <1>3, <1>4, FS_Surjection
<1> QED
  BY <1>2, <1>4, <1>5

\* Two majorities have a server in common.
LEMMA MajoritiesMeet ==
  ASSUME NEW s \in Server, NEW r \in Server,
         NEW Q \in SUBSET Server, NEW R \in SUBSET Server,
         Majority(s, Q), Majority(r, R)
  PROVE  Q \cap R # {}
<1> SUFFICES ASSUME Q \cap R = {} PROVE FALSE
  OBVIOUS
<1>1. IsFiniteSet(Server) /\ IsFiniteSet(Q) /\ IsFiniteSet(R)
  BY ElectionAssumption, FS_Subset
<1>2. /\ Cardinality(Q) \in Nat /\ Cardinality(R) \in Nat
      /\ Cardinality(Server) \in Nat
  BY <1>1, FS_CardinalityType
<1>3. Cardinality(Q \cup R) = Cardinality(Q) + Cardinality(R)
  <2>1. Cardinality(Q \cap R) = 0
    BY FS_EmptySet
  <2>2. Cardinality(Q \cup R) = Cardinality(Q) + Cardinality(R) - Cardinality(Q \cap R)
    BY <1>1, FS_Union
  <2> QED
    BY <1>2, <2>1, <2>2
<1>4. Cardinality(Q \cup R) <= Cardinality(Server)
  BY <1>1, FS_Subset
<1>5. 2 * Cardinality(Q) > Len(ClusterConfig(s)) /\ 2 * Cardinality(R) > Len(ClusterConfig(r))
  BY DEF Majority
<1>6. /\ Len(ClusterConfig(s)) \in Nat /\ Cardinality(Server) <= Len(ClusterConfig(s))
      /\ Len(ClusterConfig(r)) \in Nat /\ Cardinality(Server) <= Len(ClusterConfig(r))
  BY ConfigCovers
<1> QED
  BY <1>2, <1>3, <1>4, <1>5, <1>6
-----------------------------------------------------------------------------
\* A restart that forgets nothing changes no term and no vote.
LEMMA HarmlessRestart ==
  ASSUME TypeOK, NEW s \in Server, Restart(s), ~forgot'
  PROVE  state' = state
BY DEF Restart, TypeOK

LEMMA ElectedStep == TypeOK /\ LeadersElected /\ [Next]_vars => LeadersElected'
<1> SUFFICES ASSUME TypeOK, LeadersElected, [Next]_vars, NEW l \in Server, role'[l] = "leader"
             PROVE  Majority(l, votes'[l])
  BY DEF LeadersElected, Majority
<1> USE DEF TypeOK, LeadersElected
<1>1. ASSUME NEW s \in Server, Timeout(s) PROVE Majority(l, votes'[l])
  BY <1>1 DEF Timeout
<1>2. ASSUME NEW s \in Server, NEW r \in Server, LearnTerm(s, r) PROVE Majority(l, votes'[l])
  BY <1>2 DEF LearnTerm
<1>3. ASSUME NEW s \in Server, NEW c \in Server, Vote(s, c) PROVE Majority(l, votes'[l])
  BY <1>3 DEF Vote
<1>4. ASSUME NEW s \in Server, BecomeLeader(s) PROVE Majority(l, votes'[l])
  BY <1>4 DEF BecomeLeader
<1>5. ASSUME NEW r \in Server, NEW s \in Server, HearLeader(r, s) PROVE Majority(l, votes'[l])
  BY <1>5 DEF HearLeader
<1>6. ASSUME NEW s \in Server, TriggerRead(s) \/ TriggerSave(s) PROVE Majority(l, votes'[l])
  BY <1>6 DEF TriggerRead, TriggerSave
<1>7. ASSUME NEW s \in Server, Restart(s) PROVE Majority(l, votes'[l])
  BY <1>7 DEF Restart
<1>8. CASE UNCHANGED vars
  BY <1>8 DEF vars
<1> QED
  BY <1>1, <1>2, <1>3, <1>4, <1>5, <1>6, <1>7, <1>8 DEF Next

\* What one step does to a voter s of a candidate c, in the three ways that matter.
LEMMA BindStep ==
  ASSUME TypeOK, VotesBind, [Next]_vars, ~forgot'
  PROVE  VotesBind'
<1> SUFFICES ASSUME NEW c \in Server, NEW s \in Server, Campaigns(c)', s \in votes'[c]
             PROVE  /\ state'[s].term >= state'[c].term
                    /\ state'[s].term = state'[c].term => state'[s].votedFor = c
  BY DEF VotesBind
<1> DEFINE Bound == /\ state'[s].term >= state'[c].term
                    /\ state'[s].term = state'[c].term => state'[s].votedFor = c
<1>0. state[s].term \in Nat /\ state[c].term \in Nat
  BY Casts
<1>a. Campaigns(c) /\ s \in votes[c] =>
         /\ state[s].term >= state[c].term
         /\ state[s].term = state[c].term => state[s].votedFor = c
  BY DEF VotesBind
<1>1. ASSUME NEW x \in Server, Timeout(x) PROVE Bound
  <2> DEFINE new == State(state[x].term + 1, x)
  <2>1. /\ state'[x] = new /\ \A r \in Server \ {x} : state'[r] = state[r]
        /\ new.term = state[x].term + 1 /\ new.votedFor = x
        /\ state[x].term \in Nat
    BY <1>1, Casts, SetStateType, StateType DEF Timeout
  <2>2. CASE c = x
    <3>1. s = x
      BY <1>1, <2>2 DEF Timeout, TypeOK
    <3> QED
      BY <2>1, <2>2, <3>1
  <2>3. CASE c # x
    <3>1. Campaigns(c) /\ s \in votes[c]
      BY <1>1, <2>3 DEF Timeout, TypeOK, Campaigns
    <3>2. CASE s = x
      BY <1>0, <1>a, <2>1, <2>3, <3>1, <3>2
    <3>3. CASE s # x
      BY <1>a, <2>1, <2>3, <3>1, <3>3
    <3> QED
      BY <3>2, <3>3
  <2> QED
    BY <2>2, <2>3
<1>2. ASSUME NEW x \in Server, NEW r \in Server, LearnTerm(x, r) PROVE Bound
  <2> DEFINE new == State(state[r].term, NoVote)
  <2>1. /\ state'[x] = new /\ \A q \in Server \ {x} : state'[q] = state[q]
        /\ new.term = state[r].term /\ state[x].term < state[r].term
        /\ state[x].term \in Nat /\ state[r].term \in Nat
    BY <1>2, Casts, SetStateType, StateType DEF LearnTerm
  <2>2. c # x /\ Campaigns(c) /\ s \in votes[c]
    BY <1>2 DEF LearnTerm, TypeOK, Campaigns
  <2>3. CASE s = x
    BY <1>0, <1>a, <2>1, <2>2, <2>3
  <2>4. CASE s # x
    BY <1>a, <2>1, <2>2, <2>4
  <2> QED
    BY <2>3, <2>4
<1>3. ASSUME NEW x \in Server, NEW d \in Server, Vote(x, d) PROVE Bound
  <2> DEFINE new == State(state[x].term, d)
  <2>1. /\ state'[x] = new /\ \A q \in Server \ {x} : state'[q] = state[q]
        /\ new.term = state[x].term /\ new.votedFor = d
        /\ state[x].term \in Nat
        /\ x # d /\ state[x].term = state[d].term /\ state[x].votedFor \in {NoVote, d}
    BY <1>3, Casts, SetStateType, StateType DEF Vote
  <2>2. CASE c = d
    <3>1. Campaigns(c) /\ s \in votes[c] \cup {x}
      BY <1>3, <2>2 DEF Vote, TypeOK, Campaigns
    <3>2. CASE s = x
      BY <2>1, <2>2, <3>2
    <3>3. CASE s # x
      BY <1>a, <2>1, <2>2, <3>1, <3>3
    <3> QED
      BY <3>2, <3>3
  <2>3. CASE c # d
    <3>1. Campaigns(c) /\ s \in votes[c] /\ state'[c].term = state[c].term
      BY <1>3, <2>1, <2>3 DEF Vote, TypeOK, Campaigns
    <3>2. CASE s = x
      BY <1>0, <1>a, <2>1, <2>3, <3>1, <3>2, ElectionAssumption
    <3>3. CASE s # x
      BY <1>a, <2>1, <3>1, <3>3
    <3> QED
      BY <3>2, <3>3
  <2> QED
    BY <2>2, <2>3
<1>4. ASSUME NEW x \in Server, BecomeLeader(x) PROVE Bound
  BY <1>4, <1>a DEF BecomeLeader, TypeOK, Campaigns
<1>5. ASSUME NEW r \in Server, NEW x \in Server, HearLeader(r, x) PROVE Bound
  BY <1>5, <1>a DEF HearLeader, TypeOK, Campaigns
<1>6. ASSUME NEW x \in Server, TriggerRead(x) \/ TriggerSave(x) PROVE Bound
  BY <1>6, <1>a DEF TriggerRead, TriggerSave, Campaigns
<1>7. ASSUME NEW x \in Server, Restart(x) PROVE Bound
  BY <1>7, <1>a, HarmlessRestart DEF Restart, TypeOK, Campaigns
<1>8. CASE UNCHANGED vars
  BY <1>8, <1>a DEF vars, Campaigns
<1> QED
  BY <1>1, <1>2, <1>3, <1>4, <1>5, <1>6, <1>7, <1>8 DEF Next

LEMMA DisjointStep ==
  ASSUME TypeOK, VotesBind, VotesDisjoint, [Next]_vars, ~forgot'
  PROVE  VotesDisjoint'
<1> SUFFICES ASSUME NEW c \in Server, NEW d \in Server, NEW v \in Server,
                    Campaigns(c)', Campaigns(d)', c # d, state'[c].term = state'[d].term,
                    v \in votes'[c], v \in votes'[d]
             PROVE  FALSE
  BY NextType DEF VotesDisjoint, TypeOK
<1>0. state[c].term \in Nat /\ state[d].term \in Nat /\ state[v].term \in Nat
  BY Casts
<1>a. ~ (/\ Campaigns(c) /\ Campaigns(d) /\ state[c].term = state[d].term
         /\ v \in votes[c] /\ v \in votes[d])
  BY DEF VotesDisjoint
<1>b. \A e \in Server : Campaigns(e) /\ v \in votes[e] =>
         /\ state[v].term >= state[e].term
         /\ state[v].term = state[e].term => state[v].votedFor = e
  BY DEF VotesBind
<1>1. ASSUME NEW x \in Server, Timeout(x) PROVE FALSE
  <2>1. /\ state'[x].term = state[x].term + 1
        /\ \A r \in Server \ {x} : state'[r] = state[r]
    BY <1>1, Casts, SetStateType, StateType DEF Timeout
  <2>2. /\ votes' = [votes EXCEPT ![x] = {x}]
        /\ \A e \in Server \ {x} : Campaigns(e)' => Campaigns(e)
    BY <1>1 DEF Timeout, TypeOK, Campaigns
  <2>3. CASE c = x
    BY <1>0, <1>b, <2>1, <2>2, <2>3 DEF TypeOK
  <2>4. CASE d = x
    BY <1>0, <1>b, <2>1, <2>2, <2>4 DEF TypeOK
  <2> QED
    BY <1>a, <2>1, <2>2, <2>3, <2>4 DEF TypeOK
<1>2. ASSUME NEW x \in Server, NEW r \in Server, LearnTerm(x, r) PROVE FALSE
  <2>1. \A q \in Server \ {x} : state'[q] = state[q]
    BY <1>2, Casts, SetStateType DEF LearnTerm
  <2>2. c # x /\ d # x
    BY <1>2 DEF LearnTerm, TypeOK, Campaigns
  <2> QED
    BY <1>2, <1>a, <2>1, <2>2 DEF LearnTerm, TypeOK, Campaigns
<1>3. ASSUME NEW x \in Server, NEW e \in Server, Vote(x, e) PROVE FALSE
  <2>1. \A q \in Server : state'[q].term = state[q].term
    <3>1. /\ SetState(x, State(state[x].term, e)) /\ State(state[x].term, e) \in Ballots
          /\ State(state[x].term, e).term = state[x].term
      BY <1>3, Casts, StateType DEF Vote
    <3> QED
      BY <3>1, SetStateType
  <2>2. /\ votes' = [votes EXCEPT ![e] = @ \cup {x}]
        /\ Campaigns(c) /\ Campaigns(d)
        /\ state[x].term = state[e].term /\ state[x].votedFor \in {NoVote, e}
    BY <1>3 DEF Vote, TypeOK, Campaigns
  <2>3. CASE v = x /\ c = e
    BY <1>0, <1>b, <2>1, <2>2, <2>3, ElectionAssumption DEF TypeOK
  <2>4. CASE v = x /\ d = e
    BY <1>0, <1>b, <2>1, <2>2, <2>4, ElectionAssumption DEF TypeOK
  <2> QED
    BY <1>a, <2>1, <2>2, <2>3, <2>4 DEF TypeOK
<1>4. ASSUME NEW x \in Server, BecomeLeader(x) PROVE FALSE
  BY <1>4, <1>a DEF BecomeLeader, TypeOK, Campaigns
<1>5. ASSUME NEW r \in Server, NEW x \in Server, HearLeader(r, x) PROVE FALSE
  BY <1>5, <1>a DEF HearLeader, TypeOK, Campaigns
<1>6. ASSUME NEW x \in Server, TriggerRead(x) \/ TriggerSave(x) PROVE FALSE
  BY <1>6, <1>a DEF TriggerRead, TriggerSave, Campaigns
<1>7. ASSUME NEW x \in Server, Restart(x) PROVE FALSE
  BY <1>7, <1>a, HarmlessRestart DEF Restart, TypeOK, Campaigns
<1>8. CASE UNCHANGED vars
  BY <1>8, <1>a DEF vars, Campaigns
<1> QED
  BY <1>1, <1>2, <1>3, <1>4, <1>5, <1>6, <1>7, <1>8 DEF Next

\* What a restart has forgotten stays forgotten.
LEMMA ForgotStays == ASSUME forgot, [Next]_vars PROVE forgot'
BY DEF Next, Timeout, LearnTerm, Vote, BecomeLeader, HearLeader, TriggerRead, TriggerSave,
       Restart, vars

LEMMA ElectionInit == Init => ElectionInv
<1> SUFFICES ASSUME Init PROVE ElectionInv
  OBVIOUS
<1>1. \A s \in Server : role[s] = "follower"
  BY DEF Init
<1> QED
  BY <1>1 DEF ElectionInv, LeadersElected, VotesBind, VotesDisjoint, Campaigns

LEMMA ElectionStep == TypeOK /\ ElectionInv /\ [Next]_vars => ElectionInv'
<1> SUFFICES ASSUME TypeOK, ElectionInv, [Next]_vars PROVE ElectionInv'
  OBVIOUS
<1>1. LeadersElected'
  BY ElectedStep DEF ElectionInv
<1>2. CASE forgot'
  BY <1>1, <1>2 DEF ElectionInv
<1>3. CASE ~forgot'
  <2>1. VotesBind /\ VotesDisjoint
    BY <1>3, ForgotStays DEF ElectionInv
  <2> QED
    BY <1>1, <1>3, <2>1, BindStep, DisjointStep DEF ElectionInv
<1> QED
  BY <1>2, <1>3

LEMMA ElectionInvSuffices == TypeOK /\ ElectionInv => OneLeaderPerTerm
<1> SUFFICES ASSUME TypeOK, ElectionInv, ~forgot, NEW s \in Server, NEW r \in Server,
                    role[s] = "leader", role[r] = "leader", state[s].term = state[r].term,
                    s # r
             PROVE  FALSE
  BY DEF OneLeaderPerTerm
<1>1. votes[s] \cap votes[r] = {}
  BY DEF ElectionInv, VotesDisjoint, Campaigns
<1>2. Majority(s, votes[s]) /\ Majority(r, votes[r])
  BY DEF ElectionInv, LeadersElected
<1> QED
  BY <1>1, <1>2, MajoritiesMeet DEF TypeOK

(***************************************************************************)
(* No two servers lead in the same term until a restart makes a server     *)
(* forget its vote (raft_engine.cpp:512-519), however many of their saves  *)
(* fail and whatever elections are triggered.                              *)
(***************************************************************************)
THEOREM OneLeader == Spec => []OneLeaderPerTerm
<1>1. Init => TypeOK /\ ElectionInv
  BY InitType, ElectionInit
<1>2. TypeOK /\ ElectionInv /\ [Next]_vars => TypeOK' /\ ElectionInv'
  BY NextType, ElectionStep
<1>3. TypeOK /\ ElectionInv => OneLeaderPerTerm
  BY ElectionInvSuffices
<1> QED
  BY <1>1, <1>2, <1>3, PTL DEF Spec
-----------------------------------------------------------------------------
\* KeepsVote orders ballots.
LEMMA KeepsVoteOrders ==
  ASSUME NEW a \in Ballots, NEW b \in Ballots, NEW c \in Ballots
  PROVE  /\ KeepsVote(a, a)
         /\ KeepsVote(a, b) /\ KeepsVote(b, c) => KeepsVote(a, c)
         /\ KeepsVote(FreshState, a)
<1>1. a.term \in Nat /\ b.term \in Nat /\ c.term \in Nat
  BY DEF Ballots
<1>2. FreshState.term = 0 /\ FreshState.votedFor = NoVote
  BY StateType DEF FreshState
<1> QED
  BY <1>1, <1>2 DEF KeepsVote

\* What a save makes of the file and of what read_state answers.
LEMMA SaveResult ==
  ASSUME TypeOK, NEW s \in Server, NEW new \in Ballots, Save(s, new)
  PROVE  /\ \/ server_state'[s] = server_state[s] /\ file'[s] = file[s]
            \/ server_state'[s] = new /\ file'[s] \in {new, Torn}
         /\ failures' = 0 => failures = 0 /\ server_state'[s] = new /\ file'[s] = new
         /\ \A r \in Server \ {s} : server_state'[r] = server_state[r] /\ file'[r] = file[r]
<1>1. /\ failures \in Nat
      /\ server_state \in [Server -> Ballots \cup {Shared}]
      /\ file \in [Server -> Ballots \cup {Torn}]
  BY DEF TypeOK
<1>2. PICK outcome \in Outcomes :
        /\ server_state' = [server_state EXCEPT ![s] = SaveState(@, new, outcome)]
        /\ file' = [file EXCEPT ![s] = SaveFile(@, new, outcome)]
        /\ failures' = IF outcome = "written" THEN failures ELSE failures + 1
  BY DEF Save, Outcomes
<1>3. /\ server_state'[s] = SaveState(server_state[s], new, outcome)
      /\ file'[s] = SaveFile(file[s], new, outcome)
      /\ \A r \in Server \ {s} : server_state'[r] = server_state[r] /\ file'[r] = file[r]
  BY <1>1, <1>2
<1>4. CASE outcome = "unopened"
  BY <1>1, <1>2, <1>3, <1>4 DEF SaveState, SaveFile
<1>5. CASE outcome = "unwritten"
  BY <1>1, <1>2, <1>3, <1>5 DEF SaveState, SaveFile
<1>6. CASE outcome = "written"
  BY <1>1, <1>2, <1>3, <1>6 DEF SaveState, SaveFile
<1> QED
  BY <1>4, <1>5, <1>6 DEF Outcomes

\* What read_state answers is a ballot.
LEMMA ReadBallot ==
  ASSUME TypeOK, NEW s \in Server
  PROVE  Read(s) \in Ballots /\ Read(s).term \in Nat
<1>1. Read(s) \in Ballots
  BY DEF Read, ReadState, TypeOK
<1> QED
  BY <1>1 DEF Ballots

\* NuRaft casts only ballots that keep the vote of the one before.
Casting(s, new) ==
    /\ new \in Ballots /\ SetState(s, new) /\ KeepsVote(state[s], new)
    /\ UNCHANGED <<trigger, restarts>>

\* It changes neither its state nor the file, and no election is triggered.
Quiet == UNCHANGED <<state, savedVars, trigger, restarts>>

LEMMA Steps ==
  ASSUME TypeOK, [Next]_vars
  PROVE  \/ Quiet
         \/ \E s \in Server : \/ \E new \in Ballots : Casting(s, new)
                            \/ TriggerRead(s) \/ TriggerSave(s) \/ Restart(s)
<1> DEFINE Kind == \/ Quiet
                   \/ \E s \in Server : \/ \E new \in Ballots : Casting(s, new)
                                      \/ TriggerRead(s) \/ TriggerSave(s) \/ Restart(s)
<1>1. ASSUME NEW s \in Server, Timeout(s) PROVE Kind
  <2>1. Casting(s, State(state[s].term + 1, s))
    BY <1>1, Casts, StateType DEF Timeout, Casting, KeepsVote
  <2> QED
    BY <2>1 DEF Casting
<1>2. ASSUME NEW s \in Server, NEW r \in Server, LearnTerm(s, r) PROVE Kind
  <2>1. Casting(s, State(state[r].term, NoVote))
    BY <1>2, Casts, StateType DEF LearnTerm, Casting, KeepsVote
  <2> QED
    BY <2>1 DEF Casting
<1>3. ASSUME NEW s \in Server, NEW c \in Server, Vote(s, c) PROVE Kind
  <2>1. Casting(s, State(state[s].term, c))
    BY <1>3, Casts, StateType DEF Vote, Casting, KeepsVote
  <2> QED
    BY <2>1 DEF Casting
<1>4. ASSUME NEW s \in Server, BecomeLeader(s) PROVE Kind
  BY <1>4 DEF BecomeLeader, Quiet
<1>5. ASSUME NEW r \in Server, NEW s \in Server, HearLeader(r, s) PROVE Kind
  BY <1>5 DEF HearLeader, Quiet
<1>6. CASE UNCHANGED vars
  BY <1>6 DEF vars, Quiet
<1> QED
  BY <1>1, <1>2, <1>3, <1>4, <1>5, <1>6 DEF Next

\* What NuRaft's save leaves: the answer of read_state is the old or the new.
LEMMA CastResult ==
  ASSUME TypeOK, NEW s \in Server, NEW new \in Ballots, Casting(s, new)
  PROVE  /\ state'[s] = new /\ KeepsVote(state[s], new)
         /\ Read(s)' \in {Read(s), new}
         /\ \A r \in Server \ {s} : /\ Read(r)' = Read(r) /\ state'[r] = state[r]
                                    /\ server_state'[r] = server_state[r] /\ file'[r] = file[r]
         /\ Save(s, new) /\ UNCHANGED <<trigger, restarts>>
<1>1. SetState(s, new) /\ Save(s, new) /\ KeepsVote(state[s], new) /\ UNCHANGED <<trigger, restarts>>
  BY DEF Casting, SetState
<1>2. state'[s] = new /\ \A r \in Server \ {s} : state'[r] = state[r]
  BY <1>1, SetStateType
<1>3. /\ server_state'[s] \in {server_state[s], new}
      /\ \A r \in Server \ {s} : server_state'[r] = server_state[r] /\ file'[r] = file[r]
  BY <1>1, SaveResult
<1>4. new # Shared
  BY ElectionAssumption
<1>5. Read(s)' \in {Read(s), new}
  BY <1>2, <1>3, <1>4 DEF Read, ReadState
<1>6. \A r \in Server \ {s} : Read(r)' = Read(r)
  BY <1>2, <1>3 DEF Read, ReadState
<1> QED
  BY <1>1, <1>2, <1>3, <1>5, <1>6

\* What a triggered election leaves.
LEMMA TriggerResult ==
  ASSUME TypeOK, NEW s \in Server, TriggerSave(s)
  PROVE  LET new == State(trigger[s] + 1, NoVote)
         IN  /\ Read(s)' \in {Read(s), new} /\ new \in Ballots /\ Save(s, new)
             /\ new.votedFor = NoVote /\ new.term = trigger[s] + 1 /\ trigger[s] \in Nat
             /\ \A r \in Server \ {s} : /\ Read(r)' = Read(r) /\ trigger'[r] = trigger[r]
                                        /\ server_state'[r] = server_state[r]
                                        /\ file'[r] = file[r]
             /\ trigger'[s] = Done /\ UNCHANGED <<state, restarts>>
<1> DEFINE new == State(trigger[s] + 1, NoVote)
<1>1. Save(s, new) /\ new \in Ballots
  BY TriggerCasts
<1>2. /\ trigger[s] \in Nat /\ UNCHANGED <<state, restarts>> /\ trigger'[s] = Done
      /\ \A r \in Server \ {s} : trigger'[r] = trigger[r]
  BY DEF TriggerSave, TypeOK
<1>3. new.votedFor = NoVote /\ new.term = trigger[s] + 1
  BY <1>2, StateType
<1>4. /\ server_state'[s] \in {server_state[s], new}
      /\ \A r \in Server \ {s} : server_state'[r] = server_state[r] /\ file'[r] = file[r]
  BY <1>1, SaveResult
<1>5. new # Shared
  BY <1>1, ElectionAssumption
<1>6. Read(s)' \in {Read(s), new} /\ \A r \in Server \ {s} : Read(r)' = Read(r)
  BY <1>2, <1>4, <1>5 DEF Read, ReadState
<1> QED
  BY <1>1, <1>2, <1>3, <1>4, <1>6

\* A restarted server starts with what its state manager shows.
LEMMA RestartResult ==
  ASSUME TypeOK, NEW s \in Server, Restart(s)
  PROVE  /\ state'[s] \in Remains /\ state'[s] \in Ballots
         /\ Read(s)' = state'[s] /\ trigger'[s] = NotYet
         /\ server_state'[s] = Shared /\ file'[s] = FreshState
         /\ \A r \in Server \ {s} : /\ Read(r)' = Read(r) /\ state'[r] = state[r]
                                    /\ server_state'[r] = server_state[r]
                                    /\ file'[r] = file[r] /\ trigger'[r] = trigger[r]
         /\ failures' = failures /\ restarts' # restarts
<1>1. PICK shown \in Remains : state' = [state EXCEPT ![s] = shown]
  BY DEF Restart
<1>2. /\ server_state' = [server_state EXCEPT ![s] = Shared]
      /\ file' = [file EXCEPT ![s] = FreshState]
      /\ trigger' = [trigger EXCEPT ![s] = NotYet]
      /\ failures' = failures /\ restarts' # restarts
  BY DEF Restart, TypeOK
<1>3. state'[s] = shown /\ \A r \in Server \ {s} : state'[r] = state[r]
  BY <1>1 DEF TypeOK
<1>4. /\ server_state'[s] = Shared
      /\ \A r \in Server \ {s} : server_state'[r] = server_state[r]
  BY <1>2 DEF TypeOK
<1>5. Read(s)' = state'[s] /\ \A r \in Server \ {s} : Read(r)' = Read(r)
  BY <1>3, <1>4 DEF Read, ReadState
<1>6. /\ file'[s] = FreshState /\ trigger'[s] = NotYet
      /\ \A r \in Server \ {s} : file'[r] = file[r] /\ trigger'[r] = trigger[r]
  BY <1>2 DEF TypeOK
<1> QED
  BY <1>2, <1>3, <1>4, <1>5, <1>6, ElectionAssumption
-----------------------------------------------------------------------------
LEMMA FileInit == Init => FileInv
<1> SUFFICES ASSUME Init, NEW s \in Server
             PROVE  /\ ~VoteLost(Read(s), state[s]) /\ KeepsVote(Read(s), state[s])
                    /\ trigger[s] \notin Nat
                    /\ file[s] = FreshState /\ server_state[s] = Shared /\ state[s] \in Remains
  BY DEF FileInv, ReadBehind, FileIsCopy, FileNearState
<1>1. /\ server_state[s] = Shared /\ file[s] = FreshState
      /\ state[s] \in Remains /\ trigger[s] = NotYet
  BY DEF Init
<1>2. Read(s) = state[s] /\ state[s] \in Ballots
  BY <1>1, ElectionAssumption DEF Read, ReadState
<1>3. KeepsVote(state[s], state[s])
  BY <1>2, KeepsVoteOrders
<1> QED
  BY <1>1, <1>2, <1>3, ElectionAssumption DEF VoteLost

LEMMA ReadStep == TypeOK /\ ReadBehind /\ [Next]_vars => ReadBehind'
<1> SUFFICES ASSUME TypeOK, ReadBehind, [Next]_vars, NEW x \in Server
             PROVE  /\ ~VoteLost(Read(x)', state'[x])
                    /\ trigger'[x] # Done => KeepsVote(Read(x)', state'[x])
                    /\ trigger'[x] \in Nat => trigger'[x] <= state'[x].term
  BY DEF ReadBehind, VoteLost, KeepsVote
<1> DEFINE Goal == /\ ~VoteLost(Read(x)', state'[x])
                   /\ trigger'[x] # Done => KeepsVote(Read(x)', state'[x])
                   /\ trigger'[x] \in Nat => trigger'[x] <= state'[x].term
<1>0. /\ ~VoteLost(Read(x), state[x])
      /\ trigger[x] # Done => KeepsVote(Read(x), state[x])
      /\ trigger[x] \in Nat => trigger[x] <= state[x].term
  BY DEF ReadBehind
<1>t. Read(x) \in Ballots /\ Read(x).term \in Nat /\ state[x] \in Ballots /\ state[x].term \in Nat
  BY ReadBallot, Casts
<1>1. ASSUME NEW s \in Server, NEW new \in Ballots, Casting(s, new) PROVE Goal
  <2>1. CASE x = s
    <3>1. /\ state'[x] = new /\ KeepsVote(state[x], new)
          /\ Read(x)' \in {Read(x), new} /\ trigger' = trigger
      BY <1>1, <2>1, CastResult
    <3>2. /\ KeepsVote(new, new) /\ new.term \in Nat
          /\ KeepsVote(Read(x), state[x]) => KeepsVote(Read(x), new)
      BY <1>t, <3>1, KeepsVoteOrders DEF Ballots
    <3>3. ~VoteLost(Read(x)', new)
      BY <1>0, <3>1, <3>2 DEF VoteLost
    <3>4. trigger[x] \in Nat => trigger[x] <= new.term
      BY <1>0, <1>t, <3>1, <3>2 DEF KeepsVote
    <3> QED
      BY <1>0, <3>1, <3>2, <3>3, <3>4
  <2>2. CASE x # s
    BY <1>0, <1>1, <2>2, CastResult
  <2> QED
    BY <2>1, <2>2
<1>2. ASSUME NEW s \in Server, TriggerRead(s) PROVE Goal
  <2>1. UNCHANGED <<state, server_state>> /\ Read(x)' = Read(x)
    BY <1>2 DEF TriggerRead, savedVars, Read, ReadState
  <2>2. CASE x = s
    <3>1. trigger[x] = NotYet /\ trigger'[x] = Read(x).term
      BY <1>2, <2>2 DEF TriggerRead, TypeOK, Read
    <3>2. KeepsVote(Read(x), state[x])
      BY <1>0, <3>1, ElectionAssumption
    <3>3. Read(x).term <= state[x].term
      BY <1>t, <3>2 DEF KeepsVote
    <3> QED
      BY <1>0, <2>1, <3>1, <3>2, <3>3
  <2>3. CASE x # s
    BY <1>0, <1>2, <2>1, <2>3 DEF TriggerRead, TypeOK
  <2> QED
    BY <2>2, <2>3
<1>3. ASSUME NEW s \in Server, TriggerSave(s) PROVE Goal
  <2>1. CASE x = s
    <3>1. /\ Read(x)' \in {Read(x), State(trigger[x] + 1, NoVote)}
          /\ State(trigger[x] + 1, NoVote).votedFor = NoVote
          /\ trigger'[x] = Done /\ state' = state
      BY <1>3, <2>1, TriggerResult
    <3> QED
      BY <1>0, <3>1, ElectionAssumption DEF VoteLost
  <2>2. CASE x # s
    BY <1>0, <1>3, <2>2, TriggerResult
  <2> QED
    BY <2>1, <2>2
<1>4. ASSUME NEW s \in Server, Restart(s) PROVE Goal
  <2>1. CASE x = s
    <3>1. state'[x] \in Ballots /\ Read(x)' = state'[x] /\ trigger'[x] = NotYet
      BY <1>4, <2>1, RestartResult
    <3>2. KeepsVote(Read(x)', state'[x])
      BY <3>1 DEF KeepsVote, Ballots
    <3> QED
      BY <3>1, <3>2, ElectionAssumption DEF VoteLost
  <2>2. CASE x # s
    BY <1>0, <1>4, <2>2, RestartResult
  <2> QED
    BY <2>1, <2>2
<1>5. CASE Quiet
  BY <1>0, <1>5 DEF Quiet, savedVars, Read, ReadState
<1> QED
  BY <1>1, <1>2, <1>3, <1>4, <1>5, Steps

\* The file and the copy in memory part only when the write fails.
LEMMA CopyStep == TypeOK /\ FileIsCopy /\ [Next]_vars => FileIsCopy'
<1> SUFFICES ASSUME TypeOK, FileIsCopy, [Next]_vars, NEW x \in Server
             PROVE  file'[x] \in {Torn, IF server_state'[x] = Shared THEN FreshState
                                                                     ELSE server_state'[x]}
  BY DEF FileIsCopy
<1> DEFINE Goal == file'[x] \in {Torn, IF server_state'[x] = Shared THEN FreshState
                                                                    ELSE server_state'[x]}
<1>0. file[x] \in {Torn, IF server_state[x] = Shared THEN FreshState ELSE server_state[x]}
  BY DEF FileIsCopy
<1>1. ASSUME NEW s \in Server, NEW new \in Ballots, Save(s, new) PROVE Goal
  <2>1. new # Shared
    BY ElectionAssumption
  <2>2. CASE x = s
    BY <1>0, <1>1, <2>1, <2>2, SaveResult
  <2>3. CASE x # s
    BY <1>0, <1>1, <2>3, SaveResult
  <2> QED
    BY <2>2, <2>3
<1>2. ASSUME NEW s \in Server, NEW new \in Ballots, Casting(s, new) PROVE Goal
  BY <1>1, <1>2, CastResult
<1>3. ASSUME NEW s \in Server, TriggerRead(s) PROVE Goal
  BY <1>0, <1>3 DEF TriggerRead, savedVars
<1>4. ASSUME NEW s \in Server, TriggerSave(s) PROVE Goal
  BY <1>1, <1>4, TriggerCasts
<1>5. ASSUME NEW s \in Server, Restart(s) PROVE Goal
  <2>1. CASE x = s
    BY <1>5, <2>1, RestartResult
  <2>2. CASE x # s
    BY <1>0, <1>5, <2>2, RestartResult
  <2> QED
    BY <2>1, <2>2
<1>6. CASE Quiet
  BY <1>0, <1>6 DEF Quiet, savedVars
<1> QED
  BY <1>2, <1>3, <1>4, <1>5, <1>6, Steps

LEMMA NearStep ==
  ASSUME TypeOK, FileNearState, ReadBehind, [Next]_vars, failures' = 0
  PROVE  FileNearState'
<1> DEFINE Near(s) == \/ file[s] = state[s]
                      \/ server_state[s] = Shared /\ file[s] = FreshState /\ state[s] \in Remains
                      \/ /\ trigger[s] = Done /\ file[s].votedFor = NoVote
                         /\ file[s].term <= state[s].term + 1
<1> SUFFICES ASSUME NEW x \in Server PROVE Near(x)'
  BY DEF FileNearState
<1>0. failures = 0 => Near(x)
  BY DEF FileNearState
<1>1. ASSUME NEW s \in Server, NEW new \in Ballots, Casting(s, new) PROVE Near(x)'
  <2>1. CASE x = s
    <3>1. state'[x] = new /\ file'[x] = new
      BY <1>1, <2>1, CastResult, SaveResult
    <3> QED
      BY <3>1
  <2>2. CASE x # s
    <3>1. failures = 0 /\ trigger' = trigger
      BY <1>1, CastResult, SaveResult
    <3>2. /\ state'[x] = state[x] /\ file'[x] = file[x]
          /\ server_state'[x] = server_state[x]
      BY <1>1, <2>2, CastResult
    <3> QED
      BY <1>0, <3>1, <3>2
  <2> QED
    BY <2>1, <2>2
<1>2. ASSUME NEW s \in Server, TriggerRead(s) PROVE Near(x)'
  <2>1. Near(x) /\ UNCHANGED <<state, server_state, file>>
    BY <1>0, <1>2 DEF TriggerRead, savedVars
  <2>2. trigger[x] = Done => trigger'[x] = Done
    BY <1>2, ElectionAssumption DEF TriggerRead, TypeOK
  <2> QED
    BY <2>1, <2>2
<1>3. ASSUME NEW s \in Server, TriggerSave(s) PROVE Near(x)'
  <2> DEFINE new == State(trigger[s] + 1, NoVote)
  <2>1. CASE x = s
    <3>1. /\ trigger'[x] = Done /\ state'[x] = state[x] /\ file'[x] = new
          /\ new.votedFor = NoVote /\ new.term = trigger[x] + 1 /\ trigger[x] \in Nat
      BY <1>3, <2>1, TriggerResult, SaveResult
    <3>2. state[x].term \in Nat /\ trigger[x] <= state[x].term
      BY <3>1, Casts DEF ReadBehind
    <3>3. file'[x].term <= state'[x].term + 1
      BY <3>1, <3>2
    <3> QED
      BY <3>1, <3>3
  <2>2. CASE x # s
    <3>1. failures = 0
      BY <1>3, TriggerResult, SaveResult
    <3>2. /\ state'[x] = state[x] /\ file'[x] = file[x]
          /\ server_state'[x] = server_state[x] /\ trigger'[x] = trigger[x]
      BY <1>3, <2>2, TriggerResult
    <3> QED
      BY <1>0, <3>1, <3>2
  <2> QED
    BY <2>1, <2>2
<1>4. ASSUME NEW s \in Server, Restart(s) PROVE Near(x)'
  <2>1. CASE x = s
    BY <1>4, <2>1, RestartResult
  <2>2. CASE x # s
    BY <1>0, <1>4, <2>2, RestartResult
  <2> QED
    BY <2>1, <2>2
<1>5. CASE Quiet
  BY <1>0, <1>5 DEF Quiet, savedVars
<1> QED
  BY <1>1, <1>2, <1>3, <1>4, <1>5, Steps

LEMMA FileStep == TypeOK /\ FileInv /\ [Next]_vars => FileInv'
<1> SUFFICES ASSUME TypeOK, FileInv, [Next]_vars PROVE FileInv'
  OBVIOUS
<1>1. ReadBehind' /\ FileIsCopy'
  BY ReadStep, CopyStep DEF FileInv
<1>2. FileNearState'
  <2>1. CASE failures' = 0
    BY <2>1, NearStep DEF FileInv
  <2>2. CASE failures' # 0
    BY <2>2 DEF FileNearState
  <2> QED
    BY <2>1, <2>2
<1> QED
  BY <1>1, <1>2 DEF FileInv

(***************************************************************************)
(* As long as every save succeeds the state file is NuRaft's state, or one *)
(* that triggerLeaderElection has put ahead of it by one term and without  *)
(* a vote (raft_engine.cpp:655-679); before the first save it is fresh,    *)
(* whatever the freed object of the constructor shows                      *)
(* (raft_state_manager.cpp:156, 263-265).                                  *)
(***************************************************************************)
THEOREM FileIsNear == Spec => []FileNearState
<1>1. TypeOK /\ FileInv /\ [Next]_vars => TypeOK' /\ FileInv'
  BY NextType, FileStep
<1>2. FileInv => FileNearState
  BY DEF FileInv
<1> QED
  BY InitType, FileInit, <1>1, <1>2, PTL DEF Spec

\* A triggered election that NuRaft has overtaken, the one case that loses a vote.
Overtaken(s) == trigger[s] \in Nat /\ trigger'[s] = Done /\ Read(s).term > trigger[s]

\* The votes of the file are those that read_state answers, or the file is torn.
LEMMA FileVotes ==
  ASSUME FileIsCopy, NEW s \in Server, NEW new, ~VoteLost(Read(s), new)
  PROVE  file[s] # Torn => ~VoteLost(file[s], new)
BY StateType DEF FileIsCopy, Read, ReadState, VoteLost, FreshState

LEMMA KeepsStep ==
  ASSUME TypeOK, FileInv, [Next]_vars, NEW x \in Server, restarts' = restarts, ~Overtaken(x)
  PROVE  /\ ~VoteLost(Read(x), Read(x)')
         /\ file[x] # Torn /\ file'[x] # Torn => ~VoteLost(file[x], file'[x])
<1> DEFINE Goal == /\ ~VoteLost(Read(x), Read(x)')
                   /\ file[x] # Torn /\ file'[x] # Torn => ~VoteLost(file[x], file'[x])
<1>t. Read(x) \in Ballots /\ state[x] \in Ballots
  BY ReadBallot DEF TypeOK
<1>s. KeepsVote(Read(x), Read(x)) /\ (file[x] # Torn => KeepsVote(file[x], file[x]))
  <2>1. file[x] # Torn => file[x] \in Ballots
    BY DEF TypeOK
  <2> QED
    BY <1>t, <2>1, KeepsVoteOrders
<1>i. ReadBehind /\ FileIsCopy
  BY DEF FileInv
\* A save of new by x that does not lose the vote.
<1>0. ASSUME NEW new \in Ballots, Save(x, new), Read(x)' \in {Read(x), new},
             ~VoteLost(Read(x), new)
      PROVE  Goal
  <2>1. file'[x] \in {file[x], new, Torn}
    BY <1>0, SaveResult
  <2>2. file[x] # Torn => ~VoteLost(file[x], new)
    BY <1>0, <1>i, FileVotes
  <2> QED
    BY <1>0, <1>s, <2>1, <2>2 DEF VoteLost
\* Nothing of x changes.
<1>u. ASSUME Read(x)' = Read(x), file'[x] = file[x] PROVE Goal
  BY <1>s, <1>u DEF VoteLost
<1>1. ASSUME NEW s \in Server, NEW new \in Ballots, Casting(s, new) PROVE Goal
  <2>1. CASE x = s
    <3>1. Save(x, new) /\ Read(x)' \in {Read(x), new} /\ KeepsVote(state[x], new)
      BY <1>1, <2>1, CastResult
    <3>2. ~VoteLost(Read(x), state[x])
      BY <1>i DEF ReadBehind
    <3>3. ~VoteLost(Read(x), new)
      BY <1>t, <3>1, <3>2, KeepsVoteOrders DEF VoteLost
    <3> QED
      BY <1>0, <3>1, <3>3
  <2>2. CASE x # s
    BY <1>1, <1>u, <2>2, CastResult
  <2> QED
    BY <2>1, <2>2
<1>2. ASSUME NEW s \in Server, TriggerRead(s) PROVE Goal
  BY <1>2, <1>u DEF TriggerRead, savedVars, Read, ReadState
<1>3. ASSUME NEW s \in Server, TriggerSave(s) PROVE Goal
  <2>1. CASE x = s
    <3> DEFINE new == State(trigger[x] + 1, NoVote)
    <3>1. /\ Save(x, new) /\ Read(x)' \in {Read(x), new} /\ new \in Ballots
          /\ new.term = trigger[x] + 1 /\ trigger[x] \in Nat /\ trigger'[x] = Done
      BY <1>3, <2>1, TriggerResult
    <3>2. Read(x).term \in Nat /\ Read(x).term <= trigger[x]
      BY <3>1, ReadBallot DEF Overtaken
    <3>3. new.term >= Read(x).term /\ new.term # Read(x).term
      BY <3>1, <3>2
    <3>4. KeepsVote(Read(x), new)
      BY <3>3 DEF KeepsVote
    <3>5. ~VoteLost(Read(x), new)
      BY <3>4 DEF VoteLost
    <3> HIDE DEF new
    <3> QED
      BY <1>0, <3>1, <3>5
  <2>2. CASE x # s
    BY <1>3, <1>u, <2>2, TriggerResult
  <2> QED
    BY <2>1, <2>2
<1>4. ASSUME NEW s \in Server, Restart(s) PROVE FALSE
  BY <1>4, RestartResult
<1>5. CASE Quiet
  BY <1>5, <1>u DEF Quiet, savedVars, Read, ReadState
<1> QED
  BY <1>1, <1>2, <1>3, <1>4, <1>5, Steps

(***************************************************************************)
(* A vote that was saved stays until a later term, in what read_state      *)
(* answers and, unless a write has failed, on disk - whichever saves fail  *)
(* and whatever election is triggered, but for one that NuRaft has         *)
(* overtaken (raft_state_manager.cpp:241-266, raft_engine.cpp:664-673).    *)
(***************************************************************************)
THEOREM VotesStayOnFile == Spec => FileKeepsVotes
<1>1. TypeOK /\ FileInv /\ [Next]_vars => TypeOK' /\ FileInv'
  BY NextType, FileStep
<1> DEFINE Kept == \A s \in Server :
                     \/ restarts' # restarts
                     \/ trigger[s] \in Nat /\ trigger'[s] = Done /\ Read(s).term > trigger[s]
                     \/ /\ ~VoteLost(Read(s), Read(s)')
                        /\ file[s] # Torn /\ file'[s] # Torn => ~VoteLost(file[s], file'[s])
<1>2. TypeOK /\ FileInv /\ [Next]_vars => [Kept]_vars
  BY KeepsStep DEF Overtaken
<1> QED
  BY InitType, FileInit, <1>1, <1>2, PTL DEF Spec, FileKeepsVotes
-----------------------------------------------------------------------------
\* A step of the cluster is a step of its elections, or of a log alone.
LEMMA ClusterStep == [ClusterNext]_clusterVars => [Next]_vars
<1> SUFFICES ASSUME [ClusterNext]_clusterVars PROVE [Next]_vars
  OBVIOUS
<1>1. ASSUME NEW s \in Server, Timeout(s) \/ BecomeLeader(s) PROVE Next
  BY <1>1 DEF Next
<1>2. ASSUME NEW s \in Server, NEW r \in Server, LearnTerm(s, r) \/ Vote(s, r) \/ HearLeader(s, r)
      PROVE  Next
  BY <1>2 DEF Next
<1>3. ASSUME NEW s \in Server, Timeout(s) \/ Lead(s) \/ TakeCommand(s) PROVE [Next]_vars
  BY <1>1, <1>3 DEF Lead, TakeCommand
<1>4. ASSUME NEW s \in Server, NEW r \in Server, StepDown(s, r) \/ AskVote(s, r) PROVE Next
  BY <1>2, <1>4 DEF StepDown, AskVote
<1>5. ASSUME NEW s \in Server, NEW r \in Server, Replicate(s, r) PROVE Next
  BY <1>2, <1>5 DEF Replicate
<1>6. CASE UNCHANGED clusterVars
  BY <1>6 DEF clusterVars
<1> QED
  BY <1>3, <1>4, <1>5, <1>6 DEF ClusterNext

(***************************************************************************)
(* The cluster with its logs implements the elections: logs, however       *)
(* write_at leaves them, only ever withhold a vote.                        *)
(***************************************************************************)
THEOREM ClusterElects == ClusterSpec => Spec
<1>1. ClusterInit => Init
  BY DEF ClusterInit
<1> QED
  BY <1>1, ClusterStep, PTL DEF ClusterSpec, Spec

\* No server of the cluster restarts.
LEMMA RunsOn == ASSUME ~forgot, [ClusterNext]_clusterVars PROVE ~forgot'
BY DEF ClusterNext, clusterVars, vars, Lead, TakeCommand, StepDown, AskVote, Replicate,
       Timeout, BecomeLeader, LearnTerm, Vote, HearLeader

LEMMA NothingForgotten == ClusterSpec => []~forgot
<1>1. ClusterInit => ~forgot
  BY DEF ClusterInit, Init
<1>2. ~forgot /\ [ClusterNext]_clusterVars => ~forgot'
  BY RunsOn
<1> QED
  BY <1>1, <1>2, PTL DEF ClusterSpec

(***************************************************************************)
(* So a cluster whose servers run on never has two leaders in one term,    *)
(* even with the logs that write_at leaves behind                          *)
(* (raft_state_manager.cpp:51-57).                                         *)
(***************************************************************************)
THEOREM ClusterHasOneLeader ==
  ClusterSpec => [](~forgot /\ OneLeaderPerTerm)
BY ClusterElects, OneLeader, NothingForgotten, PTL
=============================================================================
