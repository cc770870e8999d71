------------------------ MODULE ReplicatedCacheProofs ------------------------
(***************************************************************************)
(* Proofs about the caches of a cluster, for any number of nodes, commands,*)
(* restarts and failures.                                                  *)
(***************************************************************************)
EXTENDS ReplicatedCache, FiniteSetTheorems, TLAPS

\* The two kinds of command exclude each other.
LEMMA Kinds ==
  /\ \A c \in Commands : c \in CacheCommands \/ c \in ConfCommands
  /\ \A c \in CacheCommands : /\ c.id \in CacheIds /\ c \notin ConfCommands
                              /\ c.op = "store" \/ c.op = "delete"
                              /\ c.op = "store" => c.value \in Values
  /\ \A c \in ConfCommands : c.node \in Node /\ (c.op = "add" \/ c.op = "remove")
BY ReplicationAssumption DEF CacheCommands, StoreCommands, DeleteCommands, ConfCommands

Caches == UNION {[I -> Values] : I \in SUBSET CacheIds}

\* What binding and removing an id make of a cache.
LEMMA BindType ==
  ASSUME NEW f \in Caches, NEW id \in CacheIds, NEW v \in Values
  PROVE  /\ Bind(f, id, v) \in Caches
         /\ id \in DOMAIN Bind(f, id, v) /\ Bind(f, id, v)[id] = v
         /\ \A i \in CacheIds \ {id} : Same(Bind(f, id, v), f, i)
<1>1. PICK I \in SUBSET CacheIds : f \in [I -> Values]
  BY DEF Caches
<1>2. Bind(f, id, v) \in [I \cup {id} -> Values]
  BY <1>1 DEF Bind
<1>3. I \cup {id} \in SUBSET CacheIds
  BY <1>1
<1> QED
  BY <1>1, <1>2, <1>3 DEF Caches, Bind, Same

LEMMA RestrictType ==
  ASSUME NEW f \in Caches, NEW id \in CacheIds
  PROVE  /\ Restrict(f, DOMAIN f \ {id}) \in Caches
         /\ id \notin DOMAIN Restrict(f, DOMAIN f \ {id})
         /\ \A i \in CacheIds \ {id} : Same(Restrict(f, DOMAIN f \ {id}), f, i)
<1>1. PICK I \in SUBSET CacheIds : f \in [I -> Values]
  BY DEF Caches
<1>2. Restrict(f, DOMAIN f \ {id}) \in [I \ {id} -> Values]
  BY <1>1 DEF Restrict
<1>3. I \ {id} \in SUBSET CacheIds
  BY <1>1
<1> QED
  BY <1>1, <1>2, <1>3 DEF Caches, Restrict, Same

\* A command leaves on its id what it shows, and nothing elsewhere.
LEMMA EffectType ==
  ASSUME NEW f \in Caches, NEW c \in CacheCommands
  PROVE  /\ Effect(f, c) \in Caches
         /\ Shows(Effect(f, c), c)
         /\ \A i \in CacheIds \ {c.id} : Same(Effect(f, c), f, i)
<1>1. c.id \in CacheIds /\ (c.op = "store" => c.value \in Values)
  BY Kinds
<1>2. CASE c.op = "store"
  <2>1. Effect(f, c) = Bind(f, c.id, c.value)
    BY <1>2 DEF Effect
  <2>2. PICK id \in CacheIds, v \in Values : id = c.id /\ v = c.value
    BY <1>1, <1>2
  <2>3. /\ Bind(f, id, v) \in Caches
        /\ id \in DOMAIN Bind(f, id, v) /\ Bind(f, id, v)[id] = v
        /\ \A i \in CacheIds \ {id} : Same(Bind(f, id, v), f, i)
    BY BindType
  <2> QED
    BY <1>2, <2>1, <2>2, <2>3 DEF Shows
<1>3. CASE c.op # "store"
  <2>1. Effect(f, c) = Restrict(f, DOMAIN f \ {c.id})
    BY <1>3 DEF Effect
  <2> QED
    BY <1>1, <1>3, <2>1, RestrictType DEF Shows
<1> QED
  BY <1>2, <1>3
-----------------------------------------------------------------------------
LEMMA InitType == Init => TypeOK
<1> SUFFICES ASSUME Init PROVE TypeOK
  OBVIOUS
<1>1. <<>> \in Seq(Commands) /\ Len(<<>>) = 0
  OBVIOUS
<1>2. log \in Seq(Commands) /\ tail \in [Node -> Seq(Commands)]
  BY <1>1 DEF Init
<1>3. /\ applied \in [Node -> Nat] /\ \A n \in Node : applied[n] <= kept[n]
      /\ kept \in [Node -> Nat] /\ \A n \in Node : kept[n] <= Len(log)
  BY <1>1 DEF Init
<1>4. <<>> \in [{} -> Values] /\ {} \in SUBSET CacheIds
  OBVIOUS
<1>5. cache \in [Node -> UNION {[I -> Values] : I \in SUBSET CacheIds}]
  BY <1>4 DEF Init
<1>6. /\ leader \in Node \cup {NoNode} /\ leads \in [Node -> BOOLEAN] /\ lost \in BOOLEAN
      /\ at \in [Commands -> Node \cup {NoNode}]
      /\ answer \in [Commands -> {"unsent", "checked", "waiting", "ok", "null"}]
      /\ restarts \in Nat /\ apart \in [Node -> SUBSET CacheIds]
  BY ReplicationAssumption DEF Init
<1> QED
  BY <1>2, <1>3, <1>5, <1>6 DEF TypeOK

\* The steps that change what the callers know of command c.
LEMMA CallType ==
  ASSUME TypeOK, NEW c \in Commands, NEW n \in Node \cup {NoNode},
         NEW a \in {"unsent", "checked", "waiting", "ok", "null"},
         Asked(c, n, a) \/ Answered(c, a)
  PROVE  /\ at' \in [Commands -> Node \cup {NoNode}]
         /\ answer' \in [Commands -> {"unsent", "checked", "waiting", "ok", "null"}]
BY DEF Asked, Answered, TypeOK

LEMMA ReplyType ==
  ASSUME TypeOK, NEW c \in Commands, NEW n \in Node, Reply(n, c)
  PROVE  /\ at' \in [Commands -> Node \cup {NoNode}]
         /\ answer' \in [Commands -> {"unsent", "checked", "waiting", "ok", "null"}]
BY CallType DEF Reply, callVars, TypeOK

LEMMA TakeType ==
  ASSUME TypeOK, NEW c \in Commands, NEW n \in Node, Take(n, c)
  PROVE  tail' \in [Node -> Seq(Commands)]
<1>1. Append(tail[n], c) \in Seq(Commands)
  BY DEF TypeOK
<1> QED
  BY <1>1 DEF Take, TypeOK

\* What a majority has is committed, and those who have it count it.
LEMMA CommitFacts ==
  ASSUME TypeOK, Commit
  PROVE  \E c \in Commands, H \in SUBSET Node :
           /\ log' = Append(log, c) /\ Majority(H, Config(Len(log)))
           /\ \A n \in H : kept[n] = Len(log)
           /\ kept' = [n \in Node |-> IF n \in H THEN kept[n] + 1 ELSE kept[n]]
           /\ tail' \in [Node -> Seq(Commands)]
           /\ UNCHANGED <<leader, leads, lost, nodeVars, callVars, restarts>>
<1> DEFINE c == Head(tail[leader])
           H == {n \in Node : kept[n] = Len(log) /\ tail[n] # <<>> /\ Head(tail[n]) = c}
<1>1. leader \in Node /\ tail[leader] # <<>>
  BY DEF Commit, TypeOK
<1>2. c \in Commands
  BY <1>1 DEF TypeOK
<1>3. /\ log' = Append(log, c) /\ Majority(H, Config(Len(log)))
      /\ kept' = [n \in Node |-> IF n \in H THEN kept[n] + 1 ELSE kept[n]]
      /\ tail' = [n \in Node |-> IF n \in H THEN Tail(tail[n]) ELSE tail[n]]
      /\ UNCHANGED <<leader, leads, lost, nodeVars, callVars, restarts>>
  BY DEF Commit
<1>4. \A n \in H : kept[n] = Len(log) /\ Tail(tail[n]) \in Seq(Commands)
  BY DEF TypeOK
<1>5. H \in SUBSET Node
  OBVIOUS
<1> HIDE DEF c, H
<1>6. tail' \in [Node -> Seq(Commands)]
  BY <1>3, <1>4 DEF TypeOK
<1> QED
  BY <1>2, <1>3, <1>4, <1>5, <1>6

\* Nobody's log store loses a committed command as it hears from a leader.
LEMMA ReplicateFacts ==
  ASSUME TypeOK, NEW n \in Node, Replicate(n)
  PROVE  /\ kept' \in [Node -> Nat]
         /\ \A m \in Node : kept[m] <= kept'[m] /\ kept'[m] <= Len(log)
         /\ tail' \in [Node -> Seq(Commands)]
<1>0. kept \in [Node -> Nat] /\ Len(log) \in Nat /\ leader \in Node /\ Len(tail[leader]) \in Nat
  BY DEF Replicate, TypeOK
<1>1. PICK k \in 1 .. Len(log) + Len(tail[leader]) :
        /\ ~Has(n, k)
        /\ kept' = [kept EXCEPT ![n] = IF k < Len(log) THEN k ELSE Len(log)]
        /\ tail' = [tail EXCEPT ![n] = SubSeq(tail[leader], 1, k - Len(log))]
  BY DEF Replicate
<1>2. k \in Nat /\ k > kept[n]
  BY <1>0, <1>1 DEF Has
<1>3. \A m \in Node : kept[m] <= Len(log)
  BY DEF TypeOK
<1>4. SubSeq(tail[leader], 1, k - Len(log)) \in Seq(Commands)
  <2>1. tail[leader] \in Seq(Commands) /\ k - Len(log) \in Int /\ k - Len(log) <= Len(tail[leader])
    BY <1>0, <1>1 DEF TypeOK
  <2>2. PICK s \in Seq(Commands), j \in Int : s = tail[leader] /\ j = k - Len(log)
    BY <2>1
  <2>3. SubSeq(s, 1, j) \in Seq(Commands)
    BY <2>1, <2>2
  <2> QED
    BY <2>2, <2>3
<1>5. tail' \in [Node -> Seq(Commands)]
  BY <1>1, <1>4 DEF TypeOK
<1>6. kept' \in [Node -> Nat] /\ \A m \in Node : kept[m] <= kept'[m] /\ kept'[m] <= Len(log)
  BY <1>0, <1>1, <1>2, <1>3
<1> QED
  BY <1>5, <1>6

LEMMA WholeSeq ==
  ASSUME NEW S, NEW l \in Seq(S)
  PROVE  SubSeq(l, 1, Len(l)) = l
<1>1. SubSeq(l, 1, Len(l)) = [i \in 1 .. Len(l) |-> l[i]]
  OBVIOUS
<1>2. l = [i \in 1 .. Len(l) |-> l[i]]
  OBVIOUS
<1> QED
  BY <1>1, <1>2

\* An election changes no log store, or something committed is lost.
LEMMA ElectFacts ==
  ASSUME TypeOK, NEW n \in Node, Elect(n)
  PROVE  /\ log' \in Seq(Commands) /\ kept' \in [Node -> Nat]
         /\ \A m \in Node : kept'[m] <= Len(log')
         /\ tail' \in [Node -> Seq(Commands)]
         /\ \/ kept[n] < Len(log) /\ lost'
            \/ kept[n] = Len(log) /\ log' = log /\ kept' = kept /\ lost' = lost
<1>0. /\ kept \in [Node -> Nat] /\ Len(log) \in Nat /\ log \in Seq(Commands)
      /\ \A m \in Node : kept[m] <= Len(log) /\ kept[m] \in Nat
      /\ tail \in [Node -> Seq(Commands)]
  BY DEF TypeOK
<1>1. /\ log' = SubSeq(log, 1, kept[n])
      /\ kept' = [m \in Node |-> IF kept[m] < kept[n] THEN kept[m] ELSE kept[n]]
      /\ tail' = [m \in Node |-> SubSeq(log, kept[n] + 1, kept[m]) \o tail[m]]
      /\ lost' = (lost \/ kept[n] < Len(log))
  BY DEF Elect
<1>2. log' \in Seq(Commands) /\ Len(log') = kept[n]
  <2>1. PICK l \in Seq(Commands), k \in Nat : l = log /\ k = kept[n] /\ k <= Len(l)
    BY <1>0
  <2>2. SubSeq(l, 1, k) \in Seq(Commands) /\ Len(SubSeq(l, 1, k)) = k
    BY <2>1
  <2> QED
    BY <1>1, <2>1, <2>2
<1>3. kept' \in [Node -> Nat] /\ \A m \in Node : kept'[m] <= kept[n]
  BY <1>0, <1>1
<1>4. \A m \in Node : SubSeq(log, kept[n] + 1, kept[m]) \o tail[m] \in Seq(Commands)
  <2> TAKE m \in Node
  <2>1. PICK l \in Seq(Commands), k \in Nat, j \in Nat, s \in Seq(Commands) :
          l = log /\ k = kept[n] /\ j = kept[m] /\ j <= Len(l) /\ s = tail[m]
    BY <1>0
  <2>2. SubSeq(l, k + 1, j) \in Seq(Commands)
    BY <2>1
  <2> QED
    BY <2>1, <2>2
<1>5. tail' \in [Node -> Seq(Commands)]
  BY <1>1, <1>4
<1>6. CASE kept[n] < Len(log)
  BY <1>1, <1>2, <1>3, <1>5, <1>6
<1>7. CASE kept[n] = Len(log)
  <2>1. log' = log
    <3>1. PICK l \in Seq(Commands) : l = log
      BY <1>0
    <3>2. SubSeq(l, 1, Len(l)) = l
      BY WholeSeq
    <3> QED
      BY <1>1, <1>7, <3>1, <3>2
  <2>2. kept' = kept
    BY <1>0, <1>1, <1>7
  <2>3. lost' = lost
    <3>1. ~(kept[n] < Len(log)) /\ lost \in BOOLEAN
      BY <1>0, <1>7 DEF TypeOK
    <3> QED
      BY <1>1, <3>1
  <2> QED
    BY <1>2, <1>3, <1>5, <1>7, <2>1, <2>2, <2>3
<1> QED
  BY <1>0, <1>6, <1>7

LEMMA NextType == TypeOK /\ [Next]_vars => TypeOK'
<1> SUFFICES ASSUME TypeOK, [Next]_vars PROVE TypeOK'
  OBVIOUS
<1> USE DEF raftVars, nodeVars, callVars
<1>1. ASSUME NEW n \in Node, NEW c \in Commands, ExecuteCommand(n, c) PROVE TypeOK'
  BY <1>1, TakeType, CallType DEF ExecuteCommand, TypeOK
<1>2. ASSUME NEW n \in Node, NEW c \in Commands, CheckLeader(n, c) PROVE TypeOK'
  BY <1>2, CallType DEF CheckLeader, TypeOK
<1>3. ASSUME NEW c \in Commands, CommandFails(c) PROVE TypeOK'
  BY <1>3, CallType DEF CommandFails, TypeOK
<1>4. ASSUME NEW c \in Commands, ChangeMembers(c) PROVE TypeOK'
  <2>1. tail' \in [Node -> Seq(Commands)]
    <3>1. CASE UNCHANGED tail
      BY <3>1 DEF TypeOK
    <3>2. CASE Accepts(at[c], c) /\ Take(at[c], c)
      <4>1. at[c] \in Node \/ at[c] = NoNode
        BY DEF TypeOK
      <4>2. CASE at[c] \in Node
        BY <3>2, <4>2, TakeType
      <4>3. CASE at[c] = NoNode
        BY <3>2, <4>3, ReplicationAssumption DEF Take, TypeOK
      <4> QED
        BY <4>1, <4>2, <4>3
    <3> QED
      BY <1>4, <3>1, <3>2 DEF ChangeMembers
  <2>2. Answered(c, "ok") \/ Answered(c, "unsent")
    BY <1>4 DEF ChangeMembers
  <2>3. /\ at' \in [Commands -> Node \cup {NoNode}]
        /\ answer' \in [Commands -> {"unsent", "checked", "waiting", "ok", "null"}]
    BY <2>2, CallType
  <2> QED
    BY <1>4, <2>1, <2>3 DEF ChangeMembers, TypeOK
<1>5. CASE Commit
  <2>1. PICK c \in Commands, H \in SUBSET Node :
           /\ log' = Append(log, c)
           /\ \A n \in H : kept[n] = Len(log)
           /\ kept' = [n \in Node |-> IF n \in H THEN kept[n] + 1 ELSE kept[n]]
           /\ tail' \in [Node -> Seq(Commands)]
           /\ UNCHANGED <<leader, leads, lost, nodeVars, callVars, restarts>>
    BY <1>5, CommitFacts
  <2>2. /\ log \in Seq(Commands) /\ Len(log) \in Nat /\ applied \in [Node -> Nat]
        /\ kept \in [Node -> Nat] /\ \A n \in Node : kept[n] <= Len(log)
    BY DEF TypeOK
  <2>3. log' \in Seq(Commands) /\ Len(log') = Len(log) + 1
    BY <2>1, <2>2
  <2>4. /\ kept' \in [Node -> Nat]
        /\ \A n \in Node : kept[n] <= kept'[n] /\ kept'[n] <= Len(log')
    BY <2>1, <2>2, <2>3
  <2>5. lost \/ \A n \in Node : applied[n] <= kept'[n]
    BY <2>2, <2>4 DEF TypeOK
  <2> QED
    BY <2>1, <2>3, <2>4, <2>5 DEF TypeOK
<1>6. ASSUME NEW n \in Node, Elect(n) PROVE TypeOK'
  <2>1. \/ lost'
        \/ kept' = kept /\ lost' = lost
    BY <1>6, ElectFacts
  <2>2. lost' \/ \A m \in Node : applied[m] <= kept'[m]
    BY <2>1 DEF TypeOK
  <2>3. lost' \in BOOLEAN
    BY <1>6 DEF Elect, TypeOK
  <2> QED
    BY <1>6, <2>2, <2>3, ElectFacts DEF Elect, TypeOK
<1>12. ASSUME NEW n \in Node, Replicate(n) PROVE TypeOK'
  <2>1. lost \/ \A m \in Node : applied[m] <= kept'[m]
    BY <1>12, ReplicateFacts DEF TypeOK
  <2> QED
    BY <1>12, <2>1, ReplicateFacts DEF Replicate, TypeOK
<1>7. ASSUME NEW n \in Node, Depose(n) PROVE TypeOK'
  BY <1>7 DEF Depose, TypeOK
<1>8. ASSUME NEW n \in Node, Apply(n) PROVE TypeOK'
  <2> DEFINE c == log[applied[n] + 1]
  <2>1. /\ applied[n] + 1 \in Nat /\ applied[n] + 1 <= kept[n]
        /\ applied[n] + 1 \in 1 .. Len(log) /\ c \in Commands
    BY <1>8 DEF Apply, TypeOK
  <2>2. /\ at' \in [Commands -> Node \cup {NoNode}]
        /\ answer' \in [Commands -> {"unsent", "checked", "waiting", "ok", "null"}]
    BY <1>8, <2>1, ReplyType DEF Apply
  <2>3. applied' \in [Node -> Nat] /\ (lost \/ \A m \in Node : applied'[m] <= kept[m])
    BY <1>8, <2>1 DEF Apply, TypeOK
  <2>4. cache' \in [Node -> Caches] /\ apart' \in [Node -> SUBSET CacheIds]
    <3>1. cache \in [Node -> Caches] /\ apart \in [Node -> SUBSET CacheIds]
      BY DEF TypeOK, Caches
    <3>2. CASE c \in CacheCommands
      <4>1. Effect(cache[n], c) \in Caches /\ c.id \in CacheIds
        BY <3>1, <3>2, EffectType, Kinds
      <4> HIDE DEF c
      <4>2. \/ cache' = [cache EXCEPT ![n] = Effect(@, c)] /\ apart' = [apart EXCEPT ![n] = @ \ {c.id}]
            \/ cache' = cache /\ apart' = [apart EXCEPT ![n] = @ \cup {c.id}]
            \/ cache' = cache /\ apart' = apart
        BY <1>8 DEF Apply, c
      <4> QED
        BY <3>1, <4>1, <4>2
    <3>3. CASE c \notin CacheCommands
      BY <1>8, <3>1, <3>3 DEF Apply
    <3> QED
      BY <3>2, <3>3
  <2> QED
    BY <1>8, <2>2, <2>3, <2>4 DEF Apply, TypeOK, Caches
<1>9. ASSUME NEW n \in Node, Restart(n) PROVE TypeOK'
  <2> USE <1>9 DEF Restart, RestartAt
  <2>1. /\ tail' \in [Node -> Seq(Commands)] /\ applied' \in [Node -> Nat]
        /\ kept' \in [Node -> Nat]
    BY DEF TypeOK
  <2>2. \A m \in Node : kept'[m] <= Len(log')
    BY DEF TypeOK
  <2>3. lost' \/ \A m \in Node : applied'[m] <= kept'[m]
    BY DEF TypeOK
  <2>4. /\ at' \in [Commands -> Node \cup {NoNode}]
        /\ answer' \in [Commands -> {"unsent", "checked", "waiting", "ok", "null"}]
    BY DEF TypeOK
  <2> QED
    BY <2>1, <2>2, <2>3, <2>4 DEF TypeOK
<1>10. ASSUME NEW n \in Node, NEW id \in CacheIds, Write(n, id) PROVE TypeOK'
  <2>1. cache \in [Node -> Caches]
    BY DEF TypeOK, Caches
  <2>2. cache' \in [Node -> Caches]
    <3>1. ASSUME NEW v \in Values, cache' = [cache EXCEPT ![n] = Bind(@, id, v)]
          PROVE  cache' \in [Node -> Caches]
      <4>1. Bind(cache[n], id, v) \in Caches
        BY <2>1, BindType
      <4> QED
        BY <2>1, <3>1, <4>1
    <3>2. CASE cache' = [cache EXCEPT ![n] = Restrict(@, DOMAIN @ \ {id})]
      <4>1. Restrict(cache[n], DOMAIN cache[n] \ {id}) \in Caches
        BY <2>1, RestrictType
      <4> QED
        BY <2>1, <3>2, <4>1
    <3> QED
      BY <1>10, <3>1, <3>2 DEF Write
  <2> QED
    BY <1>10, <2>2 DEF Write, TypeOK, Caches
<1>11. CASE UNCHANGED vars
  BY <1>11 DEF vars, TypeOK
<1> QED
  BY <1>1, <1>2, <1>3, <1>4, <1>5, <1>6, <1>7, <1>8, <1>9, <1>10, <1>11, <1>12 DEF Next

(***************************************************************************)
(* The variables have their types; no node applies more than its log store *)
(* has, until something committed is lost.                                 *)
(***************************************************************************)
THEOREM TypeCorrect == Spec => []TypeOK
BY InitType, NextType, PTL DEF Spec
-----------------------------------------------------------------------------
\* Majorities of one configuration: a larger set is one too, and two meet.
LEMMA MajorityGrows ==
  ASSUME NEW C \in SUBSET Node, NEW R \in SUBSET Node, NEW S \in SUBSET Node,
         R \subseteq S, Majority(R, C)
  PROVE  Majority(S, C)
<1>1. IsFiniteSet(C) /\ IsFiniteSet(S \cap C)
  BY ReplicationAssumption, FS_Subset
<1>2. Cardinality(R \cap C) <= Cardinality(S \cap C)
  BY <1>1, FS_Subset
<1>3. /\ Cardinality(R \cap C) \in Nat /\ Cardinality(S \cap C) \in Nat
      /\ Cardinality(C) \in Nat
  BY <1>1, FS_CardinalityType, FS_Subset
<1> QED
  BY <1>2, <1>3 DEF Majority

LEMMA MajoritiesMeet ==
  ASSUME NEW C \in SUBSET Node, NEW R \in SUBSET Node, NEW S \in SUBSET Node,
         Majority(R, C), Majority(S, C)
  PROVE  R \cap S # {}
<1> SUFFICES ASSUME R \cap S = {} PROVE FALSE
  OBVIOUS
<1> DEFINE A == R \cap C
           B == S \cap C
<1>1. IsFiniteSet(C) /\ IsFiniteSet(A) /\ IsFiniteSet(B)
  BY ReplicationAssumption, FS_Subset
<1>2. Cardinality(A) \in Nat /\ Cardinality(B) \in Nat /\ Cardinality(C) \in Nat
  BY <1>1, FS_CardinalityType
<1>3. Cardinality(A \cup B) = Cardinality(A) + Cardinality(B)
  <2>1. A \cap B = {} /\ Cardinality(A \cap B) = 0
    BY FS_EmptySet
  <2>2. Cardinality(A \cup B) = Cardinality(A) + Cardinality(B) - Cardinality(A \cap B)
    BY <1>1, FS_Union
  <2> QED
    BY <1>2, <2>1, <2>2
<1>4. Cardinality(A \cup B) <= Cardinality(C)
  <2>1. A \cup B \subseteq C
    OBVIOUS
  <2> QED
    BY <1>1, <2>1, FS_Subset
<1>5. 2 * Cardinality(A) > Cardinality(C) /\ 2 * Cardinality(B) > Cardinality(C)
  BY DEF Majority
<1> QED
  BY <1>2, <1>3, <1>4, <1>5

\* The configuration after k commands depends on these.
LEMMA SameConfig ==
  ASSUME NEW k \in Nat, \A i \in 1 .. k : log'[i] = log[i]
  PROVE  Config(k)' = Config(k)
<1>1. \A n \in Node : Changes(n, k)' = Changes(n, k)
  BY DEF Changes
<1>2. \A n \in Node : \A i \in Changes(n, k) : log'[i] = log[i]
  BY DEF Changes
<1> QED
  BY <1>1, <1>2 DEF Config

LEMMA ConfigType == ASSUME NEW k PROVE Config(k) \in SUBSET Node
BY DEF Config

\* Until a node restarts nothing is lost.
KeepInv == restarts > 0 \/ (~lost /\ QuorumsKeep)

\* Log stores only grow, and the log by what a majority has.
Keeping ==
    /\ UNCHANGED <<restarts, lost>> /\ log' \in Seq(Commands)
    /\ Len(log) <= Len(log') /\ Len(log') <= Len(log) + 1
    /\ \A i \in 1 .. Len(log) : log'[i] = log[i]
    /\ \A n \in Node : kept[n] <= kept'[n] /\ kept'[n] \in Nat
    /\ \A k \in Len(log) .. Len(log') - 1 :
         Majority({n \in Node : kept'[n] > k}, Config(k))

\* Before a restart there is no other step.
LEMMA Steps ==
  ASSUME TypeOK, KeepInv, [Next]_vars, restarts' = 0
  PROVE  Keeping /\ restarts = 0
<1>0. /\ restarts \in Nat /\ log \in Seq(Commands) /\ Len(log) \in Nat
      /\ kept \in [Node -> Nat] /\ \A n \in Node : kept[n] \in Nat /\ kept[n] <= Len(log)
  BY DEF TypeOK
<1>u. ASSUME UNCHANGED <<log, kept, lost, restarts>> PROVE Keeping /\ restarts = 0
  BY <1>0, <1>u DEF Keeping
<1>1. ASSUME NEW n \in Node, Restart(n) PROVE FALSE
  BY <1>0, <1>1 DEF Restart, RestartAt
<1>2. CASE Commit
  <2>1. PICK c \in Commands, H \in SUBSET Node :
           /\ log' = Append(log, c) /\ Majority(H, Config(Len(log)))
           /\ \A n \in H : kept[n] = Len(log)
           /\ kept' = [n \in Node |-> IF n \in H THEN kept[n] + 1 ELSE kept[n]]
           /\ UNCHANGED <<lost, restarts>>
    BY <1>2, CommitFacts
  <2>2. /\ log' \in Seq(Commands) /\ Len(log') = Len(log) + 1
        /\ \A i \in 1 .. Len(log) : log'[i] = log[i]
    BY <1>0, <2>1
  <2>3. \A n \in Node : kept[n] <= kept'[n] /\ kept'[n] \in Nat
    BY <1>0, <2>1
  <2>4. H \subseteq {n \in Node : kept'[n] > Len(log)}
    BY <1>0, <2>1
  <2>5. Majority({n \in Node : kept'[n] > Len(log)}, Config(Len(log)))
    <3> DEFINE S == {n \in Node : kept'[n] > Len(log)}
    <3>1. S \in SUBSET Node /\ H \subseteq S /\ Config(Len(log)) \in SUBSET Node
      BY <2>4, ConfigType
    <3> HIDE DEF S
    <3>2. Majority(S, Config(Len(log)))
      BY <2>1, <3>1, MajorityGrows
    <3> QED
      BY <3>2 DEF S
  <2>6. \A k \in Len(log) .. Len(log') - 1 : k = Len(log)
    BY <1>0, <2>2
  <2> QED
    BY <1>0, <2>1, <2>2, <2>3, <2>5, <2>6 DEF Keeping
<1>3. ASSUME NEW n \in Node, Replicate(n) PROVE Keeping /\ restarts = 0
  <2>1. /\ UNCHANGED <<log, restarts, lost>>
        /\ \A m \in Node : kept[m] <= kept'[m] /\ kept'[m] \in Nat
    BY <1>3, ReplicateFacts DEF Replicate
  <2> QED
    BY <1>0, <2>1 DEF Keeping
<1>4. ASSUME NEW n \in Node, Elect(n) PROVE UNCHANGED <<log, kept, lost, restarts>>
  <2>1. restarts' = restarts
    BY <1>4 DEF Elect
  <2>2. CASE kept[n] = Len(log)
    BY <1>4, <2>1, <2>2, ElectFacts
  <2>3. CASE kept[n] < Len(log)
    <3> DEFINE k == kept[n]
               R == {m \in Node : kept[m] <= k}
               S == {m \in Node : kept[m] > k}
    <3>1. k \in 0 .. Len(log) - 1
      BY <1>0, <2>3
    <3>2. Majority(S, Config(k))
      BY <1>0, <2>1, <3>1 DEF KeepInv, QuorumsKeep
    <3>3. Majority(R, Config(k))
      BY <1>4 DEF Elect
    <3>4. R \in SUBSET Node /\ S \in SUBSET Node /\ R \cap S = {} /\ Config(k) \in SUBSET Node
      BY <1>0, ConfigType
    <3> HIDE DEF k, R, S
    <3> QED
      BY <3>2, <3>3, <3>4, MajoritiesMeet
  <2> QED
    BY <1>0, <2>2, <2>3
<1>5. ASSUME NEW n \in Node, NEW c \in Commands, ExecuteCommand(n, c) \/ CheckLeader(n, c)
      PROVE  UNCHANGED <<log, kept, lost, restarts>>
  BY <1>5 DEF ExecuteCommand, CheckLeader, raftVars
<1>6. ASSUME NEW c \in Commands, CommandFails(c) \/ ChangeMembers(c)
      PROVE  UNCHANGED <<log, kept, lost, restarts>>
  BY <1>6 DEF CommandFails, ChangeMembers, raftVars
<1>7. ASSUME NEW n \in Node, Depose(n) \/ Apply(n) PROVE UNCHANGED <<log, kept, lost, restarts>>
  BY <1>7 DEF Depose, Apply, raftVars
<1>8. ASSUME NEW n \in Node, NEW id \in CacheIds, Write(n, id)
      PROVE  UNCHANGED <<log, kept, lost, restarts>>
  BY <1>8 DEF Write, raftVars
<1>9. CASE UNCHANGED vars
  BY <1>9, <1>u DEF vars, raftVars
<1> QED
  BY <1>u, <1>1, <1>2, <1>3, <1>4, <1>5, <1>6, <1>7, <1>8, <1>9 DEF Next

LEMMA KeepInit == Init => KeepInv
<1> SUFFICES ASSUME Init PROVE KeepInv
  OBVIOUS
<1>1. log = <<>> /\ lost = FALSE /\ 0 .. Len(log) - 1 = {}
  BY DEF Init
<1> QED
  BY <1>1 DEF KeepInv, QuorumsKeep

LEMMA KeepStep == TypeOK /\ TypeOK' /\ KeepInv /\ [Next]_vars => KeepInv'
<1> SUFFICES ASSUME TypeOK, TypeOK', KeepInv, [Next]_vars PROVE KeepInv'
  OBVIOUS
<1>1. CASE restarts' > 0
  BY <1>1 DEF KeepInv
<1>2. CASE restarts' = 0
  <2>1. Keeping /\ restarts = 0
    BY <1>2, Steps
  <2>2. ~lost' /\ QuorumsKeep
    BY <2>1 DEF KeepInv, Keeping
  <2>3. /\ Len(log) \in Nat /\ Len(log') \in Nat
        /\ Len(log) <= Len(log') /\ Len(log') <= Len(log) + 1
        /\ \A n \in Node : kept[n] \in Nat /\ kept'[n] \in Nat /\ kept[n] <= kept'[n]
    BY <2>1 DEF Keeping, TypeOK
  <2>4. ASSUME NEW k \in 0 .. Len(log') - 1
        PROVE  Majority({n \in Node : kept'[n] > k}, Config(k)')
    <3> DEFINE S == {n \in Node : kept'[n] > k}
               R == {n \in Node : kept[n] > k}
    <3>1. k \in Nat /\ Config(k) \in SUBSET Node /\ R \in SUBSET Node /\ S \in SUBSET Node
      BY <2>3, ConfigType
    <3>2. R \subseteq S
      BY <2>3, <3>1
    <3>3. Majority(S, Config(k))
      <4>1. CASE k \in 0 .. Len(log) - 1
        <5>1. Majority(R, Config(k))
          BY <2>2, <4>1 DEF QuorumsKeep
        <5> HIDE DEF R, S
        <5> QED
          BY <3>1, <3>2, <5>1, MajorityGrows
      <4>2. CASE k \in Len(log) .. Len(log') - 1
        BY <2>1, <4>2 DEF Keeping
      <4> QED
        BY <2>3, <4>1, <4>2
    <3>4. \A i \in 1 .. k : log'[i] = log[i]
      <4>1. \A i \in 1 .. Len(log) : log'[i] = log[i]
        BY <2>1 DEF Keeping
      <4>2. k <= Len(log)
        BY <2>3, <3>1
      <4> QED
        BY <2>3, <3>1, <4>1, <4>2
    <3>5. Config(k)' = Config(k)
      BY <3>1, <3>4, SameConfig
    <3> QED
      BY <3>3, <3>5
  <2> QED
    BY <2>2, <2>4 DEF KeepInv, QuorumsKeep, Majority
<1>3. restarts' \in Nat
  BY DEF TypeOK
<1> QED
  BY <1>1, <1>2, <1>3

LEMMA Keeps == Spec => [](TypeOK /\ KeepInv)
<1>1. TypeOK /\ KeepInv /\ [Next]_vars => TypeOK' /\ KeepInv'
  BY NextType, KeepStep
<1> QED
  BY InitType, KeepInit, <1>1, PTL DEF Spec

(***************************************************************************)
(* A command that was committed stays in the log of every leader until a   *)
(* node restarts with an empty log store (raft_engine.cpp:512-541), for    *)
(* any number of nodes and whatever nodes join and leave.                  *)
(***************************************************************************)
THEOREM NothingLost == Spec => [](lost => restarts > 0)
<1>1. KeepInv => (lost => restarts > 0)
  BY DEF KeepInv
<1> QED
  BY Keeps, <1>1, PTL
-----------------------------------------------------------------------------
\* Commands on an id, in a log that is at least k long.
LEMMA TouchingGrows ==
  ASSUME NEW id, NEW k \in Nat, NEW l \in Seq(Commands), NEW c \in Commands, k <= Len(l)
  PROVE  {i \in 1 .. k : Append(l, c)[i] \in CacheCommands /\ Append(l, c)[i].id = id}
           = {i \in 1 .. k : l[i] \in CacheCommands /\ l[i].id = id}
<1>1. \A i \in 1 .. k : Append(l, c)[i] = l[i]
  OBVIOUS
<1> QED
  BY <1>1

\* What a node knows of an id from the log: the latest command on it that the
\* node has applied, if there is one.
Latest(n, id, i) == /\ i \in Touching(id, applied[n])
                    /\ \A j \in Touching(id, applied[n]) : j <= i

\* There is one (no induction over sets is needed), and the cache shows it.
Follows(n, id) ==
    /\ Touching(id, applied[n]) # {} => \E i \in Nat : Latest(n, id, i)
    /\ id \notin apart[n] =>
         /\ \A i \in Nat : Latest(n, id, i) => Shows(cache[n], log[i])
         /\ Touching(id, Len(log)) = {} => id \notin DOMAIN cache[n]

FollowInv == LostByRestart \/ \A n \in Node : \A id \in CacheIds : Follows(n, id)

LEMMA FollowInvSuffices == TypeOK /\ FollowInv => CacheFollowsLog
<1> SUFFICES ASSUME TypeOK, FollowInv, ~LostByRestart, NEW n \in Node,
                    NEW id \in CacheIds \ apart[n]
             PROVE  /\ \A i \in Touching(id, applied[n]) :
                         (\A j \in Touching(id, applied[n]) : j <= i) => Shows(cache[n], log[i])
                    /\ Touching(id, Len(log)) = {} => id \notin DOMAIN cache[n]
  BY DEF CacheFollowsLog
<1>1. Touching(id, applied[n]) \subseteq Nat
  BY DEF Touching, TypeOK
<1> QED
  BY <1>1 DEF FollowInv, Follows, Latest

LEMMA FollowInit == Init => FollowInv
<1> SUFFICES ASSUME Init, NEW n \in Node, NEW id \in CacheIds
             PROVE  /\ Touching(id, applied[n]) = {}
                    /\ DOMAIN cache[n] = {}
  BY DEF FollowInv, Follows, Latest
<1>1. applied[n] = 0 /\ cache[n] = <<>>
  BY DEF Init
<1> QED
  BY <1>1 DEF Touching

\* The same cache shows the same on an id.
LEMMA SameShows ==
  ASSUME NEW f, NEW g, NEW c \in CacheCommands, Same(f, g, c.id), Shows(g, c)
  PROVE  Shows(f, c)
BY DEF Same, Shows

\* One step seen from one node and one id: the node applies nothing that
\* touches the id, and its cache keeps what it has there, or it is apart.
Unmoved(n, id) ==
    /\ Touching(id, applied[n])' = Touching(id, applied[n])
    /\ \A i \in Touching(id, applied[n]) : log'[i] = log[i]
    /\ Touching(id, Len(log)) \subseteq Touching(id, Len(log))'
    /\ id \in apart'[n] \/ (id \notin apart[n] /\ Same(cache'[n], cache[n], id))

LEMMA UnmovedFollows ==
  ASSUME NEW n \in Node, NEW id \in CacheIds, Follows(n, id), Unmoved(n, id)
  PROVE  Follows(n, id)'
<1>1. Touching(id, applied[n])' # {} => \E i \in Nat : Latest(n, id, i)'
  BY DEF Follows, Unmoved, Latest
<1>2. ASSUME id \notin apart'[n], NEW i \in Nat, Latest(n, id, i)'
      PROVE  Shows(cache'[n], log'[i])
  <2>1. Latest(n, id, i) /\ i \in Touching(id, applied[n])
    BY <1>2 DEF Latest, Unmoved
  <2>2. log'[i] = log[i] /\ log[i] \in CacheCommands /\ log[i].id = id
    BY <2>1 DEF Unmoved, Touching
  <2>3. Same(cache'[n], cache[n], id) /\ Shows(cache[n], log[i])
    BY <1>2, <2>1 DEF Unmoved, Follows
  <2> QED
    BY <2>2, <2>3, SameShows
<1>3. ASSUME id \notin apart'[n], Touching(id, Len(log))' = {}
      PROVE  id \notin DOMAIN cache'[n]
  BY <1>3 DEF Unmoved, Follows, Same
<1> QED
  BY <1>1, <1>2, <1>3 DEF Follows

\* What is lost stays lost, and without a loss the log is kept at an election.
LEMMA LostStays ==
  ASSUME TypeOK, [Next]_vars, ~lost'
  PROVE  /\ ~lost
         /\ \A n \in Node : Elect(n) => UNCHANGED <<log, nodeVars>>
<1> USE DEF raftVars
<1>1. ASSUME NEW n \in Node, Elect(n) PROVE ~lost /\ UNCHANGED <<log, nodeVars>>
  BY <1>1, ElectFacts DEF Elect
<1>2. CASE lost' = lost
  BY <1>1, <1>2
<1>3. ASSUME NEW n \in Node, NEW c \in Commands, ExecuteCommand(n, c) \/ CheckLeader(n, c)
      PROVE  lost' = lost
  BY <1>3 DEF ExecuteCommand, CheckLeader
<1>4. ASSUME NEW c \in Commands, CommandFails(c) \/ ChangeMembers(c) PROVE lost' = lost
  BY <1>4 DEF CommandFails, ChangeMembers
<1>5. ASSUME NEW n \in Node, Depose(n) \/ Replicate(n) \/ Apply(n) \/ Restart(n)
      PROVE  lost' = lost
  BY <1>5 DEF Depose, Replicate, Apply, Restart, RestartAt
<1>6. ASSUME NEW n \in Node, NEW id \in CacheIds, Write(n, id) PROVE lost' = lost
  BY <1>6 DEF Write
<1> QED
  BY <1>1, <1>2, <1>3, <1>4, <1>5, <1>6 DEF Next, Commit, vars

LEMMA FollowStep == TypeOK /\ KeepInv' /\ FollowInv /\ [Next]_vars => FollowInv'
<1> SUFFICES ASSUME TypeOK, KeepInv', FollowInv, [Next]_vars, ~LostByRestart',
                    NEW n \in Node, NEW id \in CacheIds
             PROVE  Follows(n, id)'
  BY DEF FollowInv
<1>l. /\ ~lost
      /\ \A m \in Node : Elect(m) => UNCHANGED <<log, nodeVars>>
  BY LostStays DEF KeepInv, LostByRestart
<1>b. /\ Len(log) \in Nat
      /\ \A m \in Node : /\ kept[m] \in Nat /\ applied[m] \in Nat
                         /\ applied[m] <= kept[m] /\ kept[m] <= Len(log)
  BY <1>l DEF TypeOK
<1>0. Follows(n, id)
  BY <1>l DEF FollowInv, LostByRestart
<1>q. Same(cache[n], cache[n], id) /\ (id \in apart[n] \/ id \notin apart[n])
  BY DEF Same
\* Steps that have nothing to do with the log and the caches.
<1>1. CASE UNCHANGED <<log, nodeVars>>
  <2>1. Unmoved(n, id)
    BY <1>1, <1>q DEF Unmoved, Touching, nodeVars
  <2> QED
    BY <1>0, <2>1, UnmovedFollows
<1>2. CASE Commit
  <2>1. PICK c \in Commands : log' = Append(log, c) /\ UNCHANGED nodeVars
    BY <1>2, CommitFacts
  <2>2. /\ applied[n] \in Nat /\ applied[n] <= Len(log) /\ Len(log) \in Nat
        /\ log \in Seq(Commands)
    BY <1>b DEF TypeOK
  <2>3. Touching(id, applied[n])' = Touching(id, applied[n])
    BY <2>1, <2>2, TouchingGrows DEF Touching, nodeVars
  <2>4. \A i \in 1 .. Len(log) : log'[i] = log[i]
    BY <2>1, <2>2
  <2>5. Len(log') = Len(log) + 1
    BY <2>1, <2>2
  <2>6. Touching(id, Len(log)) \subseteq Touching(id, Len(log))'
    BY <2>2, <2>4, <2>5 DEF Touching
  <2>7. \A i \in Touching(id, applied[n]) : log'[i] = log[i]
    BY <2>2, <2>4 DEF Touching
  <2>8. Unmoved(n, id)
    BY <1>q, <2>1, <2>3, <2>6, <2>7 DEF Unmoved, nodeVars
  <2> QED
    BY <1>0, <2>8, UnmovedFollows
<1>3. ASSUME NEW m \in Node, Apply(m) PROVE Follows(n, id)'
  <2> DEFINE k == applied[m] + 1
             c == log[k]
  <2>1. /\ UNCHANGED log /\ applied[m] \in Nat /\ applied[m] < Len(log) /\ Len(log) \in Nat
        /\ applied' = [applied EXCEPT ![m] = k] /\ c \in Commands
    BY <1>3, <1>b DEF Apply, raftVars, TypeOK
  <2>2. \/ /\ c \in CacheCommands
           /\ cache' = [cache EXCEPT ![m] = Effect(@, c)]
           /\ apart' = [apart EXCEPT ![m] = @ \ {c.id}]
        \/ c \in CacheCommands /\ cache' = cache /\ apart' = [apart EXCEPT ![m] = @ \cup {c.id}]
        \/ c \in ConfCommands /\ cache' = cache /\ apart' = apart
    BY <1>3 DEF Apply
  <2>3. Touching(id, Len(log))' = Touching(id, Len(log))
    BY <2>1 DEF Touching
  <2>4. CASE n # m
    <3>1. applied'[n] = applied[n] /\ cache'[n] = cache[n] /\ apart'[n] = apart[n]
      BY <2>1, <2>2, <2>4 DEF TypeOK
    <3>2. Unmoved(n, id)
      BY <1>q, <2>1, <2>3, <3>1 DEF Unmoved, Touching
    <3> QED
      BY <1>0, <3>2, UnmovedFollows
  <2>5. CASE n = m /\ ~(c \in CacheCommands /\ c.id = id)
    <3>1. Touching(id, applied[n])' = Touching(id, applied[n])
      BY <2>1, <2>5 DEF Touching, TypeOK
    <3>2. Same(cache'[n], cache[n], id) /\ (id \in apart'[n] <=> id \in apart[n])
      <4>1. CASE /\ c \in CacheCommands
                 /\ cache' = [cache EXCEPT ![m] = Effect(@, c)]
                 /\ apart' = [apart EXCEPT ![m] = @ \ {c.id}]
        <5>1. cache[m] \in Caches
          BY DEF TypeOK, Caches
        <5>2. Same(Effect(cache[m], c), cache[m], id)
          BY <2>5, <4>1, <5>1, EffectType
        <5> HIDE DEF c
        <5> QED
          BY <2>5, <4>1, <5>2 DEF TypeOK
      <4>2. CASE c \in CacheCommands /\ cache' = cache /\ apart' = [apart EXCEPT ![m] = @ \cup {c.id}]
        BY <1>q, <2>5, <4>2 DEF TypeOK
      <4>3. CASE cache' = cache /\ apart' = apart
        BY <1>q, <4>3
      <4> QED
        BY <2>2, <4>1, <4>2, <4>3
    <3>3. Unmoved(n, id)
      BY <2>1, <2>3, <3>1, <3>2 DEF Unmoved
    <3> QED
      BY <1>0, <3>3, UnmovedFollows
  <2>6. CASE n = m /\ c \in CacheCommands /\ c.id = id
    <3>1. applied'[n] = k /\ k \in Nat /\ k <= Len(log)
      BY <2>1, <2>6 DEF TypeOK
    <3>2. k \in Touching(id, applied[n])' /\ \A j \in Touching(id, applied[n])' : j <= k /\ j \in Nat
      BY <2>1, <2>6, <3>1 DEF Touching
    <3>3. \A i \in Nat : Latest(n, id, i)' <=> i = k
      BY <3>1, <3>2 DEF Latest
    <3>4. k \in Touching(id, Len(log))'
      BY <2>1, <2>6, <3>1 DEF Touching
    <3>5. id \notin apart'[n] => Shows(cache'[n], c)
      <4>1. CASE /\ cache' = [cache EXCEPT ![m] = Effect(@, c)]
                 /\ apart' = [apart EXCEPT ![m] = @ \ {c.id}]
        <5>1. cache[m] \in Caches
          BY DEF TypeOK, Caches
        <5>2. Shows(Effect(cache[m], c), c)
          BY <2>6, <5>1, EffectType
        <5>3. cache'[n] = Effect(cache[m], c)
          <6> HIDE DEF c
          <6> QED
            BY <2>6, <4>1 DEF TypeOK
        <5> QED
          BY <5>2, <5>3
      <4>2. CASE apart' = [apart EXCEPT ![m] = @ \cup {c.id}]
        BY <2>6, <4>2 DEF TypeOK
      <4> QED
        BY <2>2, <2>6, <4>1, <4>2, Kinds
    <3> QED
      BY <2>1, <3>1, <3>3, <3>4, <3>5 DEF Follows
  <2> QED
    BY <2>4, <2>5, <2>6
<1>4. ASSUME NEW m \in Node, NEW other \in CacheIds, Write(m, other) PROVE Follows(n, id)'
  <2>1. UNCHANGED <<log, applied>> /\ apart' = [apart EXCEPT ![m] = @ \cup {other}]
    BY <1>4 DEF Write, raftVars
  <2>2. CASE n # m \/ id # other
    <3>1. Same(cache'[n], cache[n], id)
      <4>1. CASE n # m
        BY <1>4, <1>q, <4>1 DEF Write, TypeOK
      <4>2. CASE n = m
        <5>1. cache[m] \in Caches /\ id \in CacheIds \ {other}
          BY <2>2, <4>2 DEF TypeOK, Caches
        <5>2. ASSUME NEW v \in Values, cache' = [cache EXCEPT ![m] = Bind(@, other, v)]
              PROVE  Same(cache'[n], cache[n], id)
          <6>1. Same(Bind(cache[m], other, v), cache[m], id)
            BY <5>1, BindType
          <6> QED
            BY <4>2, <5>2, <6>1 DEF TypeOK
        <5>3. CASE cache' = [cache EXCEPT ![m] = Restrict(@, DOMAIN @ \ {other})]
          <6>1. Same(Restrict(cache[m], DOMAIN cache[m] \ {other}), cache[m], id)
            BY <5>1, RestrictType
          <6> QED
            BY <4>2, <5>3, <6>1 DEF TypeOK
        <5> QED
          BY <1>4, <5>2, <5>3 DEF Write
      <4> QED
        BY <4>1, <4>2
    <3>2. id \in apart'[n] <=> id \in apart[n]
      BY <2>1, <2>2 DEF TypeOK
    <3>3. Unmoved(n, id)
      BY <2>1, <3>1, <3>2 DEF Unmoved, Touching
    <3> QED
      BY <1>0, <3>3, UnmovedFollows
  <2>3. CASE n = m /\ id = other
    <3>1. id \in apart'[n]
      BY <2>1, <2>3 DEF TypeOK
    <3>2. Unmoved(n, id)
      BY <2>1, <3>1 DEF Unmoved, Touching
    <3> QED
      BY <1>0, <3>2, UnmovedFollows
  <2> QED
    BY <2>2, <2>3
<1>5. ASSUME NEW m \in Node, Restart(m) PROVE Follows(n, id)'
  <2>1. UNCHANGED <<log, cache, apart>> /\ applied' = [applied EXCEPT ![m] = 0]
    BY <1>5 DEF Restart, RestartAt
  <2>2. CASE n # m
    <3>1. Unmoved(n, id)
      BY <1>q, <2>1, <2>2 DEF Unmoved, Touching, TypeOK
    <3> QED
      BY <1>0, <3>1, UnmovedFollows
  <2>3. CASE n = m
    <3>1. Touching(id, applied[n])' = {}
      BY <2>1, <2>3 DEF Touching, TypeOK
    <3>2. Touching(id, Len(log))' = Touching(id, Len(log))
      BY <2>1 DEF Touching
    <3> QED
      BY <1>0, <2>1, <3>1, <3>2 DEF Follows, Latest
  <2> QED
    BY <2>2, <2>3
<1>6. ASSUME NEW m \in Node, NEW c \in Commands, ExecuteCommand(m, c) \/ CheckLeader(m, c)
      PROVE  UNCHANGED <<log, nodeVars>>
  BY <1>6 DEF ExecuteCommand, CheckLeader, raftVars
<1>7. ASSUME NEW m \in Node, Elect(m) \/ Depose(m) \/ Replicate(m)
      PROVE  UNCHANGED <<log, nodeVars>>
  BY <1>7, <1>l DEF Depose, Replicate
<1>8. ASSUME NEW c \in Commands, CommandFails(c) \/ ChangeMembers(c)
      PROVE  UNCHANGED <<log, nodeVars>>
  BY <1>8 DEF CommandFails, ChangeMembers, raftVars
<1>9. ASSUME UNCHANGED vars PROVE UNCHANGED <<log, nodeVars>>
  BY <1>9 DEF vars, raftVars
<1> QED
  BY <1>1, <1>2, <1>3, <1>4, <1>5, <1>6, <1>7, <1>8, <1>9 DEF Next

LEMMA Following == Spec => [](TypeOK /\ KeepInv /\ FollowInv)
<1>1. TypeOK /\ KeepInv /\ FollowInv /\ [Next]_vars => TypeOK' /\ KeepInv' /\ FollowInv'
  BY NextType, KeepStep, FollowStep
<1> QED
  BY InitType, KeepInit, FollowInit, <1>1, PTL DEF Spec

(***************************************************************************)
(* A node's cache shows the last command on each id that the node has      *)
(* applied since it started (kvcache_state_machine.cpp:112-180), unless    *)
(* the id was written around Raft, the operation failed, or restarts have  *)
(* made the cluster lose a committed command (raft_engine.cpp:512-541).    *)
(***************************************************************************)
THEOREM CacheFollows == Spec => []CacheFollowsLog
BY Following, FollowInvSuffices, PTL

LEMMA FollowersAgree == TypeOK /\ FollowInv => CaughtUpAgree
<1> SUFFICES ASSUME TypeOK, FollowInv, ~LostByRestart, NEW m \in Node, NEW n \in Node,
                    CaughtUp(m), CaughtUp(n),
                    NEW id \in CacheIds \ (apart[m] \cup apart[n])
             PROVE  Same(cache[m], cache[n], id)
  BY DEF CaughtUpAgree
<1>0. \A i \in Node : Follows(i, id)
  BY DEF FollowInv
<1>1. applied[m] = Len(log) /\ applied[n] = Len(log)
  BY DEF CaughtUp
<1>2. CASE Touching(id, Len(log)) = {}
  <2>1. id \notin DOMAIN cache[m] /\ id \notin DOMAIN cache[n]
    BY <1>0, <1>2 DEF Follows
  <2> QED
    BY <2>1 DEF Same
<1>3. CASE Touching(id, Len(log)) # {}
  <2>1. PICK i \in Nat : Latest(m, id, i)
    BY <1>0, <1>1, <1>3 DEF Follows
  <2>2. Latest(n, id, i)
    BY <1>1, <2>1 DEF Latest
  <2>3. Shows(cache[m], log[i]) /\ Shows(cache[n], log[i])
    BY <1>0, <2>1, <2>2 DEF Follows
  <2>4. log[i].id = id
    BY <2>1 DEF Latest, Touching
  <2> QED
    BY <2>3, <2>4 DEF Shows, Same
<1> QED
  BY <1>2, <1>3

(***************************************************************************)
(* Nodes that have applied the whole log agree on every id that was only   *)
(* written through it, whenever they restarted or joined (README.md:295),  *)
(* unless the restarts have made the cluster lose a committed command.     *)
(***************************************************************************)
THEOREM ReplicasFollow == Spec => []CaughtUpAgree
BY Following, FollowersAgree, PTL
-----------------------------------------------------------------------------
\* Who waits for what.
CallsInv ==
    \A c \in Commands :
       /\ answer[c] = "waiting" => c \in CacheCommands /\ at[c] \in Node
       /\ answer[c] = "checked" => c \in ConfCommands /\ at[c] \in Node

LEMMA CallsInit == Init => CallsInv
BY DEF Init, CallsInv

LEMMA CallsStep == TypeOK /\ CallsInv /\ [Next]_vars => CallsInv'
<1> SUFFICES ASSUME TypeOK, CallsInv, [Next]_vars PROVE CallsInv'
  OBVIOUS
<1> USE DEF CallsInv, TypeOK
<1>1. ASSUME NEW n \in Node, NEW c \in Commands, ExecuteCommand(n, c) PROVE CallsInv'
  BY <1>1 DEF ExecuteCommand, Asked
<1>2. ASSUME NEW n \in Node, NEW c \in Commands, CheckLeader(n, c) PROVE CallsInv'
  BY <1>2 DEF CheckLeader, Asked
<1>3. ASSUME NEW c \in Commands, CommandFails(c) PROVE CallsInv'
  BY <1>3 DEF CommandFails, Answered
<1>4. ASSUME NEW c \in Commands, ChangeMembers(c) PROVE CallsInv'
  BY <1>4 DEF ChangeMembers, Answered
<1>5. ASSUME NEW n \in Node, Apply(n) PROVE CallsInv'
  <2>1. PICK c \in Commands : Reply(n, c)
    BY <1>5 DEF Apply
  <2> QED
    BY <2>1 DEF Reply, Answered, callVars
<1>6. ASSUME NEW n \in Node, Restart(n) PROVE CallsInv'
  BY <1>6 DEF Restart, RestartAt
<1>7. CASE UNCHANGED callVars
  BY <1>7 DEF callVars
<1> QED
  BY <1>1, <1>2, <1>3, <1>4, <1>5, <1>6, <1>7 DEF Next, Commit, Elect, Depose, Replicate, Write, vars

\* What is answered ok is true.
OkStep ==
    \A c \in Commands : answer[c] # "ok" /\ answer'[c] = "ok" =>
      \E n \in Node : at[c] = n /\
        IF c \in CacheCommands THEN \E i \in 1 .. applied'[n] : log'[i] = c
        ELSE leads[n] /\ c \in Range(tail'[n])

LEMMA OkHolds == TypeOK /\ CallsInv /\ [Next]_vars => OkStep
<1> SUFFICES ASSUME TypeOK, CallsInv, [Next]_vars, NEW c \in Commands,
                    answer[c] # "ok", answer'[c] = "ok"
             PROVE  \E n \in Node : at[c] = n /\
                      IF c \in CacheCommands THEN \E i \in 1 .. applied'[n] : log'[i] = c
                      ELSE leads[n] /\ c \in Range(tail'[n])
  BY DEF OkStep
<1> DEFINE True == \E n \in Node : at[c] = n /\
                     IF c \in CacheCommands THEN \E i \in 1 .. applied'[n] : log'[i] = c
                     ELSE leads[n] /\ c \in Range(tail'[n])
<1>1. ASSUME NEW n \in Node, NEW d \in Commands, ExecuteCommand(n, d) \/ CheckLeader(n, d)
      PROVE  FALSE
  BY <1>1 DEF ExecuteCommand, CheckLeader, Asked, TypeOK
<1>2. ASSUME NEW d \in Commands, CommandFails(d) PROVE FALSE
  BY <1>2 DEF CommandFails, Answered, TypeOK
<1>3. ASSUME NEW d \in Commands, ChangeMembers(d) PROVE True
  <2>1. d = c /\ Accepts(at[c], c) /\ Take(at[c], c) /\ answer[c] = "checked"
    BY <1>3 DEF ChangeMembers, Answered, TypeOK
  <2>2. at[c] \in Node /\ c \notin CacheCommands
    BY <2>1, Kinds DEF CallsInv
  <2>3. tail'[at[c]] = Append(tail[at[c]], c) /\ tail[at[c]] \in Seq(Commands)
    BY <2>1, <2>2 DEF Take, TypeOK
  <2>4. Len(tail[at[c]]) + 1 \in DOMAIN tail'[at[c]] /\ tail'[at[c]][Len(tail[at[c]]) + 1] = c
    BY <2>3
  <2>5. c \in Range(tail'[at[c]])
    BY <2>4 DEF Range
  <2> QED
    BY <2>1, <2>2, <2>5 DEF Accepts
<1>4. ASSUME NEW n \in Node, Apply(n) PROVE True
  <2>1. /\ applied[n] + 1 \in 1 .. Len(log) /\ log' = log /\ applied'[n] = applied[n] + 1
        /\ applied[n] \in Nat /\ Reply(n, log[applied[n] + 1])
    BY <1>4 DEF Apply, raftVars, TypeOK
  <2>2. log[applied[n] + 1] = c /\ at[c] = n /\ answer[c] = "waiting"
    BY <2>1 DEF Reply, Answered, callVars, TypeOK
  <2>3. c \in CacheCommands
    BY <2>2 DEF CallsInv
  <2>4. applied[n] + 1 \in 1 .. applied'[n] /\ log'[applied[n] + 1] = c
    BY <2>1, <2>2
  <2> QED
    BY <2>2, <2>3, <2>4
<1>5. ASSUME NEW n \in Node, Restart(n) PROVE FALSE
  BY <1>5 DEF Restart, RestartAt, TypeOK
<1>6. CASE UNCHANGED callVars
  BY <1>6 DEF callVars
<1> QED
  BY <1>1, <1>2, <1>3, <1>4, <1>5, <1>6 DEF Next, Commit, Elect, Depose, Replicate, Write, vars

(***************************************************************************)
(* executeCommand's answer means that the command is in the log and this   *)
(* node has applied it; that of addServer and removeServer means that the  *)
(* node asked, which believes to lead, has taken the change                *)
(* (raft_engine.cpp:349-385, 461-490).                                     *)
(***************************************************************************)
THEOREM OkMeansDone == Spec => OkIsTrue
<1>1. TypeOK /\ CallsInv /\ [Next]_vars => TypeOK' /\ CallsInv'
  BY NextType, CallsStep
<1>2. TypeOK /\ CallsInv /\ [Next]_vars => [OkStep]_vars
  BY OkHolds
<1> QED
  BY InitType, CallsInit, <1>1, <1>2, PTL DEF Spec, OkIsTrue, OkStep
-----------------------------------------------------------------------------
\* The log as RaftCluster promises it: what the nodes have applied of it.
Applied(n) == SubSeq(log, 1, applied[n])

OneLog == INSTANCE CommittedLog WITH
            Server <- Node, known <- [n \in Node |-> Applied(n)], broken <- restarts > 0

LEMMA AppliedPrefix ==
  ASSUME NEW S, NEW l \in Seq(S), NEW k \in Seq(S), NEW m \in Nat, NEW n \in Nat,
         m <= n, m <= Len(l), n <= Len(k), \A i \in 1 .. m : l[i] = k[i]
  PROVE  OneLog!IsPrefix(SubSeq(l, 1, m), SubSeq(k, 1, n))
<1>1. PICK a, b : a = SubSeq(l, 1, m) /\ b = SubSeq(k, 1, n)
  OBVIOUS
<1>2. /\ a = [i \in 1 .. m |-> l[i]] /\ Len(a) = m
      /\ b = [i \in 1 .. n |-> k[i]] /\ Len(b) = n
  BY <1>1
<1>3. SubSeq(a, 1, m) = [i \in 1 .. m |-> a[i]] /\ SubSeq(b, 1, m) = [i \in 1 .. m |-> b[i]]
  BY <1>2
<1>4. \A i \in 1 .. m : a[i] = b[i]
  BY <1>2
<1> QED
  BY <1>1, <1>2, <1>3, <1>4 DEF OneLog!IsPrefix

\* Unless a node restarts the log only grows, and so does what each has applied.
LEMMA LogGrows ==
  ASSUME TypeOK, KeepInv, [Next]_vars, restarts' = 0
  PROVE  Keeping /\ restarts = 0 /\ \A n \in Node : applied[n] <= applied'[n]
<1>1. Keeping /\ restarts = 0
  BY Steps
<1>2. \A n \in Node : applied[n] \in Nat
  BY DEF TypeOK
<1>3. ASSUME NEW m \in Node, Apply(m) PROVE \A n \in Node : applied[n] <= applied'[n]
  BY <1>2, <1>3 DEF Apply, TypeOK
<1>4. ASSUME NEW n \in Node, Restart(n) PROVE FALSE
  BY <1>1, <1>4 DEF Restart, RestartAt
<1>5. CASE UNCHANGED applied
  BY <1>1, <1>2, <1>5
<1>6. ASSUME NEW n \in Node, NEW c \in Commands, ExecuteCommand(n, c) \/ CheckLeader(n, c)
      PROVE  UNCHANGED applied
  BY <1>6 DEF ExecuteCommand, CheckLeader, nodeVars
<1>7. ASSUME NEW c \in Commands, CommandFails(c) \/ ChangeMembers(c) PROVE UNCHANGED applied
  BY <1>7 DEF CommandFails, ChangeMembers, nodeVars
<1>8. ASSUME NEW n \in Node, Elect(n) \/ Depose(n) \/ Replicate(n) PROVE UNCHANGED applied
  BY <1>8 DEF Elect, Depose, Replicate, nodeVars
<1>9. ASSUME NEW n \in Node, NEW id \in CacheIds, Write(n, id) PROVE UNCHANGED applied
  BY <1>9 DEF Write
<1>10. Commit \/ UNCHANGED vars => UNCHANGED applied
  BY DEF Commit, nodeVars, vars
<1> QED
  BY <1>1, <1>3, <1>4, <1>5, <1>6, <1>7, <1>8, <1>9, <1>10 DEF Next

LEMMA OneLogInit == Init => OneLog!Init
<1> SUFFICES ASSUME Init PROVE OneLog!Init
  OBVIOUS
<1>1. log = <<>> /\ restarts = 0 /\ \A n \in Node : applied[n] = 0
  BY DEF Init
<1>2. \A n \in Node : Applied(n) = <<>>
  BY <1>1 DEF Applied
<1> QED
  BY <1>1, <1>2 DEF OneLog!Init

LEMMA OneLogStep ==
  TypeOK /\ TypeOK' /\ KeepInv /\ KeepInv' /\ [Next]_vars => OneLog!Learn \/ OneLog!Break
<1> SUFFICES ASSUME TypeOK, TypeOK', KeepInv, KeepInv', [Next]_vars
             PROVE  OneLog!Learn \/ OneLog!Break
  OBVIOUS
<1>t. restarts \in Nat /\ restarts' \in Nat
  BY DEF TypeOK
<1>1. CASE restarts' > 0
  BY <1>1 DEF OneLog!Break
<1>2. CASE restarts' = 0
  <2>1. /\ restarts = 0
        /\ Len(log) <= Len(log') /\ \A i \in 1 .. Len(log) : log'[i] = log[i]
        /\ \A n \in Node : applied[n] <= applied'[n]
    BY <1>2, LogGrows DEF Keeping
  <2>l. ~lost /\ ~lost'
    BY <1>2, <2>1 DEF KeepInv
  <2>0. /\ log \in Seq(Commands) /\ log' \in Seq(Commands)
        /\ \A n \in Node : /\ applied[n] \in Nat /\ applied'[n] \in Nat
                           /\ applied[n] <= Len(log) /\ applied'[n] <= Len(log')
    <3>1. /\ Len(log) \in Nat /\ applied \in [Node -> Nat] /\ kept \in [Node -> Nat]
          /\ \A n \in Node : applied[n] <= kept[n] /\ kept[n] <= Len(log)
      BY <2>l DEF TypeOK
    <3>2. /\ Len(log') \in Nat /\ applied' \in [Node -> Nat] /\ kept' \in [Node -> Nat]
          /\ \A n \in Node : applied'[n] <= kept'[n] /\ kept'[n] <= Len(log')
      BY <2>l DEF TypeOK
    <3>3. \A n \in Node : applied[n] \in Nat /\ applied[n] <= Len(log)
      BY <3>1
    <3>4. \A n \in Node : applied'[n] \in Nat /\ applied'[n] <= Len(log')
      BY <3>2
    <3>5. log \in Seq(Commands) /\ log' \in Seq(Commands)
      BY DEF TypeOK
    <3> QED
      BY <3>3, <3>4, <3>5
  <2>2. \A n \in Node : OneLog!IsPrefix(Applied(n), Applied(n)')
    <3> TAKE n \in Node
    <3>1. PICK l \in Seq(Commands), k \in Seq(Commands), a \in Nat, b \in Nat :
            l = log /\ k = log' /\ a = applied[n] /\ b = applied'[n]
      BY <2>0
    <3>2. a <= b /\ a <= Len(l) /\ b <= Len(k)
      BY <2>0, <2>1, <3>1
    <3>3. \A i \in 1 .. a : l[i] = k[i]
      <4>1. Len(l) \in Nat
        OBVIOUS
      <4>2. \A i \in 1 .. a : i \in 1 .. Len(l)
        BY <3>2, <4>1
      <4> QED
        BY <2>1, <3>1, <4>2
    <3>4. OneLog!IsPrefix(SubSeq(l, 1, a), SubSeq(k, 1, b))
      BY <3>2, <3>3, AppliedPrefix
    <3> QED
      BY <3>1, <3>4, Zenon DEF Applied
  <2>3. ASSUME NEW m \in Node, NEW n \in Node, applied'[m] <= applied'[n]
        PROVE  OneLog!IsPrefix(Applied(m)', Applied(n)')
    <3>1. PICK k \in Seq(Commands), a \in Nat, b \in Nat :
            k = log' /\ a = applied'[m] /\ b = applied'[n]
      BY <2>0
    <3>2. a <= b /\ a <= Len(k) /\ b <= Len(k)
      <4>1. Len(k) \in Nat
        OBVIOUS
      <4> QED
        BY <2>0, <2>3, <3>1, <4>1
    <3>3. OneLog!IsPrefix(SubSeq(k, 1, a), SubSeq(k, 1, b))
      BY <3>2, AppliedPrefix
    <3> QED
      BY <3>1, <3>3, Zenon DEF Applied
  <2>4. \A m, n \in Node : \/ OneLog!IsPrefix(Applied(m)', Applied(n)')
                           \/ OneLog!IsPrefix(Applied(n)', Applied(m)')
    BY <2>0, <2>3
  <2> DEFINE known == [n \in Node |-> Applied(n)]
  <2>5. \A n \in Node : known[n] = Applied(n) /\ known'[n] = Applied(n)'
    OBVIOUS
  <2>6. known' = [n \in Node |-> Applied(n)]'
        /\ (restarts > 0)' = (restarts > 0) /\ ~(restarts > 0)
    BY <1>2, <2>1
  <2>7. OneLog!Agree(known')
    <3> HIDE DEF known
    <3> QED
      BY <2>4, <2>5 DEF OneLog!Agree
  <2>8. \A n \in Node : OneLog!IsPrefix(known[n], known'[n])
    <3> HIDE DEF known
    <3> QED
      BY <2>2, <2>5
  <2> QED
    BY <2>6, <2>7, <2>8, Zenon DEF OneLog!Learn
<1> QED
  BY <1>t, <1>1, <1>2

(***************************************************************************)
(* What the nodes apply is what CommittedLog promises and RaftCluster      *)
(* keeps (ClusterKeepsOneLog): one log, of which each has the beginning,   *)
(* until a node starts again and counts from 0                             *)
(* (kvcache_state_machine.cpp:246).                                        *)
(***************************************************************************)
THEOREM NodesApplyOneLog == Spec => OneLog!Spec
<1>1. TypeOK /\ TypeOK' /\ KeepInv /\ KeepInv' /\ [Next]_vars
         => [OneLog!Learn \/ OneLog!Break]_(OneLog!vars)
  BY OneLogStep
<1> QED
  BY <1>1, OneLogInit, Keeps, PTL DEF Spec, OneLog!Spec
=============================================================================
