--------------------------- MODULE LogStoreProofs ---------------------------
(***************************************************************************)
(* What the operations of the log store make of a log, for logs of any     *)
(* length and any entries.                                                 *)
(***************************************************************************)
EXTENDS LogStore, TLAPS

\* A log store of entries in E.
LogOf(E) == [entries : UNION {[I -> E] : I \in SUBSET Nat}, start : Nat, last : Nat]

\* E is a set of entries.
EntriesIn(E) == \A e \in E : e.term \in Nat

\* What it takes to be one, and well formed.
LEMMA MakesForm ==
  ASSUME NEW E, EntriesIn(E), NEW a \in Nat \ {0}, NEW b \in Nat, a <= b + 1,
         NEW f \in [{0} \cup a .. b -> E],
         NEW log, log = [entries |-> f, start |-> a, last |-> b]
  PROVE  log \in LogOf(E) /\ WellFormed(log)
<1>1. {0} \cup a .. b \in SUBSET Nat
  OBVIOUS
<1>2. f \in UNION {[I -> E] : I \in SUBSET Nat}
  BY <1>1
<1>3. log.entries = f /\ log.start = a /\ log.last = b
  OBVIOUS
<1> QED
  BY <1>2, <1>3 DEF LogOf, WellFormed, NextSlot, EntriesIn

\* The fields of a well-formed log.
LEMMA FormOf ==
  ASSUME NEW E, NEW log \in LogOf(E)
  PROVE  WellFormed(log) =>
           /\ log.start \in Nat \ {0} /\ log.last \in Nat /\ log.start <= log.last + 1
           /\ log.entries \in [{0} \cup log.start .. log.last -> E]
<1>1. PICK I \in SUBSET Nat : log.entries \in [I -> E]
  BY DEF LogOf
<1>2. log.start \in Nat /\ log.last \in Nat
  BY DEF LogOf
<1> QED
  BY <1>1, <1>2 DEF WellFormed, NextSlot

(***************************************************************************)
(* The log that every start of the program begins with is well formed      *)
(* (raft_state_manager.cpp:13-19).                                         *)
(***************************************************************************)
THEOREM NewLogForm ==
  ASSUME NEW E, EntriesIn(E), Dummy \in E
  PROVE  NewLog \in LogOf(E) /\ WellFormed(NewLog)
<1> DEFINE f == [i \in {0} |-> Dummy]
<1>1. {0} \cup 1 .. 0 = {0} /\ f \in [{0} -> E]
  OBVIOUS
<1>2. NewLog = [entries |-> f, start |-> 1, last |-> 0]
  BY DEF NewLog
<1> HIDE DEF f
<1> QED
  BY <1>1, <1>2, MakesForm

(***************************************************************************)
(* append keeps a log well formed and what is in it where it is            *)
(* (raft_state_manager.cpp:43-48).                                         *)
(***************************************************************************)
THEOREM AppendKeepsForm ==
  ASSUME NEW E, EntriesIn(E), NEW log \in LogOf(E), WellFormed(log), NEW e \in E
  PROVE  LET new == AppendEntry(log, e) IN
         /\ new \in LogOf(E) /\ WellFormed(new)
         /\ new.last = log.last + 1 /\ new.entries[new.last] = e
         /\ \A i \in DOMAIN log.entries : new.entries[i] = log.entries[i]
<1> DEFINE new == AppendEntry(log, e)
           D == {0} \cup log.start .. log.last
           f == Bound(log.entries, log.last + 1, e)
<1>1. /\ log.start \in Nat \ {0} /\ log.last \in Nat /\ log.start <= log.last + 1
      /\ log.entries \in [D -> E]
  BY FormOf
<1>2. /\ new = [entries |-> f, start |-> log.start, last |-> log.last + 1]
      /\ new.entries = f /\ new.start = log.start /\ new.last = log.last + 1
  BY DEF AppendEntry, NextSlot
<1>3. D \cup {log.last + 1} = {0} \cup log.start .. (log.last + 1) /\ log.last + 1 \notin D
  BY <1>1
<1>4. /\ f \in [D \cup {log.last + 1} -> E] /\ f[log.last + 1] = e
      /\ \A i \in D \ {log.last + 1} : f[i] = log.entries[i]
  BY <1>1 DEF Bound
<1>5. f \in [{0} \cup log.start .. (log.last + 1) -> E]
  BY <1>3, <1>4
<1> HIDE DEF f, new
<1>6. new \in LogOf(E) /\ WellFormed(new)
  <2>1. log.last + 1 \in Nat /\ log.start <= (log.last + 1) + 1
    BY <1>1
  <2> QED
    BY <1>1, <1>2, <1>5, <2>1, MakesForm
<1> QED
  BY <1>1, <1>2, <1>3, <1>4, <1>6 DEF new

(***************************************************************************)
(* write_at keeps a log well formed when it leaves no gap, but it does not *)
(* cut the log off: every other entry stays, those after it too            *)
(* (raft_state_manager.cpp:50-56).                                         *)
(***************************************************************************)
THEOREM WriteAtKeepsTheRest ==
  ASSUME NEW E, EntriesIn(E), NEW log \in LogOf(E), WellFormed(log), NEW e \in E,
         NEW index \in Nat, log.start <= index, index <= NextSlot(log)
  PROVE  LET new == WriteAt(log, index, e) IN
         /\ new \in LogOf(E) /\ WellFormed(new)
         /\ new.last >= log.last /\ new.entries[index] = e
         /\ \A i \in DOMAIN log.entries \ {index} : new.entries[i] = log.entries[i]
<1> DEFINE new == WriteAt(log, index, e)
           D == {0} \cup log.start .. log.last
           last == IF index > log.last THEN index ELSE log.last
           f == Bound(log.entries, index, e)
<1>1. /\ log.start \in Nat \ {0} /\ log.last \in Nat /\ log.start <= log.last + 1
      /\ log.entries \in [D -> E]
  BY FormOf
<1>2. /\ new = [entries |-> f, start |-> log.start, last |-> last]
      /\ new.entries = f /\ new.start = log.start /\ new.last = last
  <2>1. ~ (index < log.start)
    BY <1>1
  <2> QED
    BY <2>1 DEF WriteAt
<1>3. D \cup {index} = {0} \cup log.start .. last
  BY <1>1 DEF NextSlot
<1>4. last \in Nat /\ last >= log.last /\ log.start <= last + 1
  BY <1>1
<1>5. /\ f \in [D \cup {index} -> E] /\ f[index] = e
      /\ \A i \in D \ {index} : f[i] = log.entries[i]
  BY <1>1 DEF Bound
<1>6. f \in [{0} \cup log.start .. last -> E]
  BY <1>3, <1>5
<1> HIDE DEF f, new, last
<1>7. new \in LogOf(E) /\ WellFormed(new)
  BY <1>1, <1>2, <1>4, <1>6, MakesForm
<1> QED
  BY <1>1, <1>2, <1>4, <1>5, <1>7 DEF new

(***************************************************************************)
(* compact keeps a log well formed as long as it is not asked to go past   *)
(* the last entry, which it does not check                                 *)
(* (raft_state_manager.cpp:104-114).                                       *)
(***************************************************************************)
THEOREM CompactKeepsForm ==
  ASSUME NEW E, EntriesIn(E), NEW log \in LogOf(E), WellFormed(log),
         NEW index \in Nat, log.start <= index + 1, index <= log.last
  PROVE  LET new == Compact(log, index) IN
         /\ new \in LogOf(E) /\ WellFormed(new)
         /\ \A i \in index + 1 .. log.last : new.entries[i] = log.entries[i]
<1> DEFINE new == Compact(log, index)
           D == {0} \cup log.start .. log.last
           R == {0} \cup (index + 1) .. log.last
           f == [i \in DOMAIN log.entries \ (log.start .. index) |-> log.entries[i]]
<1>1. /\ log.start \in Nat \ {0} /\ log.last \in Nat /\ log.start <= log.last + 1
      /\ log.entries \in [D -> E]
  BY FormOf
<1>2. /\ new = [entries |-> f, start |-> index + 1, last |-> log.last]
      /\ new.entries = f /\ new.start = index + 1 /\ new.last = log.last
  BY DEF Compact
<1>3. D \ (log.start .. index) = R /\ R \subseteq D
  BY <1>1
<1>4. f \in [R -> E] /\ \A i \in R : f[i] = log.entries[i]
  BY <1>1, <1>3
<1> HIDE DEF f, new
<1>5. new \in LogOf(E) /\ WellFormed(new)
  <2>1. index + 1 \in Nat \ {0} /\ index + 1 <= log.last + 1
    BY <1>1
  <2> QED
    BY <1>1, <1>2, <1>4, <2>1, MakesForm
<1> QED
  BY <1>2, <1>4, <1>5 DEF new
=============================================================================
