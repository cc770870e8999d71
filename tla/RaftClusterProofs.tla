-------------------------- MODULE RaftClusterProofs --------------------------
(***************************************************************************)
(* Proofs that the servers of RaftCluster commit the same commands, for    *)
(* any number of servers, terms and entries, as long as no log is stale.   *)
(***************************************************************************)
EXTENDS RaftElectionsProofs

(***************************************************************************)
(* Induction over the naturals for a set, from a count: if n were missing, *)
(* adding one would map what P has up to n into what it has from 1 to n.   *)
(***************************************************************************)
LEMMA InductionInSet ==
  ASSUME NEW P, 0 \in P, \A k \in Nat : k \in P => k + 1 \in P
  PROVE  Nat \subseteq P
<1> SUFFICES ASSUME NEW n \in Nat, n \notin P PROVE FALSE
  OBVIOUS
<1> DEFINE Q == (0 .. n) \cap P
           f == [k \in Q |-> k + 1]
<1>1. /\ IsFiniteSet(Q \ {0}) /\ Cardinality(Q) \in Nat
      /\ Cardinality(Q \ {0}) = Cardinality(Q) - 1
  <2>1. IsFiniteSet(0 .. n)
    BY FS_Interval
  <2>2. IsFiniteSet(Q) /\ 0 \in Q
    BY <2>1, FS_Subset
  <2> QED
    BY <2>2, FS_RemoveElement, FS_CardinalityType
<1>2. f \in Injection(Q, Q \ {0})
  <2>1. f \in [Q -> Q \ {0}] /\ \A a, b \in Q : f[a] = f[b] => a = b
    OBVIOUS
  <2> QED
    BY <2>1 DEF Injection, IsInjective
<1>3. Cardinality(Q) <= Cardinality(Q \ {0})
  <2> HIDE DEF f, Q
  <2> QED
    BY <1>1, <1>2, FS_Injection
<1> QED
  BY <1>1, <1>3

LEMMA LargestIs ==
  ASSUME NEW n \in Nat, NEW I \in SUBSET (0 .. n), I # {}
  PROVE  Largest(I) \in I /\ \A i \in I : i <= Largest(I)
<1> DEFINE HasLargest(J) == \E i \in J : \A j \in J : j <= i
           P == {m \in Nat : \A J \in SUBSET (0 .. m) : J # {} => HasLargest(J)}
<1>1. 0 \in P
  <2> SUFFICES ASSUME NEW J \in SUBSET (0 .. 0), J # {} PROVE HasLargest(J)
    OBVIOUS
  <2>1. PICK i \in J : TRUE
    OBVIOUS
  <2>2. \A j \in J : j \in 0 .. 0
    OBVIOUS
  <2>3. \A j \in J : j = 0
    BY <2>2
  <2> QED
    BY <2>1, <2>3
<1>2. ASSUME NEW m \in Nat, m \in P PROVE m + 1 \in P
  <2> SUFFICES ASSUME NEW J \in SUBSET (0 .. m + 1), J # {} PROVE HasLargest(J)
    OBVIOUS
  <2>1. CASE m + 1 \in J
    BY <2>1
  <2>2. CASE m + 1 \notin J
    <3>1. J \in SUBSET (0 .. m)
      BY <2>2
    <3> QED
      BY <1>2, <3>1
  <2> QED
    BY <2>1, <2>2
<1>3. n \in P
  <2> HIDE DEF P
  <2> QED
    BY <1>1, <1>2, InductionInSet
<1>4. HasLargest(I)
  BY <1>3
<1> QED
  BY <1>4 DEF Largest

LEMMA LeastIs ==
  ASSUME NEW I \in SUBSET Nat, I # {}
  PROVE  Least(I) \in I /\ \A i \in I : Least(I) <= i
<1> DEFINE HasLeast(J) == \E i \in J : \A j \in J : i <= j
           P == {m \in Nat : \A J \in SUBSET Nat : (\E j \in J : j <= m) => HasLeast(J)}
<1>1. 0 \in P
  OBVIOUS
<1>2. ASSUME NEW m \in Nat, m \in P PROVE m + 1 \in P
  <2> SUFFICES ASSUME NEW J \in SUBSET Nat, NEW k \in J, k <= m + 1 PROVE HasLeast(J)
    OBVIOUS
  <2>1. CASE \E j \in J : j <= m
    BY <1>2, <2>1
  <2>2. CASE ~ \E j \in J : j <= m
    BY <2>2
  <2> QED
    BY <2>1, <2>2
<1>3. Nat \subseteq P
  <2> HIDE DEF P
  <2> QED
    BY <1>1, <1>2, InductionInSet
<1>4. PICK m \in I : m \in Nat
  OBVIOUS
<1>5. m \in P /\ \E j \in I : j <= m
  BY <1>3, <1>4
<1>6. HasLeast(I)
  BY <1>5
<1> QED
  BY <1>6 DEF Least
-----------------------------------------------------------------------------
\* Logs as the servers have them: nothing is compacted.
Whole(a) == Store!WellFormed(a) /\ a.start = 1

LEMMA WholeIs ==
  ASSUME NEW a, Whole(a)
  PROVE  /\ a.last \in Nat /\ a.start = 1
         /\ DOMAIN a.entries = 0 .. a.last
         /\ \A i \in 0 .. a.last : a.entries[i].term \in Nat
         /\ \A i : Store!Stored(a, i) <=> i \in 0 .. a.last
         /\ \A i \in 0 .. a.last : Store!TermAt(a, i) = a.entries[i].term
         /\ Store!NextSlot(a) = a.last + 1
         /\ Store!LastTerm(a) = a.entries[a.last].term
<1>1. /\ a.last \in Nat /\ a.start = 1
      /\ DOMAIN a.entries = {0} \cup 1 .. a.last
      /\ \A i \in DOMAIN a.entries : a.entries[i].term \in Nat
  BY DEF Whole, Store!WellFormed
<1>2. DOMAIN a.entries = 0 .. a.last
  BY <1>1
<1> QED
  BY <1>1, <1>2 DEF Store!Stored, Store!TermAt, Store!NextSlot, Store!LastTerm

LEMMA WholeMade ==
  ASSUME NEW a, NEW n \in Nat, NEW f,
         a = [entries |-> f, start |-> 1, last |-> n],
         DOMAIN f = 0 .. n, \A i \in 0 .. n : f[i].term \in Nat
  PROVE  Whole(a)
BY DEF Whole, Store!WellFormed, Store!NextSlot

LEMMA AppendIs ==
  ASSUME NEW a, Whole(a), NEW e, e.term \in Nat
  PROVE  LET b == Store!AppendEntry(a, e) IN
         /\ Whole(b) /\ b.last = a.last + 1
         /\ \A i \in 0 .. a.last : b.entries[i] = a.entries[i]
         /\ b.entries[a.last + 1] = e
<1> DEFINE f == [i \in DOMAIN a.entries \cup {a.last + 1} |->
                   IF i = a.last + 1 THEN e ELSE a.entries[i]]
           b == Store!AppendEntry(a, e)
<1>1. b = [entries |-> f, start |-> 1, last |-> a.last + 1] /\ a.last + 1 \in Nat
  BY WholeIs DEF Store!AppendEntry, Store!Bound
<1>2. DOMAIN f = 0 .. a.last + 1
  BY WholeIs
<1>3. \A i \in 0 .. a.last + 1 : f[i] = IF i = a.last + 1 THEN e ELSE a.entries[i]
  BY <1>2
<1>4. \A i \in 0 .. a.last + 1 : f[i].term \in Nat
  BY <1>3, WholeIs
<1>5. Whole(b)
  BY <1>1, <1>2, <1>4, WholeMade
<1>6. b.entries = f /\ b.last = a.last + 1
  BY <1>1
<1> QED
  BY <1>3, <1>5, <1>6, WholeIs

\* An overwrite at or behind the end.
LEMMA WriteIs ==
  ASSUME NEW a, Whole(a), NEW e, e.term \in Nat, NEW k \in 1 .. a.last
  PROVE  LET b == Store!WriteAt(a, k, e) IN
         /\ Whole(b) /\ b.last = a.last
         /\ \A i \in 0 .. a.last : b.entries[i] = IF i = k THEN e ELSE a.entries[i]
<1> DEFINE f == [i \in DOMAIN a.entries \cup {k} |-> IF i = k THEN e ELSE a.entries[i]]
           b == Store!WriteAt(a, k, e)
<1>1. b = [entries |-> f, start |-> 1, last |-> a.last] /\ a.last \in Nat
  BY WholeIs DEF Store!WriteAt, Store!Bound
<1>2. DOMAIN f = 0 .. a.last
  BY WholeIs
<1>3. \A i \in 0 .. a.last : f[i] = IF i = k THEN e ELSE a.entries[i]
  BY <1>2
<1>4. \A i \in 0 .. a.last : f[i].term \in Nat
  BY <1>3, WholeIs
<1>5. Whole(b)
  BY <1>1, <1>2, <1>4, WholeMade
<1>6. b.entries = f /\ b.last = a.last
  BY <1>1
<1> QED
  BY <1>3, <1>5, <1>6
-----------------------------------------------------------------------------
LEMMA SameCount == \A S : Store!Cardinality(S) = Cardinality(S)
BY DEF Store!Cardinality, Cardinality, Store!IsFiniteSet, IsFiniteSet

LEMMA NthIs ==
  ASSUME NEW a \in Nat, NEW b \in Nat, NEW k \in 1 .. b - a
  PROVE  Store!Nth(a .. b - 1, k) = a + k - 1
<1> DEFINE I == a .. b - 1
           upto(i) == {j \in I : j <= i}
<1>1. ASSUME NEW i \in I PROVE Cardinality(upto(i)) = i - a + 1
  <2>1. upto(i) = a .. i
    OBVIOUS
  <2>2. i \in Int /\ a \in Int /\ ~(a > i)
    OBVIOUS
  <2>3. Cardinality(a .. i) = i - a + 1
    BY <2>2, FS_Interval
  <2> QED
    BY <2>1, <2>3
<1>2. a + k - 1 \in I /\ Cardinality(upto(a + k - 1)) = k
  <2>1. a + k - 1 \in I
    OBVIOUS
  <2> QED
    BY <1>1, <2>1
<1>3. \A i \in I : Cardinality(upto(i)) = k => i = a + k - 1
  BY <1>1
<1>4. Store!Nth(I, k) = CHOOSE i \in I : Cardinality(upto(i)) = k
  BY SameCount DEF Store!Nth
<1>5. PICK i \in I : i = a + k - 1 /\ Cardinality(upto(i)) = k
  BY <1>2
<1> HIDE DEF I, upto
<1>6. Store!Nth(I, k) = a + k - 1
  BY <1>3, <1>4, <1>5
<1> QED
  BY <1>6 DEF I

\* What log_entries answers to a leader: everything from there on.
LEMMA LogEntriesIs ==
  ASSUME NEW a, Whole(a), NEW from \in 1 .. a.last + 1
  PROVE  Store!LogEntries(a, from, Store!NextSlot(a))
           = [k \in 1 .. a.last + 1 - from |-> a.entries[from + k - 1]]
<1> DEFINE b == a.last + 1
           present == {i \in from .. b - 1 : Store!Stored(a, i)}
<1>1. a.last \in Nat /\ a.start = 1 /\ Store!NextSlot(a) = b /\ from \in Nat /\ b \in Nat
  BY WholeIs
<1>2. present = from .. b - 1
  BY WholeIs
<1>3. Store!LogEntries(a, from, b) = [k \in 1 .. Cardinality(present) |-> a.entries[Store!Nth(present, k)]]
  <2>1. ~(b < Store!NextSlot(a)) /\ ~(from > b) /\ ~(from < a.start)
    BY <1>1
  <2> QED
    BY <1>1, <2>1, SameCount DEF Store!LogEntries
<1>4. Cardinality(from .. b - 1) = b - from
  <2>1. b - 1 \in Int /\ from \in Int
    BY <1>1
  <2>2. Cardinality(from .. b - 1) = IF from > b - 1 THEN 0 ELSE b - 1 - from + 1
    BY <2>1, FS_Interval
  <2> QED
    BY <1>1, <2>2
<1>5. \A k \in 1 .. b - from : Store!Nth(from .. b - 1, k) = from + k - 1
  BY <1>1, NthIs
<1>6. Store!LogEntries(a, from, b) = [k \in 1 .. b - from |-> a.entries[Store!Nth(from .. b - 1, k)]]
  BY <1>2, <1>3, <1>4
<1>7. \A k \in 1 .. b - from :
        a.entries[Store!Nth(from .. b - 1, k)] = a.entries[from + k - 1]
  BY <1>5
<1>8. Store!LogEntries(a, from, b) = [k \in 1 .. b - from |-> a.entries[from + k - 1]]
  BY <1>6, <1>7
<1>9. Store!LogEntries(a, from, Store!NextSlot(a)) = Store!LogEntries(a, from, b)
  BY <1>1
<1>10. a.last + 1 - from = b - from
  BY <1>1
<1> HIDE DEF present, b
<1> QED
  BY <1>8, <1>9, <1>10

\* The loop of a follower, step by step.
LoopStep(mine, prev, entries, b, k) ==
  IF prev + k < Store!NextSlot(mine) THEN Store!WriteAt(b, prev + k, entries[k])
  ELSE Store!AppendEntry(b, entries[k])

Loop(mine, prev, entries, d, n, f) ==
  f = [k \in d - 1 .. n |-> IF k < d THEN mine ELSE LoopStep(mine, prev, entries, f[k - 1], k)]

LEMMA LoopExists ==
  ASSUME NEW mine, NEW prev, NEW entries, NEW d \in Nat \ {0}, NEW n \in Nat, d - 1 <= n
  PROVE  \E f : Loop(mine, prev, entries, d, n, f)
<1> DEFINE P == {m \in Nat : \E f : Loop(mine, prev, entries, d, d - 1 + m, f)}
<1>1. 0 \in P
  <2>1. Loop(mine, prev, entries, d, d - 1, [k \in d - 1 .. d - 1 |-> mine])
    BY DEF Loop
  <2> QED
    BY <2>1
<1>2. ASSUME NEW m \in Nat, m \in P PROVE m + 1 \in P
  <2>1. PICK f : Loop(mine, prev, entries, d, d - 1 + m, f)
    BY <1>2
  <2> DEFINE c == d + m
             g == [k \in d - 1 .. c |-> IF k < c THEN f[k] ELSE LoopStep(mine, prev, entries, f[c - 1], c)]
  <2>2. \A k \in d - 1 .. c : k # c =>
          k \in d - 1 .. d - 1 + m /\ g[k] = f[k] /\ (k >= d => k - 1 \in d - 1 .. c /\ g[k - 1] = f[k - 1])
    OBVIOUS
  <2>3. \A k \in d - 1 .. d - 1 + m :
          f[k] = IF k < d THEN mine ELSE LoopStep(mine, prev, entries, f[k - 1], k)
    BY <2>1 DEF Loop
  <2>4. g[c] = LoopStep(mine, prev, entries, g[c - 1], c) /\ ~(c < d)
    OBVIOUS
  <2>5. ASSUME NEW k \in d - 1 .. c
        PROVE  g[k] = IF k < d THEN mine ELSE LoopStep(mine, prev, entries, g[k - 1], k)
    <3>1. CASE k = c
      BY <2>4, <3>1
    <3>2. CASE k # c /\ k < d
      BY <2>2, <2>3, <3>2
    <3>3. CASE k # c /\ ~(k < d)
      <4> HIDE DEF g
      <4> QED
        BY <2>2, <2>3, <3>3
    <3> QED
      BY <3>1, <3>2, <3>3
  <2>6. Loop(mine, prev, entries, d, c, g)
    <3> DEFINE h == [k \in d - 1 .. c |->
                       IF k < d THEN mine ELSE LoopStep(mine, prev, entries, g[k - 1], k)]
    <3>1. g = h
      BY <2>5
    <3> QED
      BY <3>1 DEF Loop
  <2>7. c = d - 1 + (m + 1)
    OBVIOUS
  <2> HIDE DEF g, c
  <2> QED
    BY <2>6, <2>7
<1>3. n - (d - 1) \in P
  <2> HIDE DEF P
  <2> QED
    BY <1>1, <1>2, InductionInSet
<1>4. d - 1 + (n - (d - 1)) = n
  OBVIOUS
<1> QED
  BY <1>3, <1>4

(***************************************************************************)
(* What a follower that has the entries up to prev makes of the entries    *)
(* after them: it has those, and its own before the first that differs and *)
(* after the last.                                                         *)
(***************************************************************************)
LEMMA StoreEntriesIs ==
  ASSUME NEW mine, Whole(mine), NEW prev \in 0 .. mine.last, NEW n \in Nat, NEW entries,
         DOMAIN entries = 1 .. n, Len(entries) = n, \A k \in 1 .. n : entries[k].term \in Nat
  PROVE  LET b == StoreEntries(mine, prev, entries) IN
         /\ Whole(b)
         /\ b.last = IF prev + n > mine.last THEN prev + n ELSE mine.last
         /\ \A i \in 0 .. mine.last : i <= prev \/ i > prev + n => b.entries[i] = mine.entries[i]
         /\ \A k \in 1 .. n :
              \/ b.entries[prev + k] = entries[k]
              \/ /\ prev + k <= mine.last /\ b.entries[prev + k] = mine.entries[prev + k]
                 /\ mine.entries[prev + k].term = entries[k].term
<1> DEFINE differs == {k \in DOMAIN entries :
                         \/ prev + k >= Store!NextSlot(mine)
                         \/ Store!TermAt(mine, prev + k) # entries[k].term}
           d == Least(differs)
           after == CHOOSE f : Loop(mine, prev, entries, d, n, f)
           b == StoreEntries(mine, prev, entries)
<1>1. b = IF differs = {} THEN mine ELSE after[n]
  BY DEF StoreEntries, Loop, LoopStep
<1> HIDE DEF b
<1>2. mine.last \in Nat /\ Store!NextSlot(mine) = mine.last + 1 /\ prev \in Nat
  BY WholeIs
<1>3. \A k \in 1 .. n : k \notin differs =>
        prev + k <= mine.last /\ mine.entries[prev + k].term = entries[k].term
  <2> SUFFICES ASSUME NEW k \in 1 .. n, k \notin differs
               PROVE  prev + k <= mine.last /\ mine.entries[prev + k].term = entries[k].term
    OBVIOUS
  <2>1. prev + k <= mine.last /\ Store!TermAt(mine, prev + k) = entries[k].term
    BY <1>2
  <2>2. prev + k \in 0 .. mine.last
    BY <1>2, <2>1
  <2> QED
    BY <2>1, <2>2, WholeIs
<1>4. CASE differs = {}
  <2>1. prev + n <= mine.last
    <3>1. CASE n = 0
      BY <1>2, <3>1
    <3>2. CASE n # 0
      BY <1>3, <1>4, <3>2
    <3> QED
      BY <3>1, <3>2
  <2> QED
    BY <1>1, <1>2, <1>3, <1>4, <2>1 DEF b
<1>5. CASE differs # {}
  <2>1. d \in 1 .. n /\ \A k \in 1 .. n : k < d => k \notin differs
    <3>1. differs \in SUBSET Nat /\ differs \subseteq 1 .. n
      OBVIOUS
    <3> HIDE DEF differs
    <3>2. d \in differs /\ \A k \in differs : d <= k
      BY <1>5, <3>1, LeastIs
    <3> HIDE DEF d
    <3>3. d \in 1 .. n
      BY <3>1, <3>2
    <3> QED
      BY <3>2, <3>3
  <2>2. \A k \in 1 .. n : k < d =>
          prev + k <= mine.last /\ mine.entries[prev + k].term = entries[k].term
    BY <1>3, <2>1
  <2> HIDE DEF differs, d
  <2>3. Loop(mine, prev, entries, d, n, after)
    <3>0. d \in Nat \ {0} /\ d - 1 <= n
      BY <2>1
    <3>1. \E f : Loop(mine, prev, entries, d, n, f)
      BY <3>0, LoopExists
    <3> QED
      BY <3>1
  <2> HIDE DEF after
  <2>4. after[d - 1] = mine
    BY <2>1, <2>3 DEF Loop
  <2>5. \A k \in d .. n : after[k] = LoopStep(mine, prev, entries, after[k - 1], k)
    BY <2>1, <2>3 DEF Loop
  <2>6. prev + d - 1 <= mine.last
    <3>1. CASE d = 1
      BY <1>2, <3>1
    <3>2. CASE d # 1
      <4>1. d - 1 \in 1 .. n /\ d - 1 < d
        BY <2>1, <3>2
      <4> QED
        BY <1>2, <2>1, <2>2, <4>1
    <3> QED
      BY <3>1, <3>2
  <2> DEFINE upto(k) == IF prev + k > mine.last THEN prev + k ELSE mine.last
             Good(k) ==
               /\ Whole(after[k])
               /\ after[k].last = upto(k)
               /\ \A i \in 0 .. upto(k) : after[k].entries[i] =
                    IF prev + d <= i /\ i <= prev + k THEN entries[i - prev] ELSE mine.entries[i]
             P == {m \in Nat : d - 1 + m <= n => Good(d - 1 + m)}
  <2>7. Good(d - 1)
    BY <1>2, <2>1, <2>4, <2>6
  <2>8. ASSUME NEW k \in d .. n, Good(k - 1) PROVE Good(k)
    <3>0. k \in 1 .. n /\ k - 1 \in Nat /\ entries[k].term \in Nat /\ prev + k \in Nat
      BY <2>1, <1>2
    <3>1. CASE prev + k <= mine.last
      <4>1. after[k] = Store!WriteAt(after[k - 1], prev + k, entries[k])
        <5>1. after[k] = LoopStep(mine, prev, entries, after[k - 1], k)
          BY <2>5
        <5>2. prev + k < Store!NextSlot(mine)
          BY <1>2, <3>0, <3>1
        <5> QED
          BY <5>1, <5>2 DEF LoopStep
      <4>2. after[k - 1].last = mine.last /\ upto(k) = mine.last /\ upto(k - 1) = mine.last
        BY <1>2, <2>8, <3>0, <3>1
      <4>3. prev + k \in 1 .. after[k - 1].last
        BY <1>2, <3>0, <3>1, <4>2
      <4>4. /\ Whole(after[k]) /\ after[k].last = mine.last
            /\ \A i \in 0 .. mine.last : after[k].entries[i] =
                  IF i = prev + k THEN entries[k] ELSE after[k - 1].entries[i]
        BY <2>8, <3>0, <4>1, <4>2, <4>3, WriteIs
      <4> HIDE DEF upto
      <4>5. ASSUME NEW i \in 0 .. mine.last
            PROVE  after[k].entries[i] =
                    IF prev + d <= i /\ i <= prev + k THEN entries[i - prev] ELSE mine.entries[i]
        <5>1. CASE i = prev + k
          <6>1. prev + d <= i /\ i <= prev + k /\ i - prev = k
            BY <1>2, <2>1, <3>0, <5>1
          <6> QED
            BY <4>4, <5>1, <6>1
        <5>2. CASE i # prev + k
          <6>1. i <= prev + k <=> i <= prev + (k - 1)
            BY <1>2, <3>0, <5>2
          <6> QED
            BY <2>8, <4>2, <4>4, <5>2, <6>1
        <5> QED
          BY <5>1, <5>2
      <4> QED
        BY <4>2, <4>4, <4>5
    <3>2. CASE prev + k > mine.last
      <4>1. after[k] = Store!AppendEntry(after[k - 1], entries[k])
        BY <1>2, <2>5, <3>0, <3>2 DEF LoopStep
      <4>2. after[k - 1].last = prev + k - 1 /\ upto(k) = prev + k /\ upto(k - 1) = prev + k - 1
        BY <1>2, <2>6, <2>8, <3>0, <3>2
      <4>3. Whole(after[k - 1]) /\ after[k - 1].last + 1 = prev + k
        BY <1>2, <2>8, <3>0, <4>2
      <4>4. /\ Whole(after[k]) /\ after[k].last = prev + k
            /\ \A i \in 0 .. prev + k - 1 : after[k].entries[i] = after[k - 1].entries[i]
            /\ after[k].entries[prev + k] = entries[k]
        <5>1. /\ Whole(after[k]) /\ after[k].last = after[k - 1].last + 1
              /\ \A i \in 0 .. after[k - 1].last : after[k].entries[i] = after[k - 1].entries[i]
              /\ after[k].entries[after[k - 1].last + 1] = entries[k]
          BY <3>0, <4>1, <4>3, AppendIs
        <5> QED
          BY <4>2, <4>3, <5>1
      <4> HIDE DEF upto
      <4>5. ASSUME NEW i \in 0 .. prev + k
            PROVE  after[k].entries[i] =
                    IF prev + d <= i /\ i <= prev + k THEN entries[i - prev] ELSE mine.entries[i]
        <5>1. CASE i = prev + k
          <6>1. prev + d <= i /\ i <= prev + k /\ i - prev = k
            BY <1>2, <2>1, <3>0, <5>1
          <6> QED
            BY <4>4, <5>1, <6>1
        <5>2. CASE i # prev + k
          <6>1. (i <= prev + k <=> i <= prev + (k - 1)) /\ i \in 0 .. prev + k - 1
            BY <1>2, <3>0, <5>2
          <6> QED
            BY <2>8, <4>2, <4>4, <5>2, <6>1
        <5> QED
          BY <5>1, <5>2
      <4> QED
        BY <4>2, <4>4, <4>5
    <3> QED
      BY <1>2, <3>0, <3>1, <3>2
  <2>9. Good(n)
    <3> HIDE DEF Good
    <3>1. 0 \in P
      BY <2>1, <2>7
    <3>2. ASSUME NEW m \in Nat, m \in P PROVE m + 1 \in P
      <4>1. CASE d - 1 + (m + 1) <= n
        <5>1. Good(d - 1 + m)
          BY <2>1, <3>2, <4>1
        <5>2. PICK k \in d .. n : k = d - 1 + (m + 1)
          BY <2>1, <4>1
        <5>3. k - 1 = d - 1 + m
          BY <2>1, <5>2
        <5>4. Good(k)
          BY <2>8, <5>1, <5>3
        <5> QED
          BY <5>2, <5>4
      <4>2. CASE ~(d - 1 + (m + 1) <= n)
        BY <4>2
      <4> QED
        BY <4>1, <4>2
    <3>3. n - (d - 1) \in P
      <4>1. n - (d - 1) \in Nat
        BY <2>1
      <4> HIDE DEF P
      <4>2. Nat \subseteq P
        BY <3>1, <3>2, InductionInSet
      <4> QED
        BY <4>1, <4>2
    <3>4. d - 1 + (n - (d - 1)) = n
      BY <2>1
    <3> QED
      BY <3>3, <3>4
  <2>10. b = after[n]
    BY <1>1, <1>5
  <2>11. ASSUME NEW k \in 1 .. n
         PROVE \/ b.entries[prev + k] = entries[k]
               \/ /\ prev + k <= mine.last /\ b.entries[prev + k] = mine.entries[prev + k]
                  /\ mine.entries[prev + k].term = entries[k].term
    <3>1. prev + k \in 0 .. upto(n) /\ prev + k <= prev + n /\ prev + k - prev = k
      BY <1>2
    <3>2. b.entries[prev + k] = IF prev + d <= prev + k THEN entries[k] ELSE mine.entries[prev + k]
      BY <2>9, <2>10, <3>1
    <3> QED
      BY <1>2, <2>1, <2>2, <3>2
  <2>12. \A i \in 0 .. mine.last : i <= prev \/ i > prev + n => b.entries[i] = mine.entries[i]
    BY <1>2, <2>1, <2>9, <2>10
  <2> QED
    BY <2>9, <2>10, <2>11, <2>12 DEF b
<1> QED
  BY <1>4, <1>5

\* The last index at which two logs have an entry of one term.
LEMMA AgreementIs ==
  ASSUME NEW a, Whole(a), NEW b, Whole(b), a.entries[0].term = b.entries[0].term
  PROVE  LET p == Agreement(a, b) IN
         /\ p \in 0 .. a.last /\ p <= b.last
         /\ a.entries[p].term = b.entries[p].term
         /\ \A i \in 0 .. a.last : i > p /\ i <= b.last => a.entries[i].term # b.entries[i].term
<1> DEFINE I == {i \in 0 .. a.last : i <= b.last /\ Store!TermAt(a, i) = Store!TermAt(b, i)}
<1>1. a.last \in Nat /\ b.last \in Nat
  BY WholeIs
<1>2. 0 \in I
  <2>1. 0 \in 0 .. a.last /\ 0 \in 0 .. b.last
    BY <1>1
  <2> QED
    BY <1>1, <2>1, WholeIs
<1>3. I \in SUBSET (0 .. a.last)
  OBVIOUS
<1>4. Agreement(a, b) = Largest(I)
  BY DEF Agreement
<1>5. Largest(I) \in I /\ \A i \in I : i <= Largest(I)
  <2> HIDE DEF I
  <2> QED
    BY <1>1, <1>2, <1>3, LargestIs
<1>6. ASSUME NEW i \in 0 .. a.last, i > Largest(I), i <= b.last
      PROVE  a.entries[i].term # b.entries[i].term
  <2>1. i \notin I
    BY <1>1, <1>3, <1>5, <1>6
  <2>2. i \in 0 .. b.last
    BY <1>1, <1>6
  <2> QED
    BY <1>6, <2>1, <2>2, WholeIs
<1>7. a.entries[Largest(I)].term = b.entries[Largest(I)].term
  <2>1. Largest(I) \in 0 .. b.last /\ Store!TermAt(a, Largest(I)) = Store!TermAt(b, Largest(I))
    BY <1>1, <1>5
  <2> QED
    BY <1>5, <2>1, WholeIs
<1> QED
  BY <1>1, <1>4, <1>5, <1>6, <1>7

(***************************************************************************)
(* What a follower with log b has stored of a leader's log a: the entries  *)
(* of a after the last agreement, its own before it - and, if its log is   *)
(* longer, its own behind the leader's last.                               *)
(***************************************************************************)
Stored(a, b) ==
  LET p == Agreement(a, b) IN
  StoreEntries(b, p, Store!LogEntries(a, p + 1, Store!NextSlot(a)))

LEMMA StoredIs ==
  ASSUME NEW a, Whole(a), NEW b, Whole(b), a.entries[0].term = b.entries[0].term
  PROVE  LET p == Agreement(a, b)
             c == Stored(a, b)
         IN  /\ Whole(c)
             /\ c.last = IF a.last > b.last THEN a.last ELSE b.last
             /\ \A i \in 0 .. b.last : i <= p \/ i > a.last => c.entries[i] = b.entries[i]
             /\ \A i \in 0 .. a.last : i > p => c.entries[i] = a.entries[i]
<1> DEFINE p == Agreement(a, b)
           c == Stored(a, b)
           n == a.last - p
           entries == [k \in 1 .. n |-> a.entries[p + k]]
<1>1. /\ a.last \in Nat /\ b.last \in Nat
      /\ p \in 0 .. a.last /\ p <= b.last
      /\ \A i \in 0 .. a.last : i > p /\ i <= b.last => a.entries[i].term # b.entries[i].term
  BY AgreementIs, WholeIs
<1> HIDE DEF p
<1>2. n \in Nat /\ p + n = a.last /\ p \in 0 .. b.last /\ p + 1 \in 1 .. a.last + 1
  BY <1>1
<1>3. Store!LogEntries(a, p + 1, Store!NextSlot(a)) = entries
  <2>1. Store!LogEntries(a, p + 1, Store!NextSlot(a))
          = [k \in 1 .. a.last + 1 - (p + 1) |-> a.entries[p + 1 + k - 1]]
    BY <1>2, LogEntriesIs
  <2>2. a.last + 1 - (p + 1) = n /\ \A k \in 1 .. n : p + 1 + k - 1 = p + k
    BY <1>1
  <2> QED
    BY <2>1, <2>2
<1>4. c = StoreEntries(b, p, entries)
  BY <1>3 DEF Stored, p
<1>5. DOMAIN entries = 1 .. n /\ Len(entries) = n
  BY <1>2
<1>6. \A k \in 1 .. n : entries[k] = a.entries[p + k] /\ p + k \in 0 .. a.last /\ p + k > p
  BY <1>1
<1>7. \A k \in 1 .. n : entries[k].term \in Nat
  BY <1>6, WholeIs
<1> HIDE DEF c, entries
<1>8. /\ Whole(c)
      /\ c.last = IF p + n > b.last THEN p + n ELSE b.last
      /\ \A i \in 0 .. b.last : i <= p \/ i > p + n => c.entries[i] = b.entries[i]
      /\ \A k \in 1 .. n :
           \/ c.entries[p + k] = entries[k]
           \/ /\ p + k <= b.last /\ c.entries[p + k] = b.entries[p + k]
              /\ b.entries[p + k].term = entries[k].term
  BY <1>2, <1>4, <1>5, <1>7, StoreEntriesIs
<1>9. ASSUME NEW i \in 0 .. a.last, i > p PROVE c.entries[i] = a.entries[i]
  <2>1. PICK k \in 1 .. n : i = p + k
    <3>1. i - p \in 1 .. n /\ i = p + (i - p)
      BY <1>1, <1>9
    <3> QED
      BY <3>1
  <2> QED
    BY <1>1, <1>6, <1>8, <1>9, <2>1
<1> QED
  BY <1>2, <1>8, <1>9 DEF p, c
-----------------------------------------------------------------------------
\* The logs are whole and begin alike.
LEMMA LogsWhole ==
  ASSUME ClusterTypeOK, NEW s \in Server
  PROVE  /\ Whole(log[s]) /\ log[s].entries[0] = Dummy /\ log[s].last \in Nat
         /\ commit[s] \in 0 .. log[s].last
         /\ log[s].last <= MaxIndex /\ MaxIndex \in Nat
         /\ \A i \in 0 .. log[s].last : log[s].entries[i].term \in Nat
<1>1. Whole(log[s]) /\ log[s].entries[0] = Dummy
  BY DEF ClusterTypeOK, Whole
<1>2. commit[s] \in Nat /\ commit[s] <= log[s].last /\ log[s].last <= MaxIndex
  BY DEF ClusterTypeOK
<1> QED
  BY <1>1, <1>2, WholeIs, ClusterAssumption

LEMMA AppendShape ==
  ASSUME TypeOK, ClusterTypeOK, NEW s \in Server, AppendTo(s)
  PROVE  /\ DOMAIN log' = Server
         /\ \A r \in Server \ {s} : log'[r] = log[r]
         /\ Whole(log'[s]) /\ log'[s].last = log[s].last + 1
         /\ log'[s].last <= MaxIndex
         /\ \A i \in 0 .. log[s].last : log'[s].entries[i] = log[s].entries[i]
         /\ log'[s].entries[log[s].last + 1] = Entry(state[s].term, s)
<1> DEFINE e == Entry(state[s].term, s)
<1>1. e.term \in Nat
  BY Casts DEF Entry
<1>2. log' = [log EXCEPT ![s] = Store!AppendEntry(log[s], e)] /\ Store!NextSlot(log[s]) <= MaxIndex
  BY DEF AppendTo
<1>3. DOMAIN log = Server
  BY DEF ClusterTypeOK
<1>4. Whole(log[s]) /\ Store!NextSlot(log[s]) = log[s].last + 1
  BY LogsWhole, WholeIs
<1>5. log'[s] = Store!AppendEntry(log[s], e)
  BY <1>2, <1>3
<1> HIDE DEF e
<1>6. /\ Whole(log'[s]) /\ log'[s].last = log[s].last + 1
      /\ \A i \in 0 .. log[s].last : log'[s].entries[i] = log[s].entries[i]
      /\ log'[s].entries[log[s].last + 1] = e
  BY <1>1, <1>4, <1>5, AppendIs
<1> QED
  BY <1>2, <1>3, <1>4, <1>6 DEF e

\* What a leader commits, given what it knows of the other logs.
LEMMA CommittedByIs ==
  ASSUME ClusterTypeOK, NEW s \in Server, NEW m
  PROVE  LET c == CommittedBy(s, m) IN
         /\ c \in 0 .. log[s].last /\ c >= commit[s]
         /\ c = commit[s] \/ Majority(s, {s} \cup {r \in Server : m[r] >= c})
         /\ \A i \in 0 .. log[s].last :
              i > c => ~Majority(s, {s} \cup {r \in Server : m[r] >= i})
<1> DEFINE Enough(i) == Majority(s, {s} \cup {r \in Server : m[r] >= i})
           I == {i \in 0 .. log[s].last : i <= commit[s] \/ Enough(i)}
<1>1. commit[s] \in 0 .. log[s].last /\ log[s].last \in Nat
  BY LogsWhole
<1>3. CommittedBy(s, m) = Largest(I)
  BY DEF CommittedBy
<1> HIDE DEF Enough
<1>2. I \in SUBSET (0 .. log[s].last) /\ commit[s] \in I
  BY <1>1
<1>4. Largest(I) \in I /\ \A i \in I : i <= Largest(I)
  <2> HIDE DEF I
  <2> QED
    BY <1>1, <1>2, LargestIs
<1> DEFINE c == CommittedBy(s, m)
<1>5. c \in I /\ \A i \in I : i <= c
  BY <1>3, <1>4
<1> HIDE DEF c
<1>6. c \in 0 .. log[s].last /\ c >= commit[s] /\ (c = commit[s] \/ Enough(c))
  BY <1>1, <1>2, <1>5
<1>7. \A i \in 0 .. log[s].last : i > c => ~Enough(i)
  BY <1>1, <1>5, <1>6
<1> QED
  BY <1>6, <1>7 DEF c, Enough

LEMMA LargerIs ==
  ASSUME NEW a \in Nat, NEW b \in Nat
  PROVE  Largest({a, b}) = IF a > b THEN a ELSE b
<1>1. {a, b} \in SUBSET (0 .. a + b) /\ {a, b} # {}
  OBVIOUS
<1>2. Largest({a, b}) \in {a, b} /\ \A i \in {a, b} : i <= Largest({a, b})
  BY <1>1, LargestIs
<1> QED
  BY <1>2

LEMMA ReplicateShape ==
  ASSUME TypeOK, ClusterTypeOK, NEW s \in Server, NEW r \in Server, Replicate(s, r)
  PROVE  LET told == [matched[s] EXCEPT ![r] = log[s].last]
             learnt == IF commit[s] > commit[r] THEN commit[s] ELSE commit[r]
         IN  /\ HearLeader(r, s)
             /\ DOMAIN log' = Server
             /\ \A q \in Server \ {r} : log'[q] = log[q]
             /\ log'[r] = Stored(log[s], log[r])
             /\ stale' = (stale \/ ~Store!TermsAscend(log'[r]))
             /\ \/ /\ matched' = [matched EXCEPT ![s] = told]
                   /\ commit' = [commit EXCEPT ![r] = learnt, ![s] = CommittedBy(s, told)]
                \/ /\ matched' = matched
                   /\ commit' = [commit EXCEPT ![r] = learnt]
<1>1. DOMAIN log = Server
  BY DEF ClusterTypeOK
<1>2. commit[s] \in Nat /\ commit[r] \in Nat
  BY DEF ClusterTypeOK
<1>3. Largest({commit[s], commit[r]}) = IF commit[s] > commit[r] THEN commit[s] ELSE commit[r]
  BY <1>2, LargerIs
<1>4. log' = [log EXCEPT ![r] = Stored(log[s], log[r])]
  BY DEF Replicate, Stored
<1>5. log'[r] = Stored(log[s], log[r]) /\ DOMAIN log' = Server
      /\ \A q \in Server \ {r} : log'[q] = log[q]
  BY <1>1, <1>4
<1>6. stale' = (stale \/ ~Store!TermsAscend(Stored(log[s], log[r])))
  BY Zenon DEF Replicate, Stored
<1>7. HearLeader(r, s)
  BY DEF Replicate
<1>8. \/ /\ matched' = [matched EXCEPT ![s] = [matched[s] EXCEPT ![r] = log[s].last]]
         /\ commit' = [commit EXCEPT ![r] = Largest({commit[s], commit[r]}),
                                     ![s] = CommittedBy(s, [matched[s] EXCEPT ![r] = log[s].last])]
      \/ /\ matched' = matched
         /\ commit' = [commit EXCEPT ![r] = Largest({commit[s], commit[r]})]
  BY Zenon DEF Replicate
<1> QED
  BY <1>3, <1>5, <1>6, <1>7, <1>8
-----------------------------------------------------------------------------
LEMMA NewLogIs == Whole(Store!NewLog) /\ Store!NewLog.last = 0 /\ Store!NewLog.entries[0] = Dummy
<1> DEFINE f == [i \in {0} |-> Dummy]
<1>1. Store!NewLog = [entries |-> f, start |-> 1, last |-> 0]
  BY DEF Store!NewLog
<1>2. DOMAIN f = 0 .. 0 /\ f[0] = Dummy
  OBVIOUS
<1>3. Dummy.term \in Nat
  BY ClusterAssumption DEF Entry
<1>4. \A i \in 0 .. 0 : f[i].term \in Nat
  BY <1>2, <1>3
<1> HIDE DEF f
<1>5. Whole(Store!NewLog)
  BY <1>1, <1>2, <1>4, WholeMade
<1> QED
  BY <1>1, <1>2, <1>5

LEMMA ClusterTypeInit == ClusterInit => ClusterTypeOK
<1> SUFFICES ASSUME ClusterInit PROVE ClusterTypeOK
  OBVIOUS
<1>1. /\ log = [s \in Server |-> Store!NewLog] /\ commit = [s \in Server |-> 0]
      /\ matched = [s \in Server |-> Nothing] /\ stale = FALSE
  BY DEF ClusterInit
<1>2. Nothing \in [Server -> 0 .. MaxIndex]
  BY ClusterAssumption DEF Nothing
<1>3. \A s \in Server : log[s] = Store!NewLog /\ commit[s] = 0
  BY <1>1
<1>4. /\ DOMAIN log = Server /\ commit \in [Server -> Nat]
      /\ matched \in [Server -> [Server -> 0 .. MaxIndex]] /\ stale \in BOOLEAN
  <2> HIDE DEF Store!NewLog
  <2> QED
    BY <1>1, <1>2
<1>5. ASSUME NEW s \in Server
      PROVE  /\ Whole(log[s]) /\ log[s].entries[0] = Dummy
             /\ commit[s] <= log[s].last /\ log[s].last <= MaxIndex
  BY <1>3, NewLogIs, ClusterAssumption
<1> QED
  BY <1>4, <1>5 DEF ClusterTypeOK, Whole

\* A step that leaves the logs alone.
LEMMA KeepsLogsType ==
  ASSUME ClusterTypeOK, log' = log, commit' = commit, stale' = stale,
         matched' \in [Server -> [Server -> 0 .. MaxIndex]]
  PROVE  ClusterTypeOK'
BY DEF ClusterTypeOK

LEMMA AppendType ==
  ASSUME TypeOK, ClusterTypeOK, NEW s \in Server, AppendTo(s), commit' = commit, stale' = stale,
         matched' \in [Server -> [Server -> 0 .. MaxIndex]]
  PROVE  ClusterTypeOK'
<1>1. /\ DOMAIN log' = Server
      /\ commit' \in [Server -> Nat] /\ stale' \in BOOLEAN
  BY AppendShape DEF ClusterTypeOK
<1>2. ASSUME NEW r \in Server
      PROVE  /\ Whole(log'[r]) /\ log'[r].entries[0] = Dummy
             /\ commit'[r] <= log'[r].last /\ log'[r].last <= MaxIndex
  <2>1. CASE r = s
    BY <2>1, AppendShape, LogsWhole
  <2>2. CASE r # s
    BY <2>2, AppendShape, LogsWhole
  <2> QED
    BY <2>1, <2>2
<1> QED
  BY <1>1, <1>2 DEF ClusterTypeOK, Whole

LEMMA ReplicateType ==
  ASSUME TypeOK, ClusterTypeOK, NEW s \in Server, NEW r \in Server, Replicate(s, r)
  PROVE  ClusterTypeOK'
<1> DEFINE told == [matched[s] EXCEPT ![r] = log[s].last]
           learnt == IF commit[s] > commit[r] THEN commit[s] ELSE commit[r]
<1>1. /\ s # r /\ DOMAIN log' = Server
      /\ \A q \in Server \ {r} : log'[q] = log[q]
      /\ log'[r] = Stored(log[s], log[r])
      /\ stale' \in BOOLEAN
      /\ \/ /\ matched' = [matched EXCEPT ![s] = told]
            /\ commit' = [commit EXCEPT ![r] = learnt, ![s] = CommittedBy(s, told)]
         \/ /\ matched' = matched
            /\ commit' = [commit EXCEPT ![r] = learnt]
  BY ReplicateShape DEF HearLeader
<1>2. /\ commit \in [Server -> Nat]
      /\ commit[s] \in 0 .. log[s].last /\ commit[r] \in 0 .. log[r].last
      /\ log[s].last \in 0 .. MaxIndex /\ log[r].last \in 0 .. MaxIndex
  BY LogsWhole DEF ClusterTypeOK
<1>3. told \in [Server -> 0 .. MaxIndex]
  BY <1>2 DEF ClusterTypeOK
<1>4. CommittedBy(s, told) \in 0 .. log[s].last
  BY CommittedByIs
<1>5. /\ Whole(log'[r]) /\ log'[r].entries[0] = Dummy
      /\ log'[r].last = IF log[s].last > log[r].last THEN log[s].last ELSE log[r].last
  <2>1. /\ Whole(log[s]) /\ Whole(log[r]) /\ log[s].entries[0] = Dummy /\ log[r].entries[0] = Dummy
    BY LogsWhole
  <2>2. Agreement(log[s], log[r]) \in 0 .. log[s].last /\ 0 \in 0 .. log[r].last
    BY <1>2, <2>1, AgreementIs
  <2>3. 0 <= Agreement(log[s], log[r])
    BY <1>2, <2>2
  <2> QED
    BY <1>1, <2>1, <2>2, <2>3, StoredIs
<1> HIDE DEF told, learnt
<1>6. /\ matched' \in [Server -> [Server -> 0 .. MaxIndex]]
  BY <1>1, <1>3 DEF ClusterTypeOK
<1>7. learnt \in 0 .. log'[r].last /\ learnt \in Nat
  BY <1>2, <1>5 DEF learnt
<1>8. commit' \in [Server -> Nat]
  BY <1>1, <1>2, <1>4, <1>7
<1>9. ASSUME NEW q \in Server
      PROVE  /\ Whole(log'[q]) /\ log'[q].entries[0] = Dummy
             /\ commit'[q] <= log'[q].last /\ log'[q].last <= MaxIndex
  <2>1. CASE q = r
    BY <1>1, <1>2, <1>5, <1>7, <2>1
  <2>2. CASE q = s
    BY <1>1, <1>2, <1>4, <2>2, LogsWhole
  <2>3. CASE q # r /\ q # s
    BY <1>1, <1>2, <2>3, LogsWhole
  <2> QED
    BY <2>1, <2>2, <2>3
<1> QED
  BY <1>1, <1>6, <1>8, <1>9 DEF ClusterTypeOK, Whole

LEMMA ClusterTypeStep == TypeOK /\ ClusterTypeOK /\ [ClusterNext]_clusterVars => ClusterTypeOK'
<1> SUFFICES ASSUME TypeOK, ClusterTypeOK, [ClusterNext]_clusterVars PROVE ClusterTypeOK'
  OBVIOUS
<1>0. /\ matched \in [Server -> [Server -> 0 .. MaxIndex]]
      /\ Nothing \in [Server -> 0 .. MaxIndex]
  BY ClusterAssumption DEF ClusterTypeOK, Nothing
<1>1. CASE UNCHANGED logVars
  BY <1>0, <1>1, KeepsLogsType DEF logVars
<1>2. ASSUME NEW s \in Server, Lead(s) PROVE ClusterTypeOK'
  BY <1>0, <1>2, AppendType DEF Lead
<1>3. ASSUME NEW s \in Server, TakeCommand(s) PROVE ClusterTypeOK'
  BY <1>0, <1>3, AppendType DEF TakeCommand
<1>4. ASSUME NEW s \in Server, NEW r \in Server, StepDown(s, r) PROVE ClusterTypeOK'
  BY <1>0, <1>4, KeepsLogsType DEF StepDown
<1>5. ASSUME NEW s \in Server, NEW r \in Server, Replicate(s, r) PROVE ClusterTypeOK'
  BY <1>5, ReplicateType
<1> QED
  BY <1>1, <1>2, <1>3, <1>4, <1>5 DEF ClusterNext, AskVote, clusterVars

(***************************************************************************)
(* The logs are gapless rows of entries behind the dummy and no server     *)
(* commits beyond its log, whatever write_at leaves behind                 *)
(* (raft_state_manager.cpp:44-57).                                         *)
(***************************************************************************)
THEOREM ClusterTypeCorrect == ClusterSpec => []ClusterTypeOK
<1>1. ClusterSpec => []TypeOK
  BY ClusterElects, TypeCorrect, PTL
<1> QED
  BY <1>1, ClusterTypeInit, ClusterTypeStep, PTL DEF ClusterSpec
-----------------------------------------------------------------------------
LEMMA TimeoutTerm ==
  ASSUME TypeOK, NEW s \in Server, Timeout(s)
  PROVE  /\ state'[s].term = state[s].term + 1
         /\ \A r \in Server \ {s} : state'[r] = state[r]
<1> DEFINE new == State(state[s].term + 1, s)
<1>1. SetState(s, new) /\ new \in Ballots
  BY Casts DEF Timeout
<1>2. new.term = state[s].term + 1
  BY Casts, StateType
<1> HIDE DEF new
<1> QED
  BY <1>1, <1>2, SetStateType

\* The ballots of a step of the cluster: terms rise and votes bind.
LEMMA BallotsMove ==
  ASSUME TypeOK, [ClusterNext]_clusterVars, NEW q \in Server
  PROVE  KeepsVote(state[q], state'[q])
<1> DEFINE Goal == KeepsVote(state[q], state'[q])
<1>0. state[q] \in Ballots /\ state[q].term \in Nat
  BY Casts
<1>1. KeepsVote(state[q], state[q])
  BY <1>0 DEF KeepsVote
<1>2. ASSUME NEW s \in Server, Timeout(s) PROVE Goal
  <2>1. /\ state'[s].term = state[s].term + 1
        /\ \A r \in Server \ {s} : state'[r] = state[r]
    BY <1>2, TimeoutTerm
  <2> QED
    BY <1>0, <1>1, <2>1 DEF KeepsVote
<1>3. ASSUME NEW s \in Server, NEW r \in Server, LearnTerm(s, r) PROVE Goal
  <2>1. /\ state'[s].term = state[r].term /\ state[s].term < state[r].term
        /\ \A x \in Server \ {s} : state'[x] = state[x]
    BY <1>3, Casts, SetStateType, StateType DEF LearnTerm
  <2>2. state[r].term \in Nat
    BY Casts
  <2> QED
    BY <1>0, <1>1, <2>1, <2>2 DEF KeepsVote
<1>4. ASSUME NEW s \in Server, NEW c \in Server, Vote(s, c) PROVE Goal
  <2>1. /\ state'[s].term = state[s].term /\ state'[s].votedFor = c
        /\ \A x \in Server \ {s} : state'[x] = state[x]
        /\ state[s].votedFor \in {NoVote, c}
    BY <1>4, Casts, SetStateType, StateType DEF Vote
  <2> QED
    BY <1>0, <1>1, <2>1 DEF KeepsVote
<1>5. CASE state' = state
  BY <1>1, <1>5
<1> QED
  BY <1>2, <1>3, <1>4, <1>5 DEF ClusterNext, clusterVars, vars, Lead, BecomeLeader, TakeCommand,
     StepDown, AskVote, Replicate, HearLeader

\* c goes on as it was or becomes the leader, gets a vote, or has just begun.
Stays(c) ==
    /\ Campaigns(c) /\ state'[c].term = state[c].term /\ votes'[c] = votes[c]
    /\ role'[c] = role[c] \/ Lead(c)

GetsVote(c) ==
    /\ Campaigns(c) /\ state'[c].term = state[c].term /\ role'[c] = role[c]
    /\ \E v \in Server : AskVote(v, c) /\ votes'[c] = votes[c] \cup {v}

Begins(c) ==
    role'[c] = "candidate" /\ state'[c].term = state[c].term + 1 /\ votes'[c] = {c}

LEMMA CampaignsMove ==
  ASSUME TypeOK, [ClusterNext]_clusterVars, NEW c \in Server, Campaigns(c)'
  PROVE  Stays(c) \/ GetsVote(c) \/ Begins(c)
<1> DEFINE Goal == Stays(c) \/ GetsVote(c) \/ Begins(c)
<1>1. ASSUME NEW s \in Server, Timeout(s) PROVE Goal
  <2>1. /\ state'[s].term = state[s].term + 1
        /\ \A r \in Server \ {s} : state'[r] = state[r]
    BY <1>1, TimeoutTerm
  <2> QED
    BY <1>1, <2>1 DEF Timeout, TypeOK, Campaigns, Stays, Begins
<1>2. ASSUME NEW s \in Server, NEW r \in Server, StepDown(s, r) PROVE Goal
  <2>1. LearnTerm(s, r) /\ \A x \in Server \ {s} : state'[x] = state[x]
    BY <1>2, Casts, SetStateType DEF LearnTerm, StepDown
  <2> QED
    BY <2>1 DEF LearnTerm, TypeOK, Campaigns, Stays
<1>3. ASSUME NEW s \in Server, NEW d \in Server, AskVote(s, d) PROVE Goal
  <2>1. /\ Vote(s, d) /\ \A x \in Server : state'[x].term = state[x].term
    BY <1>3, Casts, SetStateType, StateType DEF Vote, AskVote
  <2>2. role' = role /\ votes' = [votes EXCEPT ![d] = @ \cup {s}]
    BY <2>1 DEF Vote
  <2> QED
    BY <1>3, <2>1, <2>2 DEF TypeOK, Campaigns, Stays, GetsVote
<1>4. ASSUME NEW s \in Server, Lead(s) PROVE Goal
  BY <1>4 DEF Lead, BecomeLeader, TypeOK, Campaigns, Stays
<1>5. ASSUME NEW s \in Server, NEW r \in Server, Replicate(s, r) PROVE Goal
  <2>1. HearLeader(r, s)
    BY <1>5 DEF Replicate
  <2> QED
    BY <2>1 DEF HearLeader, TypeOK, Campaigns, Stays
<1>6. CASE UNCHANGED vars
  BY <1>6 DEF vars, Campaigns, Stays
<1> QED
  BY <1>1, <1>2, <1>3, <1>4, <1>5, <1>6 DEF ClusterNext, clusterVars, TakeCommand

\* A quorum is part of the servers; two of them meet.
LEMMA QuorumsMeet ==
  ASSUME NEW Q \in SUBSET Server, NEW R \in SUBSET Server, IsQuorum(Q), IsQuorum(R)
  PROVE  Q \cap R # {}
BY MajoritiesMeet DEF IsQuorum

\* An election once won stays won.
LEMMA ElectedStays ==
  ASSUME TypeOK, [ClusterNext]_clusterVars, NEW t \in Nat, NEW x \in Server, Elected(t, x)
  PROVE  Elected(t, x)'
<1>1. PICK Q \in SUBSET Server :
        /\ IsQuorum(Q)
        /\ \A q \in Q : \/ state[q].term > t
                        \/ state[q].term = t /\ state[q].votedFor = x
        /\ \A c \in Server \ {x} :
              Campaigns(c) /\ state[c].term = t => votes[c] \cap Q = {}
  BY DEF Elected
<1>2. ASSUME NEW q \in Q
      PROVE  state'[q].term > t \/ (state'[q].term = t /\ state'[q].votedFor = x)
  <2>1. KeepsVote(state[q], state'[q]) /\ state[q].term \in Nat /\ state'[q].term \in Nat
    BY BallotsMove, Casts, ClusterStep, NextType DEF TypeOK, Ballots
  <2> QED
    BY <1>1, <2>1, ElectionAssumption DEF KeepsVote
<1>3. ASSUME NEW c \in Server \ {x}, Campaigns(c)', state'[c].term = t, NEW q \in Q, q \in votes'[c]
      PROVE  FALSE
  <2>1. CASE Stays(c)
    BY <1>1, <1>3, <2>1 DEF Stays
  <2>2. CASE GetsVote(c)
    <3>1. PICK v \in Server : AskVote(v, c) /\ votes'[c] = votes[c] \cup {v}
      BY <2>2 DEF GetsVote
    <3>2. q = v /\ state[v].term = t /\ state[v].votedFor \in {NoVote, c}
      BY <1>1, <1>3, <2>2, <3>1 DEF GetsVote, AskVote, Vote
    <3>3. state[v].term = t /\ state[v].votedFor = x
      BY <1>1, <3>2
    <3> QED
      BY <1>3, <3>2, <3>3, ElectionAssumption
  <2>3. CASE Begins(c)
    <3>1. q = c /\ state[c].term + 1 = t /\ state[c].term \in Nat
      BY <1>3, <2>3, Casts DEF Begins
    <3> QED
      BY <1>1, <3>1
  <2> QED
    BY <1>3, <2>1, <2>2, <2>3, CampaignsMove
<1>4. IsQuorum(Q)'
  BY <1>1 DEF IsQuorum, Majority
<1> QED
  BY <1>2, <1>3, <1>4 DEF Elected

\* Who has a majority of the votes is elected, and no other leads in its term.
LEMMA MajorityElects ==
  ASSUME TypeOK, ElectionInv, ~forgot, NEW l \in Server, Campaigns(l), Majority(l, votes[l])
  PROVE  Elected(state[l].term, l) /\ IsQuorum(votes[l]) /\ votes[l] \in SUBSET Server
<1>1. IsQuorum(votes[l]) /\ votes[l] \in SUBSET Server
  BY DEF IsQuorum, TypeOK
<1>2. ASSUME NEW q \in votes[l]
      PROVE  state[q].term > state[l].term \/ (state[q].term = state[l].term /\ state[q].votedFor = l)
  <2>1. q \in Server /\ state[q].term >= state[l].term
    BY <1>1 DEF ElectionInv, VotesBind
  <2>2. state[q].term \in Nat /\ state[l].term \in Nat
    BY <2>1, Casts
  <2> QED
    BY <1>1, <2>1, <2>2 DEF ElectionInv, VotesBind
<1>3. \A c \in Server \ {l} : Campaigns(c) /\ state[c].term = state[l].term => votes[c] \cap votes[l] = {}
  BY DEF ElectionInv, VotesDisjoint
<1> QED
  BY <1>1, <1>2, <1>3 DEF Elected

LEMMA NoRival ==
  ASSUME TypeOK, ElectionInv, ~forgot, NEW l \in Server, role[l] = "leader",
         NEW x \in Server, Elected(state[l].term, x)
  PROVE  l = x
<1>1. Campaigns(l) /\ IsQuorum(votes[l]) /\ votes[l] \in SUBSET Server
  BY DEF ElectionInv, LeadersElected, IsQuorum, TypeOK, Campaigns
<1>2. PICK Q \in SUBSET Server : IsQuorum(Q) /\ (l # x => votes[l] \cap Q = {})
  BY <1>1 DEF Elected
<1> QED
  BY <1>1, <1>2, QuorumsMeet
-----------------------------------------------------------------------------
\* The invariant as long as no log is stale, and what it needs of elections.
Sound ==
    /\ TypeOK /\ ClusterTypeOK /\ ElectionInv /\ ~forgot
    /\ LogsMatch /\ LogsRise /\ LeadersHold /\ LeadersPledge /\ CommitsPledged

\* What LogsRise says of an entry.
LEMMA EntryIs ==
  ASSUME TypeOK, ClusterTypeOK, LogsRise, NEW s \in Server, NEW i \in 1 .. log[s].last
  PROVE  LET e == log[s].entries[i] IN
         /\ e.term \in Nat /\ e.from \in Server /\ Elected(e.term, e.from)
         /\ e.term <= state[s].term /\ e.term <= state[e.from].term
         /\ role[e.from] = "candidate" => e.term < state[e.from].term
         /\ \A k \in 1 .. log[s].last : i <= k => e.term <= log[s].entries[k].term
<1>1. /\ Whole(log[s]) /\ log[s].last \in Nat
      /\ \A k \in 0 .. log[s].last : log[s].entries[k].term \in Nat
  BY LogsWhole
<1>2. i \in 0 .. log[s].last /\ \A k \in 1 .. log[s].last : k \in 0 .. log[s].last
  BY <1>1
<1>3. \A k \in 1 .. log[s].last : i <= k => log[s].entries[i].term <= log[s].entries[k].term
  BY <1>1, <1>2, WholeIs DEF LogsRise, Store!TermsAscend
<1> QED
  BY <1>1, <1>2, <1>3 DEF LogsRise

\* The log that a leader overwrites becomes its own, unless it is stale then.
LEMMA ReplicateCopies ==
  ASSUME Sound, NEW s \in Server, NEW r \in Server, Replicate(s, r), ~stale'
  PROVE  /\ \A q \in Server \ {r} : log'[q] = log[q]
         /\ log'[r].last = log[s].last
         /\ \A i \in 1 .. log[s].last : log'[r].entries[i] = log[s].entries[i]
         /\ Store!TermsAscend(log'[r])
<1> DEFINE a == log[s]
           b == log[r]
           p == Agreement(a, b)
           c == log'[r]
           T == state[s].term
<1>0. /\ TypeOK /\ ClusterTypeOK /\ LogsMatch /\ LogsRise /\ LeadersHold
  BY DEF Sound
<1>1. /\ role[s] = "leader" /\ state[r].term = T
      /\ \A q \in Server \ {r} : log'[q] = log[q]
      /\ c = Stored(a, b) /\ Store!TermsAscend(c)
  BY <1>0, ReplicateShape DEF HearLeader
<1>2. Whole(a) /\ Whole(b) /\ a.entries[0] = b.entries[0] /\ a.last \in Nat /\ b.last \in Nat
  BY <1>0, LogsWhole
<1>3. /\ p \in 0 .. a.last /\ p <= b.last /\ a.entries[p].term = b.entries[p].term
  BY <1>2, AgreementIs
<1>4. /\ Whole(c)
      /\ c.last = IF a.last > b.last THEN a.last ELSE b.last
      /\ \A i \in 0 .. b.last : i <= p \/ i > a.last => c.entries[i] = b.entries[i]
      /\ \A i \in 0 .. a.last : i > p => c.entries[i] = a.entries[i]
  BY <1>1, <1>2, StoredIs
<1> HIDE DEF p, c
<1>5. ASSUME NEW i \in 1 .. a.last PROVE c.entries[i] = a.entries[i]
  <2>1. CASE i > p
    BY <1>2, <1>4, <2>1
  <2>2. CASE i <= p
    <3>1. p \in 1 .. a.last /\ p \in 1 .. b.last /\ i \in 1 .. p /\ i \in 0 .. b.last
      BY <1>2, <1>3, <2>2
    <3>2. a.entries[i] = b.entries[i]
      BY <1>0, <1>3, <3>1 DEF LogsMatch
    <3> QED
      BY <1>4, <2>2, <3>1, <3>2
  <2> QED
    BY <1>2, <1>3, <2>1, <2>2
<1>6. ASSUME b.last > a.last PROVE FALSE
  <2> DEFINE n == b.last
  <2>1. Holds(s, a.last, T)
    BY <1>0, <1>1 DEF LeadersHold
  <2>2. /\ a.last \in 1 .. a.last /\ a.entries[a.last].term = T
        /\ n \in 1 .. b.last /\ n \in 0 .. b.last /\ n > a.last
        /\ c.last = n /\ a.last \in 0 .. n /\ n \in 0 .. n
    BY <1>2, <1>4, <1>6, <2>1 DEF Holds
  <2>3. c.entries[a.last] = a.entries[a.last] /\ c.entries[n] = b.entries[n]
    BY <1>4, <1>5, <2>2
  <2>4. c.entries[a.last].term <= c.entries[n].term
    <3>1. \A i \in 0 .. n : Store!TermAt(c, i) = c.entries[i].term /\ i \in DOMAIN c.entries
      BY <1>4, <2>2, WholeIs
    <3> QED
      BY <1>1, <1>6, <2>2, <3>1 DEF Store!TermsAscend
  <2>5. b.entries[n].term \in Nat /\ b.entries[n].term <= T /\ T \in Nat
    BY <1>0, <1>1, <2>2, EntryIs, Casts
  <2>6. b.entries[n].term = T
    BY <2>2, <2>3, <2>4, <2>5
  <2>7. Holds(r, n, T)
    BY <2>2, <2>6 DEF Holds
  <2>8. Holds(s, n, T)
    BY <1>0, <1>1, <2>2, <2>7 DEF LeadersHold
  <2> QED
    BY <1>2, <1>6, <2>8 DEF Holds
<1>7. c.last = a.last
  BY <1>2, <1>4, <1>6
<1> QED
  BY <1>1, <1>5, <1>7 DEF c

\* A new leader finds no entry of its term.
LEMMA LeadsFirst ==
  ASSUME Sound, NEW c \in Server, BecomeLeader(c), NEW s \in Server, NEW i \in 1 .. log[s].last
  PROVE  log[s].entries[i].term # state[c].term
<1> SUFFICES ASSUME log[s].entries[i].term = state[c].term PROVE FALSE
  OBVIOUS
<1> DEFINE e == log[s].entries[i]
<1>1. /\ e.from \in Server /\ Elected(e.term, e.from)
      /\ role[e.from] = "candidate" => e.term < state[e.from].term
  BY EntryIs DEF Sound
<1>2. role[c] = "candidate" /\ IsQuorum(votes[c]) /\ votes[c] \in SUBSET Server
      /\ state[c].term \in Nat
  BY Casts DEF BecomeLeader, IsQuorum, Sound, TypeOK
<1>3. c # e.from
  BY <1>1, <1>2
<1>4. PICK Q \in SUBSET Server : IsQuorum(Q) /\ votes[c] \cap Q = {}
  BY <1>1, <1>2, <1>3 DEF Elected, Campaigns
<1> QED
  BY <1>2, <1>4, QuorumsMeet

(***************************************************************************)
(* What changes when leader s puts an entry into its log, be it new or not *)
(* as a leader.                                                            *)
(***************************************************************************)
Adds(s) == Lead(s) \/ TakeCommand(s)

LEMMA AddsIs ==
  ASSUME Sound, NEW s \in Server, Adds(s)
  PROVE  LET n == log[s].last + 1 IN
         /\ n \in Nat \ {0}
         /\ state' = state /\ votes' = votes /\ commit' = commit /\ stale' = stale
         /\ role'[s] = "leader" /\ Campaigns(s) /\ Elected(state[s].term, s)
         /\ \A q \in Server \ {s} : role'[q] = role[q] /\ matched'[q] = matched[q] /\ log'[q] = log[q]
         /\ \A r \in Server : matched'[s][r] = 0 \/ Holds(s, matched'[s][r], state[s].term)
         /\ log'[s].last = n /\ log'[s].entries[n] = Entry(state[s].term, s)
         /\ \A i \in 1 .. log[s].last : log'[s].entries[i] = log[s].entries[i]
         /\ \A q \in Server : \A i \in 1 .. log[q].last :
              log[q].entries[i].term = state[s].term => Holds(s, i, state[s].term)
<1>0. TypeOK /\ ClusterTypeOK /\ LogsRise /\ LeadersHold
  BY DEF Sound
<1>1. AppendTo(s) /\ state' = state /\ votes' = votes /\ commit' = commit /\ stale' = stale
  BY DEF Adds, Lead, TakeCommand, BecomeLeader, vars
<1>2. /\ role'[s] = "leader" /\ Campaigns(s)
      /\ \A q \in Server \ {s} : role'[q] = role[q] /\ matched'[q] = matched[q]
  BY <1>0 DEF Adds, Lead, TakeCommand, BecomeLeader, vars, Campaigns, TypeOK, ClusterTypeOK
<1>3. \A r \in Server : matched'[s][r] = 0 \/ Holds(s, matched'[s][r], state[s].term)
  <2>1. CASE Lead(s)
    BY <1>0, <2>1 DEF Lead, Nothing, ClusterTypeOK
  <2>2. CASE TakeCommand(s)
    BY <1>0, <2>2 DEF TakeCommand, LeadersHold
  <2> QED
    BY <2>1, <2>2 DEF Adds
<1>4. \A q \in Server : \A i \in 1 .. log[q].last :
        log[q].entries[i].term = state[s].term => Holds(s, i, state[s].term)
  <2>1. CASE Lead(s)
    BY <2>1, LeadsFirst DEF Lead
  <2>2. CASE TakeCommand(s)
    BY <1>0, <2>2 DEF TakeCommand, LeadersHold, Holds
  <2> QED
    BY <2>1, <2>2 DEF Adds
<1>5. /\ \A r \in Server \ {s} : log'[r] = log[r]
      /\ log'[s].last = log[s].last + 1
      /\ \A i \in 0 .. log[s].last : log'[s].entries[i] = log[s].entries[i]
      /\ log'[s].entries[log[s].last + 1] = Entry(state[s].term, s)
  BY <1>0, <1>1, AppendShape
<1>6. log[s].last \in Nat
  BY <1>0, LogsWhole
<1>7. Elected(state[s].term, s)
  <2>1. ElectionInv /\ ~forgot /\ Majority(s, votes[s])
    BY DEF Sound, Adds, Lead, BecomeLeader, TakeCommand, ElectionInv, LeadersElected
  <2> QED
    BY <1>0, <1>2, <2>1, MajorityElects
<1> QED
  BY <1>1, <1>2, <1>3, <1>4, <1>5, <1>6, <1>7
-----------------------------------------------------------------------------
\* The logs and what leaders know do not change, and nobody begins to lead.
Still ==
    /\ UNCHANGED <<log, commit, stale>>
    /\ \A l \in Server : role'[l] = "leader" =>
         role[l] = "leader" /\ state'[l].term = state[l].term /\ matched'[l] = matched[l]

LEMMA StepsAre ==
  ASSUME TypeOK, ClusterTypeOK, [ClusterNext]_clusterVars
  PROVE  Still \/ \E s \in Server : Adds(s) \/ \E r \in Server : Replicate(s, r)
<1>1. ASSUME NEW s \in Server, Timeout(s), UNCHANGED logVars PROVE Still
  BY <1>1, TimeoutTerm DEF Timeout, TypeOK, logVars, Still
<1>2. ASSUME NEW s \in Server, NEW r \in Server, StepDown(s, r) PROVE Still
  <2>1. LearnTerm(s, r) /\ \A x \in Server \ {s} : state'[x] = state[x]
    BY <1>2, Casts, SetStateType DEF LearnTerm, StepDown
  <2> QED
    BY <1>2, <2>1 DEF LearnTerm, TypeOK, StepDown, ClusterTypeOK, Still
<1>3. ASSUME NEW s \in Server, NEW c \in Server, AskVote(s, c) PROVE Still
  <2>1. Vote(s, c) /\ \A x \in Server : state'[x].term = state[x].term
    BY <1>3, Casts, SetStateType, StateType DEF Vote, AskVote
  <2> QED
    BY <1>3, <2>1 DEF Vote, AskVote, logVars, Still
<1>4. CASE UNCHANGED clusterVars
  BY <1>4 DEF clusterVars, vars, logVars, Still
<1> QED
  BY <1>1, <1>2, <1>3, <1>4 DEF ClusterNext, Adds

\* What changes when r takes over the log of its leader s.
LEMMA CopiesIs ==
  ASSUME Sound, NEW s \in Server, NEW r \in Server, Replicate(s, r), ~stale'
  PROVE  LET told == [matched[s] EXCEPT ![r] = log[s].last] IN
         /\ s # r /\ state' = state /\ state[r].term = state[s].term
         /\ role[s] = "leader" /\ role'[r] = "follower"
         /\ \A q \in Server \ {r} : role'[q] = role[q] /\ votes'[q] = votes[q] /\ log'[q] = log[q]
         /\ \A q \in Server \ {s} : matched'[q] = matched[q]
         /\ \/ matched'[s] = told /\ commit'[s] = CommittedBy(s, told)
            \/ matched'[s] = matched[s] /\ commit'[s] = commit[s]
         /\ commit'[r] = IF commit[s] > commit[r] THEN commit[s] ELSE commit[r]
         /\ \A q \in Server \ {s, r} : commit'[q] = commit[q]
         /\ \A x \in Server : told[x] = 0 \/ Holds(s, told[x], state[s].term)
         /\ told[r] = log[s].last /\ \A x \in Server \ {r} : told[x] = matched[s][x]
<1> DEFINE told == [matched[s] EXCEPT ![r] = log[s].last]
<1>0. TypeOK /\ ClusterTypeOK /\ LeadersHold
  BY DEF Sound
<1>1. HearLeader(r, s)
  BY <1>0, ReplicateShape
<1>2. /\ s # r /\ state' = state /\ state[r].term = state[s].term
      /\ role[s] = "leader" /\ role'[r] = "follower"
      /\ \A q \in Server \ {r} : role'[q] = role[q] /\ votes'[q] = votes[q]
  BY <1>0, <1>1 DEF HearLeader, TypeOK
<1>3. told[r] = log[s].last /\ \A x \in Server \ {r} : told[x] = matched[s][x]
  BY <1>0 DEF ClusterTypeOK
<1>4. \A x \in Server : told[x] = 0 \/ Holds(s, told[x], state[s].term)
  BY <1>0, <1>2, <1>3 DEF LeadersHold
<1> DEFINE learnt == IF commit[s] > commit[r] THEN commit[s] ELSE commit[r]
<1>5. \/ /\ matched' = [matched EXCEPT ![s] = told]
         /\ commit' = [commit EXCEPT ![r] = learnt, ![s] = CommittedBy(s, told)]
      \/ /\ matched' = matched
         /\ commit' = [commit EXCEPT ![r] = learnt]
  BY <1>0, ReplicateShape
<1>6. DOMAIN commit = Server /\ DOMAIN matched = Server
  BY <1>0 DEF ClusterTypeOK
<1> HIDE DEF told, learnt
<1>7. /\ \A q \in Server \ {s} : matched'[q] = matched[q]
      /\ \/ matched'[s] = told /\ commit'[s] = CommittedBy(s, told)
         \/ matched'[s] = matched[s] /\ commit'[s] = commit[s]
      /\ commit'[r] = learnt
      /\ \A q \in Server \ {s, r} : commit'[q] = commit[q]
  BY <1>2, <1>5, <1>6
<1> QED
  BY <1>2, <1>3, <1>4, <1>7, ReplicateCopies DEF told, learnt

LEMMA CopyFrame ==
  ASSUME Sound, NEW s \in Server, NEW r \in Server, Replicate(s, r), ~stale'
  PROVE  /\ s # r /\ state' = state /\ state[r].term = state[s].term
         /\ role[s] = "leader" /\ role'[r] = "follower"
         /\ \A q \in Server \ {r} : role'[q] = role[q] /\ votes'[q] = votes[q] /\ log'[q] = log[q]
         /\ \A q \in Server \ {s} : matched'[q] = matched[q]
         /\ \A q \in Server \ {r} : matched'[s][q] = matched[s][q]
         /\ commit'[r] \in {commit[s], commit[r]}
         /\ \A q \in Server \ {s, r} : commit'[q] = commit[q]
<1> DEFINE told == [matched[s] EXCEPT ![r] = log[s].last]
<1>1. /\ s # r /\ state' = state /\ state[r].term = state[s].term
      /\ role[s] = "leader" /\ role'[r] = "follower"
      /\ \A q \in Server \ {r} : role'[q] = role[q] /\ votes'[q] = votes[q] /\ log'[q] = log[q]
      /\ \A q \in Server \ {s} : matched'[q] = matched[q]
      /\ matched'[s] = told \/ matched'[s] = matched[s]
      /\ \A x \in Server \ {r} : told[x] = matched[s][x]
      /\ commit'[r] = IF commit[s] > commit[r] THEN commit[s] ELSE commit[r]
      /\ \A q \in Server \ {s, r} : commit'[q] = commit[q]
  BY CopiesIs
<1> HIDE DEF told
<1> QED
  BY <1>1

\* After the step q has the log that x had before.
TakesOver(q, x) ==
    /\ log'[q].last = log[x].last
    /\ \A i \in 1 .. log[x].last : log'[q].entries[i] = log[x].entries[i]
    /\ Store!TermsAscend(log'[q])
    /\ state[x].term <= state'[q].term

LEMMA LogsMove ==
  ASSUME Sound, [ClusterNext]_clusterVars, ~stale'
  PROVE  \/ \E s \in Server : Adds(s)
         \/ \A q \in Server : \E x \in Server : TakesOver(q, x)
<1>0. TypeOK /\ ClusterTypeOK /\ LogsRise
  BY DEF Sound
<1>1. \A q \in Server : state[q].term <= state'[q].term
  <2> TAKE q \in Server
  <2>1. KeepsVote(state[q], state'[q])
    BY <1>0, BallotsMove
  <2>2. state[q].term \in Nat /\ state'[q].term \in Nat
    BY <1>0, Casts, ClusterStep, NextType DEF TypeOK, Ballots
  <2> QED
    BY <2>1, <2>2 DEF KeepsVote
<1>2. \A q \in Server : log'[q] = log[q] => TakesOver(q, q)
  BY <1>0, <1>1 DEF TakesOver, LogsRise
<1>3. ASSUME NEW s \in Server, NEW r \in Server, Replicate(s, r), NEW q \in Server
      PROVE  \E x \in Server : TakesOver(q, x)
  <2>1. CASE q = r
    <3>1. /\ log'[r].last = log[s].last
          /\ \A i \in 1 .. log[s].last : log'[r].entries[i] = log[s].entries[i]
          /\ Store!TermsAscend(log'[r])
      BY <1>3, ReplicateCopies
    <3>2. state[s].term <= state'[r].term
      <4>1. state' = state /\ state[r].term = state[s].term
        BY <1>3, CopyFrame
      <4> QED
        BY <1>1, <4>1
    <3>3. TakesOver(r, s)
      BY <3>1, <3>2 DEF TakesOver
    <3> QED
      BY <2>1, <3>3
  <2>2. CASE q # r
    BY <1>2, <1>3, <2>2, ReplicateCopies
  <2> QED
    BY <2>1, <2>2
<1>4. CASE Still
  BY <1>2, <1>4 DEF Still
<1> QED
  BY <1>0, <1>3, <1>4, StepsAre

LEMMA MatchStep ==
  ASSUME Sound, [ClusterNext]_clusterVars, ~stale'
  PROVE  LogsMatch'
<1> SUFFICES ASSUME NEW a \in Server, NEW b \in Server, NEW i \in 1 .. log'[a].last,
                    NEW k \in 1 .. log'[b].last, i <= k,
                    log'[a].entries[i].term = log'[b].entries[k].term, NEW j \in 1 .. i
             PROVE  log'[a].entries[j] = log'[b].entries[j]
  BY DEF LogsMatch
<1>0. /\ LogsMatch /\ \A q \in Server : log[q].last \in Nat
  BY LogsWhole DEF Sound
<1>1. CASE \A q \in Server : \E x \in Server : TakesOver(q, x)
  <2>1. PICK x \in Server, y \in Server : TakesOver(a, x) /\ TakesOver(b, y)
    BY <1>1
  <2>2. i \in 1 .. log[x].last /\ k \in 1 .. log[y].last
    BY <2>1 DEF TakesOver
  <2>3. j \in 1 .. log[x].last /\ j \in 1 .. log[y].last
    BY <1>0, <2>2
  <2>4. log[x].entries[i].term = log[y].entries[k].term
    BY <2>1, <2>2 DEF TakesOver
  <2>5. log[x].entries[j] = log[y].entries[j]
    BY <1>0, <2>2, <2>4 DEF LogsMatch
  <2> QED
    BY <2>1, <2>3, <2>5 DEF TakesOver
<1>2. ASSUME NEW s \in Server, Adds(s) PROVE log'[a].entries[j] = log'[b].entries[j]
  <2> DEFINE n == log[s].last + 1
             T == state[s].term
  <2>1. /\ \A q \in Server \ {s} : log'[q] = log[q]
        /\ log'[s].last = n /\ log'[s].entries[n].term = T
        /\ \A m \in 1 .. log[s].last : log'[s].entries[m] = log[s].entries[m]
        /\ \A q \in Server : \A m \in 1 .. log[q].last :
             log[q].entries[m].term = T => Holds(s, m, T)
    <3>1. Entry(T, s).term = T
      BY DEF Entry
    <3> QED
      BY <1>2, <3>1, AddsIs
  <2>2. CASE a = s /\ b = s
    BY <2>2
  <2>3. CASE a = s /\ b # s /\ i = n
    <3>1. k \in 1 .. log[b].last /\ log[b].entries[k].term = T
      BY <2>1, <2>3
    <3>2. Holds(s, k, T)
      BY <2>1, <3>1
    <3> QED
      BY <1>0, <2>3, <3>2 DEF Holds
  <2>4. CASE a # s /\ b = s /\ k = n
    <3>1. i \in 1 .. log[a].last /\ log[a].entries[i].term = T /\ log'[a] = log[a]
      BY <2>1, <2>4
    <3>2. i \in 1 .. log[s].last /\ log[s].entries[i].term = T
      BY <2>1, <3>1 DEF Holds
    <3>3. log[a].entries[j] = log[s].entries[j]
      BY <1>0, <3>1, <3>2 DEF LogsMatch
    <3> QED
      BY <1>0, <2>1, <2>4, <3>1, <3>2, <3>3
  <2>5. CASE ~(a = s /\ i = n) /\ ~(b = s /\ k = n)
    <3>1. i \in 1 .. log[a].last /\ k \in 1 .. log[b].last
      BY <1>0, <2>1, <2>5
    <3>2. ASSUME NEW q \in Server, NEW m \in 1 .. log[q].last
          PROVE  log'[q].entries[m] = log[q].entries[m]
      <4>1. CASE q = s
        BY <2>1, <4>1
      <4>2. CASE q # s
        BY <2>1, <4>2
      <4> QED
        BY <4>1, <4>2
    <3>3. log[a].entries[j] = log[b].entries[j]
      BY <1>0, <3>1, <3>2 DEF LogsMatch
    <3>4. j \in 1 .. log[a].last /\ j \in 1 .. log[b].last
      BY <1>0, <3>1
    <3> QED
      BY <3>2, <3>3, <3>4
  <2> QED
    BY <2>2, <2>3, <2>4, <2>5
<1> QED
  BY <1>1, <1>2, LogsMove

\* Who has won an election does not stand in it again.
LEMMA WinnerStays ==
  ASSUME TypeOK, [ClusterNext]_clusterVars, NEW t \in Nat, NEW x \in Server, Elected(t, x),
         t <= state[x].term, role[x] = "candidate" => t < state[x].term
  PROVE  /\ Elected(t, x)' /\ t <= state'[x].term
         /\ role'[x] = "candidate" => t < state'[x].term
<1>1. Elected(t, x)'
  BY ElectedStays
<1>2. /\ state[x].term \in Nat /\ state'[x].term \in Nat /\ state[x].term <= state'[x].term
  <2>1. KeepsVote(state[x], state'[x])
    BY BallotsMove
  <2>2. state[x].term \in Nat /\ state'[x].term \in Nat
    BY Casts, ClusterStep, NextType DEF TypeOK, Ballots
  <2> QED
    BY <2>1, <2>2 DEF KeepsVote
<1>3. ASSUME role'[x] = "candidate" PROVE t < state'[x].term
  <2>1. Stays(x) \/ GetsVote(x) \/ Begins(x)
    BY <1>3, CampaignsMove DEF Campaigns
  <2>2. Lead(x) => role'[x] = "leader"
    BY DEF Lead, BecomeLeader, TypeOK
  <2> QED
    BY <1>2, <1>3, <2>1, <2>2 DEF Stays, GetsVote, Begins
<1> QED
  BY <1>1, <1>2, <1>3

LEMMA RiseStep ==
  ASSUME Sound, [ClusterNext]_clusterVars, ~stale'
  PROVE  LogsRise'
<1>0. TypeOK /\ ClusterTypeOK /\ LogsRise /\ TypeOK' /\ ClusterTypeOK'
  BY ClusterStep, NextType, ClusterTypeStep DEF Sound
<1> DEFINE RisenEntry(q, e) ==
             \E t \in Nat, x \in Server :
               /\ t = e.term /\ x = e.from
               /\ Elected(t, x)' /\ t <= state'[q].term /\ t <= state'[x].term
               /\ role'[x] = "candidate" => t < state'[x].term
<1>1. ASSUME NEW q \in Server, NEW y \in Server, state[y].term <= state'[q].term,
             NEW i \in 1 .. log[y].last
      PROVE  RisenEntry(q, log[y].entries[i])
  <2>1. PICK t \in Nat, x \in Server : t = log[y].entries[i].term /\ x = log[y].entries[i].from
    BY <1>0, EntryIs
  <2>2. /\ Elected(t, x) /\ t <= state[y].term /\ t <= state[x].term
        /\ role[x] = "candidate" => t < state[x].term
    BY <1>0, <2>1, EntryIs
  <2>3. t <= state'[q].term
    <3>1. state'[q].term \in Nat /\ state[y].term \in Nat
      BY <1>0, Casts DEF TypeOK, Ballots
    <3> QED
      BY <1>1, <2>2, <3>1
  <2>4. /\ Elected(t, x)' /\ t <= state'[x].term
        /\ role'[x] = "candidate" => t < state'[x].term
    BY <1>0, <2>2, WinnerStays
  <2> QED
    BY <2>1, <2>3, <2>4
<1>a. ASSUME \A q \in Server : /\ Store!TermsAscend(log'[q])
                              /\ \A i \in 1 .. log'[q].last : RisenEntry(q, log'[q].entries[i])
      PROVE  LogsRise'
  BY <1>a DEF LogsRise
<1>2. CASE \A q \in Server : \E x \in Server : TakesOver(q, x)
  <2>1. ASSUME NEW q \in Server, NEW i \in 1 .. log'[q].last PROVE RisenEntry(q, log'[q].entries[i])
    <3>1. PICK y \in Server : TakesOver(q, y)
      BY <1>2
    <3>2. /\ i \in 1 .. log[y].last /\ log'[q].entries[i] = log[y].entries[i]
          /\ state[y].term <= state'[q].term
      BY <3>1 DEF TakesOver
    <3>3. RisenEntry(q, log[y].entries[i])
      BY <1>1, <3>2
    <3> QED
      BY <3>2, <3>3
  <2>2. \A q \in Server : Store!TermsAscend(log'[q])
    BY <1>2 DEF TakesOver
  <2> HIDE DEF RisenEntry
  <2> QED
    BY <1>a, <2>1, <2>2
<1>3. ASSUME NEW s \in Server, Adds(s) PROVE LogsRise'
  <2> DEFINE n == log[s].last + 1
             T == state[s].term
  <2>1. /\ state' = state /\ role'[s] = "leader" /\ Elected(T, s)
        /\ \A q \in Server \ {s} : log'[q] = log[q]
        /\ log'[s].last = n /\ log'[s].entries[n] = Entry(T, s)
        /\ \A m \in 1 .. log[s].last : log'[s].entries[m] = log[s].entries[m]
    BY <1>3, AddsIs
  <2>2. \A q \in Server : state[q].term \in Nat /\ log[q].last \in Nat
    BY <1>0, Casts, LogsWhole
  <2>3. Entry(T, s).term = T /\ Entry(T, s).from = s
    BY DEF Entry
  <2>4. RisenEntry(s, Entry(T, s))
    <3>1. PICK t \in Nat : t = T
      BY <2>2
    <3>2. Elected(t, s)'
      BY <1>0, <2>1, <3>1, ElectedStays
    <3> QED
      BY <2>1, <2>2, <2>3, <3>1, <3>2
  <2>5. ASSUME NEW q \in Server, NEW i \in 1 .. log'[q].last
        PROVE  RisenEntry(q, log'[q].entries[i])
    <3>1. CASE q = s /\ i = n
      BY <2>1, <2>4, <3>1
    <3>2. CASE ~(q = s /\ i = n)
      <4>1. i \in 1 .. log[q].last /\ log'[q].entries[i] = log[q].entries[i]
        BY <2>1, <2>2, <3>2
      <4> QED
        BY <1>1, <2>1, <2>2, <4>1
    <3> QED
      BY <3>1, <3>2
  <2>6. Store!TermsAscend(log'[s])
    <3>0. Whole(log'[s]) /\ log'[s].last = n /\ Whole(log[s]) /\ log[s].last \in Nat
      BY <1>0, <2>1, LogsWhole DEF ClusterTypeOK, Whole
    <3>1. /\ DOMAIN log'[s].entries = 0 .. n
          /\ \A i \in 0 .. n : Store!TermAt(log'[s], i) = log'[s].entries[i].term
      BY <3>0, WholeIs
    <3>2. log'[s].entries[0].term = 0
      BY <1>0, ClusterAssumption DEF ClusterTypeOK, Entry
    <3>3. \A i \in 1 .. n : log'[s].entries[i].term \in Nat /\ log'[s].entries[i].term <= T
      <4>1. \A i \in 1 .. log[s].last : log[s].entries[i].term \in Nat /\ log[s].entries[i].term <= T
        BY <1>0, EntryIs
      <4> QED
        BY <2>1, <2>2, <2>3, <4>1
    <3>4. \A i, j \in 1 .. n : i <= j => log'[s].entries[i].term <= log'[s].entries[j].term
      <4>1. \A i, j \in 1 .. log[s].last : i <= j => log[s].entries[i].term <= log[s].entries[j].term
        BY <1>0, EntryIs
      <4>2. ASSUME NEW i \in 1 .. n, NEW j \in 1 .. n, i <= j
            PROVE  log'[s].entries[i].term <= log'[s].entries[j].term
        <5>1. CASE j = n
          BY <2>1, <2>3, <3>3, <5>1
        <5>2. CASE j # n
          BY <2>1, <2>2, <4>1, <4>2, <5>2
        <5> QED
          BY <5>1, <5>2
      <4> QED
        BY <4>2
    <3>5. \A i, j \in 0 .. n : i <= j => log'[s].entries[i].term <= log'[s].entries[j].term
      <4> SUFFICES ASSUME NEW i \in 0 .. n, NEW j \in 0 .. n, i <= j
                   PROVE  log'[s].entries[i].term <= log'[s].entries[j].term
        OBVIOUS
      <4>1. CASE i # 0
        BY <3>0, <3>4, <4>1
      <4>2. CASE i = 0 /\ j = 0
        BY <3>2, <4>2
      <4>3. CASE i = 0 /\ j # 0
        BY <3>0, <3>2, <3>3, <4>3
      <4> QED
        BY <4>1, <4>2, <4>3
    <3> QED
      BY <3>1, <3>5 DEF Store!TermsAscend
  <2>7. \A q \in Server : Store!TermsAscend(log'[q])
    BY <1>0, <2>1, <2>6 DEF LogsRise
  <2> HIDE DEF RisenEntry
  <2> QED
    BY <1>a, <2>5, <2>7
<1> QED
  BY <1>2, <1>3, LogsMove

LEMMA HoldStep ==
  ASSUME Sound, [ClusterNext]_clusterVars, ~stale'
  PROVE  LeadersHold'
<1>0. /\ TypeOK /\ ClusterTypeOK /\ LeadersHold /\ ElectionInv /\ ~forgot
      /\ \A q \in Server : log[q].last \in Nat
  BY LogsWhole DEF Sound
<1> DEFINE Held(q, i, t) == i \in 1 .. log'[q].last /\ log'[q].entries[i].term = t
           Good(l) == LET T == state'[l].term IN
             /\ Held(l, log'[l].last, T)
             /\ \A s \in Server : \A i \in 1 .. log'[s].last : Held(s, i, T) => Held(l, i, T)
             /\ \A r \in Server : matched'[l][r] = 0 \/ Held(l, matched'[l][r], T)
<1> SUFFICES ASSUME NEW l \in Server, role'[l] = "leader" PROVE Good(l)
  BY DEF LeadersHold, Holds
<1>a. role[l] = "leader" =>
        LET T == state[l].term IN
        /\ Holds(l, log[l].last, T)
        /\ \A s \in Server : \A i \in 1 .. log[s].last : Holds(s, i, T) => Holds(l, i, T)
        /\ \A r \in Server : matched[l][r] = 0 \/ Holds(l, matched[l][r], T)
  BY <1>0 DEF LeadersHold
<1>1. CASE Still
  BY <1>1, <1>a DEF Still, Holds
<1>2. ASSUME NEW s \in Server, Adds(s) PROVE Good(l)
  <2> DEFINE n == log[s].last + 1
             T == state[s].term
  <2>1. /\ state' = state /\ Elected(T, s) /\ n \in Nat \ {0}
        /\ \A q \in Server \ {s} : role'[q] = role[q] /\ matched'[q] = matched[q] /\ log'[q] = log[q]
        /\ \A r \in Server : matched'[s][r] = 0 \/ Holds(s, matched'[s][r], T)
        /\ log'[s].last = n /\ log'[s].entries[n] = Entry(T, s)
        /\ \A i \in 1 .. log[s].last : log'[s].entries[i] = log[s].entries[i]
        /\ \A q \in Server : \A i \in 1 .. log[q].last :
             log[q].entries[i].term = T => Holds(s, i, T)
    BY <1>2, AddsIs
  <2>2. Entry(T, s).term = T
    BY DEF Entry
  <2>3. \A i : Holds(s, i, T) => Held(s, i, T)
    BY <1>0, <2>1 DEF Holds
  <2>4. Held(s, n, T)
    BY <2>1, <2>2
  <2>5. CASE l = s
    <3>1. \A q \in Server : \A i \in 1 .. log'[q].last : Held(q, i, T) => Held(s, i, T)
      BY <1>0, <2>1, <2>3, <2>4
    <3> QED
      BY <2>1, <2>3, <2>4, <2>5, <3>1
  <2>6. CASE l # s
    <3>1. role[l] = "leader" /\ log'[l] = log[l] /\ matched'[l] = matched[l]
      BY <2>1, <2>6
    <3>2. state[l].term # T
      BY <1>0, <2>1, <2>6, <3>1, NoRival
    <3>3. \A q \in Server : \A i \in 1 .. log'[q].last :
            Held(q, i, state[l].term) => Holds(q, i, state[l].term)
      BY <1>0, <2>1, <2>2, <3>2 DEF Holds
    <3> QED
      BY <1>a, <2>1, <3>1, <3>3 DEF Holds
  <2> QED
    BY <2>5, <2>6
<1>3. ASSUME NEW s \in Server, NEW r \in Server, Replicate(s, r) PROVE Good(l)
  <2> DEFINE told == [matched[s] EXCEPT ![r] = log[s].last]
             T == state[l].term
  <2>1. /\ s # r /\ state' = state /\ role'[r] = "follower"
        /\ \A q \in Server \ {r} : role'[q] = role[q] /\ log'[q] = log[q]
        /\ \A q \in Server \ {s} : matched'[q] = matched[q]
        /\ matched'[s] = told \/ matched'[s] = matched[s]
        /\ \A x \in Server : told[x] = 0 \/ Holds(s, told[x], state[s].term)
    BY <1>3, CopiesIs
  <2>2. /\ log'[r].last = log[s].last
        /\ \A i \in 1 .. log[s].last : log'[r].entries[i] = log[s].entries[i]
    BY <1>3, ReplicateCopies
  <2> HIDE DEF told
  <2>3. l # r /\ role[l] = "leader" /\ log'[l] = log[l]
    BY <2>1
  <2>4. \A q \in Server : \A i \in 1 .. log'[q].last : Held(q, i, T) => Held(l, i, T)
    <3>1. \A i \in 1 .. log'[r].last : Held(r, i, T) => Holds(s, i, T)
      BY <2>2 DEF Holds
    <3> QED
      BY <1>a, <2>1, <2>2, <2>3, <3>1 DEF Holds
  <2>5. \A x \in Server : matched'[l][x] = 0 \/ Held(l, matched'[l][x], T)
    BY <1>a, <2>1, <2>3 DEF Holds
  <2> QED
    BY <1>a, <2>1, <2>3, <2>4, <2>5 DEF Holds
<1> QED
  BY <1>0, <1>1, <1>2, <1>3, StepsAre
-----------------------------------------------------------------------------
\* Nobody gives up an entry that somebody stands by.
LEMMA PledgedHolds ==
  ASSUME Sound, [ClusterNext]_clusterVars, ~stale',
         NEW t \in Nat, NEW i \in Nat \ {0}, NEW A \in SUBSET Server, Pledged(t, i, A),
         NEW q \in Server, Holds(q, i, t)
  PROVE  Holds(q, i, t)'
<1>0. /\ TypeOK /\ ClusterTypeOK /\ LogsRise /\ LeadersHold
      /\ \A s \in Server : log[s].last \in Nat
      /\ \A s \in Server : \A k \in 1 .. log[s].last :
           log[s].entries[k].term > t => Holds(s, i, t)
  BY LogsWhole DEF Sound, Pledged
<1>1. CASE Still
  BY <1>1 DEF Still, Holds
<1>2. ASSUME NEW s \in Server, Adds(s) PROVE Holds(q, i, t)'
  <2>1. /\ \A x \in Server \ {s} : log'[x] = log[x]
        /\ log'[s].last = log[s].last + 1
        /\ \A m \in 1 .. log[s].last : log'[s].entries[m] = log[s].entries[m]
    BY <1>2, AddsIs
  <2> QED
    BY <1>0, <2>1 DEF Holds
<1>3. ASSUME NEW s \in Server, NEW r \in Server, Replicate(s, r) PROVE Holds(q, i, t)'
  <2> DEFINE T == state[s].term
  <2>1. role[s] = "leader" /\ state[r].term = T
    BY <1>3, CopyFrame
  <2>2. /\ \A x \in Server \ {r} : log'[x] = log[x]
        /\ log'[r].last = log[s].last
        /\ \A m \in 1 .. log[s].last : log'[r].entries[m] = log[s].entries[m]
    BY <1>3, ReplicateCopies
  <2>3. ASSUME q = r PROVE Holds(s, i, t)
    <3>1. t <= T /\ T \in Nat
      BY <1>0, <2>1, <2>3, EntryIs, Casts DEF Holds
    <3>2. Holds(s, log[s].last, T)
      BY <1>0, <2>1 DEF LeadersHold
    <3>3. CASE t = T
      <4>1. i \in 1 .. log[r].last
        BY <2>3 DEF Holds
      <4> QED
        BY <1>0, <2>1, <2>3, <3>3, <4>1 DEF LeadersHold
    <3>4. CASE t < T
      BY <1>0, <3>2, <3>4 DEF Holds
    <3> QED
      BY <3>1, <3>3, <3>4
  <2>4. CASE q = r
    BY <2>2, <2>3, <2>4 DEF Holds
  <2>5. CASE q # r
    BY <2>2, <2>5 DEF Holds
  <2> QED
    BY <2>4, <2>5
<1> QED
  BY <1>0, <1>1, <1>2, <1>3, StepsAre

\* What server c must have to get the vote of q, which stands by an entry.
LEMMA PledgedVotes ==
  ASSUME Sound, NEW t \in Nat, NEW i \in Nat \ {0}, NEW A \in SUBSET Server, Pledged(t, i, A),
         NEW q \in A, NEW c \in Server, UpToDate(log[c], log[q])
  PROVE  Holds(c, i, t)
<1>0. /\ TypeOK /\ ClusterTypeOK /\ LogsRise /\ LogsMatch /\ q \in Server
      /\ Holds(q, i, t)
      /\ \A k \in 1 .. log[c].last : log[c].entries[k].term > t => Holds(c, i, t)
  BY DEF Sound, Pledged
<1> DEFINE m == log[q].last
           n == log[c].last
           M == log[q].entries[m].term
           N == log[c].entries[n].term
<1>1. /\ Whole(log[q]) /\ Whole(log[c]) /\ m \in Nat /\ n \in Nat
      /\ log[c].entries[0] = Dummy
  BY <1>0, LogsWhole
<1>2. m \in 1 .. m /\ i \in 1 .. m /\ t <= M /\ M \in Nat
  <2>1. i \in 1 .. m /\ m \in 1 .. m /\ log[q].entries[i].term = t
    BY <1>0, <1>1 DEF Holds
  <2>2. log[q].entries[i].term <= M /\ M \in Nat
    BY <1>0, <1>1, <2>1, EntryIs
  <2> QED
    BY <2>1, <2>2
<1>3. N > M \/ (N = M /\ n >= m)
  <2>1. /\ Store!LastTerm(log[c]) = N /\ Store!LastTerm(log[q]) = M
        /\ Store!NextSlot(log[c]) = n + 1 /\ Store!NextSlot(log[q]) = m + 1
    BY <1>1, WholeIs
  <2> QED
    BY <1>1, <2>1 DEF UpToDate
<1>4. n # 0
  <2>1. Dummy.term = 0
    BY ClusterAssumption DEF Entry
  <2>2. CASE n = 0
    BY <1>1, <1>2, <1>3, <2>1, <2>2
  <2> QED
    BY <2>2
<1>5. n \in 1 .. n
  BY <1>1, <1>4
<1>6. N \in Nat
  BY <1>0, <1>5, EntryIs
<1>7. CASE N > t
  BY <1>0, <1>5, <1>7
<1>8. CASE ~(N > t)
  <2>1. N = M /\ M = t /\ n >= m
    BY <1>2, <1>3, <1>6, <1>8
  <2>2. log[q].entries[i] = log[c].entries[i]
    BY <1>0, <1>2, <1>5, <2>1 DEF LogsMatch
  <2>3. i \in 1 .. n
    BY <1>1, <1>2, <2>1
  <2> QED
    BY <1>0, <2>2, <2>3 DEF Holds
<1> QED
  BY <1>7, <1>8

(***************************************************************************)
(* A pledge is kept until somebody becomes the leader of a later term      *)
(* without the entry, and then with the votes of others only.              *)
(***************************************************************************)
Overtakes(c, t, A) == Lead(c) /\ state[c].term > t /\ votes[c] \cap A = {}

LEMMA PledgedStays ==
  ASSUME Sound, [ClusterNext]_clusterVars, ~stale',
         NEW t \in Nat, NEW i \in Nat \ {0}, NEW A \in SUBSET Server, Pledged(t, i, A),
         \A c \in Server : ~Overtakes(c, t, A)
  PROVE  Pledged(t, i, A)'
<1>0. /\ TypeOK /\ ClusterTypeOK /\ LogsRise /\ LeadersHold
      /\ \A s \in Server : log[s].last \in Nat /\ state[s].term \in Nat /\ state'[s].term \in Nat
  BY LogsWhole, Casts, ClusterStep, NextType DEF Sound, TypeOK, Ballots
<1>1. /\ \A q \in A : Holds(q, i, t) /\ t <= state[q].term
      /\ \A c \in Server :
           Campaigns(c) /\ state[c].term > t /\ ~Holds(c, i, t) => votes[c] \cap A = {}
      /\ \A s \in Server : \A k \in 1 .. log[s].last :
           log[s].entries[k].term > t => Holds(s, i, t)
  BY DEF Pledged
<1>2. \A q \in Server : Holds(q, i, t) => Holds(q, i, t)'
  BY PledgedHolds
<1>3. \A q \in A : Holds(q, i, t)' /\ t <= state'[q].term
  <2> TAKE q \in A
  <2>1. KeepsVote(state[q], state'[q]) /\ q \in Server
    BY <1>0, BallotsMove
  <2> QED
    BY <1>0, <1>1, <1>2, <2>1 DEF KeepsVote
<1>4. ASSUME NEW c \in Server, Campaigns(c)', state'[c].term > t, ~Holds(c, i, t)'
      PROVE  votes'[c] \cap A = {}
  <2>1. ~Holds(c, i, t)
    BY <1>2, <1>4
  <2>2. CASE Stays(c)
    BY <1>1, <1>4, <2>1, <2>2 DEF Stays
  <2>3. CASE GetsVote(c)
    <3>1. PICK v \in Server : AskVote(v, c) /\ votes'[c] = votes[c] \cup {v}
      BY <2>3 DEF GetsVote
    <3>2. votes[c] \cap A = {}
      BY <1>1, <1>4, <2>1, <2>3 DEF GetsVote
    <3>3. v \notin A
      BY <2>1, <3>1, PledgedVotes DEF AskVote
    <3> QED
      BY <3>1, <3>2, <3>3
  <2>4. CASE Begins(c)
    BY <1>1, <2>1, <2>4 DEF Begins
  <2> QED
    BY <1>0, <1>4, <2>2, <2>3, <2>4, CampaignsMove
<1>5. ASSUME NEW s \in Server, NEW k \in 1 .. log'[s].last, log'[s].entries[k].term > t
      PROVE  Holds(s, i, t)'
  <2>1. CASE Still
    BY <1>1, <1>2, <1>5, <2>1 DEF Still
  <2>2. ASSUME NEW r \in Server, Adds(r) PROVE Holds(s, i, t)'
    <3> DEFINE n == log[r].last + 1
    <3>1. /\ \A q \in Server \ {r} : log'[q] = log[q]
          /\ log'[r].last = n /\ log'[r].entries[n] = Entry(state[r].term, r)
          /\ \A m \in 1 .. log[r].last : log'[r].entries[m] = log[r].entries[m]
      BY <2>2, AddsIs
    <3>2. CASE s = r /\ k = n
      <4>1. state[r].term > t
        BY <1>5, <3>1, <3>2 DEF Entry
      <4>2. Holds(r, i, t)
        <5>1. CASE Lead(r)
          BY <1>1, <4>1, <5>1 DEF Overtakes, Lead, BecomeLeader, Campaigns
        <5>2. CASE TakeCommand(r)
          BY <1>0, <1>1, <4>1, <5>2 DEF TakeCommand, LeadersHold, Holds
        <5> QED
          BY <2>2, <5>1, <5>2 DEF Adds
      <4> QED
        BY <1>2, <3>2, <4>2
    <3>3. CASE ~(s = r /\ k = n)
      <4>1. k \in 1 .. log[s].last /\ log[s].entries[k].term > t
        BY <1>0, <1>5, <3>1, <3>3
      <4> QED
        BY <1>1, <1>2, <4>1
    <3> QED
      BY <3>2, <3>3
  <2>3. ASSUME NEW l \in Server, NEW r \in Server, Replicate(l, r) PROVE Holds(s, i, t)'
    <3>1. /\ \A q \in Server \ {r} : log'[q] = log[q]
          /\ log'[r].last = log[l].last
          /\ \A m \in 1 .. log[l].last : log'[r].entries[m] = log[l].entries[m]
      BY <2>3, ReplicateCopies
    <3>2. CASE s = r
      <4>1. Holds(l, i, t)
        BY <1>1, <1>5, <3>1, <3>2
      <4> QED
        BY <3>1, <3>2, <4>1 DEF Holds
    <3>3. CASE s # r
      BY <1>1, <1>2, <1>5, <3>1, <3>3
    <3> QED
      BY <3>2, <3>3
  <2> QED
    BY <1>0, <2>1, <2>2, <2>3, StepsAre
<1> QED
  BY <1>3, <1>4, <1>5 DEF Pledged

\* A quorum's pledge is kept for ever.
LEMMA QuorumStays ==
  ASSUME Sound, [ClusterNext]_clusterVars, ~stale',
         NEW t \in Nat, NEW i \in Nat \ {0}, NEW Q \in SUBSET Server, IsQuorum(Q),
         Pledged(t, i, Q)
  PROVE  Pledged(t, i, Q)'
<1>1. ASSUME NEW c \in Server, Overtakes(c, t, Q) PROVE FALSE
  <2>1. IsQuorum(votes[c]) /\ votes[c] \in SUBSET Server
    BY <1>1 DEF Overtakes, Lead, BecomeLeader, IsQuorum, Sound, TypeOK
  <2> QED
    BY <1>1, <2>1, QuorumsMeet DEF Overtakes
<1> QED
  BY <1>1, PledgedStays
-----------------------------------------------------------------------------
\* A leader that can no longer commit an entry never will.
LEMMA LostStays ==
  ASSUME Sound, [ClusterNext]_clusterVars, ~stale', NEW l \in Server, NEW i \in Nat \ {0},
         role[l] = "leader", role'[l] = "leader", state'[l].term = state[l].term, Lost(l, i)
  PROVE  Lost(l, i)'
<1>0. TypeOK /\ ClusterTypeOK
  BY DEF Sound
<1>1. PICK Q \in SUBSET Server :
        IsQuorum(Q) /\ \A q \in Q : state[q].term > state[l].term /\ matched[l][q] < i
  BY DEF Lost
<1>2. ASSUME NEW q \in Q PROVE state'[q].term > state'[l].term
  <2>1. /\ KeepsVote(state[q], state'[q])
        /\ state[q].term \in Nat /\ state[l].term \in Nat /\ state'[q].term \in Nat
    BY <1>0, BallotsMove, Casts, ClusterStep, NextType DEF TypeOK, Ballots
  <2> QED
    BY <1>1, <2>1 DEF KeepsVote
<1>3. ASSUME NEW q \in Q PROVE matched'[l][q] < i
  <2>1. CASE Still
    BY <1>1, <2>1 DEF Still
  <2>2. ASSUME NEW s \in Server, Adds(s) PROVE matched'[l][q] < i
    <3>1. CASE s = l
      BY <1>1, <2>2, <3>1 DEF Adds, Lead, BecomeLeader, TakeCommand
    <3>2. CASE s # l
      <4>1. matched'[l] = matched[l]
        BY <2>2, <3>2, AddsIs
      <4> QED
        BY <1>1, <4>1
    <3> QED
      BY <3>1, <3>2
  <2>3. ASSUME NEW s \in Server, NEW r \in Server, Replicate(s, r) PROVE matched'[l][q] < i
    <3>1. /\ state[r].term = state[s].term
          /\ \A x \in Server \ {s} : matched'[x] = matched[x]
          /\ \A x \in Server \ {r} : matched'[s][x] = matched[s][x]
      BY <2>3, CopyFrame
    <3>2. CASE s = l
      <4>1. state[q].term \in Nat /\ state[l].term \in Nat
        BY <1>0, Casts
      <4>2. q # r
        BY <1>1, <3>1, <3>2, <4>1
      <4> QED
        BY <1>1, <3>1, <3>2, <4>2
    <3>3. CASE s # l
      BY <1>1, <3>1, <3>3
    <3> QED
      BY <3>2, <3>3
  <2> QED
    BY <1>0, <2>1, <2>2, <2>3, StepsAre
<1>4. IsQuorum(Q)'
  BY <1>1 DEF IsQuorum, Majority
<1> QED
  BY <1>2, <1>3, <1>4 DEF Lost

\* The pledge that a leader's new entry starts with, unless its time is over.
LEMMA NewPledge ==
  ASSUME Sound, NEW l \in Server, Adds(l), NEW T \in Nat, T = state[l].term,
         NEW n \in Nat, n = log[l].last + 1, NEW A, A = Acknowledged(l, n)'
  PROVE  Pledged(T, n, A)' \/ Lost(l, n)'
<1>0. /\ TypeOK /\ ClusterTypeOK /\ LogsRise /\ ElectionInv /\ ~forgot
      /\ \A q \in Server : log[q].last \in Nat /\ state[q].term \in Nat
  BY LogsWhole, Casts DEF Sound
<1>1. /\ state' = state /\ votes' = votes
      /\ \A q \in Server \ {l} : role'[q] = role[q] /\ log'[q] = log[q]
      /\ \A r \in Server : matched'[l][r] = 0 \/ Holds(l, matched'[l][r], T)
      /\ log'[l].last = n /\ log'[l].entries[n] = Entry(T, l)
      /\ \A i \in 1 .. log[l].last : log'[l].entries[i] = log[l].entries[i]
  BY AddsIs
<1>2. Entry(T, l).term = T
  BY DEF Entry
<1>3. \A r \in Server : matched'[l][r] < n
  BY <1>0, <1>1 DEF Holds
<1>4. A = {l}
  <2>1. \A r \in Server : ~(matched'[l][r] >= n)
    BY <1>0, <1>1 DEF Holds
  <2> QED
    BY <2>1 DEF Acknowledged
<1>5. CASE \E s \in Server : \E k \in 1 .. log[s].last : log[s].entries[k].term > T
  <2>1. PICK s \in Server : \E k \in 1 .. log[s].last : log[s].entries[k].term > T
    BY <1>5
  <2>2. PICK t \in Nat, x \in Server : Elected(t, x) /\ t > T
    BY <1>0, <2>1, EntryIs
  <2>3. PICK Q \in SUBSET Server :
          IsQuorum(Q) /\ \A q \in Q : state[q].term > t \/ state[q].term = t
    BY <2>2 DEF Elected
  <2>4. \A q \in Q : state'[q].term > state'[l].term /\ matched'[l][q] < n
    BY <1>0, <1>1, <1>3, <2>2, <2>3
  <2>5. IsQuorum(Q)'
    BY <2>3 DEF IsQuorum, Majority
  <2> QED
    BY <2>4, <2>5 DEF Lost
<1>6. CASE ~ \E s \in Server : \E k \in 1 .. log[s].last : log[s].entries[k].term > T
  <2>1. Holds(l, n, T)' /\ T <= state'[l].term
    BY <1>0, <1>1, <1>2 DEF Holds
  <2>2. ASSUME NEW c \in Server, Campaigns(c)', state'[c].term > T PROVE votes'[c] \cap {l} = {}
    <3>1. c # l /\ Campaigns(c)
      BY <1>0, <1>1, <2>2 DEF Campaigns
    <3>2. l \in votes[c] => state[l].term >= state[c].term
      BY <1>0, <3>1 DEF ElectionInv, VotesBind
    <3> QED
      BY <1>0, <1>1, <2>2, <3>2
  <2>3. \A s \in Server : \A k \in 1 .. log'[s].last : ~(log'[s].entries[k].term > T)
    <3> SUFFICES ASSUME NEW s \in Server, NEW k \in 1 .. log'[s].last
                 PROVE  ~(log'[s].entries[k].term > T)
      OBVIOUS
    <3>1. CASE s = l /\ k = n
      BY <1>1, <1>2, <3>1
    <3>2. CASE ~(s = l /\ k = n)
      <4>1. k \in 1 .. log[s].last /\ log'[s].entries[k] = log[s].entries[k]
        BY <1>0, <1>1, <3>2
      <4> QED
        BY <1>6, <4>1
    <3> QED
      BY <3>1, <3>2
  <2>4. Pledged(T, n, {l})'
    BY <2>1, <2>2, <2>3 DEF Pledged
  <2> QED
    BY <1>4, <2>4
<1> QED
  BY <1>5, <1>6

\* What becomes of the pledge behind an entry that a leader has already.
LEMMA OldPledge ==
  ASSUME Sound, [ClusterNext]_clusterVars, ~stale', NEW l \in Server,
         role[l] = "leader", role'[l] = "leader", NEW T \in Nat,
         state[l].term = T, state'[l].term = T, NEW i \in Nat \ {0}, Holds(l, i, T),
         NEW A, A = Acknowledged(l, i)'
  PROVE  Pledged(T, i, A)' \/ Lost(l, i)'
<1>0. /\ TypeOK /\ ClusterTypeOK /\ LeadersPledge /\ ElectionInv /\ ~forgot
      /\ \A q \in Server : state[q].term \in Nat /\ matched[l][q] \in Nat
  BY Casts DEF Sound, ClusterTypeOK
<1>1. PICK B \in SUBSET Server : B = Acknowledged(l, i)
  BY DEF Acknowledged
<1>2. Pledged(T, i, B) \/ Lost(l, i)
  <2>1. i \in 1 .. log[l].last
    BY DEF Holds
  <2> QED
    BY <1>0, <1>1, <2>1 DEF LeadersPledge
<1>3. CASE Lost(l, i)
  BY <1>3, LostStays
<1>4. ASSUME NEW c \in Server, Overtakes(c, T, B) PROVE Lost(l, i)'
  <2>1. /\ Lead(c) /\ role[c] = "candidate" /\ IsQuorum(votes[c]) /\ votes[c] \in SUBSET Server
        /\ state[c].term > T /\ votes[c] \cap B = {}
    BY <1>0, <1>4 DEF Overtakes, Lead, BecomeLeader, IsQuorum, TypeOK
  <2>2. c # l
    BY <2>1
  <2>3. state' = state /\ matched'[l] = matched[l]
    BY <2>1, <2>2, AddsIs DEF Adds
  <2>4. \A q \in votes[c] : state[q].term >= state[c].term
    BY <1>0, <2>1 DEF ElectionInv, VotesBind, Campaigns
  <2>5. \A q \in votes[c] : matched[l][q] < i
    BY <1>0, <1>1, <2>1 DEF Acknowledged
  <2>6. PICK Q \in SUBSET Server : Q = votes[c]
    BY <2>1
  <2>7. IsQuorum(Q)'
    BY <2>1, <2>6 DEF IsQuorum, Majority
  <2>8. \A q \in Q : state'[q].term > state'[l].term /\ matched'[l][q] < i
    BY <1>0, <2>1, <2>3, <2>4, <2>5, <2>6
  <2> QED
    BY <2>7, <2>8 DEF Lost
<1>5. CASE Pledged(T, i, B) /\ \A c \in Server : ~Overtakes(c, T, B)
  <2>1. Pledged(T, i, B)'
    BY <1>5, PledgedStays
  <2>2. CASE matched'[l] = matched[l]
    <3>1. A = B
      BY <1>1, <2>2 DEF Acknowledged
    <3> QED
      BY <2>1, <3>1
  <2>3. ASSUME NEW r \in Server, Replicate(l, r) PROVE Pledged(T, i, A)'
    <3>1. /\ state' = state /\ state[r].term = T /\ role'[r] = "follower"
          /\ \A q \in Server \ {r} : matched'[l][q] = matched[l][q]
          /\ \A q \in Server \ {r} : role'[q] = role[q] /\ votes'[q] = votes[q]
      BY <2>3, CopyFrame
    <3>2. Holds(r, i, T)'
      <4>1. /\ log'[r].last = log[l].last
            /\ \A m \in 1 .. log[l].last : log'[r].entries[m] = log[l].entries[m]
        BY <2>3, ReplicateCopies
      <4> QED
        BY <4>1 DEF Holds
    <3>3. \A c \in Server : Campaigns(c)' /\ state'[c].term > T => r \notin votes'[c]
      <4> SUFFICES ASSUME NEW c \in Server, Campaigns(c)', state'[c].term > T, r \in votes'[c]
                   PROVE  FALSE
        OBVIOUS
      <4>1. Campaigns(c) /\ r \in votes[c]
        BY <3>1 DEF Campaigns
      <4>2. state[r].term >= state[c].term
        BY <1>0, <4>1 DEF ElectionInv, VotesBind
      <4> QED
        BY <1>0, <3>1, <4>2
    <3>4. A \subseteq B \cup {r}
      BY <1>1, <3>1 DEF Acknowledged
    <3>5. T <= state'[r].term
      BY <3>1
    <3> QED
      BY <2>1, <3>2, <3>3, <3>4, <3>5 DEF Pledged
  <2>4. ASSUME NEW s \in Server, Adds(s) PROVE matched'[l] = matched[l]
    <3>1. CASE s = l
      BY <2>4, <3>1 DEF Adds, Lead, BecomeLeader, TakeCommand
    <3>2. CASE s # l
      BY <2>4, <3>2, AddsIs
    <3> QED
      BY <3>1, <3>2
  <2>5. ASSUME NEW s \in Server, NEW r \in Server, Replicate(s, r), s # l
        PROVE  matched'[l] = matched[l]
    BY <2>5, CopyFrame
  <2> QED
    BY <1>0, <2>2, <2>3, <2>4, <2>5, StepsAre DEF Still
<1> QED
  BY <1>2, <1>3, <1>4, <1>5

LEMMA PledgeStep ==
  ASSUME Sound, [ClusterNext]_clusterVars, ~stale'
  PROVE  LeadersPledge'
<1>0. TypeOK /\ ClusterTypeOK /\ TypeOK'
  BY ClusterStep, NextType DEF Sound
<1> SUFFICES ASSUME NEW l \in Server, NEW i \in 1 .. log'[l].last, role'[l] = "leader",
                    Holds(l, i, state[l].term)'
             PROVE  Pledged(state[l].term, i, Acknowledged(l, i))' \/ Lost(l, i)'
  BY DEF LeadersPledge
<1>1. PICK T \in Nat : T = state'[l].term
  BY <1>0, Casts DEF TypeOK, Ballots
<1>2. PICK A : A = Acknowledged(l, i)'
  OBVIOUS
<1>3. i \in Nat \ {0} /\ Holds(l, i, T)'
  BY <1>0, <1>1 DEF Holds
<1>4. ASSUME role[l] = "leader", state[l].term = T, Holds(l, i, T)
      PROVE  Pledged(T, i, A)' \/ Lost(l, i)'
  BY <1>1, <1>2, <1>3, <1>4, OldPledge
<1>5. ASSUME Still PROVE Pledged(T, i, A)' \/ Lost(l, i)'
  BY <1>1, <1>3, <1>4, <1>5 DEF Still, Holds
<1>6. ASSUME NEW s \in Server, Adds(s) PROVE Pledged(T, i, A)' \/ Lost(l, i)'
  <2>1. /\ state' = state /\ log[s].last + 1 \in Nat
        /\ \A q \in Server \ {s} : role'[q] = role[q] /\ log'[q] = log[q]
        /\ log'[s].last = log[s].last + 1
        /\ \A m \in 1 .. log[s].last : log'[s].entries[m] = log[s].entries[m]
    BY <1>6, AddsIs
  <2>2. CASE s # l
    BY <1>1, <1>3, <1>4, <2>1, <2>2 DEF Holds
  <2>3. CASE s = l /\ i = log[l].last + 1
    BY <1>1, <1>2, <1>6, <2>1, <2>3, NewPledge
  <2>4. CASE s = l /\ i # log[l].last + 1
    <3>1. i \in 1 .. log[l].last /\ log[l].entries[i].term = T
      BY <1>0, <1>3, <2>1, <2>4, LogsWhole DEF Holds
    <3>2. role[l] = "leader"
      BY <1>1, <1>6, <2>1, <2>4, <3>1, LeadsFirst DEF Adds, Lead, TakeCommand
    <3> QED
      BY <1>1, <1>4, <2>1, <3>1, <3>2 DEF Holds
  <2> QED
    BY <2>2, <2>3, <2>4
<1>7. ASSUME NEW s \in Server, NEW r \in Server, Replicate(s, r)
      PROVE  Pledged(T, i, A)' \/ Lost(l, i)'
  <2>1. /\ state' = state /\ role'[r] = "follower"
        /\ \A q \in Server \ {r} : role'[q] = role[q] /\ log'[q] = log[q]
    BY <1>7, CopyFrame
  <2> QED
    BY <1>1, <1>3, <1>4, <2>1 DEF Holds
<1>8. Pledged(T, i, A)' \/ Lost(l, i)'
  BY <1>0, <1>5, <1>6, <1>7, StepsAre
<1>9. Pledged(T, i, A)' => Pledged(state[l].term, i, Acknowledged(l, i))'
  BY <1>1, <1>2 DEF Pledged
<1> QED
  BY <1>8, <1>9
-----------------------------------------------------------------------------
\* What is committed stays pledged, and who has it keeps it.
LEMMA CommittedStays ==
  ASSUME Sound, [ClusterNext]_clusterVars, ~stale', NEW q \in Server,
         NEW i \in Nat \ {0}, i = commit[q], NEW t \in Nat, t = log[q].entries[i].term
  PROVE  /\ Holds(q, i, t) /\ Holds(q, i, t)'
         /\ \E Q \in SUBSET Server : IsQuorum(Q)' /\ Pledged(t, i, Q)'
<1>1. PICK Q \in SUBSET Server : IsQuorum(Q) /\ Pledged(t, i, Q)
  BY DEF Sound, CommitsPledged
<1>2. Pledged(t, i, Q)'
  BY <1>1, QuorumStays
<1>3. IsQuorum(Q)'
  BY <1>1 DEF IsQuorum, Majority
<1>4. Holds(q, i, t)
  BY LogsWhole DEF Sound, Holds
<1>5. Holds(q, i, t)'
  BY <1>1, <1>4, PledgedHolds
<1> QED
  BY <1>2, <1>3, <1>4, <1>5

(***************************************************************************)
(* A leader commits entries of its own term only: it knows of no others in *)
(* the logs of the rest.                                                   *)
(***************************************************************************)
LEMMA CommitsOwn ==
  ASSUME Sound, NEW s \in Server, NEW r \in Server, Replicate(s, r), ~stale',
         NEW i \in Nat, commit'[s] = i, i # commit[s]
  PROVE  /\ i \in Nat \ {0} /\ Holds(s, i, state[s].term)
         /\ IsQuorum(Acknowledged(s, i)')
<1> DEFINE told == [matched[s] EXCEPT ![r] = log[s].last]
           T == state[s].term
           Enough(k) == Majority(s, {s} \cup {x \in Server : told[x] >= k})
<1>0. /\ TypeOK /\ ClusterTypeOK /\ LeadersHold
      /\ commit[s] \in 0 .. log[s].last /\ log[s].last \in Nat
  BY LogsWhole DEF Sound
<1>1. /\ s # r /\ role[s] = "leader"
      /\ \/ matched'[s] = told /\ commit'[s] = CommittedBy(s, told)
         \/ matched'[s] = matched[s] /\ commit'[s] = commit[s]
      /\ \A x \in Server : told[x] = 0 \/ Holds(s, told[x], T)
  BY CopiesIs
<1> HIDE DEF told
<1>2. matched'[s] = told /\ i = CommittedBy(s, told)
  BY <1>1
<1> DEFINE c == CommittedBy(s, told)
<1>a. /\ c \in 0 .. log[s].last /\ c >= commit[s]
      /\ c = commit[s] \/ Enough(c)
      /\ \A k \in 0 .. log[s].last : k > c => ~Enough(k)
  BY <1>0, CommittedByIs
<1> HIDE DEF c
<1>3. /\ i \in 1 .. log[s].last /\ Enough(i)
      /\ \A k \in 0 .. log[s].last : k > i => ~Enough(k)
  BY <1>0, <1>2, <1>a DEF c
<1>4. Holds(s, log[s].last, T)
  BY <1>0, <1>1 DEF LeadersHold
<1>5. Holds(s, i, T)
  <2>1. CASE i = log[s].last
    BY <1>4, <2>1
  <2>2. CASE i # log[s].last
    <3>1. i + 1 \in 0 .. log[s].last /\ i + 1 > i
      BY <1>0, <1>3, <2>2
    <3>2. ~Enough(i + 1)
      BY <1>3, <3>1
    <3>3. {s} \cup {x \in Server : told[x] >= i} # {s} \cup {x \in Server : told[x] >= i + 1}
      BY <1>3, <3>2
    <3>4. \A x \in Server : told[x] \in Nat
      BY <1>0, <1>1 DEF Holds
    <3>5. PICK x \in Server : told[x] = i
      <4>1. \A x \in Server : told[x] # i => (told[x] >= i <=> told[x] >= i + 1)
        BY <1>3, <3>4
      <4> QED
        BY <3>3, <4>1
    <3> QED
      BY <1>1, <1>3, <3>5
  <2> QED
    BY <2>1, <2>2
<1>6. Acknowledged(s, i)' = {s} \cup {x \in Server : told[x] >= i}
  BY <1>2 DEF Acknowledged
<1>7. \E x \in Server : Majority(x, Acknowledged(s, i)')
  BY <1>3, <1>6
<1>8. i \in Nat \ {0}
  BY <1>0, <1>3
<1> QED
  BY <1>5, <1>7, <1>8 DEF IsQuorum

LEMMA CommitStep ==
  ASSUME Sound, [ClusterNext]_clusterVars, ~stale'
  PROVE  CommitsPledged'
<1>0. /\ TypeOK /\ ClusterTypeOK /\ TypeOK' /\ ClusterTypeOK'
      /\ \A q \in Server : commit[q] \in Nat /\ commit[q] <= log[q].last /\ log[q].last \in Nat
  BY ClusterStep, NextType, ClusterTypeStep, LogsWhole DEF Sound
<1> SUFFICES ASSUME NEW s \in Server, NEW i \in Nat \ {0}, i = commit'[s]
             PROVE  \E Q \in SUBSET Server : IsQuorum(Q)' /\ Pledged(log[s].entries[i].term, i, Q)'
  BY <1>0 DEF CommitsPledged, ClusterTypeOK
<1> DEFINE Settled(t) == /\ Holds(s, i, t)'
                         /\ \E Q \in SUBSET Server : IsQuorum(Q)' /\ Pledged(t, i, Q)'
<1>1. ASSUME NEW t \in Nat, Settled(t)
      PROVE  \E Q \in SUBSET Server : IsQuorum(Q)' /\ Pledged(log[s].entries[i].term, i, Q)'
  <2>1. log'[s].entries[i].term = t
    BY <1>1 DEF Holds
  <2>2. PICK Q \in SUBSET Server : IsQuorum(Q)' /\ Pledged(t, i, Q)'
    BY <1>1
  <2>3. Pledged(log[s].entries[i].term, i, Q)'
    BY <2>1, <2>2 DEF Pledged
  <2> QED
    BY <2>2, <2>3
<1>2. ASSUME commit[s] = i PROVE \E t \in Nat : Settled(t)
  <2>1. PICK t \in Nat : t = log[s].entries[i].term
    BY <1>0, <1>2, LogsWhole
  <2> QED
    BY <1>2, <2>1, CommittedStays
<1>3. ASSUME NEW l \in Server, Replicate(l, s), commit[l] = i PROVE \E t \in Nat : Settled(t)
  <2>1. PICK t \in Nat : t = log[l].entries[i].term
    BY <1>0, <1>3, LogsWhole
  <2>2. /\ Holds(l, i, t)
        /\ \E Q \in SUBSET Server : IsQuorum(Q)' /\ Pledged(t, i, Q)'
    BY <1>3, <2>1, CommittedStays
  <2>3. /\ log'[s].last = log[l].last
        /\ \A m \in 1 .. log[l].last : log'[s].entries[m] = log[l].entries[m]
    BY <1>3, ReplicateCopies
  <2>4. Holds(s, i, t)'
    BY <2>2, <2>3 DEF Holds
  <2> QED
    BY <2>2, <2>4
<1>4. ASSUME NEW r \in Server, Replicate(s, r), commit[s] # i PROVE \E t \in Nat : Settled(t)
  <2>1. PICK T \in Nat : T = state[s].term
    BY <1>0, Casts
  <2>2. Holds(s, i, T) /\ IsQuorum(Acknowledged(s, i)')
    BY <1>4, <2>1, CommitsOwn
  <2>3. /\ state' = state /\ role'[s] = "leader" /\ log'[s] = log[s]
    BY <1>4, CopyFrame
  <2>4. Holds(s, i, T)' /\ i \in 1 .. log'[s].last
    BY <2>2, <2>3 DEF Holds
  <2>5. PICK A \in SUBSET Server : A = Acknowledged(s, i)'
    BY DEF Acknowledged
  <2>6. Pledged(T, i, A)' \/ Lost(s, i)'
    <3>1. Pledged(state[s].term, i, Acknowledged(s, i))' \/ Lost(s, i)'
      BY <2>1, <2>3, <2>4, PledgeStep DEF LeadersPledge
    <3>2. Pledged(state[s].term, i, Acknowledged(s, i))' => Pledged(T, i, A)'
      BY <2>1, <2>3, <2>5 DEF Pledged
    <3> QED
      BY <3>1, <3>2
  <2>7. ASSUME Lost(s, i)' PROVE FALSE
    <3>1. PICK Q \in SUBSET Server :
            IsQuorum(Q)' /\ \A q \in Q : state'[q].term > state'[s].term /\ matched'[s][q] < i
      BY <2>7 DEF Lost
    <3>2. IsQuorum(Q) /\ IsQuorum(A)
      BY <2>2, <2>5, <3>1 DEF IsQuorum, Majority
    <3>3. PICK q \in Q : q \in A
      BY <3>2, QuorumsMeet
    <3>4. q = s \/ matched'[s][q] >= i
      BY <2>5, <3>3 DEF Acknowledged
    <3>5. matched'[s][q] \in Nat /\ state'[s].term \in Nat
      BY <1>0, <2>1, <2>3 DEF ClusterTypeOK
    <3> QED
      BY <3>1, <3>3, <3>4, <3>5
  <2>8. IsQuorum(A)'
    BY <2>2, <2>5 DEF IsQuorum, Majority
  <2> QED
    BY <2>4, <2>6, <2>7, <2>8
<1>5. CASE Still
  BY <1>1, <1>2, <1>5 DEF Still
<1>6. ASSUME NEW x \in Server, Adds(x) PROVE commit[s] = i
  BY <1>6, AddsIs
<1>7. ASSUME NEW l \in Server, NEW r \in Server, Replicate(l, r) PROVE \E t \in Nat : Settled(t)
  <2>1. /\ commit'[r] \in {commit[l], commit[r]}
        /\ \A q \in Server \ {l, r} : commit'[q] = commit[q]
    BY <1>7, CopyFrame
  <2>2. CASE s = r
    BY <1>2, <1>3, <1>7, <2>1, <2>2
  <2>3. CASE s = l
    BY <1>2, <1>4, <1>7, <2>3
  <2>4. CASE s # l /\ s # r
    BY <1>2, <2>1, <2>4
  <2> QED
    BY <2>2, <2>3, <2>4
<1> QED
  BY <1>0, <1>1, <1>2, <1>5, <1>6, <1>7, StepsAre
-----------------------------------------------------------------------------
LEMMA ClusterInvInit == ClusterInit => ClusterInv
<1> SUFFICES ASSUME ClusterInit PROVE ClusterInv
  OBVIOUS
<1>1. \A s \in Server : log[s] = Store!NewLog /\ commit[s] = 0 /\ role[s] = "follower"
  BY DEF ClusterInit, Init
<1>2. \A s \in Server : log[s].last = 0
  BY <1>1, NewLogIs
<1>3. \A s \in Server : \A i : i \notin 1 .. log[s].last
  BY <1>2
<1>4. \A s \in Server : Store!TermsAscend(log[s])
  <2> SUFFICES ASSUME NEW s \in Server PROVE Store!TermsAscend(log[s])
    OBVIOUS
  <2>1. DOMAIN log[s].entries = 0 .. 0 /\ Dummy.term \in Nat /\ log[s].entries[0] = Dummy
    <3>1. Dummy.term = 0
      BY ClusterAssumption DEF Entry
    <3> QED
      BY <1>1, <3>1, NewLogIs, WholeIs
  <2>2. \A i \in 0 .. 0 : Store!TermAt(log[s], i) = Dummy.term
    BY <2>1 DEF Store!TermAt, Store!Stored
  <2> QED
    BY <2>1, <2>2 DEF Store!TermsAscend
<1>5. LogsMatch /\ LogsRise
  BY <1>3, <1>4 DEF LogsMatch, LogsRise
<1>6. LeadersHold /\ LeadersPledge /\ CommitsPledged
  BY <1>1 DEF LeadersHold, LeadersPledge, CommitsPledged
<1> QED
  BY <1>5, <1>6 DEF ClusterInv

LEMMA ClusterInvStep ==
  ASSUME TypeOK, ClusterTypeOK, ElectionInv, ~forgot, ClusterInv, [ClusterNext]_clusterVars
  PROVE  ClusterInv'
<1>1. CASE stale'
  BY <1>1 DEF ClusterInv
<1>2. CASE ~stale'
  <2>1. ~stale
    <3>1. ASSUME NEW s \in Server, NEW r \in Server, Replicate(s, r) PROVE stale => stale'
      BY <3>1, ReplicateShape
    <3> QED
      BY <1>2, <3>1 DEF ClusterNext, clusterVars, logVars, Lead, TakeCommand, StepDown, AskVote
  <2>2. Sound
    BY <2>1 DEF ClusterInv, Sound
  <2> QED
    BY <1>2, <2>2, MatchStep, RiseStep, HoldStep, PledgeStep, CommitStep DEF ClusterInv
<1> QED
  BY <1>1, <1>2

\* What s has committed is in the log of r, if that has an entry as late as it.
LEMMA CommittedIsThere ==
  ASSUME Sound, NEW s \in Server, NEW r \in Server, commit[s] # 0, NEW k \in 1 .. log[r].last,
         \/ log[s].entries[commit[s]].term < log[r].entries[k].term
         \/ log[s].entries[commit[s]].term = log[r].entries[k].term /\ commit[s] <= k
  PROVE  \A i \in 1 .. commit[s] : i \in 1 .. log[r].last /\ log[s].entries[i] = log[r].entries[i]
<1> DEFINE c == commit[s]
           t == log[s].entries[c].term
<1>0. /\ TypeOK /\ ClusterTypeOK /\ LogsMatch /\ LogsRise /\ CommitsPledged
      /\ c \in 1 .. log[s].last /\ log[s].last \in Nat /\ log[r].last \in Nat
  BY LogsWhole DEF Sound
<1>1. t \in Nat /\ log[r].entries[k].term \in Nat
  BY <1>0, EntryIs
<1>2. CASE t < log[r].entries[k].term
  <2>1. PICK Q \in SUBSET Server : Pledged(t, c, Q)
    BY <1>0 DEF CommitsPledged
  <2>2. Holds(r, c, t)
    BY <1>1, <1>2, <2>1 DEF Pledged
  <2> QED
    BY <1>0, <2>2 DEF LogsMatch, Holds
<1>3. CASE t = log[r].entries[k].term /\ c <= k
  <2>1. \A j \in 1 .. c : log[s].entries[j] = log[r].entries[j]
    BY <1>0, <1>3 DEF LogsMatch
  <2> QED
    BY <1>0, <1>3, <2>1
<1> QED
  BY <1>2, <1>3

LEMMA SoundIsSafe == ASSUME Sound PROVE StateMachineSafety
<1> SUFFICES ASSUME NEW s \in Server, NEW r \in Server, NEW i \in 1 .. MaxIndex,
                    i <= commit[s], i <= commit[r]
             PROVE  log[s].entries[i] = log[r].entries[i]
  BY DEF StateMachineSafety
<1> DEFINE t(q) == log[q].entries[commit[q]].term
<1>1. /\ commit[s] \in 1 .. log[s].last /\ commit[r] \in 1 .. log[r].last
      /\ t(s) \in Nat /\ t(r) \in Nat /\ i \in 1 .. commit[s] /\ i \in 1 .. commit[r]
  <2>1. /\ commit[s] \in 0 .. log[s].last /\ commit[r] \in 0 .. log[r].last
        /\ log[s].last \in Nat /\ log[r].last \in Nat /\ MaxIndex \in Nat
    BY LogsWhole DEF Sound
  <2>2. t(s) \in Nat /\ t(r) \in Nat
    BY <2>1, LogsWhole DEF Sound
  <2> QED
    BY <2>1, <2>2
<1>2. CASE t(s) < t(r) \/ (t(s) = t(r) /\ commit[s] <= commit[r])
  BY <1>1, <1>2, CommittedIsThere
<1>3. CASE t(r) < t(s) \/ (t(r) = t(s) /\ commit[r] <= commit[s])
  BY <1>1, <1>3, CommittedIsThere
<1> QED
  BY <1>1, <1>2, <1>3

LEMMA SoundLeaders ==
  ASSUME Sound, NEW l \in Server, NEW s \in Server, role[l] = "leader",
         state[s].term <= state[l].term, NEW i \in 1 .. commit[s]
  PROVE  Store!Stored(log[l], i) /\ log[l].entries[i] = log[s].entries[i]
<1> DEFINE c == commit[s]
           t == log[s].entries[c].term
           T == state[l].term
<1>0. /\ TypeOK /\ ClusterTypeOK /\ LogsRise /\ LeadersHold
      /\ c \in 0 .. log[s].last /\ log[s].last \in Nat
      /\ Whole(log[l]) /\ log[l].last \in Nat
  BY LogsWhole DEF Sound
<1>1. c \in 1 .. log[s].last /\ c # 0
  BY <1>0
<1>2. t \in Nat /\ t <= state[s].term /\ state[s].term \in Nat /\ T \in Nat
  BY <1>0, <1>1, EntryIs, Casts
<1>3. Holds(l, log[l].last, T)
  BY <1>0 DEF LeadersHold
<1>4. CASE t = T
  <2>1. Holds(l, c, T)
    BY <1>0, <1>1, <1>4 DEF LeadersHold, Holds
  <2>2. c \in 1 .. log[l].last /\ log[l].entries[c].term = t /\ c <= c
    BY <1>1, <1>4, <2>1 DEF Holds
  <2>3. i \in 1 .. log[l].last /\ log[s].entries[i] = log[l].entries[i]
    BY <1>1, <2>2, CommittedIsThere
  <2> QED
    BY <1>0, <2>3, WholeIs
<1>5. CASE t # T
  <2>1. t < T
    BY <1>2, <1>5
  <2>2. log[l].last \in 1 .. log[l].last /\ log[l].entries[log[l].last].term = T
    BY <1>3 DEF Holds
  <2>3. i \in 1 .. log[l].last /\ log[s].entries[i] = log[l].entries[i]
    BY <1>1, <2>1, <2>2, CommittedIsThere
  <2> QED
    BY <1>0, <2>3, WholeIs
<1> QED
  BY <1>4, <1>5

(***************************************************************************)
(* The inductive invariant: logs match, an entry stems from the winner of  *)
(* an election, a leader has every entry of its term, and behind what is   *)
(* committed stands a quorum that elects nobody without it - unless        *)
(* write_at has made a log stale (raft_state_manager.cpp:51-57).           *)
(***************************************************************************)
THEOREM ClusterInvHolds ==
  ClusterSpec => [](TypeOK /\ ClusterTypeOK /\ ElectionInv /\ ~forgot /\ ClusterInv)
<1>1. ClusterSpec => [](TypeOK /\ ElectionInv)
  <2>1. Init => TypeOK /\ ElectionInv
    BY InitType, ElectionInit
  <2>2. TypeOK /\ ElectionInv /\ [Next]_vars => TypeOK' /\ ElectionInv'
    BY NextType, ElectionStep
  <2> QED
    BY <2>1, <2>2, ClusterElects, PTL DEF Spec
<1>2. ClusterInit => ClusterInv
  BY ClusterInvInit
<1>3. TypeOK /\ ClusterTypeOK /\ ElectionInv /\ ~forgot /\ ClusterInv /\ [ClusterNext]_clusterVars
        => ClusterInv'
  BY ClusterInvStep
<1> QED
  BY <1>1, <1>2, <1>3, ClusterTypeCorrect, NothingForgotten, PTL DEF ClusterSpec

(***************************************************************************)
(* Two servers never commit different commands at an index, in any number  *)
(* of servers, terms and entries, whatever requests, answers and elections *)
(* cross - until an overwrite by write_at leaves older entries behind      *)
(* newer ones (raft_state_manager.cpp:51-57).                              *)
(***************************************************************************)
THEOREM ClusterIsSafe == ClusterSpec => []SafeUnlessStale
<1>1. TypeOK /\ ClusterTypeOK /\ ElectionInv /\ ~forgot /\ ClusterInv => SafeUnlessStale
  BY SoundIsSafe DEF ClusterInv, Sound, SafeUnlessStale
<1> QED
  BY <1>1, ClusterInvHolds, PTL

(***************************************************************************)
(* Until then the log of a leader holds all that is committed in terms up  *)
(* to its own, so that executeCommand there appends behind it.             *)
(***************************************************************************)
THEOREM LeadersHaveCommitted == ClusterSpec => []LeaderHasCommitted
<1>1. TypeOK /\ ClusterTypeOK /\ ElectionInv /\ ~forgot /\ ClusterInv => LeaderHasCommitted
  BY SoundLeaders DEF ClusterInv, Sound, LeaderHasCommitted
<1> QED
  BY <1>1, ClusterInvHolds, PTL
-----------------------------------------------------------------------------
\* A server has what it has committed as long as no log is stale.
LEMMA CommittedKept ==
  ASSUME Sound, [ClusterNext]_clusterVars, ~stale', NEW q \in Server
  PROVE  /\ commit[q] <= commit'[q]
         /\ \A i \in 1 .. commit[q] : log'[q].entries[i] = log[q].entries[i]
<1>0. /\ TypeOK /\ ClusterTypeOK
      /\ \A s \in Server : commit[s] \in 0 .. log[s].last /\ log[s].last \in Nat
                           /\ state[s].term \in Nat
  BY LogsWhole, Casts DEF Sound
<1>1. CASE Still
  BY <1>0, <1>1 DEF Still
<1>2. ASSUME NEW s \in Server, Adds(s)
      PROVE  /\ commit[q] <= commit'[q]
             /\ \A i \in 1 .. commit[q] : log'[q].entries[i] = log[q].entries[i]
  <2>1. /\ commit' = commit /\ \A x \in Server \ {s} : log'[x] = log[x]
        /\ \A i \in 1 .. log[s].last : log'[s].entries[i] = log[s].entries[i]
    BY <1>2, AddsIs
  <2> QED
    BY <1>0, <2>1
<1>3. ASSUME NEW s \in Server, NEW r \in Server, Replicate(s, r)
      PROVE  /\ commit[q] <= commit'[q]
             /\ \A i \in 1 .. commit[q] : log'[q].entries[i] = log[q].entries[i]
  <2> DEFINE told == [matched[s] EXCEPT ![r] = log[s].last]
  <2>1. /\ s # r /\ role[s] = "leader" /\ state[r].term = state[s].term
        /\ \A x \in Server \ {r} : log'[x] = log[x]
        /\ commit'[s] = CommittedBy(s, told) \/ commit'[s] = commit[s]
        /\ commit'[r] = IF commit[s] > commit[r] THEN commit[s] ELSE commit[r]
        /\ \A x \in Server \ {s, r} : commit'[x] = commit[x]
    BY <1>3, CopiesIs
  <2> HIDE DEF told
  <2>2. commit'[s] >= commit[s]
    <3>1. CommittedBy(s, told) >= commit[s]
      BY <1>0, CommittedByIs
    <3> QED
      BY <1>0, <2>1, <3>1
  <2>3. CASE q # r
    BY <1>0, <2>1, <2>2, <2>3
  <2>4. CASE q = r
    <3>1. ASSUME NEW i \in 1 .. commit[r] PROVE log'[r].entries[i] = log[r].entries[i]
      <4>1. Store!Stored(log[s], i) /\ log[s].entries[i] = log[r].entries[i]
        BY <1>0, <2>1, SoundLeaders
      <4>2. i \in 1 .. log[s].last
        <5>1. i \in 0 .. log[s].last
          BY <1>0, <4>1, LogsWhole, WholeIs
        <5> QED
          BY <1>0, <5>1
      <4>3. log'[r].entries[i] = log[s].entries[i]
        BY <1>3, <4>2, ReplicateCopies
      <4> QED
        BY <4>1, <4>3
    <3> QED
      BY <1>0, <2>1, <2>4, <3>1
  <2> QED
    BY <2>3, <2>4
<1> QED
  BY <1>0, <1>1, <1>2, <1>3, StepsAre

LEMMA PrefixIs ==
  ASSUME NEW m \in Nat, NEW n \in Nat, m <= n, NEW a, NEW b,
         DOMAIN a = 1 .. m, DOMAIN b = 1 .. n, Len(a) = m, Len(b) = n,
         \A i \in 1 .. m : a[i] = b[i]
  PROVE  OneLog!IsPrefix(a, b)
<1>1. SubSeq(a, 1, m) = [i \in 1 .. m |-> a[i]] /\ SubSeq(b, 1, m) = [i \in 1 .. m |-> b[i]]
  OBVIOUS
<1> QED
  BY <1>1 DEF OneLog!IsPrefix

LEMMA CommandsInit == ClusterInit => OneLog!Init
<1> SUFFICES ASSUME ClusterInit PROVE OneLog!Init
  OBVIOUS
<1>1. \A s \in Server : commit[s] = 0
  BY DEF ClusterInit
<1>2. \A s \in Server : Committed(s) = <<>>
  <2> TAKE s \in Server
  <2>1. Committed(s) = [i \in {} |-> log[s].entries[i]]
    <3>1. 1 .. commit[s] = {}
      BY <1>1
    <3> QED
      BY <3>1, Zenon DEF Committed
  <2>2. \A f : DOMAIN f = {} /\ f = [i \in {} |-> f[i]] => f = <<>>
    OBVIOUS
  <2> QED
    BY <2>1, <2>2
<1> QED
  BY <1>2 DEF OneLog!Init, ClusterInit

LEMMA CommandsStep ==
  ASSUME TypeOK, ClusterTypeOK, ElectionInv, ~forgot, ClusterInv, [ClusterNext]_clusterVars,
         ClusterTypeOK', SafeUnlessStale'
  PROVE  OneLog!Learn \/ OneLog!Break
<1>1. CASE stale'
  BY <1>1 DEF OneLog!Break, ClusterTypeOK
<1>2. CASE ~stale'
  <2>1. ~stale
    <3>1. ASSUME NEW s \in Server, NEW r \in Server, Replicate(s, r) PROVE stale => stale'
      BY <3>1, ReplicateShape
    <3> QED
      BY <1>2, <3>1 DEF ClusterNext, clusterVars, logVars, Lead, TakeCommand, StepDown, AskVote
  <2>2. Sound
    BY <2>1 DEF ClusterInv, Sound
  <2>3. \A s \in Server : commit[s] \in Nat /\ commit'[s] \in Nat /\ commit'[s] <= MaxIndex
                          /\ MaxIndex \in Nat
    <3>1. \A s \in Server : commit[s] \in Nat /\ commit'[s] \in Nat
      BY DEF ClusterTypeOK
    <3>2. ASSUME NEW s \in Server PROVE commit'[s] <= MaxIndex
      <4>1. /\ Store!WellFormed(log'[s])
            /\ commit'[s] <= log'[s].last /\ log'[s].last <= MaxIndex
        BY DEF ClusterTypeOK
      <4>2. log'[s].last \in Nat
        BY <4>1 DEF Store!WellFormed
      <4> QED
        BY <3>1, <4>1, <4>2, ClusterAssumption
    <3> QED
      BY <3>1, <3>2, ClusterAssumption
  <2>4. \A s \in Server : OneLog!IsPrefix(Committed(s), Committed(s)')
    <3> TAKE s \in Server
    <3>1. /\ commit[s] <= commit'[s]
          /\ \A i \in 1 .. commit[s] : log[s].entries[i] = log'[s].entries[i]
      BY <1>2, <2>2, CommittedKept
    <3> PICK m \in Nat, n \in Nat : m = commit[s] /\ n = commit'[s]
      BY <2>3
    <3>2. PICK f, g : f = log[s].entries /\ g = log'[s].entries
      OBVIOUS
    <3>3. m <= n /\ \A i \in 1 .. m : f[i] = g[i]
      BY <3>1, <3>2
    <3>4. PICK a, b : a = [i \in 1 .. m |-> f[i]] /\ b = [i \in 1 .. n |-> g[i]]
      OBVIOUS
    <3>5. OneLog!IsPrefix(a, b)
      <4>1. /\ DOMAIN a = 1 .. m /\ DOMAIN b = 1 .. n /\ Len(a) = m /\ Len(b) = n
            /\ \A i \in 1 .. m : a[i] = b[i]
        BY <3>3, <3>4
      <4> QED
        BY <3>3, <4>1, PrefixIs
    <3> QED
      BY <3>2, <3>4, <3>5, Zenon DEF Committed
  <2>5. ASSUME NEW s \in Server, NEW r \in Server, commit'[s] <= commit'[r]
        PROVE  OneLog!IsPrefix(Committed(s)', Committed(r)')
    <3>1. \A i \in 1 .. MaxIndex : i <= commit'[s] /\ i <= commit'[r] =>
            log'[s].entries[i] = log'[r].entries[i]
      BY <1>2 DEF SafeUnlessStale, StateMachineSafety
    <3>2. \A i \in 1 .. commit'[s] : log'[s].entries[i] = log'[r].entries[i]
      BY <2>3, <2>5, <3>1
    <3> PICK m \in Nat, n \in Nat : m = commit'[s] /\ n = commit'[r]
      BY <2>3
    <3>3. PICK f, g : f = log'[s].entries /\ g = log'[r].entries
      OBVIOUS
    <3>4. m <= n /\ \A i \in 1 .. m : f[i] = g[i]
      BY <2>5, <3>2, <3>3
    <3>5. PICK a, b : a = [i \in 1 .. m |-> f[i]] /\ b = [i \in 1 .. n |-> g[i]]
      OBVIOUS
    <3>6. OneLog!IsPrefix(a, b)
      <4>1. /\ DOMAIN a = 1 .. m /\ DOMAIN b = 1 .. n /\ Len(a) = m /\ Len(b) = n
            /\ \A i \in 1 .. m : a[i] = b[i]
        BY <3>4, <3>5
      <4> QED
        BY <3>4, <4>1, PrefixIs
    <3> QED
      BY <3>3, <3>5, <3>6, Zenon DEF Committed
  <2>6. \A s, r \in Server : \/ OneLog!IsPrefix(Committed(s)', Committed(r)')
                             \/ OneLog!IsPrefix(Committed(r)', Committed(s)')
    BY <2>3, <2>5
  <2> DEFINE k == [s \in Server |-> Committed(s)]
  <2>7. \A s \in Server : k[s] = Committed(s) /\ k'[s] = Committed(s)'
    OBVIOUS
  <2>8. OneLog!Agree(k')
    <3> HIDE DEF k
    <3> QED
      BY <2>6, <2>7 DEF OneLog!Agree
  <2>9. k' = [s \in Server |-> Committed(s)]' /\ stale' = stale
    BY <1>2, <2>1 DEF ClusterTypeOK
  <2>10. \A s \in Server : OneLog!IsPrefix(k[s], k'[s])
    <3> HIDE DEF k
    <3> QED
      BY <2>4, <2>7
  <2> QED
    BY <2>1, <2>8, <2>9, <2>10, Zenon DEF OneLog!Learn
<1> QED
  BY <1>1, <1>2

(***************************************************************************)
(* The servers implement one committed log, as ReplicatedCache takes it    *)
(* from Raft: what a server has committed it keeps, and all have committed *)
(* the beginning of one sequence of commands - until write_at leaves older *)
(* entries behind newer ones (raft_state_manager.cpp:51-57).               *)
(***************************************************************************)
THEOREM ClusterKeepsOneLog == ClusterSpec => CommandsStand
<1>1. ASSUME TypeOK, ClusterTypeOK, ElectionInv, ~forgot, ClusterInv, [ClusterNext]_clusterVars,
             ClusterTypeOK', SafeUnlessStale'
      PROVE  [OneLog!Learn \/ OneLog!Break]_(OneLog!vars)
  BY <1>1, CommandsStep
<1> QED
  BY <1>1, CommandsInit, ClusterInvHolds, ClusterIsSafe, PTL
     DEF ClusterSpec, CommandsStand, OneLog!Spec
=============================================================================
