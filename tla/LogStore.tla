------------------------------ MODULE LogStore ------------------------------
(***************************************************************************)
(* SimpleMemoryLogStore of src/src/raft/raft_state_manager.cpp as a value: *)
(* a map from indices to entries, the first index and the last one.  An    *)
(* entry is a record with a term.                                          *)
(***************************************************************************)
EXTENDS Integers, Sequences, FiniteSets

CONSTANT Dummy   \* the entry the constructor puts at index 0

NewLog == [entries |-> [i \in {0} |-> Dummy], start |-> 1, last |-> 0]

NextSlot(log) == log.last + 1

\* entry_at answers nullptr for an index that is not stored.
Stored(log, index) == index \in DOMAIN log.entries

TermAt(log, index) == IF Stored(log, index) THEN log.entries[index].term ELSE 0

\* Mutant of LastTerm: looks for the last entry in the next slot.
LastTermOfNext(log) == TermAt(log, NextSlot(log))

LastTerm(log) == TermAt(log, log.last)

\* std::map::operator[] bound to e.
Bound(entries, index, e) ==
    [i \in DOMAIN entries \cup {index} |-> IF i = index THEN e ELSE entries[i]]

\* Mutant of AppendEntry: last_idx_ is not moved.
AppendInPlace(log, e) ==
    [log EXCEPT !.entries = Bound(@, NextSlot(log), e)]

AppendEntry(log, e) ==
    [entries |-> Bound(log.entries, NextSlot(log), e), start |-> log.start,
     last |-> NextSlot(log)]

\* Mutant of WriteAt: an entry that is there is kept.
WriteAtIfNew(log, index, e) ==
    IF Stored(log, index) THEN log
    ELSE [log EXCEPT !.entries = Bound(@, index, e),
                     !.last = IF index > @ THEN index ELSE @]

\* Overwrites one entry and leaves those after it where they are.
WriteAt(log, index, e) ==
    IF index < log.start THEN log
    ELSE [entries |-> Bound(log.entries, index, e), start |-> log.start,
          last |-> IF index > log.last THEN index ELSE log.last]

\* The k-th smallest of a set of numbers.
Nth(I, k) == CHOOSE i \in I : Cardinality({j \in I : j <= i}) = k

\* The entries from index "from" on, without the one at "end".
LogEntries(log, from, end) ==
    LET upto    == IF end < NextSlot(log) THEN end ELSE NextSlot(log)
        present == {i \in from .. upto - 1 : Stored(log, i)}
    IN  IF from > end \/ from < log.start THEN <<>>
        ELSE [k \in 1 .. Cardinality(present) |-> log.entries[Nth(present, k)]]

\* Removes the entries up to last_log_index, from the first one on.
Compact(log, last_log_index) ==
    [entries |-> [i \in DOMAIN log.entries \ (log.start .. last_log_index) |-> log.entries[i]],
     start |-> last_log_index + 1, last |-> log.last]
-----------------------------------------------------------------------------
\* The dummy and a gapless row of entries.
WellFormed(log) ==
    /\ log.start \in Nat \ {0} /\ log.last \in Nat
    /\ log.start <= NextSlot(log)
    /\ DOMAIN log.entries = {0} \cup log.start .. log.last
    /\ \A i \in DOMAIN log.entries : log.entries[i].term \in Nat

\* Terms never fall from one entry to the next, as in every log of Raft.
TermsAscend(log) ==
    \A i, j \in DOMAIN log.entries : i <= j => TermAt(log, i) <= TermAt(log, j)
=============================================================================
