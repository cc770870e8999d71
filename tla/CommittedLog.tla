---------------------------- MODULE CommittedLog ----------------------------
(***************************************************************************)
(* What a state machine relies on in Raft, and ReplicatedCache takes for   *)
(* granted: there is one log of committed commands; every server knows     *)
(* the beginning of it, and nothing of what it knows is taken back.        *)
(***************************************************************************)
EXTENDS SequencesExt

CONSTANT Server

VARIABLES
    known,    \* per server: the commands it has committed, in their order
    broken    \* the promise does not hold any more

vars == <<known, broken>>

Init == known = [s \in Server |-> <<>>] /\ broken = FALSE

Agree(k) == \A s, r \in Server : IsPrefix(k[s], k[r]) \/ IsPrefix(k[r], k[s])

Learn ==
    /\ ~broken /\ UNCHANGED broken
    /\ \A s \in Server : IsPrefix(known[s], known'[s])
    /\ Agree(known')

Break == broken' = TRUE

Spec == Init /\ [][Learn \/ Break]_vars
=============================================================================
