-------------------------- MODULE ReplicatedPrefix --------------------------
(***************************************************************************)
(* What asynchronous replication promises: every replica shows its own     *)
(* data until its first full resync, and from then on a prefix of the      *)
(* master's writes that only grows, whatever the links between them do.    *)
(***************************************************************************)
EXTENDS Integers

CONSTANTS Replica, MaxWrites

VARIABLES
    written,  \* how many writes the master has executed
    view      \* how many of them each replica shows, or Own

Own == -1

Init ==
    /\ written = 0
    /\ view = [r \in Replica |-> Own]

Write ==
    /\ written < MaxWrites
    /\ written' = written + 1
    /\ UNCHANGED view

Advance(r) ==
    /\ \E n \in (view[r] + 1)..written : view' = [view EXCEPT ![r] = n]
    /\ UNCHANGED written

Next == Write \/ \E r \in Replica : Advance(r)

Spec == Init /\ [][Next]_<<written, view>>
=============================================================================
