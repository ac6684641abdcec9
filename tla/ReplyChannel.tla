---------------------------- MODULE ReplyChannel ----------------------------
(***************************************************************************)
(* What the connection layer promises a client, whichever backend serves   *)
(* it: what the server has queued for the client reaches it in the order   *)
(* in which it was queued, without a gap and without a repetition, and     *)
(* nothing reaches it that was not queued.                                 *)
(***************************************************************************)
EXTENDS Integers, Sequences

CONSTANT Conn

VARIABLES
    made,     \* how many replies and pushes have been queued for the client
    received  \* the numbers of those it has received

Init ==
    /\ made = [c \in Conn |-> 0]
    /\ received = [c \in Conn |-> <<>>]

(***************************************************************************)
(* A request is executed; a write is also queued for the replicas.         *)
(***************************************************************************)
Answer ==
    /\ made' \in [Conn -> Nat]
    /\ \A c \in Conn : made'[c] >= made[c]
    /\ UNCHANGED received

Deliver(c) ==
    /\ Len(received[c]) < made[c]
    /\ received' = [received EXCEPT ![c] = Append(@, Len(@) + 1)]
    /\ UNCHANGED made

Next == Answer \/ \E c \in Conn : Deliver(c)

Spec == Init /\ [][Next]_<<made, received>>
=============================================================================
