------------------------------ MODULE Backends ------------------------------
(***************************************************************************)
(* The server behind either backend, which make_server chooses at start.   *)
(***************************************************************************)
EXTENDS AsioSession, PollLoop

vars == <<backend, clientVars, rcv, net, world, asioVars, pollVars>>

Init ==
    /\ backend \in {"asio", "poll"}
    /\ ConnectionInit
    /\ AsioInit
    /\ PollInit

Clients == Client /\ UNCHANGED <<backend, asioVars, pollVars>>

Server ==
    \/ /\ backend = "asio"
       /\ \E c \in Conn : IoContext(c)
       /\ UNCHANGED <<backend, pollVars>>
    \/ /\ backend = "poll"
       /\ EventLoop
       /\ UNCHANGED <<backend, asioVars>>

Next == Clients \/ Server

Spec == Init /\ [][Next]_vars

(***************************************************************************)
(* The event loop does not stop while there is something it can do, and a  *)
(* draining client reads what arrives.  Nobody has to send anything.       *)
(***************************************************************************)
Fairness ==
    /\ WF_vars(Server)
    /\ \A c \in Draining :
        WF_vars(ClientReads(c) /\ UNCHANGED <<backend, asioVars, pollVars>>)

FairSpec == Spec /\ Fairness

-----------------------------------------------------------------------------
TypeOK ==
    /\ backend \in {"asio", "poll"}
    /\ ConnectionTypeOK
    /\ AsioTypeOK
    /\ PollTypeOK

(***************************************************************************)
(* Both backends deliver a connection's output in order, once and without  *)
(* a gap, however the kernel splits the writes, however many replies pile  *)
(* up behind a write in flight, and whoever else pushes into the same      *)
(* buffer (Session::flush and its completion handler; handle_write).       *)
(***************************************************************************)
ImplementsReplies ==
    INSTANCE ReplyChannel WITH
        made <- [c \in Conn |-> world.link[c].made],
        received <- got

RepliesInOrder == ImplementsReplies!Spec

(***************************************************************************)
(* The limit on a connection's output holds between two handlers of the    *)
(* asio backend for every session, and between two sweeps of the poll      *)
(* backend for every connection that is not a replica: poll's Conn::send   *)
(* appends without a limit, and the limit is only looked at after a read   *)
(* of the same connection (Session::send, Session::read; handle_read).     *)
(***************************************************************************)
OutputBounded ==
    \A c \in Conn :
        Open(c) /\ (backend = "asio" \/ (Swept /\ c \notin world.fed))
            => Queued(world.link[c]) <= MaxOut

(***************************************************************************)
(* A client that sends its requests and then ends its side gets all of the *)
(* complete ones executed.  The poll backend forgets them when a chunk was *)
(* read full and the next recv() in the same handle_read finds the end of  *)
(* the stream: it returns before it calls the handler (poll_server.cpp:    *)
(* 208), with at least one whole chunk in the buffer.                      *)
(***************************************************************************)
EndOfStreamExecutes ==
    \A c \in Conn :
        world.link[c].why = "eof" =>
            \/ world.link[c].done = sent[c] \div 2
            \/ backend = "poll" /\ world.link[c].in >= ReadChunk

(***************************************************************************)
(* Every path that closes a connection does all of the bookkeeping, once   *)
(* and in the same step, whatever other paths have been taken before it:   *)
(* INFO's connected_clients stays the number of the open connections, and  *)
(* a replica that closes is no longer fed, so that the master does not go  *)
(* on writing into a dead link (do_close, drop, Stats, on_disconnect).     *)
(***************************************************************************)
ClosingIsBooked ==
    [][/\ world'.active = Cardinality({c \in Conn : Open(c)'})
       /\ \A c \in world.fed : Open(c) /\ Closed(c)' => c \notin world'.fed]_vars

(***************************************************************************)
(* While async_write holds a pointer into out_, nothing changes out_: the  *)
(* handler and Session::send only append to pending_ (Session::flush).     *)
(***************************************************************************)
WriteBufferStable ==
    [][\A c \in Conn :
        LET k == world.link[c] IN
        k.writing /\ k.written < Len(k.out) /\ world'.link[c].writing
            => world'.link[c].out = k.out]_vars

(***************************************************************************)
(* Every complete request that a client sends is executed, or its          *)
(* connection is closed: a request that came with the last bytes of a read *)
(* does not wait for another one (Session::read, handle_read).             *)
(***************************************************************************)
EveryRequestServed ==
    \A c \in Conn : []<>(Closed(c) \/ world.link[c].done = sent[c] \div 2)

(***************************************************************************)
(* Every reply and every push reaches a client that keeps reading, or its  *)
(* connection is closed: nothing stays queued behind a write that nobody   *)
(* starts (Session::flush and its handler, POLLOUT in PollServer::run).    *)
(***************************************************************************)
EveryReplyArrives ==
    \A c \in Draining : []<>(Closed(c) \/ Len(got[c]) = world.link[c].made)
=============================================================================
