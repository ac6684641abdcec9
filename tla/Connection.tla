----------------------------- MODULE Connection -----------------------------
(***************************************************************************)
(* What the two server backends share: the clients, the sockets between    *)
(* them and the server, and the state of a connection.  Handler adds the   *)
(* handler that both backends call; AsioSession and PollLoop extend it     *)
(* with the event loops of asio_server.cpp and of poll_server.cpp.         *)
(*                                                                         *)
(* A request is two units on the wire, so that a read can end inside one;  *)
(* RequestStream is about its bytes.  Everything the server sends on a     *)
(* connection is numbered 1, 2, ... in the order in which send() or the    *)
(* handler appended it, and has size 1.                                    *)
(***************************************************************************)
EXTENDS Integers, Sequences, FiniteSets, FiniteSetsExt

CONSTANTS
    Conn,       \* the connections
    Script,     \* the requests each client has to send: "write" or "psync"
    Draining,   \* the clients that keep reading what they are sent
    ReadChunk,  \* read_chunk, in units
    MaxOut,     \* max_output_buffer
    SendCap     \* what the kernel and the network hold towards one client

\* A replica asks for a resync once per connection: asked twice, the master would
\* hold its link twice, and world.fed is a set.
ASSUME ConnectionAssumption ==
    /\ IsFiniteSet(Conn)
    /\ \A c \in Conn : Script[c] \in Seq({"write", "psync"})
    /\ \A c \in Conn : \A i, j \in DOMAIN Script[c] :
           Script[c][i] = "psync" /\ Script[c][j] = "psync" => i = j
    /\ Draining \subseteq Conn
    /\ {ReadChunk, MaxOut, SendCap} \subseteq Nat \ {0}

VARIABLES
    backend,  \* which of the two backends the server runs
    sent,     \* client: units of its script it has sent
    peer,     \* client: "open", or it has sent a FIN, or reset the connection
    got,      \* client: what it has received
    rcv,      \* socket: units the server has not read yet
    net,      \* socket: what the server has written and the client not yet read
    world     \* server: the connections, the replicas, the gauge of clients

clientVars == <<sent, peer, got>>

(***************************************************************************)
(* A connection's state in the server.  "in" counts the units in its input *)
(* buffer.  Only asio's Session has pending, writing and written.          *)
(***************************************************************************)
LinkType ==
    [state   : {"backlog", "open", "closed"},
     why     : {"none", "eof", "error", "overflow"},  \* history: why it closed
     in      : Nat,
     out     : Seq(Nat),
     pending : Seq(Nat),
     writing : BOOLEAN,
     written : Nat,    \* how much of out the write in flight has got rid of
     done    : Nat,    \* history: requests the handler has executed
     made    : Nat]    \* history: what has been queued for the client

NewLink ==
    [state |-> "backlog", why |-> "none", in |-> 0, out |-> <<>>,
     pending |-> <<>>, writing |-> FALSE, written |-> 0, done |-> 0, made |-> 0]

ConnectionInit ==
    /\ sent = [c \in Conn |-> 0]
    /\ peer = [c \in Conn |-> "open"]
    /\ got = [c \in Conn |-> <<>>]
    /\ rcv = [c \in Conn |-> 0]
    /\ net = [c \in Conn |-> <<>>]
    /\ world = [link |-> [c \in Conn |-> NewLink], fed |-> {}, active |-> 0]

ConnectionTypeOK ==
    /\ sent \in [Conn -> Nat]
    /\ peer \in [Conn -> {"open", "fin", "reset"}]
    /\ got \in [Conn -> Seq(Nat)]
    /\ rcv \in [Conn -> Nat]
    /\ net \in [Conn -> Seq(Nat)]
    /\ world \in [link : [Conn -> LinkType], fed : SUBSET Conn, active : Nat]

Open(c) == world.link[c].state = "open"

Closed(c) == world.link[c].state = "closed"

-----------------------------------------------------------------------------
(***************************************************************************)
(* What one read of the socket brings.                                     *)
(***************************************************************************)
ReadSize(c) == Min({rcv[c], ReadChunk})

-----------------------------------------------------------------------------
(***************************************************************************)
(* The clients and the network.  After a FIN a client still reads; after a *)
(* reset it is gone, but what it sent before stays readable.               *)
(***************************************************************************)
ClientSends(c) ==
    /\ peer[c] = "open"
    /\ ~Closed(c)
    /\ sent[c] < 2 * Len(Script[c])
    /\ sent' = [sent EXCEPT ![c] = @ + 1]
    /\ rcv' = [rcv EXCEPT ![c] = @ + 1]
    /\ UNCHANGED <<peer, got, net, world>>

ClientEnds(c) ==
    /\ peer[c] = "open"
    /\ peer' = [peer EXCEPT ![c] = "fin"]
    /\ UNCHANGED <<sent, got, rcv, net, world>>

ClientResets(c) ==
    /\ peer[c] # "reset"
    /\ peer' = [peer EXCEPT ![c] = "reset"]
    /\ net' = [net EXCEPT ![c] = <<>>]
    /\ UNCHANGED <<sent, got, rcv, world>>

ClientReads(c) ==
    /\ peer[c] # "reset"
    /\ net[c] # <<>>
    /\ got' = [got EXCEPT ![c] = Append(@, Head(net[c]))]
    /\ net' = [net EXCEPT ![c] = Tail(@)]
    /\ UNCHANGED <<sent, peer, rcv, world>>

Client ==
    \E c \in Conn :
        \/ ClientSends(c)
        \/ ClientEnds(c)
        \/ ClientResets(c)
        \/ ClientReads(c)
=============================================================================
