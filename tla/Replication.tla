---------------------------- MODULE Replication ----------------------------
(***************************************************************************)
(* Master-replica replication over the asio backend: the master's half of  *)
(* replication.cpp (start_full_resync, set_replica_port, on_replica_ack,   *)
(* on_disconnect, propagate), the sessions that carry it (Session::send,   *)
(* flush, do_close), and, on every replica, the link thread that reads the *)
(* stream and the event loop that applies what the thread has posted.      *)
(*                                                                         *)
(* What a write does to the keyspace is the subject of Propagation.  Here  *)
(* the n-th write of the master is the number n, a keyspace is the         *)
(* sequence of the writes it reflects, and an offset counts writes instead *)
(* of bytes.  A snapshot of the master is the sequence 1..n.               *)
(***************************************************************************)
EXTENDS Integers, Sequences, Functions

CONSTANTS
    Replica,        \* the servers that follow this master
    MaxWrites,      \* bound: writes the master executes
    MaxConn,        \* bound: connections a replica makes, all but the last may fail
    SnapshotWeight, \* size of a snapshot, where a command has size 1
    MaxOut          \* max_output_buffer, in the same unit

ASSUME ReplicationAssumption ==
    /\ MaxWrites \in Nat
    /\ MaxConn \in Nat
    /\ SnapshotWeight \in Nat
    /\ MaxOut \in Nat \ {0}

VARIABLES
    written,      \* master_offset_
    replicas,     \* replicas_: the links that are fed, in the vector's order
    ports,        \* pending_ports_: the links that have announced a port
    acked,        \* ack_offset of the Replica that holds the link
    open,         \* the sessions that are not closed_
    stream,       \* everything send() has accepted on a link since it opened
    sent,         \* how much of it has left the output buffer
    request,      \* the request of the replica that the master has not read
    conn,         \* replica: how many connections it has made
    link,         \* replica: link_state_
    received,     \* replica: how much of the stream the thread has parsed
    offset,       \* replica: replica_offset_
    posted,       \* replica: tasks posted to its event loop and not yet run
    data,         \* replica: the writes its keyspace reflects
    invalidated   \* history: propagate's loop has run over a changed vector

masterVars == <<written, replicas, ports, acked, open, stream, sent>>
replicaVars == <<conn, link, received, offset, posted, data>>
vars == <<masterVars, request, replicaVars, invalidated>>

(***************************************************************************)
(* A connection is named by its replica and a serial number, and on the    *)
(* master it is the ClientLink* of the session that serves it.             *)
(***************************************************************************)
Conn == Replica \X (1..MaxConn)

Current(r) == <<r, conn[r]>>

Ok == [type |-> "ok", n |-> 0]

FullResync(n) == [type |-> "rdb", n |-> n]

Command(n) == [type |-> "cmd", n |-> n]

Message == [type : {"ok", "rdb", "cmd"}, n : Nat]

NoRequest == [type |-> "none", n |-> 0]

Request == [type : {"none", "port", "psync", "ack"}, n : Nat]

LinkState == {"connecting", "handshaking", "syncing", "connected"}

\* The keyspace a replica starts from: write 0 is one its master never made.
OwnData == <<0>>

Snapshot(n) == [i \in 1..n |-> i]

TypeOK ==
    /\ written \in Nat
    /\ replicas \in Seq(Conn)
    /\ ports \in SUBSET Conn
    /\ acked \in [Conn -> Nat]
    /\ open \in SUBSET Conn
    /\ stream \in [Conn -> Seq(Message)]
    /\ sent \in [Conn -> Nat]
    /\ request \in [Conn -> Request]
    /\ conn \in [Replica -> 0..MaxConn]
    /\ link \in [Replica -> LinkState]
    /\ received \in [Replica -> Nat]
    /\ offset \in [Replica -> Nat]
    /\ posted \in [Replica -> Seq([type : {"rdb", "cmd"}, n : Nat])]
    /\ data \in [Replica -> Seq(Nat)]
    /\ invalidated \in BOOLEAN

Init ==
    /\ written = 0
    /\ replicas = << >>
    /\ ports = {}
    /\ acked = [c \in Conn |-> 0]
    /\ open = {}
    /\ stream = [c \in Conn |-> << >>]
    /\ sent = [c \in Conn |-> 0]
    /\ request = [c \in Conn |-> NoRequest]
    /\ conn = [r \in Replica |-> 0]
    /\ link = [r \in Replica |-> "connecting"]
    /\ received = [r \in Replica |-> 0]
    /\ offset = [r \in Replica |-> 0]
    /\ posted = [r \in Replica |-> << >>]
    /\ data = [r \in Replica |-> OwnData]
    /\ invalidated = FALSE


(***************************************************************************)
(* Sessions of the master.                                                 *)
(***************************************************************************)

\* What a message takes of the output buffer.
Weight(m) == IF m.type = "rdb" THEN SnapshotWeight ELSE 1

Buffered(c) ==
    SumFunctionOnSet([i \in DOMAIN stream[c] |-> Weight(stream[c][i])],
                     (sent[c] + 1)..Len(stream[c]))

Overflows(c, m) == Buffered(c) + Weight(m) > MaxOut

\* on_disconnect: remove_if over the whole vector, which keeps an entry at a time.
Without(links, c) ==
    LET kept[i \in 0..Len(links)] ==
            IF i = 0
            THEN << >>
            ELSE IF links[i] = c THEN kept[i - 1] ELSE Append(kept[i - 1], links[i])
    IN  kept[Len(links)]

Fed == {replicas[i] : i \in DOMAIN replicas}

(***************************************************************************)
(* propagate's loop when some send() overflows.  That send closes its      *)
(* session, and do_close calls on_disconnect, which erases the entry from  *)
(* the vector the loop is iterating.  The loop keeps the end it started    *)
(* with: entries behind the erased one have moved one slot forward, so the *)
(* next is skipped, and the slots past the new end still hold the links    *)
(* they held (remove_if moves, a moved raw pointer keeps its value).       *)
(*                                                                         *)
(* walk[i] is the vector's storage, its size, the links closed and, for    *)
(* each link, how often it was sent the message, after the first i slots.  *)
(***************************************************************************)
Erase(w, c) ==
    LET kept == Without(SubSeq(w.slots, 1, w.size), c)
    IN  [w EXCEPT
            !.slots = [j \in DOMAIN w.slots |->
                          IF j <= Len(kept) THEN kept[j] ELSE w.slots[j]],
            !.size = Len(kept),
            !.open = @ \ {c}]

Send(w, c, m) ==
    CASE c \notin w.open -> w
      [] c \in w.open /\ Buffered(c) + w.times[c] + Weight(m) > MaxOut -> Erase(w, c)
      [] OTHER -> [w EXCEPT !.times[c] = @ + 1]

Walk(m) ==
    LET walk[i \in 0..Len(replicas)] ==
            IF i = 0
            THEN [slots |-> replicas, size |-> Len(replicas), open |-> open,
                  times |-> [c \in Conn |-> 0]]
            ELSE Send(walk[i - 1], walk[i - 1].slots[i], m)
    IN  walk[Len(replicas)]

\* No send of the loop overflows: every open link in the vector gets m.
PropagateQuiet(m) ==
    /\ \A c \in Fed \cap open : ~Overflows(c, m)
    /\ stream' = [c \in Conn |->
                     IF c \in Fed \cap open THEN Append(stream[c], m) ELSE stream[c]]
    /\ UNCHANGED <<replicas, ports, open, invalidated>>

PropagateOverflow(m) ==
    LET w == Walk(m)
    IN  /\ \E c \in Fed \cap open : Overflows(c, m)
        /\ stream' = [c \in Conn |-> stream[c] \o [i \in 1..w.times[c] |-> m]]
        /\ replicas' = SubSeq(w.slots, 1, w.size)
        /\ open' = w.open
        /\ ports' = ports \ (open \ w.open)
        /\ invalidated' = TRUE

\* A client's write, executed and propagated in one turn of the event loop.
ClientWrite ==
    /\ written < MaxWrites
    /\ written' = written + 1
    /\ \/ PropagateQuiet(Command(written + 1))
       \/ PropagateOverflow(Command(written + 1))
    /\ UNCHANGED <<acked, sent, request, replicaVars>>

(***************************************************************************)
(* REPLCONF listening-port, PSYNC and REPLCONF ACK.                        *)
(***************************************************************************)
set_replica_port(c) ==
    /\ ports' = ports \cup {c}
    /\ stream' = [stream EXCEPT ![c] = Append(@, Ok)]
    /\ UNCHANGED <<replicas, acked, open>>

\* Bug: the stream starts one write behind the end of the snapshot.
MutSnapshotBehindOffset(c) ==
    /\ replicas' = Append(replicas, c)
    /\ acked' = [acked EXCEPT ![c] = 0]
    /\ stream' = [stream EXCEPT ![c] = Append(@, FullResync(IF written > 0 THEN written - 1 ELSE 0))]
    /\ UNCHANGED <<ports, open>>

\* A snapshot that does not fit closes the session, whose on_disconnect finds
\* nothing to erase; the closed link is then pushed all the same.
start_full_resync(c) ==
    /\ replicas' = Append(replicas, c)
    /\ acked' = [acked EXCEPT ![c] = 0]
    /\ IF Overflows(c, FullResync(written))
       THEN /\ open' = open \ {c}
            /\ ports' = ports \ {c}
            /\ UNCHANGED stream
       ELSE /\ stream' = [stream EXCEPT ![c] = Append(@, FullResync(written))]
            /\ UNCHANGED <<ports, open>>

on_replica_ack(c, n) ==
    /\ acked' = IF c \in Fed THEN [acked EXCEPT ![c] = n] ELSE acked
    /\ UNCHANGED <<replicas, ports, open, stream>>

HandleRequest(c) ==
    /\ c \in open
    /\ request[c].type # "none"
    /\ request' = [request EXCEPT ![c] = NoRequest]
    /\ \/ request[c].type = "port" /\ set_replica_port(c)
       \/ request[c].type = "psync" /\ start_full_resync(c)
       \/ request[c].type = "ack" /\ on_replica_ack(c, request[c].n)
    /\ UNCHANGED <<written, sent, replicaVars, invalidated>>

\* The next message of an open session leaves the output buffer.
Transmit(c) ==
    /\ c \in open
    /\ sent[c] < Len(stream[c])
    /\ sent' = [sent EXCEPT ![c] = @ + 1]
    /\ UNCHANGED <<written, replicas, ports, acked, open, stream, request,
                   replicaVars, invalidated>>

\* A connection may fail as long as its replica can still make another.
MayFail(c) == c[2] < MaxConn

PeerGone(c) == c # Current(c[1]) \/ link[c[1]] = "connecting"

\* Bug: on_disconnect forgets the entry in replicas_.
MutCloseKeepsReplica(c) ==
    /\ c \in open
    /\ MayFail(c) \/ PeerGone(c)
    /\ open' = open \ {c}
    /\ ports' = ports \ {c}
    /\ UNCHANGED <<written, replicas, acked, stream, sent, request, replicaVars, invalidated>>

\* The session's read or write fails: do_close, and with it on_disconnect.
Close(c) ==
    /\ c \in open
    /\ MayFail(c) \/ PeerGone(c)
    /\ open' = open \ {c}
    /\ replicas' = Without(replicas, c)
    /\ ports' = ports \ {c}
    /\ UNCHANGED <<written, acked, stream, sent, request, replicaVars, invalidated>>


(***************************************************************************)
(* The link thread of a replica.  PING and REPLCONF capa change nothing on *)
(* the master and are folded into the round trip that announces the port.  *)
(***************************************************************************)
\* Bug: a replica that has lost its link does not try again.
MutConnectOnce(r) ==
    /\ link[r] = "connecting"
    /\ conn[r] = 0
    /\ MaxConn > 0
    /\ conn' = [conn EXCEPT ![r] = 1]
    /\ open' = open \cup {<<r, 1>>}
    /\ request' = [request EXCEPT ![<<r, 1>>] = [type |-> "port", n |-> 0]]
    /\ link' = [link EXCEPT ![r] = "handshaking"]
    /\ received' = [received EXCEPT ![r] = 0]
    /\ UNCHANGED <<written, replicas, ports, acked, stream, sent, offset,
                   posted, data, invalidated>>

Connect(r) ==
    /\ link[r] = "connecting"
    /\ conn[r] < MaxConn
    /\ conn' = [conn EXCEPT ![r] = @ + 1]
    /\ open' = open \cup {<<r, conn[r] + 1>>}
    /\ request' = [request EXCEPT ![<<r, conn[r] + 1>>] = [type |-> "port", n |-> 0]]
    /\ link' = [link EXCEPT ![r] = "handshaking"]
    /\ received' = [received EXCEPT ![r] = 0]
    /\ UNCHANGED <<written, replicas, ports, acked, stream, sent, offset,
                   posted, data, invalidated>>

Arrived(r) ==
    /\ link[r] # "connecting"
    /\ received[r] < sent[Current(r)]

NextMessage(r) == stream[Current(r)][received[r] + 1]

Psync(r) ==
    /\ Arrived(r)
    /\ link[r] = "handshaking"
    /\ NextMessage(r).type = "ok"
    /\ received' = [received EXCEPT ![r] = @ + 1]
    /\ request' = [request EXCEPT ![Current(r)] = [type |-> "psync", n |-> 0]]
    /\ link' = [link EXCEPT ![r] = "syncing"]
    /\ UNCHANGED <<masterVars, conn, offset, posted, data, invalidated>>

\* Bug: the offset in the FULLRESYNC line is ignored.
MutLoadSnapshotNoOffset(r) ==
    /\ Arrived(r)
    /\ link[r] = "syncing"
    /\ NextMessage(r).type = "rdb"
    /\ received' = [received EXCEPT ![r] = @ + 1]
    /\ posted' = [posted EXCEPT ![r] = Append(@, NextMessage(r))]
    /\ link' = [link EXCEPT ![r] = "connected"]
    /\ UNCHANGED <<masterVars, request, conn, offset, data, invalidated>>

\* FULLRESYNC and the RDB behind it: post the replacement of the keyspace,
\* then take the master's offset and go on to the stream.
LoadSnapshot(r) ==
    /\ Arrived(r)
    /\ link[r] = "syncing"
    /\ NextMessage(r).type = "rdb"
    /\ received' = [received EXCEPT ![r] = @ + 1]
    /\ posted' = [posted EXCEPT ![r] = Append(@, NextMessage(r))]
    /\ offset' = [offset EXCEPT ![r] = NextMessage(r).n]
    /\ link' = [link EXCEPT ![r] = "connected"]
    /\ UNCHANGED <<masterVars, request, conn, data, invalidated>>

ReadCommand(r) ==
    /\ Arrived(r)
    /\ link[r] = "connected"
    /\ NextMessage(r).type = "cmd"
    /\ received' = [received EXCEPT ![r] = @ + 1]
    /\ posted' = [posted EXCEPT ![r] = Append(@, NextMessage(r))]
    /\ offset' = [offset EXCEPT ![r] = @ + 1]
    /\ UNCHANGED <<masterVars, request, conn, link, data, invalidated>>

\* The acknowledgement of the last second.  Bound: one unread at a time.
SendAck(r) ==
    /\ link[r] = "connected"
    /\ request[Current(r)] = NoRequest
    /\ request' = [request EXCEPT ![Current(r)] = [type |-> "ack", n |-> offset[r]]]
    /\ UNCHANGED <<masterVars, replicaVars, invalidated>>

\* The thread's read or write fails; the next turn of its loop reconnects.
\* Tasks it has posted stay posted.
LoseLink(r) ==
    /\ link[r] # "connecting"
    /\ MayFail(Current(r)) \/ Current(r) \notin open
    /\ link' = [link EXCEPT ![r] = "connecting"]
    /\ UNCHANGED <<masterVars, request, conn, received, offset, posted, data, invalidated>>

\* Bug: a resync loads on top of the old keyspace.
MutAppliedNoClear(d, task) ==
    IF task.type = "rdb" THEN d \o Snapshot(task.n) ELSE Append(d, task.n)

\* What the next posted task leaves in the keyspace: a resync clears it first.
Applied(d, task) == IF task.type = "rdb" THEN Snapshot(task.n) ELSE Append(d, task.n)

\* The replica's event loop runs the oldest task the thread has posted to it.
RunPosted(r) ==
    /\ posted[r] # << >>
    /\ data' = [data EXCEPT ![r] = Applied(@, Head(posted[r]))]
    /\ posted' = [posted EXCEPT ![r] = Tail(@)]
    /\ UNCHANGED <<masterVars, request, conn, link, received, offset, invalidated>>

MasterNext ==
    \/ ClientWrite
    \/ \E c \in Conn : HandleRequest(c) \/ Transmit(c) \/ Close(c)

ReplicaNext ==
    \E r \in Replica :
        \/ Connect(r) \/ Psync(r) \/ LoadSnapshot(r) \/ ReadCommand(r)
        \/ SendAck(r) \/ LoseLink(r) \/ RunPosted(r)

Next == MasterNext \/ ReplicaNext

Spec == Init /\ [][Next]_vars


(***************************************************************************)
(* Fairness.  Both event loops and the link thread are loops that poll     *)
(* what is enabled here; a failure is never obliged to happen, only to be  *)
(* noticed once it has.                                                    *)
(***************************************************************************)
NoticeClosed(r) == Current(r) \notin open /\ LoseLink(r)

Fairness ==
    /\ \A c \in Conn : WF_vars(HandleRequest(c)) /\ WF_vars(Transmit(c))
    /\ \A r \in Replica :
        /\ WF_vars(Connect(r))
        /\ WF_vars(Psync(r))
        /\ WF_vars(LoadSnapshot(r))
        /\ WF_vars(ReadCommand(r))
        /\ WF_vars(NoticeClosed(r))
        /\ WF_vars(RunPosted(r))

FairSpec == Spec /\ Fairness

(***************************************************************************)
(* Properties.                                                             *)
(***************************************************************************)

\* The keyspace of r is the replica's own or the first writes of the master.
ShowsPrefix(r) ==
    \/ data[r] = OwnData
    \/ Len(data[r]) <= written /\ \A i \in DOMAIN data[r] : data[r][i] = i

\* No replica ever has a gap, a repetition or a reordering in the writes it
\* shows (full resync, stream and tasks left over from an earlier connection
\* included), as long as no overflow has hit propagate's loop.
PrefixConsistent == ~invalidated => \A r \in Replica : ShowsPrefix(r)

\* A replica that shows a write of the master shows every earlier one ("from
\* then on every write is streamed to it"), overflow or not.
EveryWriteStreamed ==
    \A r \in Replica : \A i \in DOMAIN data[r] : \A n \in 1..data[r][i] :
        \E j \in DOMAIN data[r] : data[r][j] = n

\* The vector of fed links holds no link twice and none whose session is
\* closed, and no port is remembered for a closed session: on_disconnect has
\* run for every session that is gone, whichever path closed it.
FedLinksOpen ==
    /\ IsInjective(replicas)
    /\ Fed \subseteq open
    /\ ports \subseteq open

\* Lag is measurable: what a connected replica has counted plus what is still
\* under way on its link is exactly the master's offset, and no
\* acknowledgement the master holds is ahead of the replica that sent it.
OffsetsAgree ==
    ~invalidated =>
        \A r \in Replica :
            link[r] = "connected" /\ Current(r) \in Fed \cap open =>
                /\ offset[r] + Len(stream[Current(r)]) - received[r] = written
                /\ acked[Current(r)] <= offset[r]

\* The view ReplicatedPrefix speaks of; a keyspace that is no prefix has none.
Broken == -2

View(r) ==
    CASE data[r] = OwnData -> -1
      [] data[r] # OwnData /\ ShowsPrefix(r) -> Len(data[r])
      [] OTHER -> Broken

Abstract == INSTANCE ReplicatedPrefix WITH view <- [r \in Replica |-> View(r)]

\* Links that fail, reconnect and resync implement a prefix that only grows:
\* a reconnecting replica never shows less than it did, although snapshots
\* and commands of several connections queue up in its event loop.
ImplementsPrefix == Abstract!Spec

\* Once the links stop failing every replica shows every write (the gate "two
\* replicas converge under sustained writes").
Converges == \A r \in Replica : <>[](data[r] = Snapshot(written))
=============================================================================
