---------------------------- MODULE ReplicaRole ----------------------------
(***************************************************************************)
(* REPLICAOF at run time: servers that become replicas of one another and  *)
(* are promoted again, while clients write.  Every server has one event    *)
(* loop, which serves clients and replicas and runs what is posted to it,  *)
(* and, as a replica, one link thread.  stop_replication() joins the       *)
(* thread on the event loop, and the thread's handshake and the snapshot   *)
(* are read without a deadline and without looking at link_stop_.          *)
(*                                                                         *)
(* Replication models one connection between master and replica in detail; *)
(* here it is a FIFO that may break.  The round trips of the handshake are *)
(* one: each needs an answer from the master's event loop.  A write is its *)
(* origin and a number, and a keyspace is the sequence of writes in it.    *)
(***************************************************************************)
EXTENDS Integers, Sequences

CONSTANTS
    Server,
    None,       \* no master; replica_of_port_ is 0
    MaxWrites,  \* bound: writes of the clients
    MaxRoles,   \* bound: REPLICAOF commands
    MaxBreaks   \* bound: connections that break by themselves

ASSUME RoleAssumption ==
    /\ None \notin Server
    /\ {MaxWrites, MaxRoles, MaxBreaks} \subseteq Nat

VARIABLES
    role,      \* replica_of_: the master this server follows
    loop,      \* "free", or the event loop is in join()
    wanted,    \* the master to follow once join() has returned
    stop,      \* link_stop_
    thread,    \* link_state_, and whether the thread runs
    feed,      \* what the master has sent and the thread has not read
    fed,       \* replicas_: whom this server streams its clients' writes to
    posted,    \* tasks posted to the event loop and not yet run
    data,      \* the keyspace
    shows,     \* history: whose snapshot was loaded since the role was taken
    leftover,  \* history: the role was left with tasks of the link still posted
    demoted,   \* history: the servers that have ever been replicas
    writes, roles, breaks  \* what has been used up of the bounds

roleVars == <<role, loop, wanted, stop, leftover, demoted, roles>>
linkVars == <<thread, feed, fed, breaks>>
vars == <<roleVars, linkVars, posted, data, shows, writes>>

Write == [from : Server, n : 1..MaxWrites]

Task ==
    [type : {"rdb"}, from : Server, data : Seq(Write)]
        \cup [type : {"cmd"}, write : Write]

TypeOK ==
    /\ role \in [Server -> Server \cup {None}]
    /\ loop \in [Server -> {"free", "joining"}]
    /\ wanted \in [Server -> Server \cup {None}]
    /\ stop \in [Server -> BOOLEAN]
    /\ thread \in [Server -> {"none", "connecting", "waiting", "connected"}]
    /\ feed \in [Server -> Seq(Task)]
    /\ fed \in [Server -> SUBSET Server]
    /\ posted \in [Server -> Seq(Task)]
    /\ data \in [Server -> Seq(Write)]
    /\ shows \in [Server -> Server \cup {None}]
    /\ leftover \in [Server -> BOOLEAN]
    /\ demoted \subseteq Server
    /\ writes \in 0..MaxWrites
    /\ roles \in 0..MaxRoles
    /\ breaks \in 0..MaxBreaks

Init ==
    /\ role = [s \in Server |-> None]
    /\ loop = [s \in Server |-> "free"]
    /\ wanted = [s \in Server |-> None]
    /\ stop = [s \in Server |-> FALSE]
    /\ thread = [s \in Server |-> "none"]
    /\ feed = [s \in Server |-> <<>>]
    /\ fed = [s \in Server |-> {}]
    /\ posted = [s \in Server |-> <<>>]
    /\ data = [s \in Server |-> <<>>]
    /\ shows = [s \in Server |-> None]
    /\ leftover = [s \in Server |-> FALSE]
    /\ demoted = {}
    /\ writes = 0 /\ roles = 0 /\ breaks = 0

-----------------------------------------------------------------------------
(***************************************************************************)
(* The event loop.  dispatch() refuses a client's write on a replica.      *)
(***************************************************************************)

\* Bug: a replica accepts its clients' writes.
MutMayWrite(s) == TRUE

MayWrite(s) == role[s] = None

ClientWrite(s) ==
    LET w == [from |-> s, n |-> writes + 1]
    IN  /\ loop[s] = "free"
        /\ MayWrite(s)
        /\ writes < MaxWrites
        /\ writes' = writes + 1
        /\ data' = [data EXCEPT ![s] = Append(@, w)]
        /\ feed' = [r \in Server |->
               IF r \in fed[s] THEN Append(feed[r], [type |-> "cmd", write |-> w])
               ELSE feed[r]]
        /\ UNCHANGED <<roleVars, thread, fed, breaks, posted, shows>>

\* REPLICAOF m and, with None, REPLICAOF NO ONE: stop_replication() up to join.
Replicaof(s, m) ==
    /\ loop[s] = "free"
    /\ roles < MaxRoles
    /\ roles' = roles + 1
    /\ stop' = [stop EXCEPT ![s] = TRUE]
    /\ loop' = [loop EXCEPT ![s] = "joining"]
    /\ wanted' = [wanted EXCEPT ![s] = m]
    /\ UNCHANGED <<role, leftover, demoted, linkVars, posted, data, shows, writes>>

\* Bug: the thread is detached instead of joined.
MutMayReturn(s) == TRUE

MayReturn(s) == thread[s] = "none"

\* join() returns; with a new master a new thread is started.  The tasks of the
\* old one stay posted.
JoinReturns(s) ==
    /\ loop[s] = "joining"
    /\ MayReturn(s)
    /\ loop' = [loop EXCEPT ![s] = "free"]
    /\ role' = [role EXCEPT ![s] = wanted[s]]
    /\ shows' = [shows EXCEPT ![s] = None]
    /\ leftover' = [leftover EXCEPT ![s] = posted[s] # <<>>]
    /\ IF wanted[s] = None
       THEN UNCHANGED <<stop, thread, demoted>>
       ELSE /\ stop' = [stop EXCEPT ![s] = FALSE]
            /\ thread' = [thread EXCEPT ![s] = "connecting"]
            /\ demoted' = demoted \cup {s}
    /\ UNCHANGED <<wanted, roles, feed, fed, breaks, posted, data, writes>>

\* PSYNC: the snapshot, and from now on the stream.
Answer(m, s) ==
    /\ loop[m] = "free"
    /\ role[s] = m
    /\ thread[s] = "waiting"
    /\ s \notin fed[m]
    /\ feed' = [feed EXCEPT ![s] = <<[type |-> "rdb", from |-> m, data |-> data[m]]>>]
    /\ fed' = [fed EXCEPT ![m] = @ \cup {s}]
    /\ UNCHANGED <<roleVars, thread, breaks, posted, data, shows, writes>>

Applied(d, task) ==
    IF task.type = "rdb" THEN task.data ELSE Append(d, task.write)

\* apply_silently: what the master sends is not streamed on.
RunPosted(s) ==
    LET task == Head(posted[s])
    IN  /\ loop[s] = "free"
        /\ posted[s] # <<>>
        /\ posted' = [posted EXCEPT ![s] = Tail(@)]
        /\ data' = [data EXCEPT ![s] = Applied(@, task)]
        /\ shows' = IF task.type = "rdb" THEN [shows EXCEPT ![s] = task.from]
                    ELSE shows
        /\ UNCHANGED <<roleVars, linkVars, writes>>

-----------------------------------------------------------------------------
(***************************************************************************)
(* The link thread.  The master's kernel accepts the connection whatever   *)
(* its event loop is doing.                                                *)
(***************************************************************************)
Connect(s) ==
    /\ thread[s] = "connecting"
    /\ ~stop[s]
    /\ thread' = [thread EXCEPT ![s] = "waiting"]
    /\ UNCHANGED <<roleVars, feed, fed, breaks, posted, data, shows, writes>>

ToPost(s) == Head(feed[s])

Post(s) ==
    /\ feed[s] # <<>>
    /\ posted' = [posted EXCEPT ![s] = Append(@, ToPost(s))]
    /\ feed' = [feed EXCEPT ![s] = Tail(@)]
    /\ UNCHANGED <<roleVars, fed, breaks, data, shows, writes>>

\* The handshake and the snapshot: blocking reads.
ReadSnapshot(s) ==
    /\ thread[s] = "waiting"
    /\ thread' = [thread EXCEPT ![s] = "connected"]
    /\ Post(s)

\* Bug: the loop that reads the stream does not look at link_stop_.
MutStreams(s) == thread[s] = "connected"

Streams(s) == thread[s] = "connected" /\ ~stop[s]

ReadStream(s) ==
    /\ Streams(s)
    /\ UNCHANGED thread
    /\ Post(s)

\* The socket is closed; what the master writes into it reaches nobody.
Disconnected(s) ==
    /\ feed' = [feed EXCEPT ![s] = <<>>]
    /\ fed' = [m \in Server |-> fed[m] \ {s}]
    /\ UNCHANGED <<roleVars, posted, data, shows, writes>>

\* link_stop_ is seen at the top of the thread's loops.
ThreadEnds(s) ==
    /\ thread[s] \in {"connecting", "connected"}
    /\ stop[s] /\ ~Streams(s)
    /\ thread' = [thread EXCEPT ![s] = "none"]
    /\ Disconnected(s)
    /\ UNCHANGED breaks

\* Bug: a thread that has lost its link does not try again.
MutAfterBreak == "none"

AfterBreak == "connecting"

LinkBreaks(s) ==
    /\ thread[s] \in {"waiting", "connected"}
    /\ breaks < MaxBreaks
    /\ breaks' = breaks + 1
    /\ thread' = [thread EXCEPT ![s] = AfterBreak]
    /\ Disconnected(s)

-----------------------------------------------------------------------------
EventLoop(s) ==
    \/ JoinReturns(s)
    \/ RunPosted(s)
    \/ \E r \in Server : Answer(s, r)

Thread(s) == Connect(s) \/ ReadSnapshot(s) \/ ReadStream(s) \/ ThreadEnds(s)

Next ==
    \E s \in Server :
        \/ ClientWrite(s)
        \/ \E m \in Server \cup {None} : Replicaof(s, m)
        \/ EventLoop(s)
        \/ Thread(s)
        \/ LinkBreaks(s)

Spec == Init /\ [][Next]_vars

(***************************************************************************)
(* Event loops and threads go on while they can; nobody has to send a      *)
(* command and no connection has to break.                                 *)
(***************************************************************************)
Fairness == \A s \in Server : WF_vars(EventLoop(s)) /\ WF_vars(Thread(s))

FairSpec == Spec /\ Fairness

-----------------------------------------------------------------------------
\* s is how t begins.
IsPrefix(s, t) == Len(s) <= Len(t) /\ \A i \in DOMAIN s : s[i] = t[i]

(***************************************************************************)
(* A replica whose master has never been a replica itself, and whose       *)
(* snapshot it has loaded, shows a prefix of the master's writes: whatever *)
(* roles it had before, no write of its own clients (dispatch's READONLY)  *)
(* and no task of an earlier link is left in its keyspace.                 *)
(***************************************************************************)
FollowsMaster ==
    \A s \in Server :
        role[s] # None /\ shows[s] = role[s] /\ role[s] \notin demoted
            => IsPrefix(data[s], data[role[s]])

(***************************************************************************)
(* Once join() has returned and no task of the old link is left, a server  *)
(* without a master never loses a write it shows: stop_replication() joins *)
(* the thread before it gives up the role, so nothing is posted behind it. *)
(***************************************************************************)
PromotedKeepsWrites ==
    [][\A s \in Server :
        role[s] = None /\ role'[s] = None /\ ~leftover[s]
            => IsPrefix(data[s], data'[s])]_vars

(***************************************************************************)
(* The event loop waits in join() for a thread that waits for the answer   *)
(* of another event loop.                                                  *)
(***************************************************************************)
Blocked(s) ==
    /\ loop[s] = "joining"
    /\ thread[s] = "waiting"
    /\ \A m \in Server : s \notin fed[m]

Hung(s) ==
    \E H \in SUBSET Server :
        s \in H /\ \A h \in H : Blocked(h) /\ role[h] \in H

(***************************************************************************)
(* REPLICAOF gives the event loop back, except in a ring of servers (one   *)
(* that follows itself included) that all wait in join() for a thread that *)
(* waits for the next of them (stop_replication on the event loop, the     *)
(* blocking reads of replica_thread).                                      *)
(***************************************************************************)
EventLoopReturns ==
    \A s \in Server : loop[s] = "joining" ~> loop[s] = "free" \/ Hung(s)

(***************************************************************************)
(* A server that keeps its master ends up with the master's data, however  *)
(* often roles changed and links broke before (replica_thread's loop); the *)
(* master itself is one that never was a replica: what a replica applies   *)
(* is not streamed on to its own replicas (apply_silently).                *)
(***************************************************************************)
ReplicaConverges ==
    \A s, m \in Server :
        <>[](role[s] = m /\ loop[s] = "free" /\ m \notin demoted)
            => []<>(data[s] = data[m])

(***************************************************************************)
(* "Implementations MUST NOT block" (handler.hpp:46): the event loop comes *)
(* back from every command, REPLICAOF included.                            *)
(***************************************************************************)
HandlerNeverBlocks == \A s \in Server : loop[s] = "joining" ~> loop[s] = "free"
=============================================================================
