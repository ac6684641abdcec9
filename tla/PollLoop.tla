------------------------------ MODULE PollLoop ------------------------------
(***************************************************************************)
(* The poll backend (poll_server.cpp): one loop that polls the listening   *)
(* socket and every connection, serves what poll() reported in one sweep,  *)
(* and drops the dead connections after the sweep.                         *)
(*                                                                         *)
(* poll() has returned with the events of all descriptors when the sweep   *)
(* starts; clients keep sending, reading and disconnecting meanwhile.  The *)
(* sweep follows the numbers of the descriptors, so its order is arbitrary.*)
(***************************************************************************)
EXTENDS Handler

CONSTANT NoConn

ASSUME NoConnAssumption == NoConn \notin Conn

VARIABLES
    revents,    \* what poll() reported and the sweep has not served yet
    accepting,  \* the listening socket was reported and is still to be served
    cursor,     \* the connection the sweep is in the middle of
    dead        \* the connections to drop at the end of the sweep

pollVars == <<revents, accepting, cursor, dead>>

PollInit ==
    /\ revents = [c \in Conn |-> {}]
    /\ accepting = FALSE
    /\ cursor = NoConn
    /\ dead = {}

PollTypeOK ==
    /\ revents \in [Conn -> SUBSET {"in", "out", "hup"}]
    /\ accepting \in BOOLEAN
    /\ cursor \in Conn \cup {NoConn}
    /\ dead \subseteq Conn

(***************************************************************************)
(* Nothing of the last poll() is left to serve.                            *)
(***************************************************************************)
Swept == ~accepting /\ dead = {} /\ \A c \in Conn : revents[c] = {}

-----------------------------------------------------------------------------
(***************************************************************************)
(* The top of the loop: the descriptors are collected, POLLOUT is asked    *)
(* for where output is queued, and poll() reports.                         *)
(***************************************************************************)
Ready(c) ==
    {e \in {"in", "out", "hup"} :
        /\ Open(c)
        /\ CASE e = "in"  -> rcv[c] > 0 \/ peer[c] # "open"
             [] e = "out" -> world.link[c].out # <<>> /\ Len(net[c]) < SendCap
             [] e = "hup" -> peer[c] = "reset"}

Poll ==
    LET backlog == \E c \in Conn : world.link[c].state = "backlog"
    IN  /\ Swept
        /\ backlog \/ \E c \in Conn : Ready(c) # {}
        /\ accepting' = backlog
        /\ revents' = [c \in Conn |-> Ready(c)]
        /\ UNCHANGED <<clientVars, rcv, net, world, cursor, dead>>

(***************************************************************************)
(* accept_ready drains the backlog; the listening socket comes first.      *)
(***************************************************************************)
AcceptReady ==
    LET new == {c \in Conn : world.link[c].state = "backlog"}
    IN  /\ accepting
        /\ accepting' = FALSE
        /\ world' = [world EXCEPT
               !.link = [c \in Conn |-> IF c \in new
                                        THEN [@[c] EXCEPT !.state = "open"]
                                        ELSE @[c]],
               !.active = @ + Cardinality(new)]
        /\ UNCHANGED <<clientVars, rcv, net, revents, cursor, dead>>

-----------------------------------------------------------------------------
(***************************************************************************)
(* handle_write: as much as the socket takes now.  It fails on a socket    *)
(* that has been reset.                                                    *)
(***************************************************************************)
Taken(w, c) == Min({Len(w.link[c].out), SendCap - Len(net[c])})

WriteFails(w, c) == w.link[c].out # <<>> /\ peer[c] = "reset"

HandleWrite(w, c) ==
    LET n == Taken(w, c)
    IN  /\ net' = [net EXCEPT ![c] = @ \o SubSeq(w.link[c].out, 1, n)]
        /\ world' = [w EXCEPT !.link[c].out = SubSeq(@, n + 1, Len(@))]

(***************************************************************************)
(* The sweep has come to c, or is in the middle of it.                     *)
(***************************************************************************)
AtConn(c) == ~accepting /\ revents[c] # {} /\ cursor \in {c, NoConn}

(***************************************************************************)
(* The sweep is done with c, which has failed and is dead.                 *)
(***************************************************************************)
Fail(c) ==
    /\ dead' = dead \cup {c}
    /\ revents' = [revents EXCEPT ![c] = {}]
    /\ cursor' = NoConn

(***************************************************************************)
(* The sweep is done with one event of c, and goes on to its next.         *)
(***************************************************************************)
Served(c, e) ==
    /\ revents' = [revents EXCEPT ![c] = @ \ {e}]
    /\ cursor' = IF revents[c] \ {e} = {} THEN NoConn ELSE c
    /\ UNCHANGED dead

HangUp(c) ==
    /\ AtConn(c)
    /\ "hup" \in revents[c]
    /\ Fail(c)
    /\ world' = [world EXCEPT !.link[c].why = "error"]
    /\ UNCHANGED <<clientVars, rcv, net, accepting>>

(***************************************************************************)
(* The rest of handle_read once its loop is done: the handler, the limit   *)
(* on the output, and a first attempt to write.                            *)
(***************************************************************************)
Process(w, c) ==
    LET v == OnData(w, c)
    IN  CASE Len(v.link[c].out) > MaxOut ->
                /\ world' = [v EXCEPT !.link[c].why = "overflow"]
                /\ Fail(c)
                /\ UNCHANGED net
          [] Len(v.link[c].out) <= MaxOut /\ WriteFails(v, c) ->
                /\ world' = [v EXCEPT !.link[c].why = "error"]
                /\ Fail(c)
                /\ UNCHANGED net
          [] OTHER ->
                /\ HandleWrite(v, c)
                /\ Served(c, "in")

(***************************************************************************)
(* handle_read, one recv() at a time: a full chunk asks for another, a     *)
(* short one or an empty socket ends the loop, and the end of the stream   *)
(* returns at once.                                                        *)
(***************************************************************************)
HandleRead(c) ==
    LET n == ReadSize(c)
        w == [world EXCEPT !.link[c].in = @ + n]
    IN  /\ AtConn(c)
        /\ "in" \in revents[c] /\ "hup" \notin revents[c]
        /\ rcv' = [rcv EXCEPT ![c] = @ - n]
        /\ \/ /\ n = ReadChunk
              /\ world' = w
              /\ cursor' = c
              /\ UNCHANGED <<net, revents, dead>>
           \/ /\ n < ReadChunk /\ (n > 0 \/ peer[c] = "open")
              /\ Process(w, c)
           \/ /\ n = 0 /\ peer[c] # "open"
              /\ world' = [w EXCEPT !.link[c].why =
                                IF peer[c] = "fin" THEN "eof" ELSE "error"]
              /\ Fail(c)
              /\ UNCHANGED net
        /\ UNCHANGED <<clientVars, accepting>>

HandlePollOut(c) ==
    /\ AtConn(c)
    /\ revents[c] = {"out"}
    /\ \/ /\ WriteFails(world, c)
          /\ world' = [world EXCEPT !.link[c].why = "error"]
          /\ Fail(c)
          /\ UNCHANGED net
       \/ /\ ~WriteFails(world, c)
          /\ HandleWrite(world, c)
          /\ Served(c, "out")
    /\ UNCHANGED <<clientVars, rcv, accepting>>

(***************************************************************************)
(* After the sweep: drop() for every connection that failed.               *)
(***************************************************************************)
Drop ==
    /\ ~accepting /\ dead # {} /\ \A c \in Conn : revents[c] = {}
    /\ world' = [world EXCEPT
           !.link = [c \in Conn |-> IF c \in dead
                                    THEN [@[c] EXCEPT !.state = "closed"]
                                    ELSE @[c]],
           !.fed = OnDisconnect(@, dead),
           !.active = @ - Cardinality(dead)]
    /\ dead' = {}
    /\ UNCHANGED <<clientVars, rcv, net, revents, accepting, cursor>>

EventLoop ==
    \/ Poll
    \/ AcceptReady
    \/ \E c \in Conn : HangUp(c) \/ HandleRead(c) \/ HandlePollOut(c)
    \/ Drop
=============================================================================
