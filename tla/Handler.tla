------------------------------ MODULE Handler ------------------------------
(***************************************************************************)
(* The command handler as a connection sees it, and the member functions   *)
(* of the two ClientLink classes through which it queues output: asio's    *)
(* Session and poll's Conn.  They are functions of the server's state.     *)
(***************************************************************************)
EXTENDS Connection

\* on_disconnect: links that are gone are no longer fed.
OnDisconnect(fed, gone) == fed \ gone

(***************************************************************************)
(* Session's member functions, on the state of the server.                 *)
(***************************************************************************)
\* Bug: do_close does not look at closed_.
MutDoClose(w, c, why) ==
    [w EXCEPT !.link[c].state = "closed", !.link[c].why = why,
              !.fed = OnDisconnect(@, {c}), !.active = @ - 1]

DoClose(w, c, why) ==
    IF w.link[c].state = "closed" THEN w
    ELSE [w EXCEPT !.link[c].state = "closed", !.link[c].why = why,
                   !.fed = OnDisconnect(@, {c}), !.active = @ - 1]

\* Bug: replies are moved to out_ while a write is in flight.
MutFlush(w, c) ==
    [w EXCEPT !.link[c].out = @ \o w.link[c].pending,
              !.link[c].pending = <<>>,
              !.link[c].writing = @ \/ w.link[c].pending # <<>>]

Flush(w, c) ==
    LET out == w.link[c].out \o w.link[c].pending
    IN  IF w.link[c].writing THEN w
        ELSE [w EXCEPT !.link[c].out = out, !.link[c].pending = <<>>,
                       !.link[c].writing = out # <<>>, !.link[c].written = 0]

(***************************************************************************)
(* What the limit counts: out_ keeps all of the write in flight until the  *)
(* write has completed.                                                    *)
(***************************************************************************)
Queued(k) == Len(k.out) + Len(k.pending)

AsioReply(w, c) ==
    [w EXCEPT !.link[c].made = @ + 1,
              !.link[c].pending = Append(@, w.link[c].made + 1)]

\* Bug: send() has no limit.
MutAsioSend(w, c) ==
    IF w.link[c].state = "closed" THEN w ELSE Flush(AsioReply(w, c), c)

AsioSend(w, c) ==
    LET p == AsioReply(w, c)
    IN  IF w.link[c].state = "closed" THEN w
        ELSE IF Queued(p.link[c]) > MaxOut THEN DoClose(p, c, "overflow")
        ELSE Flush(p, c)

(***************************************************************************)
(* poll's Conn::send: no limit, and the loop writes later.                 *)
(***************************************************************************)
PollSend(w, c) ==
    [w EXCEPT !.link[c].made = @ + 1,
              !.link[c].out = Append(@, w.link[c].made + 1)]

-----------------------------------------------------------------------------
(***************************************************************************)
(* What a handler calls: the virtual ClientLink::send, and the buffer that *)
(* on_data fills with the replies of its own connection, which is behind   *)
(* what is queued already.                                                 *)
(***************************************************************************)
Send(w, c) == IF backend = "asio" THEN AsioSend(w, c) ELSE PollSend(w, c)

Reply(w, c) == IF backend = "asio" THEN AsioReply(w, c) ELSE PollSend(w, c)

(***************************************************************************)
(* RespHandler::on_data with Replication behind it: every complete request *)
(* is executed in turn.  A write is answered and then pushed to the        *)
(* replicas.  PSYNC sends its header and the snapshot (with its length,    *)
(* one push) and registers the link.  The order of the replicas, and what  *)
(* a send does to the vector that propagate walks, are in Replication: a   *)
(* send changes its own link only, and may take it out of fed.             *)
(***************************************************************************)
Propagate(w) ==
    LET pushed == [r \in w.fed |-> Send(w, r).link[r]]
        lost == {r \in w.fed : pushed[r].state # w.link[r].state}
    IN  [w EXCEPT !.link = [c \in Conn |-> IF c \in w.fed THEN pushed[c] ELSE @[c]],
                  !.fed = OnDisconnect(@, lost),
                  !.active = @ - Cardinality(lost)]

Request(w, c) ==
    LET d == [w EXCEPT !.link[c].done = @ + 1]
    IN  IF Script[c][d.link[c].done] = "psync"
        THEN [Send(Send(d, c), c) EXCEPT !.fed = @ \cup {c}]
        ELSE Propagate(Reply(d, c))

\* Bug: one request per read instead of all of them.
MutOnData(w, c) ==
    IF w.link[c].in < 2 THEN w
    ELSE Request([w EXCEPT !.link[c].in = @ - 2], c)

OnData(w, c) ==
    LET n == w.link[c].in \div 2
        served[i \in 0..n] == IF i = 0 THEN [w EXCEPT !.link[c].in = @ % 2]
                              ELSE Request(served[i - 1], c)
    IN  served[n]
=============================================================================
