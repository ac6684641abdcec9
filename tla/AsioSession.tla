---------------------------- MODULE AsioSession ----------------------------
(***************************************************************************)
(* The asio backend (asio_server.cpp): the sessions and the completion     *)
(* handlers that the io_context runs one at a time.                        *)
(*                                                                         *)
(* A read that has completed waits in the io_context's queue until its     *)
(* handler runs; closing the socket fails an operation that is still       *)
(* outstanding, but does not recall a completion that is already queued.   *)
(***************************************************************************)
EXTENDS Handler

VARIABLES
    readop,  \* the read of each session: none, outstanding, or how it completed
    readn    \* the units a completed read has put into scratch_

asioVars == <<readop, readn>>

AsioInit ==
    /\ readop = [c \in Conn |-> "none"]
    /\ readn = [c \in Conn |-> 0]

AsioTypeOK ==
    /\ readop \in [Conn -> {"none", "armed", "done", "eof", "error"}]
    /\ readn \in [Conn -> 0..ReadChunk]

-----------------------------------------------------------------------------
(***************************************************************************)
(* AsioServer::accept makes a session and starts it, which starts the      *)
(* first read.                                                             *)
(***************************************************************************)
Start(w, c) == [w EXCEPT !.link[c].state = "open", !.active = @ + 1]

Accept(c) ==
    /\ world.link[c].state = "backlog"
    /\ world' = Start(world, c)
    /\ readop' = [readop EXCEPT ![c] = "armed"]
    /\ UNCHANGED <<clientVars, rcv, net, readn>>

(***************************************************************************)
(* The reactor completes an outstanding read: with what there is, with the *)
(* end of the stream, or with an error, which is also how the read of a    *)
(* socket completes that this side has closed.                             *)
(***************************************************************************)
ReadCompletes(c) ==
    LET n == ReadSize(c)
        outcome == CASE Closed(c)           -> "error"
                     [] ~Closed(c) /\ n > 0 -> "done"
                     [] OTHER -> IF peer[c] = "fin" THEN "eof" ELSE "error"
    IN  /\ readop[c] = "armed"
        /\ Closed(c) \/ n > 0 \/ peer[c] # "open"
        /\ readop' = [readop EXCEPT ![c] = outcome]
        /\ IF outcome = "done"
           THEN /\ readn' = [readn EXCEPT ![c] = n]
                /\ rcv' = [rcv EXCEPT ![c] = @ - n]
           ELSE UNCHANGED <<readn, rcv>>
        /\ UNCHANGED <<clientVars, net, world>>

ReadFailed(c) ==
    /\ readop[c] \in {"eof", "error"}
    /\ world' = DoClose(world, c, readop[c])
    /\ readop' = [readop EXCEPT ![c] = "none"]
    /\ UNCHANGED <<clientVars, rcv, net, readn>>

(***************************************************************************)
(* The handler of a read that brought data.  It does not look at closed_,  *)
(* and reads on unless the output is over the limit.                       *)
(***************************************************************************)
\* Bug: the read is not started again.
MutNextRead(over) == "none"

NextRead(over) == IF over THEN "none" ELSE "armed"

ReadHandler(c) ==
    LET w == OnData([world EXCEPT !.link[c].in = @ + readn[c]], c)
        over == Queued(w.link[c]) > MaxOut
    IN  /\ readop[c] = "done"
        /\ world' = IF over THEN DoClose(w, c, "overflow") ELSE Flush(w, c)
        /\ readop' = [readop EXCEPT ![c] = NextRead(over)]
        /\ readn' = [readn EXCEPT ![c] = 0]
        /\ UNCHANGED <<clientVars, rcv, net>>

(***************************************************************************)
(* async_write hands its buffer to the kernel piece by piece.              *)
(***************************************************************************)
WriteSome(c) ==
    LET k == world.link[c]
    IN  /\ Open(c) /\ k.writing
        /\ k.written < Len(k.out)
        /\ peer[c] # "reset"
        /\ Len(net[c]) < SendCap
        /\ net' = [net EXCEPT ![c] = Append(@, k.out[k.written + 1])]
        /\ world' = [world EXCEPT !.link[c].written = @ + 1]
        /\ UNCHANGED <<clientVars, rcv, asioVars>>

\* Bug: what has been written is not consumed.
MutAfterWriteRepeats(w, c) == Flush(w, c)

\* Bug: what piled up behind the write is not flushed.
MutAfterWriteIdle(w, c) == [w EXCEPT !.link[c].out = <<>>]

AfterWrite(w, c) == Flush([w EXCEPT !.link[c].out = <<>>], c)

WriteHandler(c) ==
    LET k == world.link[c]
        idle == [world EXCEPT !.link[c].writing = FALSE]
    IN  /\ k.writing
        /\ \/ /\ k.written = Len(k.out)
              /\ world' = AfterWrite(idle, c)
           \/ /\ k.written < Len(k.out)
              /\ Closed(c) \/ peer[c] = "reset"
              /\ world' = DoClose(idle, c, "error")
        /\ UNCHANGED <<clientVars, rcv, net, asioVars>>

IoContext(c) ==
    \/ Accept(c)
    \/ ReadCompletes(c)
    \/ ReadFailed(c)
    \/ ReadHandler(c)
    \/ WriteSome(c)
    \/ WriteHandler(c)
=============================================================================
