--------------------------- MODULE RequestStream ---------------------------
(***************************************************************************)
(* One connection's input: bytes arrive in reads of any size, are appended *)
(* to a Buffer (buffer.hpp) and handed to on_data() of RespHandler         *)
(* (commands.cpp) or of PingPongHandler (handler.cpp), which takes every   *)
(* request that is complete.  What a request does, and the replies, are in *)
(* other modules: here a request is logged as its arguments, a protocol    *)
(* error as no arguments, and a request of PingPongHandler as its bytes.   *)
(***************************************************************************)
EXTENDS Resp, Buffer

CONSTANTS
    ReadSize,  \* bytes of one read at most
    Streams    \* what a client may send, as sequences of bytes

ASSUME StreamAssumption ==
    /\ ReadSize \in Nat \ {0}
    /\ \A s \in Streams : \A i \in DOMAIN s : s[i] \in 0..255

VARIABLES
    handler,  \* which CommandHandler serves the connection
    stream,   \* all that the client sends
    arrived,  \* how many bytes of it have been read
    buf,      \* the connection's input Buffer
    log       \* what on_data() has handled

streamVars == <<handler, stream, arrived, buf, log>>

-----------------------------------------------------------------------------
(***************************************************************************)
(* RespHandler::on_data and PingPongHandler::on_data.                      *)
(***************************************************************************)
Reply(b, l) == [buf |-> b, log |-> l]

ProtocolErrorReply == <<>>

\* Bug: a request is taken out of the buffer although it has not all arrived.
MutTaken(b, r) == consume(b, IF r.status = "ok" THEN r.consumed ELSE size(b))

Taken(b, r) == consume(b, r.consumed)

RECURSIVE on_data(_, _)
on_data(b, l) ==
    LET r == parse_request(readable(b))
    IN  CASE r.status = "incomplete" -> Reply(Taken(b, r), l)
          [] r.status = "error" -> Reply(EmptyBuffer, Append(l, ProtocolErrorReply))
          [] r.status = "ok" ->
               on_data(Taken(b, r),
                       IF r.args = <<>> THEN l ELSE Append(l, r.args))

RECURSIVE ping_on_data(_, _)
ping_on_data(b, l) ==
    LET n == framed_length(readable(b))
    IN  IF n = 0 THEN Reply(b, l)
        ELSE ping_on_data(consume(b, n), Append(l, SubSeq(readable(b), 1, n)))

StreamInit ==
    /\ handler \in {"resp", "pingpong"}
    /\ stream \in Streams
    /\ arrived = 0
    /\ buf = EmptyBuffer
    /\ log = <<>>

(***************************************************************************)
(* A read completes: the backend appends what it got and calls on_data().  *)
(***************************************************************************)
Read(n) ==
    /\ arrived + n <= Len(stream)
    /\ arrived' = arrived + n
    /\ LET b == append(buf, SubSeq(stream, arrived + 1, arrived + n))
           r == IF handler = "resp" THEN on_data(b, log) ELSE ping_on_data(b, log)
       IN  buf' = r.buf /\ log' = r.log
    /\ UNCHANGED <<handler, stream>>

StreamNext == \E n \in 1..ReadSize : Read(n)

-----------------------------------------------------------------------------
(***************************************************************************)
(* What one read of the whole stream would give, up to the first protocol  *)
(* error: the framing is lost there, and what comes next depends on how    *)
(* much of the stream had arrived.                                         *)
(***************************************************************************)
UpToError(l) ==
    LET errors == {i \in DOMAIN l : l[i] = ProtocolErrorReply}
    IN  IF errors = {} THEN l ELSE SubSeq(l, 1, Min(errors))

AtOnce == UpToError(on_data(append(EmptyBuffer, stream), <<>>).log)

(***************************************************************************)
(* A line that is legal, and that is over the limit once its CR has come   *)
(* and its LF has not.                                                     *)
(***************************************************************************)
LineAtLimit ==
    \E i \in 1..Len(stream) :
        /\ i = 1 \/ (i > 2 /\ SubSeq(stream, i - 2, i - 1) = kCrlf)
        /\ LET n == Find(stream, i) - i
           IN  IF stream[i] \in {Star, Dollar} THEN n >= kMaxHeaderLength
                                               ELSE n = kMaxInlineLength

RECURSIVE Requests(_)
Requests(in) ==
    LET r == parse_request(in)
    IN  IF r.status # "ok" THEN <<>>
        ELSE <<SubSeq(in, 1, r.consumed)>>
                 \o Requests(SubSeq(in, r.consumed + 1, Len(in)))

(***************************************************************************)
(* Streams that the Phase 1 framing, which checks less and knows no signs, *)
(* has to cut like parse_request.                                          *)
(***************************************************************************)
WellFramed ==
    /\ ProtocolErrorReply \notin Range(AtOnce)
    /\ \A i \in DOMAIN stream : stream[i] \notin {Plus, Minus}

(***************************************************************************)
(* The parser "resumes across arbitrary read boundaries": however the      *)
(* stream is cut into reads, the requests handled are those of one read of *)
(* the whole stream, in the same order, none lost and none twice, up to    *)
(* and including the first protocol error.  The exception is a line whose  *)
(* length is exactly the limit: cut between its CR and its LF it is        *)
(* refused, in one piece it is served (resp.cpp 54, 94 and 128 count the   *)
(* CR that has arrived).  PingPongHandler answers the same requests, and   *)
(* the empty ones that RespHandler skips.                                  *)
(***************************************************************************)
ReadBoundariesInvisible ==
    LET handled == IF handler = "resp" THEN UpToError(log) ELSE log
        whole == IF handler = "resp" THEN AtOnce ELSE Requests(stream)
    IN  (\/ handler = "resp" /\ ~LineAtLimit
         \/ handler = "pingpong" /\ WellFramed) =>
            /\ IsPrefix(handled, whole)
            /\ arrived = Len(stream) => handled = whole
=============================================================================
