-------------------------------- MODULE Resp --------------------------------
(***************************************************************************)
(* The request syntax: parse_request and its helpers (resp.cpp), the       *)
(* encoder the AOF and the replication stream share (Aof::encode), and the *)
(* simpler framing of PingPongHandler (handler.cpp).                       *)
(*                                                                         *)
(* A byte is its number and a text is a sequence of bytes.  The limits are *)
(* constants, so that texts of a few bytes reach them, and so is the width *)
(* of an integer.  The wording of the error messages is left out.          *)
(***************************************************************************)
EXTENDS Integers, Sequences, FiniteSets, FiniteSetsExt, SequencesExt

CONSTANTS
    kMaxMultibulkLength,  \* arguments of a request
    kMaxBulkLength,       \* bytes of an argument
    kMaxInlineLength,     \* bytes of an inline request
    kMaxHeaderLength,     \* bytes of "*<n>" or "$<n>" that may wait for a CRLF
    MaxInt,               \* the largest std::int64_t
    MaxIntText            \* to_int64 refuses longer texts

ASSUME RespAssumption ==
    {kMaxMultibulkLength, kMaxBulkLength, kMaxInlineLength, kMaxHeaderLength,
     MaxInt, MaxIntText} \subseteq Nat \ {0}

CR == 13
LF == 10
Star == 42
Dollar == 36
Plus == 43
Minus == 45
Zero == 48
Space == {9, 10, 11, 12, 13, 32}
Digit == Zero..(Zero + 9)
kCrlf == <<CR, LF>>

Texts(B, n) == UNION {[1..k -> B] : k \in 0..n}

(***************************************************************************)
(* Where the first CRLF at or after `from' starts; 0 if there is none.     *)
(***************************************************************************)
Find(in, from) ==
    LET found == {i \in from..(Len(in) - 1) : in[i] = CR /\ in[i + 1] = LF}
    IN  IF found = {} THEN 0 ELSE Min(found)

-----------------------------------------------------------------------------
(***************************************************************************)
(* Integers.                                                               *)
(***************************************************************************)
NotAnInteger == [ok |-> FALSE, value |-> 0]
Integer(n) == [ok |-> TRUE, value |-> n]

Unsigned(text) ==
    IF text # <<>> /\ text[1] \in {Plus, Minus} THEN Tail(text) ELSE text

\* Bug: the test against overflow forgets the digit.
MutAddDigit(n, c) ==
    IF ~n.ok \/ c \notin Digit \/ n.value > MaxInt \div 10 THEN NotAnInteger
    ELSE Integer(n.value * 10 + (c - Zero))

AddDigit(n, c) ==
    IF ~n.ok \/ c \notin Digit \/ n.value > (MaxInt - (c - Zero)) \div 10
    THEN NotAnInteger
    ELSE Integer(n.value * 10 + (c - Zero))

parse_int(text) ==
    LET n == FoldLeft(AddDigit, Integer(0), Unsigned(text))
    IN  IF Unsigned(text) = <<>> \/ ~n.ok THEN NotAnInteger
        ELSE IF text[1] = Minus THEN Integer(-n.value)
        ELSE n

to_int64(text) ==
    IF Len(text) > MaxIntText THEN NotAnInteger ELSE parse_int(text)

RECURSIVE Digits(_)
Digits(n) ==
    IF n < 10 THEN <<Zero + n>>
    ELSE Append(Digits(n \div 10), Zero + (n % 10))

\* std::to_string.
ToText(n) == IF n < 0 THEN <<Minus>> \o Digits(-n) ELSE Digits(n)

-----------------------------------------------------------------------------
(***************************************************************************)
(* parse_inline and parse_request.  A position counts from 1.              *)
(***************************************************************************)
Incomplete == [status |-> "incomplete", consumed |-> 0, args |-> <<>>]
ProtocolError == [status |-> "error", consumed |-> 0, args |-> <<>>]
Parsed(n, args) == [status |-> "ok", consumed |-> n, args |-> args]

AddByte(split, c) ==
    IF c \notin Space
      THEN [split EXCEPT !.word = Append(@, c)]
    ELSE IF split.word = <<>> THEN split
    ELSE [args |-> Append(split.args, split.word), word |-> <<>>]

Words(line) ==
    AddByte(FoldLeft(AddByte, [args |-> <<>>, word |-> <<>>], line), CR).args

parse_inline(in) ==
    LET eol == Find(in, 1)
        length == IF eol = 0 THEN Len(in) ELSE eol - 1
    IN  IF length > kMaxInlineLength THEN ProtocolError
        ELSE IF eol = 0 THEN Incomplete
        ELSE Parsed(eol + 1, Words(SubSeq(in, 1, eol - 1)))

\* Bug: the request is taken although the CRLF behind the body is not there.
MutNeed(end, len) == end + 1 + len

\* The last byte of an argument of len bytes whose header ends at end.
Need(end, len) == end + 1 + len + 2

RECURSIVE Bulks(_, _, _, _)
Bulks(in, pos, left, args) ==
    LET end == Find(in, pos)
        len == parse_int(SubSeq(in, pos + 1, end - 1))
        need == Need(end, len.value)
    IN  IF left = 0 THEN Parsed(pos - 1, args)
        ELSE IF pos > Len(in) THEN Incomplete
        ELSE IF in[pos] # Dollar THEN ProtocolError
        ELSE IF end = 0
          THEN IF Len(in) - pos + 1 > kMaxHeaderLength THEN ProtocolError
                                                       ELSE Incomplete
        ELSE IF ~len.ok \/ len.value < 0 \/ len.value > kMaxBulkLength
          THEN ProtocolError
        ELSE IF Len(in) < need THEN Incomplete
        ELSE IF SubSeq(in, end + len.value + 2, end + len.value + 3) # kCrlf
          THEN ProtocolError
        ELSE Bulks(in, need + 1, left - 1,
                   Append(args, SubSeq(in, end + 2, end + 1 + len.value)))

parse_request(in) ==
    LET end == Find(in, 1)
        argc == parse_int(SubSeq(in, 2, end - 1))
    IN  IF in = <<>> THEN Incomplete
        ELSE IF in[1] # Star THEN parse_inline(in)
        ELSE IF end = 0
          THEN IF Len(in) > kMaxHeaderLength THEN ProtocolError ELSE Incomplete
        ELSE IF ~argc.ok \/ argc.value > kMaxMultibulkLength THEN ProtocolError
        ELSE IF argc.value <= 0 THEN Parsed(end + 1, <<>>)
        ELSE Bulks(in, end + 2, argc.value, <<>>)

\* Aof::encode.
Bulk(arg) == <<Dollar>> \o ToText(Len(arg)) \o kCrlf \o arg \o kCrlf

encode(args) ==
    <<Star>> \o ToText(Len(args)) \o kCrlf \o FlattenSeq([i \in DOMAIN args |->
                                                             Bulk(args[i])])

-----------------------------------------------------------------------------
(***************************************************************************)
(* framed_length: 0 until a whole request has arrived.  It knows no signs  *)
(* and does not look at the CRLF behind an argument.                       *)
(***************************************************************************)
Count(text, limit) ==
    LET n == FoldLeft(AddDigit, Integer(0), text)
    IN  IF n.ok /\ n.value <= limit THEN n ELSE NotAnInteger

FrameEnd(end, len) == end + 1 + len + 2

RECURSIVE Frame(_, _, _)
Frame(in, pos, left) ==
    LET end == Find(in, pos)
        len == Count(SubSeq(in, pos + 1, end - 1), kMaxBulkLength)
    IN  IF left = 0 THEN pos - 1
        ELSE IF pos > Len(in) \/ in[pos] # Dollar \/ end = 0 \/ ~len.ok THEN 0
        ELSE IF FrameEnd(end, len.value) > Len(in) THEN 0
        ELSE Frame(in, FrameEnd(end, len.value) + 1, left - 1)

framed_length(in) ==
    LET end == Find(in, 1)
        argc == Count(SubSeq(in, 2, end - 1), kMaxMultibulkLength)
    IN  IF end = 0 THEN 0
        ELSE IF in[1] # Star THEN end + 1
        ELSE IF ~argc.ok THEN 0
        ELSE Frame(in, end + 2, argc.value)
=============================================================================
