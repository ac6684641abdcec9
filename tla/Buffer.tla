------------------------------- MODULE Buffer -------------------------------
(***************************************************************************)
(* The byte buffer of a connection (buffer.hpp), as functions on its two   *)
(* members: read_pos bytes of data have been consumed.                     *)
(***************************************************************************)
EXTENDS Integers, Sequences

CONSTANT kReclaimThreshold  \* consumed bytes that are never kept for long

ASSUME BufferAssumption == kReclaimThreshold \in Nat \ {0}

BufferOf(B) ==
    {b \in [data : Seq(B), read_pos : Nat] : b.read_pos <= Len(b.data)}

EmptyBuffer == [data |-> <<>>, read_pos |-> 0]

readable(b) == SubSeq(b.data, b.read_pos + 1, Len(b.data))

size(b) == Len(b.data) - b.read_pos

MayWait(b) ==
    /\ b.read_pos < Len(b.data) \div 2
    /\ b.read_pos < kReclaimThreshold

reclaim(b) ==
    IF b.read_pos = 0 \/ MayWait(b) THEN b
    ELSE [data |-> readable(b), read_pos |-> 0]

append(b, bytes) ==
    IF bytes = <<>> THEN b ELSE [reclaim(b) EXCEPT !.data = @ \o bytes]

consume(b, n) ==
    LET pos == b.read_pos + (IF n > size(b) THEN size(b) ELSE n)
    IN  IF pos = Len(b.data) THEN EmptyBuffer ELSE [b EXCEPT !.read_pos = pos]
=============================================================================
