----------------------------- MODULE RdbFormat -----------------------------
(***************************************************************************)
(* The bytes of a snapshot (rdb.cpp): rdb_serialize, rdb_parse with its    *)
(* Reader, and the CRC that seals a payload.  RdbSave treats a file as     *)
(* whole or torn; this is why a torn or damaged one is noticed.            *)
(*                                                                         *)
(* A byte has four bits instead of eight: the two tag bits of a length     *)
(* stay, an opcode is the low half of its number, and the 6, 14, 32 and 64 *)
(* bits of a length become 2, 6, 4 * Half and 4 * Wide.  The magic and the *)
(* version are one byte each.  Integers of 64 bits have 4 * Wide bits.     *)
(***************************************************************************)
EXTENDS Integers, Sequences, SequencesExt

LOCAL INSTANCE Bitwise

Byte == 0..15
Half == 3   \* bytes of a 32-bit integer
Wide == 6   \* bytes of a 64-bit integer

kRdbMagic == 5
kRdbVersion == 11
kOpAux == 10
kOpResizeDb == 11
kOpExpireMs == 12
kOpExpireSec == 13
kOpSelectDb == 14
kOpEof == 15
kTypeString == 0
k6Bit == 0
k14Bit == 4
k32Bit == 8
k64Bit == 9
kEncoded == 12
kEncLzf == 3
kNone == -1        \* kNoExpiry
SecondMs == 10     \* milliseconds in a second

Pow(n) == 16 ^ n

BigEndian(v, n) == [i \in 1..n |-> (v \div Pow(n - i)) % 16]
LittleEndian(v, n) == [i \in 1..n |-> (v \div Pow(i - 1)) % 16]
Signed(v, n) == IF 2 * v >= Pow(n) THEN v - Pow(n) ELSE v

-----------------------------------------------------------------------------
(***************************************************************************)
(* crc64: a table of one entry per byte, reflected.  A CRC is its bytes,   *)
(* the lowest first, as put_u64_le writes them; while the table is made it *)
(* is its bits, the lowest first, so that reflect is Reverse.              *)
(***************************************************************************)
Bits(v, n) == [i \in 1..n |-> (v \div 2 ^ (i - 1)) % 2]

BytesOf(b) ==
    [i \in 1..Wide |-> b[4 * i - 3] + 2 * b[4 * i - 2] + 4 * b[4 * i - 1] + 8 * b[4 * i]]

kPoly == Bits(8801531, 4 * Wide)

ShiftIn(crc, k) ==
    [i \in 1..(4 * Wide) |->
        ((IF i = 1 THEN 0 ELSE crc[i - 1]) + crc[4 * Wide] * kPoly[i]) % 2]

CrcTable ==
    [n \in Byte |->
        BytesOf(Reverse(FoldLeft(ShiftIn,
                                 Bits(0, 4 * Wide - 4) \o Reverse(Bits(n, 4)),
                                 <<1, 2, 3, 4>>)))]

XorTable == [a \in Byte |-> [b \in Byte |-> a ^^ b]]

\* Bug: the low byte of the CRC does not choose the entry.
MutCrcStep(crc, byte) ==
    [i \in 1..Wide |->
        XorTable[CrcTable[byte][i]][IF i < Wide THEN crc[i + 1] ELSE 0]]

CrcStep(crc, byte) ==
    LET entry == CrcTable[XorTable[crc[1]][byte]]
    IN  [i \in 1..Wide |->
            XorTable[entry[i]][IF i < Wide THEN crc[i + 1] ELSE 0]]

NoCrc == [i \in 1..Wide |-> 0]

Crc(bytes) ==
    LET after[crc \in [1..Wide -> Byte], i \in 1..(Len(bytes) + 1)] ==
            IF i > Len(bytes) THEN crc ELSE after[CrcStep(crc, bytes[i]), i + 1]
    IN  after[NoCrc, 1]

-----------------------------------------------------------------------------
(***************************************************************************)
(* rdb_serialize.                                                          *)
(***************************************************************************)
\* Bug: the largest length of the short form is off by one.
MutPutLength(len) ==
    IF len <= 4 THEN <<k6Bit + len>>
    ELSE IF len < Pow(1) * 4 THEN <<k14Bit + len \div 16, len % 16>>
    ELSE IF len < Pow(Half) THEN <<k32Bit>> \o BigEndian(len, Half)
    ELSE <<k64Bit>> \o BigEndian(len, Wide)

put_length(len) ==
    IF len < 4 THEN <<k6Bit + len>>
    ELSE IF len < Pow(1) * 4 THEN <<k14Bit + len \div 16, len % 16>>
    ELSE IF len < Pow(Half) THEN <<k32Bit>> \o BigEndian(len, Half)
    ELSE <<k64Bit>> \o BigEndian(len, Wide)

put_string(s) == put_length(Len(s)) \o s

PutExpiry(e) ==
    IF e = kNone THEN <<>>
    ELSE <<kOpExpireMs>> \o LittleEndian(e % Pow(Wide), Wide)

PutRecord(r) ==
    PutExpiry(r.expire_at) \o <<kTypeString>>
        \o put_string(r.key) \o put_string(r.value)

Seal(bytes) == bytes \o <<kOpEof>> \o Crc(Append(bytes, kOpEof))

Preamble(records) ==
    <<kRdbMagic, kRdbVersion, kOpAux>> \o put_string(<<7, 2>>) \o put_string(<<7>>)
        \o <<kOpSelectDb>> \o put_length(0)
        \o <<kOpResizeDb>> \o put_length(Len(records))
        \o put_length(Len(SelectSeq(records, LAMBDA r : r.expire_at # kNone)))

rdb_serialize(records) ==
    Seal(Preamble(records)
            \o FlattenSeq([i \in DOMAIN records |-> PutRecord(records[i])]))

-----------------------------------------------------------------------------
(***************************************************************************)
(* Reader.  An operation returns the reader it leaves behind, with what it *)
(* returned in val (a number) or text; enc is the special encoding a       *)
(* length named, or none.                                                  *)
(***************************************************************************)
Reader(data) ==
    [data |-> data, pos |-> 0, ok |-> TRUE, val |-> 0, text |-> <<>>, enc |-> kNone]

\* fail(): the reader moves to the end, so that nothing more is read.
Fail(r) == [r EXCEPT !.ok = FALSE, !.pos = Len(r.data), !.val = 0, !.text = <<>>]

u8(r) ==
    IF r.pos >= Len(r.data) THEN Fail(r)
    ELSE [r EXCEPT !.pos = @ + 1, !.val = r.data[r.pos + 1]]

be(r, n) ==
    FoldLeft(LAMBDA acc, i : [u8(acc) EXCEPT !.val = 16 * acc.val + @],
             [r EXCEPT !.val = 0], [i \in 1..n |-> i])

le(r, n) ==
    FoldLeft(LAMBDA acc, i : [u8(acc) EXCEPT !.val = acc.val + Pow(i - 1) * @],
             [r EXCEPT !.val = 0], [i \in 1..n |-> i])

length(r0) ==
    LET r == [u8(r0) EXCEPT !.enc = kNone]
        first == r.val
    IN  IF ~r.ok THEN r
        ELSE IF first < k14Bit THEN r
        ELSE IF first < k32Bit
          THEN [u8(r) EXCEPT !.val = 16 * (first % 4) + @]
        ELSE IF first >= kEncoded THEN [r EXCEPT !.enc = first % 4, !.val = 0]
        ELSE IF first = k32Bit THEN be(r, Half)
        ELSE IF first = k64Bit THEN be(r, Wide)
        ELSE Fail(r)

\* std::to_string in these bytes: a digit is itself, the minus sign is 10.
RECURSIVE Decimal(_)
Decimal(n) ==
    IF n < 0 THEN <<10>> \o Decimal(-n)
    ELSE IF n < 10 THEN <<n>>
    ELSE Append(Decimal(n \div 10), n % 10)

str(r0) ==
    LET r == length(r0)
        int(n) == LET i == le(r, n) IN [i EXCEPT !.text = Decimal(Signed(i.val, n))]
    IN  IF ~r.ok THEN r
        ELSE IF r.enc = kEncLzf THEN [r EXCEPT !.ok = FALSE, !.text = <<>>]
        ELSE IF r.enc # kNone THEN int(r.enc + 1)
        ELSE IF r.pos + r.val > Len(r.data) THEN Fail(r)
        ELSE [r EXCEPT !.pos = @ + r.val,
                       !.text = SubSeq(r.data, r.pos + 1, r.pos + r.val)]

-----------------------------------------------------------------------------
(***************************************************************************)
(* rdb_parse.  The records are those left in *out.  An unsupported opcode  *)
(* is the one failure that leaves there what had been read.                *)
(***************************************************************************)
Loaded(records) == [ok |-> TRUE, records |-> records, opcode |-> FALSE]
Rejected == [ok |-> FALSE, records |-> <<>>, opcode |-> FALSE]
Unsupported(records) == [ok |-> FALSE, records |-> records, opcode |-> TRUE]

TruncatedKey(records) == Rejected

RECURSIVE Records(_, _, _)
Records(r, expiry, out) ==
    LET op == u8(r)
        opcode == op.val
        key == str(op)
        value == str(key)
        skipped == CASE opcode = kOpAux -> str(str(op))
                     [] opcode = kOpSelectDb -> length(op)
                     [] opcode = kOpResizeDb -> length(length(op))
                     [] opcode = kOpExpireMs -> le(op, Wide)
                     [] opcode = kOpExpireSec -> le(op, Half)
    IN  IF r.pos >= Len(r.data) THEN Loaded(out)
        ELSE IF opcode = kTypeString
          THEN IF value.ok
               THEN Records(value, kNone,
                            Append(out, [key |-> key.text, value |-> value.text,
                                         expire_at |-> expiry]))
               ELSE TruncatedKey(out)
        ELSE IF opcode \notin {kOpAux, kOpSelectDb, kOpResizeDb, kOpExpireMs,
                               kOpExpireSec} THEN Unsupported(out)
        ELSE IF ~skipped.ok THEN Rejected
        ELSE Records(skipped,
                     CASE opcode = kOpExpireMs -> Signed(skipped.val, Wide)
                       [] opcode = kOpExpireSec -> skipped.val * SecondMs
                       [] OTHER -> expiry, out)

\* A zero CRC means that checksums were off when the file was written.
CrcMatches(payload, stored) ==
    stored = NoCrc \/ stored = Crc(SubSeq(payload, 1, Len(payload) - Wide))

EndsInEof(payload) == payload[Len(payload) - Wide] = kOpEof

rdb_parse(payload) ==
    LET stored == SubSeq(payload, Len(payload) - Wide + 1, Len(payload))
    IN  IF Len(payload) < 2 THEN Rejected
        ELSE IF payload[1] # kRdbMagic \/ payload[2] > kRdbVersion THEN Rejected
        ELSE IF Len(payload) < 2 + 1 + Wide THEN Rejected
        ELSE IF ~EndsInEof(payload) \/ ~CrcMatches(payload, stored) THEN Rejected
        ELSE Records(Reader(SubSeq(payload, 3, Len(payload) - Wide - 1)),
                     kNone, <<>>)

-----------------------------------------------------------------------------
(***************************************************************************)
(* What is saved is what is loaded: keys, values and deadlines, the        *)
(* deadlines before the epoch and the empty strings included, in order     *)
(* (rdb_serialize and rdb_parse).                                          *)
(***************************************************************************)
ReadsBack(records) == rdb_parse(rdb_serialize(records)) = Loaded(records)

(***************************************************************************)
(* A length of any of the four forms is read back as it was written, to    *)
(* the last byte (put_length and Reader::length).                          *)
(***************************************************************************)
LengthReadsBack(len) ==
    LET r == length(Reader(put_length(len)))
    IN  r.ok /\ r.val = len /\ r.enc = kNone /\ r.pos = Len(put_length(len))

(***************************************************************************)
(* A file cut off anywhere is refused and leaves no records behind, with a *)
(* checksum or without one, even where a value holds the bytes of an EOF   *)
(* marker and a zero CRC (rdb_parse looks for the marker, then the reader  *)
(* runs out of bytes).                                                     *)
(***************************************************************************)
Unchecked(payload) == SubSeq(payload, 1, Len(payload) - Wide) \o NoCrc

CutsRefused(records) ==
    \A payload \in {rdb_serialize(records), Unchecked(rdb_serialize(records))} :
        \A n \in 0..(Len(payload) - 1) :
            rdb_parse(SubSeq(payload, 1, n)) = Rejected

(***************************************************************************)
(* A file with one damaged byte is refused, or the damage does not show:   *)
(* "a corrupt snapshot must be loud".  A payload whose CRC happens to be   *)
(* zero is not protected, since zero means that there is no checksum.      *)
(***************************************************************************)
Damaged(payload, places) ==
    {[payload EXCEPT ![i] = b] : i \in places, b \in Byte}

DamageRefused(records) ==
    \A payload \in {rdb_serialize(records)} :
        SubSeq(payload, Len(payload) - Wide + 1, Len(payload)) # NoCrc =>
            \A other \in Damaged(payload, DOMAIN payload) :
                \A p \in {rdb_parse(other)} : ~p.ok \/ p.records = records

(***************************************************************************)
(* Without a checksum a damaged file may load, but when it is refused no   *)
(* record is handed back ("never hand back a partially loaded keyspace");  *)
(* the exception is an unsupported opcode, which leaves what was read.     *)
(***************************************************************************)
RefusalIsWhole(records) ==
    \A payload \in {Unchecked(rdb_serialize(records))} :
        \A other \in Damaged(payload, 1..(Len(payload) - Wide)) :
            \A p \in {rdb_parse(other)} : ~p.ok => p.records = <<>> \/ p.opcode
=============================================================================
