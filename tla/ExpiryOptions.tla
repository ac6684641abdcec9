--------------------------- MODULE ExpiryOptions ---------------------------
(***************************************************************************)
(* How a command's words become a deadline (commands.cpp): the option loop *)
(* of SET, the arithmetic of the EXPIRE family and the rounding of TTL.    *)
(* Commands takes over where this ends: its SET and EXPIRE have their      *)
(* options resolved and their amounts in milliseconds.                     *)
(*                                                                         *)
(* An argument is an option's word or a text.  The integers are MaxInt     *)
(* wide and a second has MsPerSecond milliseconds.  `build' is what the    *)
(* compiler makes of a signed overflow: "wraps" computes modulo the width, *)
(* "assumes" decides n * 1000 <= 0 by n <= 0 and wraps what it stores.     *)
(***************************************************************************)
EXTENDS Resp

CONSTANT MsPerSecond

ASSUME OptionsAssumption == MsPerSecond \in Nat \ {0, 1}

Word(w) == [word |-> w, text |-> <<>>]
Text(t) == [word |-> "", text |-> t]

kNoExpiry == -1
MinInt == -MaxInt - 1
Fits(n) == n \in MinInt..MaxInt
Wrap(n) == ((n - MinInt) % (MaxInt - MinInt + 1)) + MinInt

Relative == {"EX", "PX"}
Absolute == {"EXAT", "PXAT"}
Seconds == {"EX", "EXAT"}

-----------------------------------------------------------------------------
(***************************************************************************)
(* SET's options.                                                          *)
(***************************************************************************)
Refused == [ok |-> FALSE, expire_at |-> kNoExpiry, keepttl |-> FALSE,
            nx |-> FALSE, xx |-> FALSE, get |-> FALSE]

NoOptions == [Refused EXCEPT !.ok = TRUE]

Amount(opt, n) == IF opt \in Seconds THEN n * MsPerSecond ELSE n

\* Bug: a time to live of zero is let through.
MutBornDead(opt, ms, build) ==
    opt \in Relative /\ (IF build = "wraps" THEN Wrap(ms) ELSE ms) < 0

BornDead(opt, ms, build) ==
    opt \in Relative /\ (IF build = "wraps" THEN Wrap(ms) ELSE ms) <= 0

Deadline(opt, text, now, build) ==
    LET n == to_int64(text)
        ms == Amount(opt, n.value)
    IN  IF \/ ~n.ok
           \/ opt \in Seconds /\ n.value > MaxInt \div MsPerSecond
           \/ BornDead(opt, ms, build)
        THEN NotAnInteger
        ELSE Integer(Wrap(IF opt \in Relative THEN now + Wrap(ms) ELSE ms))

ExpiryTaken(o) == o.expire_at # kNoExpiry \/ o.keepttl

RECURSIVE Options(_, _, _, _)
Options(a, now, build, o) ==
    LET opt == a[1].word
        d == Deadline(opt, a[2].text, now, build)
    IN  IF ~o.ok \/ a = <<>> THEN o
        ELSE IF opt \in Relative \cup Absolute
          THEN IF ExpiryTaken(o) \/ Len(a) < 2 THEN Refused
               ELSE IF ~d.ok THEN Refused
               ELSE Options(SubSeq(a, 3, Len(a)), now, build,
                            [o EXCEPT !.expire_at = d.value])
        ELSE Options(Tail(a), now, build,
                CASE opt = "KEEPTTL" /\ o.expire_at = kNoExpiry ->
                       [o EXCEPT !.keepttl = TRUE]
                  [] opt = "NX" /\ ~o.xx -> [o EXCEPT !.nx = TRUE]
                  [] opt = "XX" /\ ~o.nx -> [o EXCEPT !.xx = TRUE]
                  [] opt = "GET" -> [o EXCEPT !.get = TRUE]
                  [] OTHER -> Refused)

set_options(a, now, build) == Options(a, now, build, NoOptions)

\* Bug: the deadline is propagated in seconds.
MutCanonicalOptions(o) ==
    IF o.expire_at = kNoExpiry THEN <<>>
    ELSE <<Word("PXAT"), Text(ToText(o.expire_at \div MsPerSecond))>>

\* The options of the SET that goes to the AOF and to the replicas.
canonical_options(o) ==
    IF o.expire_at = kNoExpiry THEN <<>>
    ELSE <<Word("PXAT"), Text(ToText(o.expire_at))>>

-----------------------------------------------------------------------------
(***************************************************************************)
(* The deadline of EXPIRE, PEXPIRE, EXPIREAT and PEXPIREAT, and TTL.       *)
(***************************************************************************)
expire_deadline(opt, text, now) ==
    LET n == to_int64(text)
    IN  IF \/ ~n.ok
           \/ opt \in Seconds /\ ~(n.value \in -(-MinInt \div MsPerSecond)
                                               ..(MaxInt \div MsPerSecond))
        THEN NotAnInteger
        ELSE Integer(Wrap(Amount(opt, n.value)
                              + (IF opt \in Relative THEN now ELSE 0)))

ttl(ms) == (ms + MsPerSecond - 1) \div MsPerSecond

-----------------------------------------------------------------------------
(***************************************************************************)
(* The deadline the client asked for, in unlimited integers.               *)
(***************************************************************************)
Exact(opt, text, now) ==
    Amount(opt, to_int64(text).value) + (IF opt \in Relative THEN now ELSE 0)

Representable(opt, text, now) ==
    /\ Fits(Amount(opt, to_int64(text).value))
    /\ Fits(Exact(opt, text, now))

(***************************************************************************)
(* A SET with one expiry option is accepted only with the deadline it asks *)
(* for, a relative one only with a deadline still to come ("rather than    *)
(* storing a key that is born dead"), and EXPIRE computes the same         *)
(* deadline.  Until then TTL says at least 1 and at most what was asked.   *)
(* The exception is arithmetic beyond 64 bits: the product has no lower    *)
(* bound (line 92) and the sum no bound at all (lines 100 and 195).        *)
(***************************************************************************)
DeadlineAsAsked(opt, text, now, build) ==
    LET o == set_options(<<Word(opt), Text(text)>>, now, build)
        e == expire_deadline(opt, text, now)
    IN  Representable(opt, text, now) =>
          /\ o.ok => o.expire_at = Exact(opt, text, now)
          /\ (o.ok /\ opt \in Relative) => o.expire_at > now
          /\ (o.ok /\ opt = "EX") =>
                \A t \in now..(o.expire_at - 1) :
                    ttl(o.expire_at - t) \in 1..to_int64(text).value
          /\ o.ok => e.ok
          /\ e.ok => e.value = Exact(opt, text, now)

(***************************************************************************)
(* What is logged for an accepted SET, replayed at any later time by any   *)
(* build, is accepted and gives the same deadline, and carries no          *)
(* condition of its own (the canonical form of cmd_set and to_string).     *)
(***************************************************************************)
ReplaysAlike(a, now, later, build) ==
    LET o == set_options(a, now, build)
        again == set_options(canonical_options(o), later, build)
    IN  (o.ok /\ o.expire_at # MinInt) =>
          again = [NoOptions EXCEPT !.expire_at = o.expire_at]

(***************************************************************************)
(* Of EX, PX, EXAT, PXAT and KEEPTTL an accepted SET has at most one kind, *)
(* given once, and not both NX and XX.  The exception is an option whose   *)
(* deadline is the sentinel of having none: PXAT -1 can be overruled.      *)
(***************************************************************************)
OptionsExclusive(a, now, build) ==
    LET has(W) == {i \in DOMAIN a : a[i].word \in W}
        expiry == has(Relative \cup Absolute)
        sentinel == \E i \in expiry :
                        /\ i < Len(a)
                        /\ Deadline(a[i].word, a[i + 1].text, now, build).value
                               = kNoExpiry
    IN  (set_options(a, now, build).ok /\ ~sentinel) =>
          /\ Cardinality(expiry) <= 1
          /\ expiry = {} \/ has({"KEEPTTL"}) = {}
          /\ has({"NX"}) = {} \/ has({"XX"}) = {}
=============================================================================
