------------------------------ MODULE Commands ------------------------------
(***************************************************************************)
(* The commands that change the keyspace (commands.cpp), as functions from *)
(* a store to a CommandResult: the store left behind, whether the command  *)
(* reported `dirty', and the canonical form it hands to the AOF and to the *)
(* replicas in `propagate'.                                                *)
(*                                                                         *)
(* A command is a record.  Parsing, arity and option syntax, seconds       *)
(* against milliseconds (n is in milliseconds) and the text of the replies *)
(* are left out.  The canonical commands are the ones with an absolute     *)
(* deadline and no condition; they are what apply_silently() runs again.   *)
(***************************************************************************)
EXTENDS Store

CONSTANTS Ttl,   \* relative amounts a client may send (EX, PX, EXPIRE, PEXPIRE)
          At     \* absolute deadlines a client may send (EXAT, PXAT, PEXPIREAT)

ASSUME CommandsAssumption == Ttl \subseteq Int /\ At \subseteq Int

NoExpiry == [kind |-> "none", n |-> kNoExpiry]

Expiry(N, M) == {NoExpiry} \cup [kind : {"relative"}, n : N]
                           \cup [kind : {"absolute"}, n : M]
                           \cup {[kind |-> "keepttl", n |-> kNoExpiry]}

SetCommand(E, C) ==
  [op : {"SET"}, key : Key, value : Value, expiry : E, cond : C]

DelCommand == [op : {"DEL"}, keys : SUBSET Key \ {{}}]

ExpireCommand(N, A) == [op : {"EXPIRE"}, key : Key, n : N, absolute : A]

PersistCommand == [op : {"PERSIST"}, key : Key]

FlushCommand == [op : {"FLUSHALL"}]

ClientCommand ==
       SetCommand(Expiry(Ttl, At), {"none", "NX", "XX"})
  \cup DelCommand
  \cup ExpireCommand(Ttl, {FALSE}) \cup ExpireCommand(At, {TRUE})
  \cup PersistCommand \cup FlushCommand

CanonicalCommand ==
       SetCommand({NoExpiry} \cup [kind : {"absolute"}, n : Int], {"none"})
  \cup DelCommand \cup ExpireCommand(Int, {TRUE})
  \cup PersistCommand \cup FlushCommand

Result(s, dirty, cmd) == [store |-> s, dirty |-> dirty, propagate |-> cmd]

(***************************************************************************)
(* How many clock readings a command takes, at most.                       *)
(***************************************************************************)
Readings(a) == CASE a.op = "SET" -> IF a.expiry.kind = "keepttl" THEN 5 ELSE 2
                 [] a.op = "EXPIRE" -> 3
                 [] OTHER -> 1

(***************************************************************************)
(* SET.  c[1] is read while the options are parsed, c[2] by get(), c[3]    *)
(* and c[4] by pttl(), c[5] when the remaining time is turned back into a  *)
(* deadline.                                                               *)
(***************************************************************************)
\* Bug: the time left is stored as if it were a deadline.
MutSetDeadlineRemaining(s, a, c) ==
  CASE a.expiry.kind = "relative" -> c[1] + a.expiry.n
    [] a.expiry.kind = "keepttl"  -> pttl(s, a.key, c[3], c[4])
    [] OTHER -> a.expiry.n

SetDeadline(s, a, c) ==
  LET remaining == pttl(s, a.key, c[3], c[4])
  IN  CASE a.expiry.kind = "relative" -> c[1] + a.expiry.n
        [] a.expiry.kind = "keepttl"  -> IF remaining >= 0 THEN c[5] + remaining
                                                           ELSE kNoExpiry
        [] OTHER -> a.expiry.n

canonical_set(a, deadline) ==
  [a EXCEPT !.cond = "none",
            !.expiry = IF deadline = kNoExpiry THEN NoExpiry
                       ELSE [kind |-> "absolute", n |-> deadline]]

cmd_set(s, a, c) ==
  LET previous == get(s, a.key, c[2])
      touched  == touch(s, a.key, c[2])
      deadline == SetDeadline(touched, a, c)
  IN  IF a.expiry.kind = "relative" /\ a.expiry.n <= 0
        THEN Result(s, FALSE, a)
      ELSE IF \/ a.cond = "NX" /\ previous # Absent
              \/ a.cond = "XX" /\ previous = Absent
        THEN Result(touched, FALSE, a)
      ELSE Result(set(touched, a.key, a.value, deadline), TRUE,
                  canonical_set(a, deadline))

(***************************************************************************)
(* DEL and UNLINK.  erase() removes the entry whether or not it is alive;  *)
(* the readings only decide whether some key counts as removed, and any    *)
(* outcome of one reading per key is an outcome of some single reading.    *)
(***************************************************************************)
cmd_del(s, a, c) == Result(removeAll(s, a.keys),
                           \E k \in a.keys : Live(s, k, c[1]), a)

\* EXPIRE, PEXPIRE, EXPIREAT and PEXPIREAT.
cmd_expire(s, a, c) ==
  LET deadline == IF a.absolute THEN a.n ELSE c[1] + a.n
  IN  Result(expire_at(s, a.key, deadline, c[2], c[3]), Live(s, a.key, c[2]),
             [a EXCEPT !.n = deadline, !.absolute = TRUE])

cmd_persist(s, a, c) == Result(persist(s, a.key, c[1]), persisted(s, a.key, c[1]), a)

cmd_flushall(s, a) == Result(EmptyStore, TRUE, a)

dispatch(s, a, c) == CASE a.op = "SET"      -> cmd_set(s, a, c)
                       [] a.op = "DEL"      -> cmd_del(s, a, c)
                       [] a.op = "EXPIRE"   -> cmd_expire(s, a, c)
                       [] a.op = "PERSIST"  -> cmd_persist(s, a, c)
                       [] a.op = "FLUSHALL" -> cmd_flushall(s, a)

\* apply_silently(): a replayed or replicated command, without propagation.
apply_silently(s, a, c) == dispatch(s, a, c).store
=============================================================================
