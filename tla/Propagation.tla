---------------------------- MODULE Propagation ----------------------------
(***************************************************************************)
(* One server executes client commands and logs the canonical form of      *)
(* every dirty one (RespHandler::on_data calling propagate_); somebody     *)
(* else executes that log again, later.  The follower is either            *)
(*   - a server that boots from the append-only file (Aof::replay),        *)
(*   - a server that boots from a snapshot (Persistence::load), or         *)
(*   - a replica: a snapshot, then the stream that follows it.             *)
(* All of them run the log through apply_silently() and the snapshot       *)
(* through load_record(), under their own clock readings, which come after *)
(* the original ones.  Transport and files are the subject of the modules  *)
(* Replication, Aof and RdbSave: here the log arrives whole and in order,  *)
(* and the question is what executing it LATE does to the data.            *)
(*                                                                         *)
(* log[i].store is a history value: the leader's keyspace right after the  *)
(* i-th logged command.  All servers read the same clock `now'.            *)
(***************************************************************************)
EXTENDS Commands, Sequences

CONSTANTS MaxTime,  \* bound: the clock stops here
          MaxLog,   \* bound: logged commands
          NoSnap

ASSUME PropagationAssumption ==
  /\ MaxTime \in Nat
  /\ MaxLog \in Nat
  /\ NoSnap \notin [records : SUBSET Record, pos : Nat]

VARIABLES now,       \* the clock, in milliseconds
          store,     \* the leader's keyspace
          log,       \* what the leader has handed to propagate_ so far
          follower,  \* the follower's keyspace
          pos,       \* how much of the log the follower's keyspace reflects
          snap       \* a snapshot of the leader, not yet loaded

vars == <<now, store, log, follower, pos, snap>>

Entry == [cmd : CanonicalCommand, store : StoreType]

TypeOK ==
  /\ now \in 0..MaxTime
  /\ store \in StoreType /\ follower \in StoreType
  /\ log \in Seq(Entry)
  /\ pos \in 0..Len(log)
  /\ snap \in {NoSnap} \cup [records : SUBSET Record, pos : 0..Len(log)]

Init ==
  /\ now = 0
  /\ store = EmptyStore /\ follower = EmptyStore
  /\ log = <<>> /\ pos = 0
  /\ snap = NoSnap

\* The readings one command takes: the clock does not run backwards.
Clocks(n) == {c \in [1..n -> now..MaxTime] : \A i, j \in 1..n : i <= j => c[i] <= c[j]}

\* One reading per key, for the operations that visit many keys.
KeyClocks(t) == [Key -> now..t]

Later == now..MaxTime

Tick ==
  /\ now < MaxTime
  /\ now' = now + 1
  /\ UNCHANGED <<store, log, follower, pos, snap>>

(***************************************************************************)
(* The leader.                                                             *)
(***************************************************************************)
\* Bug: PERSIST forgets to say it was dirty.
MutLoggedDropsPersist(r) ==
  IF r.dirty /\ r.propagate.op # "PERSIST"
  THEN Append(log, [cmd |-> r.propagate, store |-> r.store]) ELSE log

\* on_data: `if (result.dirty && propagate_) propagate_(result.propagate)'.
Logged(r) ==
  IF r.dirty THEN Append(log, [cmd |-> r.propagate, store |-> r.store]) ELSE log

Execute(a) ==
  \E c \in Clocks(Readings(a)) :
    LET r == dispatch(store, a, c)
    IN  /\ Len(log) < MaxLog
        /\ store' = r.store
        /\ log' = Logged(r)
        /\ now' = c[Readings(a)]
        /\ UNCHANGED <<follower, pos, snap>>

\* GET, EXISTS, TYPE, TTL and PTTL reap the key they find expired.
Read(k) ==
  \E c \in Later :
    /\ store' = touch(store, k, c)
    /\ now' = c
    /\ UNCHANGED <<log, follower, pos, snap>>

Keys ==
  \E t \in Later : \E c \in KeyClocks(t) :
    /\ store' = keys(store, c)
    /\ now' = t
    /\ UNCHANGED <<log, follower, pos, snap>>

\* The cron callback's active_expire_cycle(): nothing of it is logged.
Cron ==
  \E c \in Later : \E D \in SUBSET reapable(store, c) :
    /\ store' = removeAll(store, D)
    /\ now' = c
    /\ UNCHANGED <<log, follower, pos, snap>>

TakeSnapshot ==
  \E c \in Later :
    /\ snap' = [records |-> snapshot(store, c), pos |-> Len(log)]
    /\ now' = c
    /\ UNCHANGED <<store, log, follower, pos>>

(***************************************************************************)
(* The follower.                                                           *)
(***************************************************************************)
\* Bug: the old keyspace is not cleared before the snapshot is loaded.
MutFollowerLoadNoClear ==
  \E t \in Later : \E c \in KeyClocks(t) :
    LET loaded == load_records(snap.records, c)
    IN  /\ snap # NoSnap
        /\ follower' = [map |-> [k \in Key |-> IF Has(loaded, k) THEN loaded.map[k]
                                               ELSE follower.map[k]],
                        expires |-> [k \in Key |-> IF Has(loaded, k) THEN loaded.expires[k]
                                                   ELSE follower.expires[k]]]
        /\ pos' = snap.pos
        /\ now' = t
        /\ UNCHANGED <<store, log, snap>>

\* A snapshot replaces the keyspace: clear(), then load_record() for each.
FollowerLoad ==
  \E t \in Later : \E c \in KeyClocks(t) :
    /\ snap # NoSnap
    /\ follower' = load_records(snap.records, c)
    /\ pos' = snap.pos
    /\ now' = t
    /\ UNCHANGED <<store, log, snap>>

\* A server that boots from the append-only file starts from nothing.
FollowerRestart ==
  /\ follower' = EmptyStore
  /\ pos' = 0
  /\ UNCHANGED <<now, store, log, snap>>

FollowerApply ==
  /\ pos < Len(log)
  /\ LET a == log[pos + 1].cmd
     IN  \E c \in Clocks(Readings(a)) :
           /\ follower' = apply_silently(follower, a, c)
           /\ now' = c[Readings(a)]
  /\ pos' = pos + 1
  /\ UNCHANGED <<store, log, snap>>

\* Reads and the active cycle on the follower.
FollowerReap ==
  \E c \in Later : \E D \in SUBSET reapable(follower, c) :
    /\ follower' = removeAll(follower, D)
    /\ now' = c
    /\ UNCHANGED <<store, log, pos, snap>>

Next ==
  \/ Tick
  \/ \E a \in ClientCommand : Execute(a)
  \/ \E k \in Key : Read(k)
  \/ Keys
  \/ Cron
  \/ TakeSnapshot
  \/ FollowerLoad
  \/ FollowerRestart
  \/ FollowerApply
  \/ FollowerReap

Spec == Init /\ [][Next]_vars

(***************************************************************************)
(* Properties.                                                             *)
(***************************************************************************)
\* The leader's keyspace right after the logged commands the follower reflects.
Reflected == IF pos = 0 THEN EmptyStore ELSE log[pos].store

(***************************************************************************)
(* Both keyspaces keep their two maps together: no orphan in expires_,     *)
(* whatever mix of commands, reaping, loading and replay ran (so size()'s  *)
(* unsigned subtraction never wraps).                                      *)
(***************************************************************************)
IndexesSound == IndexSound(store) /\ IndexSound(follower)

(***************************************************************************)
(* Executing the log or loading a snapshot late never resurrects: a key    *)
(* alive on the follower is alive, with the same value and deadline, in    *)
(* the leader's keyspace as it was at that place of the log.               *)
(***************************************************************************)
NoResurrection ==
  \A k \in Key : Live(follower, k, now) =>
    /\ follower.map[k] = Reflected.map[k]
    /\ follower.expires[k] = Reflected.expires[k]

(***************************************************************************)
(* Nothing is lost either, for the keys whose deadline was only ever       *)
(* decided by SET: a key alive at that place of the log is alive on the    *)
(* follower.  (EXPIRE and PERSIST are the exception: see NothingLost.)     *)
(***************************************************************************)
OnlySet(k) ==
  \A i \in 1..pos : log[i].cmd.op \in {"EXPIRE", "PERSIST"} => log[i].cmd.key # k

SetKeysComplete ==
  \A k \in Key : OnlySet(k) /\ Live(Reflected, k, now) => Live(follower, k, now)

(***************************************************************************)
(* The whole promise of a log that "records every write": every key alive  *)
(* at that place of the log is alive on the follower.  It is not kept: a   *)
(* deadline that was extended or lifted while the key was alive is passed  *)
(* again, during replay, before the command that lifted it is reached.     *)
(***************************************************************************)
NothingLost ==
  \A k \in Key : Live(Reflected, k, now) => Live(follower, k, now)

(***************************************************************************)
(* A change to what clients can still see is always logged: if a step      *)
(* changes, adds or removes a key that is alive when the step ends, it     *)
(* appends to the log.  Lazy and active reaping, snapshots and conditions  *)
(* that fail are not logged, and must not change anything alive.           *)
(***************************************************************************)
Visible(s, t) ==
  {[key |-> k, value |-> s.map[k], at |-> s.expires[k]] :
     k \in {x \in Key : Live(s, x, t)}}

EveryChangeLogged ==
  [][Visible(store, now') # Visible(store', now') => Len(log') = Len(log) + 1]_vars

(***************************************************************************)
(* SET ... KEEPTTL on a key that is still alive when the command ends      *)
(* keeps its deadline, up to the time the command itself takes: cmd_set    *)
(* computes the new deadline from the time left and a later reading of the *)
(* clock.  (A key that dies during the command is made persistent.)        *)
(***************************************************************************)
Keepttl == SetCommand({[kind |-> "keepttl", n |-> kNoExpiry]}, {"none", "XX"})

KeepttlKeepsDeadline ==
  [][\A a \in Keepttl :
       LET old == store.expires[a.key]
       IN  /\ old # kNoExpiry /\ Live(store, a.key, now')
           /\ Len(log') > Len(log) /\ log'[Len(log')].cmd.op = "SET"
           /\ Execute(a)
           => store'.expires[a.key] \in old..(old + now' - now)]_vars
=============================================================================
