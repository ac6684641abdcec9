------------------------- MODULE PropagationProofs -------------------------
(***************************************************************************)
(* Executing the log late, or loading a snapshot late, never resurrects a  *)
(* key, for every set of keys and values, every command and every clock.   *)
(*                                                                         *)
(* The invariant is not inductive by itself: it says nothing about the log *)
(* beyond `pos', nor about a snapshot still on its way.  IInv adds what    *)
(* every log entry, the leader and the snapshot promise, all of it weakened*)
(* to the keys that are still alive NOW, so that the passing of time can   *)
(* only make it easier to keep.                                            *)
(*                                                                         *)
(* The bound from below (SetKeysComplete: nothing that only SET dated is   *)
(* lost) needs CInv on top of IInv: what must have been alive before a     *)
(* logged command for a key to be alive after it, and that a snapshot has  *)
(* exactly one record for every key still alive.                           *)
(***************************************************************************)
EXTENDS Propagation, TLAPS

Agree(s, t, k) == s.map[k] = t.map[k] /\ s.expires[k] = t.expires[k]

\* t says what s says, about every key of s that is alive at time c.
Covers(t, s, c) == \A k \in Key : Live(s, k, c) => Agree(s, t, k)

\* What a logged command a says about the keyspaces p before and q after it.
Follows(p, a, q, c) == \A k \in Key :
  /\ a.op = "SET" /\ a.key = k =>
       q.map[k] = a.value /\ q.expires[k] = a.expiry.n
  /\ a.op = "EXPIRE" /\ a.key = k =>
       \/ ~Live(p, k, c)
       \/ a.n <= c
       \/ q.map[k] = p.map[k] /\ q.expires[k] = a.n
  /\ a.op = "PERSIST" /\ a.key = k =>
       \/ ~Live(p, k, c)
       \/ q.map[k] = p.map[k] /\ q.expires[k] = kNoExpiry
  /\ a.op \in {"SET", "EXPIRE", "PERSIST"} /\ a.key # k =>
       (Live(p, k, c) => Agree(p, q, k))
  /\ a.op = "DEL" /\ k \notin a.keys => (Live(p, k, c) => Agree(p, q, k))

\* The logged command a is about other keys than k.
Spares(a, k) ==
  \/ a.op \in {"SET", "EXPIRE", "PERSIST"} /\ a.key # k
  \/ a.op = "DEL" /\ k \notin a.keys

\* a decides about k alone, and is not a DEL of it.
Addresses(a, k) == a.op \in {"SET", "EXPIRE", "PERSIST"} /\ a.key = k

\* What is alive in q, behind the logged command a, comes from a or from p.
Preceded(p, a, q, c) == \A k \in Key :
  Live(q, k, c) => Addresses(a, k) \/ (Spares(a, k) /\ Agree(p, q, k))

\* The leader's keyspace after i logged commands.
AtLog(i) == IF i = 0 THEN EmptyStore ELSE log[i].store

LogOK == \A i \in 1..Len(log) : Follows(AtLog(i - 1), log[i].cmd, AtLog(i), now)

LeaderOK == /\ Covers(store, AtLog(Len(log)), now)
            /\ Covers(AtLog(Len(log)), store, now)

SnapOK == snap # NoSnap => \A r \in snap.records : loadable(r, now) =>
            /\ AtLog(snap.pos).map[r.key] = r.value
            /\ AtLog(snap.pos).expires[r.key] = r.expire_at

FollowerOK == Covers(AtLog(pos), follower, now)

IInv == TypeOK /\ IndexesSound /\ LogOK /\ LeaderOK /\ SnapOK /\ FollowerOK

-----------------------------------------------------------------------------
(***************************************************************************)
(* The store.                                                              *)
(***************************************************************************)

\* Every operation of the store returns a store.
LEMMA StoreTypes ==
  ASSUME NEW s \in StoreType, NEW k \in Key, NEW e \in Int,
         NEW c1, NEW c2, NEW K
  PROVE  /\ EmptyStore \in StoreType
         /\ remove(s, k) \in StoreType
         /\ touch(s, k, c1) \in StoreType
         /\ \A v \in Value : set(s, k, v, e) \in StoreType
         /\ expire_at(s, k, e, c1, c2) \in StoreType
         /\ persist(s, k, c1) \in StoreType
         /\ removeAll(s, K) \in StoreType
         /\ keys(s, c1) \in StoreType
<1>1. EmptyStore \in StoreType
  BY DEF EmptyStore, StoreType, kNoExpiry
<1>2. remove(s, k) \in StoreType
  BY DEF remove, StoreType, kNoExpiry
<1>3. \A L : removeAll(s, L) \in StoreType
  BY DEF removeAll, StoreType, kNoExpiry
<1>4. touch(s, k, c1) \in StoreType
  BY <1>2 DEF touch
<1>5. \A v \in Value : set(s, k, v, e) \in StoreType
  BY DEF set, StoreType
<1>6. expire_at(s, k, e, c1, c2) \in StoreType
  BY <1>2, <1>4 DEF expire_at, StoreType
<1>7. persist(s, k, c1) \in StoreType
  BY <1>4 DEF persist, StoreType, kNoExpiry
<1>8. keys(s, c1) \in StoreType
  BY <1>3 DEF keys
<1>9. QED
  BY <1>1, <1>2, <1>3, <1>4, <1>5, <1>6, <1>7, <1>8

\* No operation of the store leaves an orphan in the index.
LEMMA StoreIndexes ==
  ASSUME NEW s \in StoreType, NEW k \in Key, NEW e \in Int,
         NEW c1, NEW c2, NEW K, IndexSound(s)
  PROVE  /\ IndexSound(EmptyStore)
         /\ IndexSound(touch(s, k, c1))
         /\ \A v \in Value : IndexSound(set(s, k, v, e))
         /\ IndexSound(expire_at(s, k, e, c1, c2))
         /\ IndexSound(persist(s, k, c1))
         /\ IndexSound(removeAll(s, K))
         /\ IndexSound(keys(s, c1))
<1>1. IndexSound(EmptyStore)
  BY DEF EmptyStore, IndexSound
<1>2. IndexSound(remove(s, k))
  BY DEF remove, IndexSound, StoreType, Has
<1>3. \A L : IndexSound(removeAll(s, L))
  BY DEF removeAll, IndexSound, Has
<1>4. IndexSound(touch(s, k, c1))
  BY <1>2 DEF touch
<1>5. \A v \in Value : IndexSound(set(s, k, v, e))
  BY StoreAssumption DEF set, IndexSound, StoreType, Has
<1>6. IndexSound(expire_at(s, k, e, c1, c2))
  BY <1>2, <1>4 DEF expire_at, IndexSound, StoreType, Has, Live
<1>7. IndexSound(persist(s, k, c1))
  BY <1>4 DEF persist, IndexSound, StoreType, Has
<1>8. IndexSound(keys(s, c1))
  BY <1>3 DEF keys
<1>9. QED
  BY <1>1, <1>3, <1>4, <1>5, <1>6, <1>7, <1>8

\* A key does not come back to life by waiting.
LEMMA DeadStaysDead ==
  ASSUME NEW s \in StoreType, NEW k \in Key,
         NEW c1 \in Int, NEW c2 \in Int, c1 <= c2, Live(s, k, c2)
  PROVE  Live(s, k, c1)
  BY DEF Live, is_expired, StoreType

\* A loaded snapshot is a store without orphans, made of its records.
LEMMA Loaded ==
  ASSUME NEW R \in SUBSET Record, NEW c
  PROVE  /\ load_records(R, c) \in StoreType
         /\ IndexSound(load_records(R, c))
         /\ \A k \in Key : Has(load_records(R, c), k) =>
              \E r \in R : /\ r.key = k
                          /\ load_records(R, c).map[k] = r.value
                          /\ load_records(R, c).expires[k] = r.expire_at
<1> DEFINE kept(k) == {r \in R : r.key = k /\ loadable(r, c[k])}
           the(k)  == CHOOSE r \in kept(k) : TRUE
           s       == load_records(R, c)
<1>1. \A k \in Key : kept(k) # {} => the(k) \in kept(k)
  OBVIOUS
<1>2. s = [map     |-> [k \in Key |-> IF kept(k) = {} THEN Absent ELSE the(k).value],
           expires |-> [k \in Key |-> IF kept(k) = {} THEN kNoExpiry
                                                      ELSE the(k).expire_at]]
  BY DEF load_records
<1>3. \A k \in Key : kept(k) # {} => /\ the(k) \in R
                                     /\ the(k).key = k
                                     /\ the(k).value \in Value
                                     /\ the(k).expire_at \in Int
  BY <1>1 DEF Record
<1> HIDE DEF kept, the, s
<1>4. s \in StoreType
  BY <1>2, <1>3 DEF StoreType, kNoExpiry
<1>5. IndexSound(s)
  BY <1>2, <1>3, StoreAssumption DEF IndexSound, Has
<1>6. \A k \in Key : Has(s, k) =>
        \E r \in R : r.key = k /\ s.map[k] = r.value /\ s.expires[k] = r.expire_at
  BY <1>2, <1>3 DEF Has
<1>7. QED
  BY <1>4, <1>5, <1>6 DEF s

-----------------------------------------------------------------------------
(***************************************************************************)
(* The commands.                                                           *)
(***************************************************************************)
AnyCommand ==
       SetCommand(Expiry(Int, Int), {"none", "NX", "XX"})
  \cup DelCommand \cup ExpireCommand(Int, BOOLEAN)
  \cup PersistCommand \cup FlushCommand

\* The op of a command (the name dispatch looks up) decides its other fields.
LEMMA CommandFields ==
  ASSUME NEW a \in AnyCommand
  PROVE  /\ a.op \in {"SET", "DEL", "EXPIRE", "PERSIST", "FLUSHALL"}
         /\ a.op = "SET" => a \in SetCommand(Expiry(Int, Int), {"none", "NX", "XX"})
         /\ a.op = "DEL" => a \in DelCommand
         /\ a.op = "EXPIRE" => a \in ExpireCommand(Int, BOOLEAN)
         /\ a.op = "PERSIST" => a \in PersistCommand
         /\ a.op = "FLUSHALL" => a \in FlushCommand
  BY DEF AnyCommand, SetCommand, DelCommand, ExpireCommand, PersistCommand, FlushCommand

\* What clients send and what is logged are both commands of dispatch.
LEMMA CommandsAreCommands == ClientCommand \subseteq AnyCommand /\ CanonicalCommand \subseteq AnyCommand
<1>1. ASSUME NEW N \in SUBSET Int, NEW M \in SUBSET Int
      PROVE  Expiry(N, M) \subseteq Expiry(Int, Int)
  BY <1>1, Zenon DEF Expiry
<1>2. {NoExpiry} \cup [kind : {"absolute"}, n : Int] \subseteq Expiry(Int, Int)
  BY DEF Expiry
<1>3. ClientCommand \subseteq AnyCommand
  BY <1>1, CommandsAssumption, Zenon DEF ClientCommand, AnyCommand, SetCommand, ExpireCommand
<1>4. CanonicalCommand \subseteq AnyCommand
  BY <1>2, Zenon DEF CanonicalCommand, AnyCommand, SetCommand, ExpireCommand
<1>5. QED
  BY <1>3, <1>4

\* What one command reads from the clock: Readings(a) times, within t0..t1.
Within(a, c, t0, t1) ==
  \A i \in 1..Readings(a) : c[i] \in Int /\ t0 <= c[i] /\ c[i] <= t1

\* What the leader's side of dispatch() guarantees.
Sound(s, r, t) ==
  /\ r.store \in StoreType
  /\ IndexSound(s) => IndexSound(r.store)
  /\ r.dirty \in BOOLEAN
  /\ r.dirty => /\ r.propagate \in CanonicalCommand
                /\ Follows(s, r.propagate, r.store, t)
                /\ Preceded(s, r.propagate, r.store, t)
  /\ ~r.dirty => Covers(r.store, s, t) /\ Covers(s, r.store, t)

\* cmd_set: the SET it propagates, or the failed condition it does not, tells
\* what it did to the keyspace.
LEMMA SetSound ==
  ASSUME NEW s \in StoreType, NEW a \in SetCommand(Expiry(Int, Int), {"none", "NX", "XX"}),
         NEW c, NEW t0 \in Int, NEW t1 \in Int, Within(a, c, t0, t1)
  PROVE  Sound(s, cmd_set(s, a, c), t1)
<1> DEFINE touched  == touch(s, a.key, c[2])
           deadline == SetDeadline(touched, a, c)
           after    == set(touched, a.key, a.value, deadline)
<1>1. a.op = "SET" /\ a.key \in Key /\ a.value \in Value /\ a.expiry \in Expiry(Int, Int)
  BY DEF SetCommand
<1>2. /\ a.expiry.n \in Int
      /\ a.expiry.kind \in {"none", "relative", "absolute", "keepttl"}
      /\ a.expiry.kind = "none" => a.expiry = NoExpiry
  BY <1>1 DEF Expiry, NoExpiry, kNoExpiry
<1>3. c[1] \in Int /\ c[2] \in Int /\ c[2] <= t1
  BY <1>1 DEF Within, Readings
<1>4. touched \in StoreType
  BY <1>1, StoreTypes
<1>5. Covers(touched, s, t1) /\ Covers(s, touched, t1)
  <2>1. CASE touched = s
    BY <2>1 DEF Covers, Agree
  <2>2. CASE is_expired(s, a.key, c[2]) /\ touched = remove(s, a.key)
    BY <1>1, <1>3, <2>2 DEF Covers, Agree, Live, is_expired, remove, Has, StoreType
  <2>3. QED
    BY <2>1, <2>2 DEF touch
<1>6. deadline \in Int
  <2>1. CASE a.expiry.kind = "keepttl"
    <3>1. c[3] \in Int /\ c[4] \in Int /\ c[5] \in Int
      BY <1>1, <2>1 DEF Within, Readings
    <3>2. pttl(touched, a.key, c[3], c[4]) \in Int
      BY <1>1, <1>4, <3>1 DEF pttl, StoreType
    <3>3. QED
      BY <2>1, <3>1, <3>2 DEF SetDeadline, kNoExpiry
  <2>2. CASE a.expiry.kind # "keepttl"
    BY <1>2, <1>3, <2>2 DEF SetDeadline
  <2>3. QED
    BY <2>1, <2>2
<1> HIDE DEF touched, deadline
<1>7. after \in StoreType
  BY <1>1, <1>4, <1>6, StoreTypes, Zenon
<1>8. canonical_set(a, deadline) \in CanonicalCommand
  BY <1>1, <1>6, Zenon DEF canonical_set, CanonicalCommand, SetCommand, NoExpiry
<1>9. /\ Follows(s, canonical_set(a, deadline), after, t1)
      /\ Preceded(s, canonical_set(a, deadline), after, t1)
  <2> DEFINE b == canonical_set(a, deadline)
  <2>1. b.op = "SET" /\ b.key = a.key /\ b.value = a.value /\ b.expiry.n = deadline
    BY <1>1 DEF canonical_set, SetCommand, NoExpiry
  <2>2. /\ after.map[a.key] = a.value /\ after.expires[a.key] = deadline
        /\ \A k \in Key : k # a.key => Agree(touched, after, k)
    BY <1>1, <1>4 DEF set, StoreType, Agree
  <2> HIDE DEF b, after
  <2>3. Follows(s, b, after, t1)
    BY <1>1, <1>5, <2>1, <2>2 DEF Follows, Covers, Agree
  <2>4. ASSUME NEW k \in Key, Live(after, k, t1), k # a.key
        PROVE  Agree(s, after, k)
    <3>1. Agree(touched, after, k) /\ Live(touched, k, t1)
      BY <2>2, <2>4 DEF Agree, Live, Has, is_expired
    <3>2. QED
      BY <1>5, <3>1 DEF Covers, Agree
  <2>5. Preceded(s, b, after, t1)
    BY <2>1, <2>4 DEF Preceded, Addresses, Spares
  <2>6. QED
    BY <2>3, <2>5 DEF b
<1>10. IndexSound(s) => IndexSound(touched) /\ IndexSound(after)
  <2>1. IndexSound(s) => IndexSound(touched)
    BY <1>1, StoreIndexes DEF touched
  <2>2. QED
    BY <1>1, <1>4, <1>6, <2>1, StoreIndexes, Zenon
<1> HIDE DEF after
<1>11. cmd_set(s, a, c) \in {Result(s, FALSE, a), Result(touched, FALSE, a),
                            Result(after, TRUE, canonical_set(a, deadline))}
  BY DEF cmd_set, touched, deadline, after
<1>12. Covers(s, s, t1)
  BY DEF Covers, Agree
<1>13. Sound(s, Result(s, FALSE, a), t1)
  BY <1>12 DEF Sound, Result
<1>14. Sound(s, Result(touched, FALSE, a), t1)
  BY <1>4, <1>5, <1>10 DEF Sound, Result
<1>15. Sound(s, Result(after, TRUE, canonical_set(a, deadline)), t1)
  BY <1>7, <1>8, <1>9, <1>10 DEF Sound, Result
<1>16. QED
  BY <1>11, <1>13, <1>14, <1>15, Zenon

\* cmd_del propagates itself exactly when it removed a live key.
LEMMA DelSound ==
  ASSUME NEW s \in StoreType, NEW a \in DelCommand,
         NEW c, NEW t0 \in Int, NEW t1 \in Int, Within(a, c, t0, t1)
  PROVE  Sound(s, cmd_del(s, a, c), t1)
<1> DEFINE after == removeAll(s, a.keys)
<1>1. a.op = "DEL" /\ a.keys \in SUBSET Key /\ a \in CanonicalCommand
  BY DEF DelCommand, CanonicalCommand
<1>2. after \in StoreType /\ (IndexSound(s) => IndexSound(after))
  <2>1. after \in StoreType
    BY <1>1 DEF removeAll, StoreType, kNoExpiry
  <2>2. IndexSound(s) => IndexSound(after)
    BY DEF removeAll, IndexSound, Has
  <2>3. QED
    BY <2>1, <2>2
<1>3. \A k \in Key : k \notin a.keys => Agree(s, after, k)
  BY DEF removeAll, Agree
<1>4. \A k \in a.keys : ~Has(after, k)
  BY <1>1 DEF removeAll, Has
<1> HIDE DEF after
<1>5. Follows(s, a, after, t1) /\ Preceded(s, a, after, t1)
  BY <1>1, <1>3, <1>4 DEF Follows, Preceded, Spares, Live
<1>6. ASSUME \A k \in a.keys : ~Live(s, k, c[1])
      PROVE  Covers(after, s, t1) /\ Covers(s, after, t1)
  <2>1. c[1] \in Int /\ c[1] <= t1
    BY <1>1 DEF Within, Readings
  <2>2. \A k \in a.keys : ~Live(s, k, t1)
    BY <1>1, <1>6, <2>1, DeadStaysDead
  <2>3. \A k \in a.keys : ~Live(after, k, t1)
    BY <1>4 DEF Live
  <2>4. QED
    BY <1>3, <2>2, <2>3 DEF Covers, Agree
<1>7. QED
  BY <1>1, <1>2, <1>5, <1>6 DEF Sound, Result, cmd_del, after

\* cmd_expire propagates the absolute deadline it applied.
LEMMA ExpireSound ==
  ASSUME NEW s \in StoreType, NEW a \in ExpireCommand(Int, BOOLEAN),
         NEW c, NEW t0 \in Int, NEW t1 \in Int, Within(a, c, t0, t1)
  PROVE  Sound(s, cmd_expire(s, a, c), t1)
<1> DEFINE deadline == IF a.absolute THEN a.n ELSE c[1] + a.n
           b        == [a EXCEPT !.n = deadline, !.absolute = TRUE]
           after    == expire_at(s, a.key, deadline, c[2], c[3])
<1>1. a.op = "EXPIRE" /\ a.key \in Key /\ a.n \in Int
  BY DEF ExpireCommand
<1>2. c[1] \in Int /\ c[2] \in Int /\ c[2] <= t1 /\ c[3] \in Int /\ c[3] <= t1
  BY <1>1 DEF Within, Readings
<1>3. deadline \in Int
  BY <1>1, <1>2
<1> HIDE DEF deadline
<1>4. b \in CanonicalCommand /\ b.op = "EXPIRE" /\ b.key = a.key /\ b.n = deadline
  BY <1>1, <1>3, Zenon DEF ExpireCommand, CanonicalCommand
<1>5. after \in StoreType /\ (IndexSound(s) => IndexSound(after))
  BY <1>1, <1>3, StoreTypes, StoreIndexes
<1>6. \A k \in Key : k # a.key => Agree(s, after, k)
  BY <1>1 DEF expire_at, touch, remove, Agree, StoreType
<1>7. Live(s, a.key, c[2]) =>
        \/ deadline <= c[3]
        \/ after.map[a.key] = s.map[a.key] /\ after.expires[a.key] = deadline
  BY <1>1 DEF expire_at, StoreType
<1>8. ~Live(s, a.key, c[2]) => ~Live(s, a.key, t1) /\ ~Live(after, a.key, t1)
  <2>1. ~Live(s, a.key, c[2]) => ~Live(s, a.key, t1)
    BY <1>1, <1>2, DeadStaysDead
  <2>2. ~Live(s, a.key, c[2]) => ~Has(after, a.key)
    BY <1>1 DEF expire_at, touch, remove, Has, Live, StoreType
  <2>3. QED
    BY <2>1, <2>2 DEF Live
<1> HIDE DEF after, b
<1>9. Live(s, a.key, c[2]) => Follows(s, b, after, t1) /\ Preceded(s, b, after, t1)
  <2>1. Preceded(s, b, after, t1)
    BY <1>4, <1>6 DEF Preceded, Addresses, Spares
  <2>2. QED
    BY <1>2, <1>3, <1>4, <1>6, <1>7, <2>1 DEF Follows
<1>10. ~Live(s, a.key, c[2]) => Covers(after, s, t1) /\ Covers(s, after, t1)
  BY <1>6, <1>8 DEF Covers, Agree
<1>11. Live(s, a.key, c[2]) \in BOOLEAN
  BY DEF Live
<1>12. cmd_expire(s, a, c) = Result(after, Live(s, a.key, c[2]), b)
  BY DEF cmd_expire, after, b, deadline
<1>13. QED
  BY <1>4, <1>5, <1>9, <1>10, <1>11, <1>12 DEF Sound, Result

\* cmd_persist propagates itself when it lifted a deadline.
LEMMA PersistSound ==
  ASSUME NEW s \in StoreType, NEW a \in PersistCommand,
         NEW c, NEW t0 \in Int, NEW t1 \in Int, Within(a, c, t0, t1)
  PROVE  Sound(s, cmd_persist(s, a, c), t1)
<1> DEFINE after == persist(s, a.key, c[1])
           done  == persisted(s, a.key, c[1])
<1>1. a.op = "PERSIST" /\ a.key \in Key /\ a \in CanonicalCommand
  BY DEF PersistCommand, CanonicalCommand
<1>2. c[1] \in Int /\ c[1] <= t1
  BY <1>1 DEF Within, Readings
<1>3. after \in StoreType /\ (IndexSound(s) => IndexSound(after))
  BY <1>1, <1>2, StoreTypes, StoreIndexes
<1>4. \A k \in Key : k # a.key => Agree(s, after, k)
  BY <1>1 DEF persist, touch, remove, Agree, StoreType
<1>5. done => after.map[a.key] = s.map[a.key] /\ after.expires[a.key] = kNoExpiry
  BY <1>1 DEF persist, persisted, StoreType
<1>6. ~done => \/ Agree(s, after, a.key)
               \/ ~Live(s, a.key, t1) /\ ~Live(after, a.key, t1)
  <2>1. CASE Live(s, a.key, c[1])
    <3>1. ~done => s.expires[a.key] = kNoExpiry
      BY <2>1 DEF persisted
    <3>2. after.map = s.map /\ after.expires[a.key] = kNoExpiry
      BY <1>1, <2>1 DEF persist, StoreType
    <3>3. QED
      BY <3>1, <3>2 DEF Agree
  <2>2. CASE ~Live(s, a.key, c[1])
    <3>1. ~Live(s, a.key, t1)
      BY <1>1, <1>2, <2>2, DeadStaysDead
    <3>2. ~Has(after, a.key)
      BY <1>1, <2>2 DEF persist, touch, remove, Has, Live, StoreType
    <3>3. QED
      BY <3>1, <3>2 DEF Live
  <2>3. QED
    BY <2>1, <2>2
<1>7. done \in BOOLEAN
  BY DEF persisted
<1> HIDE DEF after, done
<1>8. done => Follows(s, a, after, t1) /\ Preceded(s, a, after, t1)
  BY <1>1, <1>4, <1>5 DEF Follows, Preceded, Addresses, Spares
<1>9. ~done => Covers(after, s, t1) /\ Covers(s, after, t1)
  BY <1>4, <1>6 DEF Covers, Agree
<1>10. cmd_persist(s, a, c) = Result(after, done, a)
  BY DEF cmd_persist, after, done
<1>11. QED
  BY <1>1, <1>3, <1>7, <1>8, <1>9, <1>10 DEF Sound, Result

\* The leader's side: what is logged describes what was done.
LEMMA DispatchSound ==
  ASSUME NEW s \in StoreType, NEW a \in AnyCommand,
         NEW c, NEW t0 \in Int, NEW t1 \in Int, Within(a, c, t0, t1)
  PROVE  Sound(s, dispatch(s, a, c), t1)
<1>1. CASE a.op = "SET"
  BY <1>1, CommandFields, SetSound DEF dispatch
<1>2. CASE a.op = "DEL"
  BY <1>2, CommandFields, DelSound DEF dispatch
<1>3. CASE a.op = "EXPIRE"
  BY <1>3, CommandFields, ExpireSound DEF dispatch
<1>4. CASE a.op = "PERSIST"
  BY <1>4, CommandFields, PersistSound DEF dispatch
<1>5. CASE a.op = "FLUSHALL"
  <2>1. EmptyStore \in StoreType /\ IndexSound(EmptyStore)
    BY DEF EmptyStore, StoreType, kNoExpiry, IndexSound
  <2>2. a \in CanonicalCommand
    BY <1>5, CommandFields DEF CanonicalCommand
  <2>3. Follows(s, a, EmptyStore, t1) /\ Preceded(s, a, EmptyStore, t1)
    BY <1>5 DEF Follows, Preceded, EmptyStore, Live, Has
  <2>4. dispatch(s, a, c) = Result(EmptyStore, TRUE, a)
    BY <1>5 DEF dispatch, cmd_flushall
  <2>5. QED
    BY <2>1, <2>2, <2>3, <2>4 DEF Sound, Result
<1>6. QED
  BY <1>1, <1>2, <1>3, <1>4, <1>5, CommandFields

\* A key the command leaves alone stays covered.
LEMMA Untouched ==
  ASSUME NEW s \in StoreType, NEW m \in StoreType, NEW q \in StoreType,
         NEW after \in StoreType, NEW k \in Key,
         NEW t0 \in Int, NEW t1 \in Int, t0 <= t1,
         Covers(m, s, t0), Agree(s, after, k), Live(after, k, t1),
         Live(m, k, t0) => Agree(m, q, k)
  PROVE  Agree(after, q, k)
<1>1. Live(s, k, t1)
  BY DEF Live, Has, is_expired, Agree
<1>2. Live(s, k, t0)
  BY <1>1, DeadStaysDead
<1>3. Agree(s, m, k)
  BY <1>2 DEF Covers
<1>4. Live(m, k, t0)
  BY <1>2, <1>3 DEF Live, Has, is_expired, Agree
<1>5. QED
  BY <1>3, <1>4 DEF Agree

\* The fields of a logged command.
LEMMA CanonicalFields ==
  ASSUME NEW a \in CanonicalCommand
  PROVE  /\ a \in AnyCommand
         /\ a.op = "SET" => /\ a.key \in Key /\ a.value \in Value /\ a.cond = "none"
                            /\ a.expiry.n \in Int /\ a.expiry.kind \in {"none", "absolute"}
         /\ a.op = "DEL" => a.keys \in SUBSET Key
         /\ a.op = "EXPIRE" => a.key \in Key /\ a.n \in Int /\ a.absolute = TRUE
         /\ a.op = "PERSIST" => a.key \in Key
<1>1. a.op = "SET" => /\ a.key \in Key /\ a.value \in Value /\ a.cond = "none"
                      /\ a.expiry.n \in Int /\ a.expiry.kind \in {"none", "absolute"}
  <2>1. SUFFICES ASSUME a.op = "SET"
                 PROVE  /\ a.key \in Key /\ a.value \in Value /\ a.cond = "none"
                        /\ a.expiry.n \in Int /\ a.expiry.kind \in {"none", "absolute"}
    OBVIOUS
  <2>2. a \in SetCommand({NoExpiry} \cup [kind : {"absolute"}, n : Int], {"none"})
    BY <2>1, Zenon DEF CanonicalCommand, DelCommand, ExpireCommand, PersistCommand, FlushCommand
  <2>3. a.key \in Key /\ a.value \in Value /\ a.cond = "none"
        /\ a.expiry \in {NoExpiry} \cup [kind : {"absolute"}, n : Int]
    BY <2>2 DEF SetCommand
  <2>4. QED
    BY <2>3 DEF NoExpiry, kNoExpiry
<1>2. /\ a.op = "DEL" => a.keys \in SUBSET Key
      /\ a.op = "EXPIRE" => a.key \in Key /\ a.n \in Int /\ a.absolute = TRUE
      /\ a.op = "PERSIST" => a.key \in Key
  BY Zenon DEF CanonicalCommand, SetCommand, DelCommand, ExpireCommand, PersistCommand, FlushCommand
<1>3. QED
  BY <1>1, <1>2, CommandsAreCommands

\* A logged SET, whenever it is executed, leaves its value and its deadline.
LEMMA ApplySets ==
  ASSUME NEW s \in StoreType, NEW a \in CanonicalCommand, NEW c, a.op = "SET"
  PROVE  /\ apply_silently(s, a, c).map[a.key] = a.value
         /\ apply_silently(s, a, c).expires[a.key] = a.expiry.n
         /\ \A k \in Key : k # a.key => Agree(s, apply_silently(s, a, c), k)
<1>1. /\ a.key \in Key /\ a.cond = "none" /\ a.expiry.n \in Int
      /\ a.expiry.kind \in {"none", "absolute"}
  BY CanonicalFields, Zenon
<1>2. apply_silently(s, a, c) = set(touch(s, a.key, c[2]), a.key, a.value, a.expiry.n)
  BY <1>1 DEF apply_silently, dispatch, cmd_set, Result, SetDeadline
<1>3. touch(s, a.key, c[2]) \in StoreType
  BY <1>1, StoreTypes
<1>4. \A k \in Key : k # a.key => Agree(s, touch(s, a.key, c[2]), k)
  BY <1>1 DEF touch, remove, Agree, StoreType
<1>5. QED
  BY <1>1, <1>2, <1>3, <1>4 DEF set, Agree, StoreType

\* A logged command, whenever it is executed, leaves the other keys alone.
LEMMA ApplySpares ==
  ASSUME NEW s \in StoreType, NEW a \in CanonicalCommand, NEW c, NEW k \in Key, Spares(a, k)
  PROVE  Agree(s, apply_silently(s, a, c), k)
<1>1. CASE a.op = "SET" /\ a.key # k
  BY <1>1, ApplySets
<1>2. CASE a.op = "DEL" /\ k \notin a.keys
  <2>1. apply_silently(s, a, c) = removeAll(s, a.keys)
    BY <1>2 DEF apply_silently, dispatch, cmd_del, Result
  <2>2. QED
    BY <1>2, <2>1 DEF removeAll, Agree
<1>3. CASE a.op = "EXPIRE" /\ a.key # k
  <2>1. a.key \in Key /\ a.absolute = TRUE
    BY <1>3, CanonicalFields, Zenon
  <2>2. apply_silently(s, a, c) = expire_at(s, a.key, a.n, c[2], c[3])
    BY <1>3, <2>1 DEF apply_silently, dispatch, cmd_expire, Result
  <2>3. QED
    BY <1>3, <2>1, <2>2 DEF expire_at, touch, remove, Agree, StoreType
<1>4. CASE a.op = "PERSIST" /\ a.key # k
  <2>1. a.key \in Key
    BY <1>4, CanonicalFields, Zenon
  <2>2. apply_silently(s, a, c) = persist(s, a.key, c[1])
    BY <1>4 DEF apply_silently, dispatch, cmd_persist, Result
  <2>3. QED
    BY <1>4, <2>1, <2>2 DEF persist, touch, remove, Agree, StoreType
<1>5. QED
  BY <1>1, <1>2, <1>3, <1>4 DEF Spares

\* The follower's side: what is executed late never says more than the log.
LEMMA ApplyCovered ==
  ASSUME NEW s \in StoreType, NEW m \in StoreType, NEW q \in StoreType,
         NEW a \in CanonicalCommand, NEW c,
         NEW t0 \in Int, NEW t1 \in Int, t0 <= t1, Within(a, c, t0, t1),
         Covers(m, s, t0), Follows(m, a, q, t0)
  PROVE  Covers(q, apply_silently(s, a, c), t1)
<1> DEFINE after == apply_silently(s, a, c)
<1>0. a \in AnyCommand
  BY CommandsAreCommands
<1>1. after \in StoreType
  BY <1>0, DispatchSound DEF Sound, apply_silently
<1>2. SUFFICES ASSUME NEW k \in Key, Live(after, k, t1)
               PROVE  Agree(after, q, k)
  BY DEF Covers
<1>3. CASE Spares(a, k)
  <2>1. Agree(s, after, k)
    BY <1>3, ApplySpares
  <2>2. Live(m, k, t0) => Agree(m, q, k)
    BY <1>3 DEF Follows, Spares
  <2>3. QED
    BY <1>1, <1>2, <2>1, <2>2, Untouched
<1>4. CASE a.op = "SET" /\ a.key = k
  BY <1>4, ApplySets DEF Follows, Agree
<1>5. CASE a.op = "DEL" /\ k \in a.keys
  <2>1. after = removeAll(s, a.keys)
    BY <1>5 DEF apply_silently, dispatch, cmd_del, Result
  <2>2. QED
    BY <1>2, <1>5, <2>1 DEF removeAll, Live, Has
<1>6. CASE a.op = "EXPIRE" /\ a.key = k
  <2>1. a.n \in Int /\ a.absolute = TRUE
    BY <1>6, CanonicalFields, Zenon
  <2>2. after = expire_at(s, k, a.n, c[2], c[3])
    BY <1>6, <2>1 DEF apply_silently, dispatch, cmd_expire, Result
  <2>3. c[2] \in Int /\ t0 <= c[2] /\ c[3] \in Int /\ t0 <= c[3]
    BY <1>6 DEF Within, Readings
  <2>4. Live(s, k, c[2]) /\ ~(a.n <= c[3])
    BY <1>2, <2>1, <2>2 DEF expire_at, touch, remove, Live, Has, StoreType
  <2>5. after.map[k] = s.map[k] /\ after.expires[k] = a.n
    BY <2>1, <2>2, <2>4 DEF expire_at, StoreType
  <2>6. Live(s, k, t0)
    BY <2>3, <2>4, DeadStaysDead
  <2>7. Agree(s, m, k)
    BY <2>6 DEF Covers
  <2>8. Live(m, k, t0)
    BY <2>6, <2>7 DEF Live, Has, is_expired, Agree
  <2>9. ~(a.n <= t0)
    BY <2>1, <2>3, <2>4
  <2>10. q.map[k] = m.map[k] /\ q.expires[k] = a.n
    BY <1>6, <2>8, <2>9 DEF Follows
  <2>11. QED
    BY <2>5, <2>7, <2>10 DEF Agree
<1>7. CASE a.op = "PERSIST" /\ a.key = k
  <2>1. after = persist(s, k, c[1])
    BY <1>7 DEF apply_silently, dispatch, cmd_persist, Result
  <2>2. c[1] \in Int /\ t0 <= c[1]
    BY <1>7 DEF Within, Readings
  <2>3. Live(s, k, c[1])
    BY <1>2, <2>1 DEF persist, touch, remove, Live, Has, StoreType
  <2>4. after.map[k] = s.map[k] /\ after.expires[k] = kNoExpiry
    BY <2>1, <2>3 DEF persist, StoreType
  <2>5. Live(s, k, t0)
    BY <2>2, <2>3, DeadStaysDead
  <2>6. Agree(s, m, k)
    BY <2>5 DEF Covers
  <2>7. Live(m, k, t0)
    BY <2>5, <2>6 DEF Live, Has, is_expired, Agree
  <2>8. q.map[k] = m.map[k] /\ q.expires[k] = kNoExpiry
    BY <1>7, <2>7 DEF Follows
  <2>9. QED
    BY <2>4, <2>6, <2>8 DEF Agree
<1>8. CASE a.op = "FLUSHALL"
  <2>1. after = EmptyStore
    BY <1>8 DEF apply_silently, dispatch, cmd_flushall, Result
  <2>2. QED
    BY <1>2, <2>1 DEF EmptyStore, Live, Has
<1>9. QED
  BY <1>0, <1>3, <1>4, <1>5, <1>6, <1>7, <1>8, CommandFields DEF Spares

\* Nor, for a key it does not give a deadline, less: what is alive behind the
\* logged command is alive behind the late one, if it was before.
LEMMA ApplyComplete ==
  ASSUME NEW s \in StoreType, NEW p \in StoreType, NEW q \in StoreType,
         NEW a \in CanonicalCommand, NEW c, NEW k \in Key,
         NEW t0 \in Int, NEW t1 \in Int, t0 <= t1,
         Covers(p, s, t0), Follows(p, a, q, t0), Preceded(p, a, q, t0),
         a.op \in {"EXPIRE", "PERSIST"} => a.key # k,
         Live(p, k, t0) => Live(s, k, t0),
         Live(q, k, t1)
  PROVE  Live(apply_silently(s, a, c), k, t1)
<1> DEFINE after == apply_silently(s, a, c)
<1>1. Live(q, k, t0)
  BY DeadStaysDead
<1>2. CASE Addresses(a, k)
  <2>1. a.op = "SET" /\ a.key = k
    BY <1>2 DEF Addresses
  <2>2. Agree(after, q, k)
    BY <2>1, ApplySets DEF Follows, Agree
  <2> HIDE DEF after
  <2>3. Live(after, k, t1)
    BY <2>2 DEF Agree, Live, Has, is_expired
  <2>4. QED
    BY <2>3 DEF after
<1>3. CASE Spares(a, k) /\ Agree(p, q, k)
  <2>1. Live(p, k, t1)
    BY <1>3 DEF Agree, Live, Has, is_expired
  <2>2. Live(s, k, t0)
    BY <2>1, DeadStaysDead
  <2>3. Agree(s, p, k)
    BY <2>2 DEF Covers
  <2>4. Agree(s, after, k)
    BY <1>3, ApplySpares
  <2> HIDE DEF after
  <2>5. Live(after, k, t1)
    BY <2>1, <2>3, <2>4 DEF Agree, Live, Has, is_expired
  <2>6. QED
    BY <2>5 DEF after
<1>4. QED
  BY <1>1, <1>2, <1>3 DEF Preceded

-----------------------------------------------------------------------------
(***************************************************************************)
(* The passing of time keeps every part of the invariant.                  *)
(***************************************************************************)
\* A keyspace that covers another one still does when time has passed.
LEMMA CoversLater ==
  ASSUME NEW s \in StoreType, NEW t, NEW c1 \in Int, NEW c2 \in Int, c1 <= c2,
         Covers(t, s, c1)
  PROVE  Covers(t, s, c2)
  BY DeadStaysDead DEF Covers

\* What a logged command says stays true when time has passed.
LEMMA FollowsLater ==
  ASSUME NEW p \in StoreType, NEW q, NEW a \in CanonicalCommand,
         NEW c1 \in Int, NEW c2 \in Int, c1 <= c2, Follows(p, a, q, c1)
  PROVE  Follows(p, a, q, c2)
<1>1. \A k \in Key : Live(p, k, c2) => Live(p, k, c1)
  BY DeadStaysDead
<1>2. a.op = "EXPIRE" => a.n \in Int
  BY Zenon DEF CanonicalCommand, SetCommand, DelCommand, ExpireCommand, PersistCommand, FlushCommand
<1>3. QED
  BY <1>1, <1>2 DEF Follows

\* Removing keys that are dead at c takes nothing from either side.
LEMMA ReapCovers ==
  ASSUME NEW s \in StoreType, NEW K \in SUBSET Key, NEW c \in Int,
         \A k \in K : ~Live(s, k, c)
  PROVE  Covers(removeAll(s, K), s, c) /\ Covers(s, removeAll(s, K), c)
  BY DEF Covers, removeAll, Agree, Live, Has, is_expired

\* Covering is transitive, at one instant.
LEMMA CoversTrans ==
  ASSUME NEW s, NEW t, NEW u, NEW c, Covers(t, s, c), Covers(u, t, c)
  PROVE  Covers(u, s, c)
  BY DEF Covers, Agree, Live, Has, is_expired

\* touch() and keys() remove dead keys only.
LEMMA TouchCovers ==
  ASSUME NEW s \in StoreType, NEW k \in Key, NEW c \in Int
  PROVE  Covers(touch(s, k, c), s, c) /\ Covers(s, touch(s, k, c), c)
<1>1. CASE is_expired(s, k, c) /\ touch(s, k, c) = remove(s, k)
  BY <1>1 DEF Covers, Agree, Live, Has, is_expired, remove, StoreType
<1>2. CASE touch(s, k, c) = s
  BY <1>2 DEF Covers, Agree
<1>3. QED
  BY <1>1, <1>2 DEF touch

\* A logged command also describes the step from a keyspace with fewer live
\* keys: what the leader reaped before the command does not matter.
LEMMA FollowsCovered ==
  ASSUME NEW s, NEW p, NEW q, NEW a, NEW c, Covers(s, p, c), Follows(s, a, q, c)
  PROVE  Follows(p, a, q, c)
<1>1. \A k \in Key : Live(p, k, c) => Live(s, k, c) /\ Agree(p, s, k)
  BY DEF Covers, Agree, Live, Has, is_expired
<1>2. QED
  BY <1>1 DEF Follows, Agree

-----------------------------------------------------------------------------
(***************************************************************************)
(* The invariant.                                                          *)
(***************************************************************************)
Grows == \/ log' = log
         \/ \E e \in Entry : log' = Append(log, e)

\* The log only grows: what was logged stays where it is.
LEMMA History ==
  ASSUME TypeOK, Grows
  PROVE  /\ Len(log) \in Nat /\ Len(log') \in Nat /\ Len(log) <= Len(log')
         /\ \A i \in 0..Len(log) : AtLog(i) \in StoreType /\ AtLog(i)' = AtLog(i)
         /\ \A i \in 1..Len(log) : log[i].cmd \in CanonicalCommand /\ log'[i] = log[i]
<1>1. log \in Seq(Entry)
  BY DEF TypeOK
<1>2. /\ Len(log) \in Nat /\ Len(log') \in Nat /\ Len(log) <= Len(log')
      /\ \A i \in 1..Len(log) : log[i] \in Entry /\ log'[i] = log[i]
  BY <1>1 DEF Grows
<1>3. EmptyStore \in StoreType
  BY DEF EmptyStore, StoreType, kNoExpiry
<1>4. QED
  BY <1>2, <1>3 DEF AtLog, Entry

\* What a step keeps by only letting time pass for a part of the state.
LEMMA Ambient ==
  ASSUME TypeOK, Grows, now' \in Int, now <= now'
  PROVE  /\ LogOK => \A i \in 1..Len(log) :
                       Follows(AtLog(i - 1), log[i].cmd, AtLog(i), now)'
         /\ SnapOK /\ snap' = snap => SnapOK'
         /\ FollowerOK /\ follower' = follower /\ pos' = pos => FollowerOK'
         /\ LeaderOK /\ store' = store /\ log' = log => LeaderOK'
<1>1. now \in Int /\ Len(log) \in Nat
  BY History DEF TypeOK
<1>2. ASSUME LogOK, NEW i \in 1..Len(log)
      PROVE  Follows(AtLog(i - 1), log[i].cmd, AtLog(i), now)'
  <2>1. i - 1 \in 0..Len(log) /\ i \in 0..Len(log)
    BY <1>1
  <2>2. Follows(AtLog(i - 1), log[i].cmd, AtLog(i), now')
    BY <1>1, <1>2, <2>1, History, FollowsLater DEF LogOK
  <2>3. QED
    BY <2>1, <2>2, History
<1>3. ASSUME SnapOK, snap' = snap
      PROVE  SnapOK'
  <2>1. CASE snap = NoSnap
    BY <1>3, <2>1 DEF SnapOK
  <2>2. CASE snap # NoSnap
    <3>1. snap.pos \in 0..Len(log) /\ snap.records \in SUBSET Record
      BY <2>2 DEF TypeOK
    <3>2. AtLog(snap.pos)' = AtLog(snap.pos)
      BY <1>3, <3>1, History DEF AtLog
    <3>3. \A r \in snap.records : loadable(r, now') => loadable(r, now)
      BY <1>1, <3>1 DEF loadable, Record
    <3>4. QED
      BY <1>3, <2>2, <3>2, <3>3 DEF SnapOK
  <2>3. QED
    BY <2>1, <2>2
<1>4. ASSUME FollowerOK, follower' = follower, pos' = pos
      PROVE  FollowerOK'
  <2>1. pos \in 0..Len(log) /\ follower \in StoreType
    BY DEF TypeOK
  <2>2. AtLog(pos)' = AtLog(pos)
    BY <1>4, <2>1, History DEF AtLog
  <2>3. Covers(AtLog(pos), follower, now')
    BY <1>1, <1>4, <2>1, CoversLater DEF FollowerOK
  <2>4. QED
    BY <1>4, <2>2, <2>3 DEF FollowerOK
<1>5. ASSUME LeaderOK, store' = store, log' = log
      PROVE  LeaderOK'
  <2>1. store \in StoreType /\ AtLog(Len(log)) \in StoreType
    BY <1>1, History DEF TypeOK
  <2>2. /\ Covers(store, AtLog(Len(log)), now')
        /\ Covers(AtLog(Len(log)), store, now')
    BY <1>1, <1>5, <2>1, CoversLater DEF LeaderOK
  <2>3. AtLog(Len(log))' = AtLog(Len(log))
    BY <1>5 DEF AtLog
  <2>4. QED
    BY <1>5, <2>2, <2>3 DEF LeaderOK
<1>6. QED
  BY <1>2, <1>3, <1>4, <1>5

\* Steps of the leader that log nothing and remove, at most, dead keys.
LEMMA LeaderStep ==
  ASSUME IInv, now' \in now..MaxTime, store' \in StoreType, IndexSound(store'),
         Covers(store', store, now'), Covers(store, store', now'),
         UNCHANGED <<log, follower, pos, snap>>
  PROVE  IInv'
<1>1. TypeOK /\ LogOK /\ LeaderOK /\ SnapOK /\ FollowerOK /\ IndexesSound
  BY DEF IInv
<1>2. TypeOK'
  BY <1>1, PropagationAssumption DEF TypeOK
<1>3. Grows /\ now' \in Int /\ now <= now' /\ now \in Int
  BY <1>1, PropagationAssumption DEF Grows, TypeOK
<1>4. LogOK' /\ SnapOK' /\ FollowerOK'
  BY <1>1, <1>3, Ambient DEF LogOK
<1>5. LeaderOK'
  <2>1. AtLog(Len(log))' = AtLog(Len(log)) /\ AtLog(Len(log)) \in StoreType /\ store \in StoreType
    BY <1>1, <1>3, History DEF AtLog, TypeOK
  <2>2. /\ Covers(store, AtLog(Len(log)), now')
        /\ Covers(AtLog(Len(log)), store, now')
    BY <1>1, <1>3, <2>1, CoversLater DEF LeaderOK
  <2>3. /\ Covers(store', AtLog(Len(log)), now')
        /\ Covers(AtLog(Len(log)), store', now')
    BY <2>2, CoversTrans
  <2>4. QED
    BY <2>1, <2>3 DEF LeaderOK
<1>6. IndexesSound'
  BY <1>1 DEF IndexesSound
<1>7. QED
  BY <1>2, <1>4, <1>5, <1>6 DEF IInv

\* Steps of the follower.
LEMMA FollowerStep ==
  ASSUME IInv, now' \in now..MaxTime, follower' \in StoreType, IndexSound(follower'),
         pos' \in 0..Len(log), Covers(AtLog(pos'), follower', now'),
         UNCHANGED <<store, log, snap>>
  PROVE  IInv'
<1>1. TypeOK /\ LogOK /\ LeaderOK /\ SnapOK /\ FollowerOK /\ IndexesSound
  BY DEF IInv
<1>2. TypeOK'
  BY <1>1, PropagationAssumption DEF TypeOK
<1>3. Grows /\ now' \in Int /\ now <= now'
  BY <1>1, PropagationAssumption DEF Grows, TypeOK
<1>4. LogOK' /\ SnapOK' /\ LeaderOK'
  BY <1>1, <1>3, Ambient DEF LogOK
<1>5. FollowerOK'
  BY DEF FollowerOK, AtLog
<1>6. IndexesSound'
  BY <1>1 DEF IndexesSound
<1>7. QED
  BY <1>2, <1>4, <1>5, <1>6 DEF IInv

\* The readings of one command lie between the clock before and after it.
LEMMA ClocksWithin ==
  ASSUME TypeOK, NEW a \in AnyCommand, NEW c \in Clocks(Readings(a))
  PROVE  /\ c[Readings(a)] \in now..MaxTime
         /\ Within(a, c, now, c[Readings(a)])
<1>1. Readings(a) \in {1, 2, 3, 5}
  BY CommandFields DEF Readings
<1>2. now \in Int
  BY DEF TypeOK
<1>3. QED
  BY <1>1, <1>2, PropagationAssumption DEF Clocks, Within

\* on_data: executing and logging a client's command keeps the invariant.
LEMMA ExecuteStep ==
  ASSUME IInv, NEW a \in ClientCommand, Execute(a)
  PROVE  IInv'
<1>1. TypeOK /\ LogOK /\ LeaderOK /\ SnapOK /\ FollowerOK /\ IndexesSound
  BY DEF IInv
<1>2. PICK c \in Clocks(Readings(a)) :
        /\ store' = dispatch(store, a, c).store
        /\ log' = Logged(dispatch(store, a, c))
        /\ now' = c[Readings(a)]
        /\ UNCHANGED <<follower, pos, snap>>
  BY DEF Execute
<1> DEFINE r == dispatch(store, a, c)
<1>3. a \in AnyCommand
  BY CommandsAreCommands
<1>4. now \in Int /\ now' \in now..MaxTime /\ now' \in Int /\ now <= now' /\ store \in StoreType
  BY <1>1, <1>2, <1>3, ClocksWithin, PropagationAssumption DEF TypeOK
<1>5. Sound(store, r, now')
  BY <1>1, <1>2, <1>3, <1>4, ClocksWithin, DispatchSound
<1> HIDE DEF r
<1>6. store' = r.store /\ log' = Logged(r)
  BY <1>2 DEF r
<1>7. IndexSound(store')
  BY <1>1, <1>5, <1>6 DEF Sound, IndexesSound
<1>8. CASE ~r.dirty
  <2>1. log' = log
    BY <1>6, <1>8 DEF Logged
  <2>2. /\ store' \in StoreType
        /\ Covers(store', store, now') /\ Covers(store, store', now')
    BY <1>5, <1>6, <1>8 DEF Sound
  <2>3. QED
    BY <1>2, <1>4, <1>7, <2>1, <2>2, LeaderStep
<1>9. CASE r.dirty
  <2> DEFINE e == [cmd |-> r.propagate, store |-> r.store]
  <2>0. PICK n \in Nat : n = Len(log)
    BY <1>1 DEF TypeOK
  <2>1. e \in Entry /\ e.cmd = r.propagate /\ e.store = r.store
    BY <1>5, <1>9 DEF Sound, Entry
  <2>2. log' = Append(log, e)
    BY <1>6, <1>9 DEF Logged
  <2> HIDE DEF e
  <2>3. Grows
    BY <2>1, <2>2 DEF Grows
  <2>4. log \in Seq(Entry) /\ n = Len(log)
    BY <1>1, <2>0 DEF TypeOK
  <2>5. log' \in Seq(Entry) /\ Len(log') = n + 1 /\ log'[n + 1] = e
    BY <2>1, <2>2, <2>4
  <2>6. TypeOK'
    BY <1>1, <1>2, <1>4, <1>5, <1>6, <2>4, <2>5, PropagationAssumption DEF TypeOK, Sound
  <2>7. SnapOK' /\ FollowerOK'
    BY <1>1, <1>2, <1>4, <2>3, Ambient
  <2>8. AtLog(n)' = AtLog(n) /\ AtLog(n) \in StoreType /\ AtLog(n + 1)' = r.store
    BY <1>1, <2>1, <2>3, <2>4, <2>5, History DEF AtLog
  <2>9. LeaderOK'
    BY <1>6, <2>5, <2>8 DEF LeaderOK, Covers, Agree, AtLog
  <2>10. Follows(AtLog(n), r.propagate, r.store, now')
    <3>1. Covers(store, AtLog(n), now')
      BY <1>1, <1>4, <2>4, <2>8, CoversLater DEF LeaderOK
    <3>2. QED
      BY <1>5, <1>9, <3>1, FollowsCovered DEF Sound
  <2>11. ASSUME NEW i \in 1..Len(log')
         PROVE  Follows(AtLog(i - 1), log[i].cmd, AtLog(i), now)'
    <3>1. CASE i = n + 1
      <4>1. i - 1 = n
        BY <2>4, <3>1
      <4>2. AtLog(i - 1)' = AtLog(n) /\ AtLog(i)' = r.store /\ log'[i].cmd = r.propagate
        BY <2>1, <2>5, <2>8, <3>1, <4>1
      <4>3. QED
        BY <2>10, <4>2
    <3>2. CASE i \in 1..n
      BY <1>1, <1>4, <2>3, <2>4, <3>2, Ambient
    <3>3. QED
      BY <2>4, <2>5, <2>11, <3>1, <3>2
  <2>12. LogOK'
    BY <2>11 DEF LogOK
  <2>13. IndexesSound'
    BY <1>1, <1>2, <1>7 DEF IndexesSound
  <2>14. QED
    BY <2>6, <2>7, <2>9, <2>12, <2>13 DEF IInv
<1>10. QED
  BY <1>8, <1>9

\* Store::snapshot, taken for a replica or a file, keeps the invariant.
LEMMA SnapshotStep ==
  ASSUME IInv, TakeSnapshot
  PROVE  IInv'
<1>1. TypeOK /\ LogOK /\ LeaderOK /\ SnapOK /\ FollowerOK /\ IndexesSound
  BY DEF IInv
<1>2. /\ now' \in now..MaxTime
      /\ snap' = [records |-> snapshot(store, now'), pos |-> Len(log)]
      /\ UNCHANGED <<store, log, follower, pos>>
  BY DEF TakeSnapshot, Later
<1>3. Grows /\ now' \in Int /\ now <= now' /\ now \in Int /\ store \in StoreType
  BY <1>1, <1>2, PropagationAssumption DEF Grows, TypeOK
<1>4. snapshot(store, now') \in SUBSET Record
  BY <1>3 DEF snapshot, Record, StoreType, Live, Has
<1>5. TypeOK'
  BY <1>1, <1>2, <1>4, PropagationAssumption DEF TypeOK
<1>6. LogOK' /\ FollowerOK' /\ LeaderOK'
  BY <1>1, <1>2, <1>3, Ambient DEF LogOK
<1>7. SnapOK'
  <2>1. SUFFICES ASSUME NEW r \in snapshot(store, now')
                 PROVE  /\ AtLog(Len(log)).map[r.key] = r.value
                        /\ AtLog(Len(log)).expires[r.key] = r.expire_at
    BY <1>2 DEF SnapOK, AtLog
  <2>2. PICK k \in Key : /\ Live(store, k, now')
                         /\ r = [key |-> k, value |-> store.map[k],
                                 expire_at |-> store.expires[k]]
    BY DEF snapshot
  <2>3. Live(store, k, now)
    BY <1>3, <2>2, DeadStaysDead
  <2>4. Agree(store, AtLog(Len(log)), k)
    BY <1>1, <2>3 DEF LeaderOK, Covers
  <2>5. QED
    BY <2>2, <2>4 DEF Agree
<1>8. IndexesSound'
  BY <1>1, <1>2 DEF IndexesSound
<1>9. QED
  BY <1>5, <1>6, <1>7, <1>8 DEF IInv

\* Loading a snapshot late, record by record, keeps the invariant.
LEMMA LoadStep ==
  ASSUME IInv, FollowerLoad
  PROVE  IInv'
<1>1. TypeOK /\ SnapOK
  BY DEF IInv
<1>2. PICK c \in KeyClocks(now') :
        /\ now' \in now..MaxTime /\ snap # NoSnap
        /\ follower' = load_records(snap.records, c)
        /\ pos' = snap.pos
        /\ UNCHANGED <<store, log, snap>>
  BY DEF FollowerLoad, Later
<1>3. now \in Int /\ now' \in Int /\ now <= now'
  BY <1>1, <1>2, PropagationAssumption DEF TypeOK
<1>4. snap.records \in SUBSET Record /\ snap.pos \in 0..Len(log)
  BY <1>1, <1>2 DEF TypeOK
<1>5. follower' \in StoreType /\ IndexSound(follower')
  BY <1>2, <1>4, Loaded, Zenon
<1>6. Covers(AtLog(snap.pos), follower', now')
  <2>1. SUFFICES ASSUME NEW k \in Key, Live(follower', k, now')
                 PROVE  Agree(follower', AtLog(snap.pos), k)
    BY DEF Covers
  <2>2. PICK r \in snap.records : /\ r.key = k
                                  /\ follower'.map[k] = r.value
                                  /\ follower'.expires[k] = r.expire_at
    BY <1>2, <1>4, <2>1, Loaded DEF Live
  <2>3. loadable(r, now)
    BY <1>3, <1>4, <2>1, <2>2 DEF loadable, Live, is_expired, Record
  <2>4. QED
    BY <1>1, <1>2, <2>2, <2>3 DEF SnapOK, Agree
<1>7. QED
  BY <1>2, <1>4, <1>5, <1>6, FollowerStep

\* apply_silently: executing the next logged command late keeps the invariant.
LEMMA ApplyStep ==
  ASSUME IInv, FollowerApply
  PROVE  IInv'
<1>1. TypeOK /\ LogOK /\ FollowerOK /\ IndexesSound
  BY DEF IInv
<1> DEFINE a == log[pos + 1].cmd
<1>2. PICK c \in Clocks(Readings(a)) :
        /\ pos < Len(log)
        /\ follower' = apply_silently(follower, a, c)
        /\ now' = c[Readings(a)]
        /\ pos' = pos + 1
        /\ UNCHANGED <<store, log, snap>>
  BY DEF FollowerApply
<1>3. pos \in 0..Len(log) /\ pos + 1 \in 1..Len(log) /\ follower \in StoreType /\ (pos + 1) - 1 = pos
  BY <1>1, <1>2 DEF TypeOK
<1>4. /\ a \in CanonicalCommand
      /\ AtLog(pos) \in StoreType /\ AtLog(pos + 1) \in StoreType
  <2>1. Grows
    BY <1>2 DEF Grows
  <2>2. QED
    BY <1>1, <1>3, <2>1, History
<1> HIDE DEF a
<1>5. a \in AnyCommand
  BY <1>4, CommandsAreCommands
<1>6. now' \in now..MaxTime /\ now \in Int /\ now' \in Int /\ now <= now' /\ Within(a, c, now, now')
  BY <1>1, <1>2, <1>5, ClocksWithin, PropagationAssumption DEF TypeOK
<1>7. Follows(AtLog(pos), a, AtLog(pos + 1), now)
  BY <1>1, <1>3 DEF LogOK, a
<1>8. Covers(AtLog(pos + 1), follower', now')
  BY <1>1, <1>2, <1>3, <1>4, <1>6, <1>7, ApplyCovered DEF FollowerOK
<1>9. follower' \in StoreType /\ IndexSound(follower')
  BY <1>1, <1>2, <1>3, <1>5, <1>6, DispatchSound DEF Sound, apply_silently, IndexesSound
<1>10. QED
  BY <1>2, <1>3, <1>6, <1>8, <1>9, FollowerStep

\* Reads, KEYS and the cron remove dead keys only, and log nothing.
LEMMA ReapStep ==
  ASSUME TypeOK, IndexSound(store), (\E k \in Key : Read(k)) \/ Keys \/ Cron
  PROVE  /\ now' \in now..MaxTime /\ store' \in StoreType /\ IndexSound(store')
         /\ Covers(store', store, now') /\ Covers(store, store', now')
         /\ UNCHANGED <<log, follower, pos, snap>>
<1>0. /\ now \in Int /\ MaxTime \in Int /\ store \in StoreType
  BY PropagationAssumption DEF TypeOK
<1>1. ASSUME NEW k \in Key, Read(k)
      PROVE  /\ now' \in now..MaxTime /\ store' \in StoreType /\ IndexSound(store')
             /\ Covers(store', store, now') /\ Covers(store, store', now')
             /\ UNCHANGED <<log, follower, pos, snap>>
  <2>1. /\ now' \in now..MaxTime /\ store' = touch(store, k, now')
        /\ UNCHANGED <<log, follower, pos, snap>>
    BY <1>1 DEF Read, Later
  <2>2. store' \in StoreType /\ IndexSound(store')
    BY <1>0, <2>1, StoreTypes, StoreIndexes
  <2>3. QED
    BY <1>0, <2>1, <2>2, TouchCovers
<1>2. ASSUME NEW D \in SUBSET Key, now' \in now..MaxTime,
             \A k \in D : ~Live(store, k, now'), store' = removeAll(store, D)
      PROVE  /\ store' \in StoreType /\ IndexSound(store')
             /\ Covers(store', store, now') /\ Covers(store, store', now')
  <2>1. store' \in StoreType /\ IndexSound(store')
    BY <1>0, <1>2 DEF removeAll, StoreType, kNoExpiry, IndexSound, Has
  <2>2. QED
    BY <1>0, <1>2, <2>1, ReapCovers
<1>3. CASE Keys
  <2>1. PICK c \in KeyClocks(now') :
          /\ now' \in now..MaxTime /\ store' = keys(store, c)
          /\ UNCHANGED <<log, follower, pos, snap>>
    BY <1>3 DEF Keys, Later
  <2> DEFINE K == {k \in Key : Has(store, k) /\ is_expired(store, k, c[k])}
  <2>2. store' = removeAll(store, K) /\ K \in SUBSET Key
    BY <2>1 DEF keys
  <2>3. \A k \in K : ~Live(store, k, now')
    BY <1>0, <2>1 DEF KeyClocks, Live, is_expired, StoreType
  <2> HIDE DEF K
  <2>4. QED
    BY <1>2, <2>1, <2>2, <2>3
<1>4. CASE Cron
  <2>1. PICK D \in SUBSET reapable(store, now') :
          /\ now' \in now..MaxTime /\ store' = removeAll(store, D)
          /\ UNCHANGED <<log, follower, pos, snap>>
    BY <1>4 DEF Cron, Later
  <2>2. D \in SUBSET Key /\ \A k \in D : ~Live(store, k, now')
    BY <2>1 DEF reapable, Live, is_expired
  <2>3. QED
    BY <1>2, <2>1, <2>2
<1>5. QED
  BY <1>1, <1>3, <1>4

\* Two empty servers satisfy the invariant.
LEMMA InitOK == Init => IInv
<1> SUFFICES ASSUME Init PROVE IInv
  OBVIOUS
<1>1. EmptyStore \in StoreType /\ IndexSound(EmptyStore) /\ \A c : Covers(EmptyStore, EmptyStore, c)
  BY DEF EmptyStore, StoreType, kNoExpiry, IndexSound, Covers, Agree
<1>2. TypeOK
  BY <1>1, PropagationAssumption DEF Init, TypeOK
<1>3. LogOK /\ LeaderOK /\ SnapOK /\ FollowerOK
  BY <1>1 DEF Init, LogOK, LeaderOK, SnapOK, FollowerOK, AtLog
<1>4. QED
  BY <1>1, <1>2, <1>3 DEF Init, IInv, IndexesSound

\* Every step of either server keeps the invariant.
LEMMA NextOK == IInv /\ [Next]_vars => IInv'
<1> SUFFICES ASSUME IInv, [Next]_vars PROVE IInv'
  OBVIOUS
<1>0. /\ now \in 0..MaxTime /\ now \in Int /\ MaxTime \in Int
      /\ store \in StoreType /\ follower \in StoreType
      /\ IndexSound(store) /\ IndexSound(follower) /\ FollowerOK /\ TypeOK
  BY PropagationAssumption DEF IInv, TypeOK, IndexesSound
<1>1. CASE Tick
  <2>1. Covers(store, store, now')
    BY DEF Covers, Agree
  <2>2. QED
    BY <1>0, <1>1, <2>1, LeaderStep DEF Tick
<1>2. ASSUME NEW a \in ClientCommand, Execute(a) PROVE IInv'
  BY <1>2, ExecuteStep
<1>3. CASE (\E k \in Key : Read(k)) \/ Keys \/ Cron
  BY <1>0, <1>3, ReapStep, LeaderStep
<1>4. CASE TakeSnapshot
  BY <1>4, SnapshotStep
<1>5. CASE FollowerLoad
  BY <1>5, LoadStep
<1>6. CASE FollowerRestart
  <2>1. EmptyStore \in StoreType /\ IndexSound(EmptyStore) /\ Covers(AtLog(0), EmptyStore, now)
    BY DEF EmptyStore, StoreType, kNoExpiry, IndexSound, Covers, Agree, AtLog
  <2>2. 0 \in 0..Len(log)
    BY <1>0 DEF TypeOK
  <2>3. QED
    BY <1>0, <1>6, <2>1, <2>2, FollowerStep DEF FollowerRestart
<1>7. CASE FollowerApply
  BY <1>7, ApplyStep
<1>8. CASE FollowerReap
  <2>1. PICK D \in SUBSET reapable(follower, now') :
          /\ now' \in now..MaxTime /\ follower' = removeAll(follower, D)
          /\ UNCHANGED <<store, log, pos, snap>>
    BY <1>8 DEF FollowerReap, Later
  <2>2. D \in SUBSET Key /\ \A k \in D : ~Live(follower, k, now')
    BY <2>1 DEF reapable, Live, is_expired
  <2>3. follower' \in StoreType /\ IndexSound(follower')
    BY <1>0, <2>1 DEF removeAll, StoreType, kNoExpiry, IndexSound, Has
  <2>4. Covers(AtLog(pos), follower, now')
    BY <1>0, <2>1, CoversLater DEF FollowerOK
  <2>5. Covers(AtLog(pos), follower', now')
    BY <1>0, <2>1, <2>2, <2>4, ReapCovers, CoversTrans
  <2>6. pos' \in 0..Len(log) /\ AtLog(pos') = AtLog(pos)
    BY <1>0, <2>1 DEF TypeOK
  <2>7. QED
    BY <2>1, <2>3, <2>5, <2>6, FollowerStep
<1>9. CASE UNCHANGED vars
  BY <1>9 DEF vars, IInv, TypeOK, IndexesSound, LogOK, LeaderOK, SnapOK, FollowerOK, AtLog
<1>10. QED
  BY <1>1, <1>2, <1>3, <1>4, <1>5, <1>6, <1>7, <1>8, <1>9 DEF Next

\* IInv holds in every state the leader and its follower can reach, whatever
\* they execute, reap, load or replay.
THEOREM InductiveInvariant == Spec => []IInv
  BY InitOK, NextOK, PTL DEF Spec

(***************************************************************************)
(* Whatever clients, crons, snapshots, loads and replays do, every value   *)
(* of every variable has its type: in particular everything handed to      *)
(* propagate_ is in canonical form, with an absolute deadline.             *)
(***************************************************************************)
THEOREM TypeCorrect == Spec => []TypeOK
<1>1. IInv => TypeOK
  BY DEF IInv
<1>2. QED
  BY <1>1, InductiveInvariant, PTL

(***************************************************************************)
(* No operation of Store, in any order, on either server, leaves an orphan *)
(* in the expires_ index.                                                  *)
(***************************************************************************)
THEOREM IndexesAlwaysSound == Spec => []IndexesSound
<1>1. IInv => IndexesSound
  BY DEF IInv
<1>2. QED
  BY <1>1, InductiveInvariant, PTL

(***************************************************************************)
(* Replaying the append-only file, loading a snapshot or following a       *)
(* master, however late, never brings a dead or deleted key back to life   *)
(* and never shows another value or deadline than the leader had.          *)
(***************************************************************************)
THEOREM NeverResurrects == Spec => []NoResurrection
<1>1. IInv => NoResurrection
  BY DEF IInv, FollowerOK, Covers, Agree, NoResurrection, Reflected, AtLog
<1>2. QED
  BY <1>1, InductiveInvariant, PTL

-----------------------------------------------------------------------------
(***************************************************************************)
(* What the leader's steps do.                                             *)
(***************************************************************************)
\* Clients see the same keys in two keyspaces that cover each other.
LEMMA SameVisible ==
  ASSUME NEW s, NEW t, NEW c, Covers(t, s, c), Covers(s, t, c)
  PROVE  Visible(s, c) = Visible(t, c)
<1>1. \A k \in Key : /\ Live(s, k, c) <=> Live(t, k, c)
                     /\ Live(s, k, c) => s.map[k] = t.map[k] /\ s.expires[k] = t.expires[k]
  BY DEF Covers, Agree, Live, Has, is_expired
<1>2. QED
  BY <1>1 DEF Visible

(***************************************************************************)
(* Whatever a step of the leader changes, adds or removes among the keys   *)
(* that are alive when it ends is handed to propagate_ in that step, and   *)
(* no other step changes them: lazy and active reaping, failed conditions, *)
(* snapshots and the follower leave them alone.                            *)
(***************************************************************************)
THEOREM ChangesAlwaysLogged == Spec => EveryChangeLogged
<1>1. IInv /\ [Next]_vars =>
        [Visible(store, now') # Visible(store', now') => Len(log') = Len(log) + 1]_vars
  <2> SUFFICES ASSUME IInv, Next, Len(log') # Len(log) + 1
               PROVE  Visible(store, now') = Visible(store', now')
    OBVIOUS
  <2>1. TypeOK /\ IndexSound(store)
    BY DEF IInv, IndexesSound
  <2>2. ASSUME NEW a \in ClientCommand, Execute(a)
        PROVE  Visible(store, now') = Visible(store', now')
    <3>1. PICK c \in Clocks(Readings(a)) :
            /\ store' = dispatch(store, a, c).store
            /\ log' = Logged(dispatch(store, a, c))
            /\ now' = c[Readings(a)]
      BY <2>2 DEF Execute
    <3> DEFINE r == dispatch(store, a, c)
    <3>2. a \in AnyCommand
      BY CommandsAreCommands
    <3>3. now \in Int /\ now' \in Int /\ store \in StoreType /\ log \in Seq(Entry)
      BY <2>1, <3>1, <3>2, ClocksWithin, PropagationAssumption DEF TypeOK
    <3>4. Sound(store, r, now')
      BY <2>1, <3>1, <3>2, <3>3, ClocksWithin, DispatchSound
    <3> HIDE DEF r
    <3>5. store' = r.store /\ log' = Logged(r)
      BY <3>1 DEF r
    <3>6. ~r.dirty
      <4>1. CASE r.dirty
        <5> DEFINE e == [cmd |-> r.propagate, store |-> r.store]
        <5>1. e \in Entry /\ log' = Append(log, e)
          BY <3>4, <3>5, <4>1 DEF Sound, Entry, Logged
        <5> HIDE DEF e
        <5>2. QED
          BY <3>3, <5>1
      <4>2. QED
        BY <4>1
    <3>7. QED
      BY <3>4, <3>5, <3>6, SameVisible DEF Sound
  <2>3. CASE (\E k \in Key : Read(k)) \/ Keys \/ Cron
    BY <2>1, <2>3, ReapStep, SameVisible
  <2>4. CASE Tick \/ TakeSnapshot \/ FollowerLoad \/ FollowerRestart \/ FollowerApply \/ FollowerReap
    <3>1. store' = store
      BY <2>4 DEF Tick, TakeSnapshot, FollowerLoad, FollowerRestart, FollowerApply, FollowerReap
    <3>2. QED
      BY <3>1
  <2>5. QED
    BY <2>2, <2>3, <2>4 DEF Next
<1>2. QED
  BY <1>1, InductiveInvariant, PTL DEF Spec, EveryChangeLogged

(***************************************************************************)
(* SET ... KEEPTTL on a key that outlives the command never moves its      *)
(* deadline earlier, and later by at most the time the command took,       *)
(* whatever the five readings of the clock are.                            *)
(***************************************************************************)
THEOREM KeepttlAlwaysKeeps == Spec => KeepttlKeepsDeadline
<1>1. ASSUME TypeOK, NEW a \in Keepttl, store.expires[a.key] # kNoExpiry,
             Live(store, a.key, now'), Len(log') > Len(log), Execute(a)
      PROVE  store'.expires[a.key] \in store.expires[a.key]..(store.expires[a.key] + now' - now)
  <2>1. /\ a.op = "SET" /\ a.key \in Key /\ a.value \in Value
        /\ a.expiry = [kind |-> "keepttl", n |-> kNoExpiry] /\ a.cond \in {"none", "XX"}
    BY DEF Keepttl, SetCommand
  <2>2. a.expiry.kind = "keepttl" /\ Readings(a) = 5
    BY <2>1 DEF Readings
  <2>3. PICK c \in Clocks(5) : /\ store' = cmd_set(store, a, c).store
                               /\ log' = Logged(cmd_set(store, a, c))
                               /\ now' = c[5]
    BY <1>1, <2>1, <2>2 DEF Execute, dispatch
  <2>4. /\ now \in Int /\ store \in StoreType
        /\ c[2] \in Int /\ c[3] \in Int /\ c[4] \in Int /\ c[5] \in Int
        /\ c[2] <= c[5] /\ c[3] <= c[5] /\ c[4] <= c[5] /\ now <= c[4]
    BY <1>1, PropagationAssumption DEF TypeOK, Clocks
  <2> DEFINE old == store.expires[a.key]
  <2>5. old \in Int /\ c[5] < old
    BY <1>1, <2>1, <2>3, <2>4 DEF StoreType, Live, is_expired
  <2>6. /\ Live(store, a.key, c[2]) /\ Live(store, a.key, c[3])
        /\ touch(store, a.key, c[2]) = store
    <3>1. Live(store, a.key, c[2]) /\ Live(store, a.key, c[3])
      BY <1>1, <2>1, <2>3, <2>4, DeadStaysDead
    <3>2. QED
      BY <3>1 DEF touch, Live
  <2>7. pttl(store, a.key, c[3], c[4]) = old - c[4]
    BY <1>1, <2>6 DEF pttl
  <2>8. SetDeadline(store, a, c) = c[5] + (old - c[4])
    BY <2>2, <2>4, <2>5, <2>7 DEF SetDeadline
  <2> HIDE DEF old
  <2>9. store' = set(store, a.key, a.value, c[5] + (old - c[4]))
    <3>1. cmd_set(store, a, c).dirty
      BY <1>1, <2>3 DEF Logged
    <3>2. QED
      BY <2>2, <2>3, <2>6, <2>8, <3>1, Zenon DEF cmd_set, Result
  <2>10. store'.expires[a.key] = c[5] + (old - c[4])
    BY <2>1, <2>4, <2>9 DEF set, StoreType
  <2>11. QED
    BY <2>3, <2>4, <2>5, <2>10 DEF old
<1>2. IInv => TypeOK
  BY DEF IInv
<1>3. IInv /\ [Next]_vars =>
        [\A a \in Keepttl :
           LET old == store.expires[a.key]
           IN  /\ old # kNoExpiry /\ Live(store, a.key, now')
               /\ Len(log') > Len(log) /\ log'[Len(log')].cmd.op = "SET"
               /\ Execute(a)
               => store'.expires[a.key] \in old..(old + now' - now)]_vars
  BY <1>1, <1>2
<1>4. QED
  BY <1>3, InductiveInvariant, PTL DEF Spec, KeepttlKeepsDeadline

-----------------------------------------------------------------------------
(***************************************************************************)
(* Nothing is lost, for the keys whose deadline was only decided by SET.   *)
(* IInv bounds what the follower may show from above; CInv bounds it from  *)
(* below.  Every log entry also tells where what is alive behind it comes  *)
(* from, and a snapshot holds, once, every key that is alive at its place  *)
(* of the log.                                                             *)
(***************************************************************************)
LogComplete == \A i \in 1..Len(log) : Preceded(AtLog(i - 1), log[i].cmd, AtLog(i), now)

SnapComplete == snap # NoSnap =>
  /\ \A r, o \in snap.records : r.key = o.key => r = o
  /\ \A k \in Key : Live(AtLog(snap.pos), k, now) =>
       \E r \in snap.records : r.key = k /\ r.expire_at = AtLog(snap.pos).expires[k]

CInv == LogComplete /\ SnapComplete /\ SetKeysComplete

\* A record that can still be loaded later is loaded now.
LEMMA LoadedComplete ==
  ASSUME NEW R, NEW c, NEW t \in Int, NEW r \in Record, r \in R,
         \A o \in R : o.key = r.key => o = r,
         c[r.key] \in Int, c[r.key] <= t, loadable(r, t)
  PROVE  /\ load_records(R, c).map[r.key] = r.value
         /\ load_records(R, c).expires[r.key] = r.expire_at
<1> DEFINE kept(k) == {o \in R : o.key = k /\ loadable(o, c[k])}
           the(k)  == CHOOSE o \in kept(k) : TRUE
<1>1. r.key \in Key /\ r.expire_at \in Int
  BY DEF Record
<1>2. r \in kept(r.key)
  BY <1>1 DEF loadable
<1>3. the(r.key) \in kept(r.key)
  BY <1>2
<1>4. the(r.key) = r
  BY <1>3
<1>5. kept(r.key) # {}
  BY <1>2
<1> HIDE DEF kept, the
<1>6. /\ load_records(R, c).map[r.key] = the(r.key).value
      /\ load_records(R, c).expires[r.key] = the(r.key).expire_at
  BY <1>1, <1>5 DEF load_records, kept, the
<1>7. QED
  BY <1>4, <1>6

\* What is alive at the end of a step was alive before it, in what it leaves.
LEMMA AmbientComplete ==
  ASSUME TypeOK, Grows, now' \in Int, now <= now'
  PROVE  /\ LogComplete => \A i \in 1..Len(log) :
                             Preceded(AtLog(i - 1), log[i].cmd, AtLog(i), now)'
         /\ SnapComplete /\ snap' = snap => SnapComplete'
         /\ SetKeysComplete /\ FollowerOK /\ follower' = follower /\ pos' = pos
              => SetKeysComplete'
<1>1. now \in Int /\ Len(log) \in Nat
  BY History DEF TypeOK
<1>2. \A i \in 0..Len(log) : \A k \in Key : Live(AtLog(i), k, now') => Live(AtLog(i), k, now)
  BY <1>1, History, DeadStaysDead
<1>3. ASSUME LogComplete, NEW i \in 1..Len(log)
      PROVE  Preceded(AtLog(i - 1), log[i].cmd, AtLog(i), now)'
  <2>1. i - 1 \in 0..Len(log) /\ i \in 0..Len(log)
    BY <1>1
  <2>2. Preceded(AtLog(i - 1), log[i].cmd, AtLog(i), now')
    BY <1>2, <1>3, <2>1 DEF LogComplete, Preceded
  <2>3. QED
    BY <2>1, <2>2, History
<1>4. ASSUME SnapComplete, snap' = snap
      PROVE  SnapComplete'
  <2>1. CASE snap = NoSnap
    BY <1>4, <2>1 DEF SnapComplete
  <2>2. CASE snap # NoSnap
    <3>1. snap.pos \in 0..Len(log)
      BY <2>2 DEF TypeOK
    <3>2. AtLog(snap.pos)' = AtLog(snap.pos)
      BY <1>4, <3>1, History DEF AtLog
    <3>3. \A k \in Key : Live(AtLog(snap.pos), k, now') => Live(AtLog(snap.pos), k, now)
      BY <1>2, <3>1
    <3>4. QED
      BY <1>4, <2>2, <3>2, <3>3 DEF SnapComplete
  <2>3. QED
    BY <2>1, <2>2
<1>5. ASSUME SetKeysComplete, FollowerOK, follower' = follower, pos' = pos
      PROVE  SetKeysComplete'
  <2>1. pos \in 0..Len(log)
    BY DEF TypeOK
  <2>2. AtLog(pos)' = AtLog(pos) /\ Reflected = AtLog(pos) /\ Reflected' = AtLog(pos)
    BY <1>5, <2>1, History DEF AtLog, Reflected
  <2>3. SUFFICES ASSUME NEW k \in Key, OnlySet(k)', Live(AtLog(pos), k, now')
                 PROVE  Live(follower, k, now')
    BY <1>5, <2>2 DEF SetKeysComplete
  <2>4. OnlySet(k)
    BY <1>1, <1>5, <2>1, <2>3, History DEF OnlySet
  <2>5. Live(follower, k, now)
    BY <1>2, <1>5, <2>1, <2>2, <2>3, <2>4 DEF SetKeysComplete
  <2>6. Agree(follower, AtLog(pos), k)
    BY <1>5, <2>5 DEF FollowerOK, Covers
  <2>7. QED
    BY <2>3, <2>6 DEF Agree, Live, Has, is_expired
<1>6. QED
  BY <1>3, <1>4, <1>5

\* Steps of the leader that log nothing.
LEMMA UnloggedComplete ==
  ASSUME IInv, CInv, now' \in now..MaxTime, UNCHANGED <<log, follower, pos, snap>>
  PROVE  CInv'
<1>1. TypeOK /\ FollowerOK /\ LogComplete /\ SnapComplete /\ SetKeysComplete
  BY DEF IInv, CInv
<1>2. Grows /\ now' \in Int /\ now <= now'
  BY <1>1, PropagationAssumption DEF Grows, TypeOK
<1>3. LogComplete'
  BY <1>1, <1>2, AmbientComplete DEF LogComplete
<1>4. QED
  BY <1>1, <1>2, <1>3, AmbientComplete DEF CInv

\* Steps of the follower.
LEMMA FollowerComplete ==
  ASSUME IInv, CInv, now' \in now..MaxTime, UNCHANGED <<store, log, snap>>,
         \A k \in Key : (\A i \in 1..pos' : log[i].cmd.op \in {"EXPIRE", "PERSIST"} =>
                                              log[i].cmd.key # k)
                        /\ Live(AtLog(pos'), k, now') => Live(follower', k, now')
  PROVE  CInv'
<1>1. TypeOK /\ LogComplete /\ SnapComplete
  BY DEF IInv, CInv
<1>2. Grows /\ now' \in Int /\ now <= now'
  BY <1>1, PropagationAssumption DEF Grows, TypeOK
<1>3. LogComplete' /\ SnapComplete'
  BY <1>1, <1>2, AmbientComplete DEF LogComplete
<1>4. SetKeysComplete'
  BY DEF SetKeysComplete, OnlySet, Reflected, AtLog
<1>5. QED
  BY <1>3, <1>4 DEF CInv

\* A client's command: the entry it logs tells where its keyspace comes from.
LEMMA ExecuteComplete ==
  ASSUME IInv, CInv, NEW a \in ClientCommand, Execute(a)
  PROVE  CInv'
<1>1. TypeOK /\ LeaderOK /\ FollowerOK /\ LogComplete /\ SnapComplete /\ SetKeysComplete
  BY DEF IInv, CInv
<1>2. PICK c \in Clocks(Readings(a)) :
        /\ store' = dispatch(store, a, c).store
        /\ log' = Logged(dispatch(store, a, c))
        /\ now' = c[Readings(a)]
        /\ UNCHANGED <<follower, pos, snap>>
  BY DEF Execute
<1> DEFINE r == dispatch(store, a, c)
<1>3. a \in AnyCommand
  BY CommandsAreCommands
<1>4. now \in Int /\ now' \in now..MaxTime /\ now' \in Int /\ now <= now' /\ store \in StoreType
  BY <1>1, <1>2, <1>3, ClocksWithin, PropagationAssumption DEF TypeOK
<1>5. Sound(store, r, now')
  BY <1>1, <1>2, <1>3, <1>4, ClocksWithin, DispatchSound
<1> HIDE DEF r
<1>6. log' = Logged(r)
  BY <1>2 DEF r
<1>7. CASE ~r.dirty
  BY <1>2, <1>4, <1>6, <1>7, UnloggedComplete DEF Logged
<1>8. CASE r.dirty
  <2> DEFINE e == [cmd |-> r.propagate, store |-> r.store]
  <2>0. PICK n \in Nat : n = Len(log)
    BY <1>1 DEF TypeOK
  <2>1. e \in Entry /\ e.cmd = r.propagate /\ e.store = r.store
    BY <1>5, <1>8 DEF Sound, Entry
  <2>2. log' = Append(log, e)
    BY <1>6, <1>8 DEF Logged
  <2> HIDE DEF e
  <2>3. Grows
    BY <2>1, <2>2 DEF Grows
  <2>4. log \in Seq(Entry) /\ n = Len(log)
    BY <1>1, <2>0 DEF TypeOK
  <2>5. Len(log') = n + 1 /\ log'[n + 1] = e
    BY <2>1, <2>2, <2>4
  <2>6. SnapComplete' /\ SetKeysComplete'
    BY <1>1, <1>2, <1>4, <2>3, AmbientComplete
  <2>7. AtLog(n)' = AtLog(n) /\ AtLog(n) \in StoreType /\ AtLog(n + 1)' = r.store
    BY <1>1, <2>1, <2>3, <2>4, <2>5, History DEF AtLog
  <2>8. Preceded(AtLog(n), r.propagate, r.store, now')
    <3>1. Preceded(store, r.propagate, r.store, now')
      BY <1>5, <1>8 DEF Sound
    <3>2. Covers(AtLog(n), store, now')
      BY <1>1, <1>4, <2>4, CoversLater DEF LeaderOK
    <3>3. ASSUME NEW k \in Key, Live(r.store, k, now'), Agree(store, r.store, k)
          PROVE  Agree(AtLog(n), r.store, k)
      <4>1. Live(store, k, now')
        BY <3>3 DEF Agree, Live, Has, is_expired
      <4>2. QED
        BY <3>2, <3>3, <4>1 DEF Covers, Agree
    <3>4. QED
      BY <3>1, <3>3 DEF Preceded
  <2>9. ASSUME NEW i \in 1..Len(log')
        PROVE  Preceded(AtLog(i - 1), log[i].cmd, AtLog(i), now)'
    <3>1. CASE i = n + 1
      <4>1. i - 1 = n
        BY <2>4, <3>1
      <4>2. AtLog(i - 1)' = AtLog(n) /\ AtLog(i)' = r.store /\ log'[i].cmd = r.propagate
        BY <2>1, <2>5, <2>7, <3>1, <4>1
      <4>3. QED
        BY <2>8, <4>2
    <3>2. CASE i \in 1..n
      BY <1>1, <1>4, <2>3, <2>4, <3>2, AmbientComplete
    <3>3. QED
      BY <2>4, <2>5, <2>9, <3>1, <3>2
  <2>10. LogComplete'
    BY <2>9 DEF LogComplete
  <2>11. QED
    BY <2>6, <2>10 DEF CInv
<1>9. QED
  BY <1>7, <1>8

\* Store::snapshot keeps every key that is alive at its place of the log.
LEMMA SnapshotComplete ==
  ASSUME IInv, CInv, TakeSnapshot
  PROVE  CInv'
<1>1. TypeOK /\ LeaderOK /\ FollowerOK /\ LogComplete /\ SetKeysComplete
  BY DEF IInv, CInv
<1>2. /\ now' \in now..MaxTime
      /\ snap' = [records |-> snapshot(store, now'), pos |-> Len(log)]
      /\ UNCHANGED <<store, log, follower, pos>>
  BY DEF TakeSnapshot, Later
<1>3. Grows /\ now' \in Int /\ now <= now' /\ now \in Int /\ Len(log) \in 0..Len(log)
  BY <1>1, <1>2, PropagationAssumption DEF Grows, TypeOK
<1>4. LogComplete' /\ SetKeysComplete'
  BY <1>1, <1>2, <1>3, AmbientComplete DEF LogComplete
<1>5. snap'.pos = Len(log) /\ snap'.records = snapshot(store, now')
  BY <1>2
<1>6. \A r, o \in snapshot(store, now') : r.key = o.key => r = o
  BY DEF snapshot
<1>7. ASSUME NEW k \in Key, Live(AtLog(Len(log)), k, now')
      PROVE  \E r \in snapshot(store, now') :
               r.key = k /\ r.expire_at = AtLog(Len(log)).expires[k]
  <2>1. AtLog(Len(log)) \in StoreType
    BY <1>1, <1>3, History
  <2>2. Live(AtLog(Len(log)), k, now)
    BY <1>3, <1>7, <2>1, DeadStaysDead
  <2>3. Agree(AtLog(Len(log)), store, k)
    BY <1>1, <2>2 DEF LeaderOK, Covers
  <2>4. Live(store, k, now')
    BY <1>7, <2>3 DEF Agree, Live, Has, is_expired
  <2>5. [key |-> k, value |-> store.map[k], expire_at |-> store.expires[k]] \in snapshot(store, now')
    BY <2>4 DEF snapshot
  <2>6. QED
    BY <2>3, <2>5 DEF Agree
<1>8. AtLog(snap.pos)' = AtLog(Len(log))
  BY <1>2, <1>5 DEF AtLog
<1>9. SnapComplete'
  BY <1>5, <1>6, <1>7, <1>8 DEF SnapComplete
<1>10. QED
  BY <1>4, <1>9 DEF CInv

\* Loading it late brings back everything that is still alive.
LEMMA LoadComplete ==
  ASSUME IInv, CInv, FollowerLoad
  PROVE  CInv'
<1>1. TypeOK /\ SnapComplete
  BY DEF IInv, CInv
<1>2. PICK c \in KeyClocks(now') :
        /\ now' \in now..MaxTime /\ snap # NoSnap
        /\ follower' = load_records(snap.records, c)
        /\ pos' = snap.pos
        /\ UNCHANGED <<store, log, snap>>
  BY DEF FollowerLoad, Later
<1>3. now \in Int /\ now' \in Int /\ now <= now'
  BY <1>1, <1>2, PropagationAssumption DEF TypeOK
<1>4. snap.records \in SUBSET Record /\ snap.pos \in 0..Len(log)
  BY <1>1, <1>2 DEF TypeOK
<1>5. AtLog(snap.pos) \in StoreType
  <2>1. Grows
    BY <1>2 DEF Grows
  <2>2. QED
    BY <1>1, <1>4, <2>1, History
<1>6. ASSUME NEW k \in Key, Live(AtLog(snap.pos), k, now')
      PROVE  Live(follower', k, now')
  <2>1. Live(AtLog(snap.pos), k, now)
    BY <1>3, <1>5, <1>6, DeadStaysDead
  <2>2. PICK r \in snap.records : r.key = k /\ r.expire_at = AtLog(snap.pos).expires[k]
    BY <1>1, <1>2, <2>1 DEF SnapComplete
  <2>3. r.value \in Value /\ r.expire_at \in Int
    BY <1>4 DEF Record
  <2>4. loadable(r, now')
    BY <1>3, <1>6, <2>2, <2>3 DEF loadable, Live, is_expired
  <2>5. c[r.key] \in Int /\ c[r.key] <= now'
    BY <1>2, <1>3, <2>2 DEF KeyClocks
  <2>6. \A o \in snap.records : o.key = r.key => o = r
    BY <1>1, <1>2 DEF SnapComplete
  <2>7. follower'.map[k] = r.value /\ follower'.expires[k] = r.expire_at
    <3>1. /\ load_records(snap.records, c).map[r.key] = r.value
          /\ load_records(snap.records, c).expires[r.key] = r.expire_at
      <4>1. r \in Record
        BY <1>4
      <4>2. now' \in Int
        BY <1>3
      <4>3. c[r.key] \in Int
        BY <2>5
      <4>4. c[r.key] <= now'
        BY <2>5
      <4>5. QED
        BY <2>4, <2>6, <4>1, <4>2, <4>3, <4>4, LoadedComplete
    <3>2. QED
      BY <1>2, <2>2, <3>1, Zenon
  <2>8. QED
    BY <1>6, <2>2, <2>3, <2>7, StoreAssumption DEF Live, Has, is_expired
<1>7. QED
  BY <1>2, <1>6, FollowerComplete

\* Executing the next logged command late loses no key that only SET gave a
\* deadline.
LEMMA ApplyStepComplete ==
  ASSUME IInv, CInv, FollowerApply
  PROVE  CInv'
<1>1. TypeOK /\ LogOK /\ FollowerOK /\ LogComplete /\ SetKeysComplete
  BY DEF IInv, CInv
<1> DEFINE a == log[pos + 1].cmd
<1>2. PICK c \in Clocks(Readings(a)) :
        /\ pos < Len(log)
        /\ follower' = apply_silently(follower, a, c)
        /\ now' = c[Readings(a)]
        /\ pos' = pos + 1
        /\ UNCHANGED <<store, log, snap>>
  BY DEF FollowerApply
<1>3. pos \in 0..Len(log) /\ pos + 1 \in 1..Len(log) /\ follower \in StoreType /\ (pos + 1) - 1 = pos
  BY <1>1, <1>2 DEF TypeOK
<1>4. /\ a \in CanonicalCommand
      /\ AtLog(pos) \in StoreType /\ AtLog(pos + 1) \in StoreType
  <2>1. Grows
    BY <1>2 DEF Grows
  <2>2. QED
    BY <1>1, <1>3, <2>1, History
<1> HIDE DEF a
<1>5. a \in AnyCommand
  BY <1>4, CommandsAreCommands
<1>6. now' \in now..MaxTime /\ now \in Int /\ now' \in Int /\ now <= now'
  BY <1>1, <1>2, <1>5, ClocksWithin, PropagationAssumption DEF TypeOK
<1>7. /\ Follows(AtLog(pos), a, AtLog(pos + 1), now)
      /\ Preceded(AtLog(pos), a, AtLog(pos + 1), now)
  <2>1. Follows(AtLog(pos), a, AtLog(pos + 1), now)
    BY <1>1, <1>3 DEF LogOK, a
  <2>2. Preceded(AtLog(pos), a, AtLog(pos + 1), now)
    BY <1>1, <1>3 DEF LogComplete, a
  <2>3. QED
    BY <2>1, <2>2
<1>8. ASSUME NEW k \in Key, Live(AtLog(pos + 1), k, now'),
             \A i \in 1..(pos + 1) : log[i].cmd.op \in {"EXPIRE", "PERSIST"} => log[i].cmd.key # k
      PROVE  Live(follower', k, now')
  <2>1. a.op \in {"EXPIRE", "PERSIST"} => a.key # k
    <3>1. pos + 1 \in 1..(pos + 1)
      BY <1>3
    <3>2. QED
      BY <1>8, <3>1, Zenon DEF a
  <2>2. OnlySet(k)
    <3>1. \A i \in 1..pos : i \in 1..(pos + 1)
      BY <1>3
    <3>2. QED
      BY <1>8, <3>1, Zenon DEF OnlySet
  <2>3. Live(AtLog(pos), k, now) => Live(follower, k, now)
    BY <1>1, <2>2 DEF SetKeysComplete, Reflected, AtLog
  <2>4. Covers(AtLog(pos), follower, now)
    BY <1>1 DEF FollowerOK
  <2>5. QED
    BY <1>2, <1>3, <1>4, <1>6, <1>7, <1>8, <2>1, <2>3, <2>4, ApplyComplete, Zenon
<1>9. QED
  BY <1>2, <1>6, <1>8, FollowerComplete

\* Every step of either server keeps what bounds the follower from below.
LEMMA NextComplete == IInv /\ CInv /\ [Next]_vars => CInv'
<1> SUFFICES ASSUME IInv, CInv, [Next]_vars PROVE CInv'
  OBVIOUS
<1>0. /\ now \in Int /\ now \in now..MaxTime /\ MaxTime \in Int /\ TypeOK /\ IndexSound(store)
      /\ follower \in StoreType /\ FollowerOK /\ SetKeysComplete
  BY PropagationAssumption DEF IInv, CInv, TypeOK, IndexesSound
<1>1. CASE Tick
  BY <1>0, <1>1, UnloggedComplete DEF Tick
<1>2. ASSUME NEW a \in ClientCommand, Execute(a) PROVE CInv'
  BY <1>2, ExecuteComplete
<1>3. CASE (\E k \in Key : Read(k)) \/ Keys \/ Cron
  BY <1>0, <1>3, ReapStep, UnloggedComplete
<1>4. CASE TakeSnapshot
  BY <1>4, SnapshotComplete
<1>5. CASE FollowerLoad
  BY <1>5, LoadComplete
<1>6. CASE FollowerRestart
  <2>1. /\ now' = now /\ pos' = 0 /\ UNCHANGED <<store, log, snap>>
    BY <1>6 DEF FollowerRestart
  <2>2. \A k \in Key : ~Live(AtLog(0), k, now)
    BY DEF AtLog, EmptyStore, Live, Has
  <2>3. QED
    BY <1>0, <2>1, <2>2, FollowerComplete
<1>7. CASE FollowerApply
  BY <1>7, ApplyStepComplete
<1>8. CASE FollowerReap
  <2>1. PICK D \in SUBSET reapable(follower, now') :
          /\ now' \in now..MaxTime /\ follower' = removeAll(follower, D)
          /\ UNCHANGED <<store, log, pos, snap>>
    BY <1>8 DEF FollowerReap, Later
  <2>2. D \in SUBSET Key /\ \A k \in D : ~Live(follower, k, now')
    BY <2>1 DEF reapable, Live, is_expired
  <2>3. now' \in Int /\ now <= now' /\ Grows
    BY <1>0, <2>1 DEF Grows
  <2>4. ASSUME NEW k \in Key, OnlySet(k), Live(AtLog(pos), k, now')
        PROVE  Live(follower', k, now')
    <3>1. AtLog(pos) \in StoreType /\ pos \in 0..Len(log)
      BY <1>0, <2>3, History DEF TypeOK
    <3>2. Live(AtLog(pos), k, now)
      BY <1>0, <2>3, <2>4, <3>1, DeadStaysDead
    <3>3. Live(follower, k, now)
      BY <1>0, <2>4, <3>2 DEF SetKeysComplete, Reflected, AtLog
    <3>4. Agree(follower, AtLog(pos), k)
      BY <1>0, <3>3 DEF FollowerOK, Covers
    <3>5. Live(follower, k, now')
      BY <2>4, <3>4 DEF Agree, Live, Has, is_expired
    <3>6. k \notin D
      BY <2>2, <3>5, Zenon
    <3>7. QED
      BY <2>1, <3>5, <3>6 DEF removeAll, Live, Has, is_expired
  <2>5. QED
    BY <2>1, <2>4, FollowerComplete DEF OnlySet
<1>9. CASE UNCHANGED vars
  BY <1>9 DEF vars, CInv, LogComplete, SnapComplete, SetKeysComplete, OnlySet, Reflected, AtLog
<1>10. QED
  BY <1>1, <1>2, <1>3, <1>4, <1>5, <1>6, <1>7, <1>8, <1>9 DEF Next

(***************************************************************************)
(* However late the log is executed or a snapshot is loaded, a key whose   *)
(* deadline was only ever decided by SET, and that is alive at that place  *)
(* of the log, is alive on the follower.  (EXPIRE and PERSIST have to be   *)
(* excluded: see NothingLost, which the code does not keep.)               *)
(***************************************************************************)
THEOREM SetKeysAlwaysComplete == Spec => []SetKeysComplete
<1>1. Init => CInv
  <2>1. SUFFICES ASSUME Init PROVE CInv
    OBVIOUS
  <2>2. LogComplete /\ SnapComplete
    BY <2>1 DEF Init, LogComplete, SnapComplete
  <2>3. SetKeysComplete
    BY <2>1 DEF Init, SetKeysComplete, Reflected, EmptyStore, Live, Has
  <2>4. QED
    BY <2>2, <2>3 DEF CInv
<1>2. CInv => SetKeysComplete
  BY DEF CInv
<1>3. QED
  BY <1>1, <1>2, NextComplete, InductiveInvariant, PTL DEF Spec
=============================================================================
