------------------------------- MODULE Store -------------------------------
(***************************************************************************)
(* The keyspace (class Store, store.hpp and store.cpp) as a data type.     *)
(*                                                                         *)
(* A store value holds the two hash maps of the class: `map' is map_, with *)
(* Absent for a key that has no entry, and `expires' is the index expires_,*)
(* with kNoExpiry for a key that has no entry.  Nothing ties the two       *)
(* together: that every indexed key has an entry is a property the         *)
(* operations must preserve (IndexSound).                                  *)
(*                                                                         *)
(* The class reads its clock again and again, several times within one     *)
(* operation, and time passes between two readings.  Each reading is a     *)
(* parameter here (c, c1, c2: in the order they are taken).  An operation  *)
(* that visits many keys takes one reading per key: there c is a function  *)
(* of the key.  The reaping counters (ExpiryStats) are left out.           *)
(***************************************************************************)
EXTENDS Integers, FiniteSets

CONSTANTS Key, Value, Absent

ASSUME StoreAssumption == Absent \notin Value

kNoExpiry == -1

StoreType == [map : [Key -> Value \cup {Absent}], expires : [Key -> Int]]

\* A snapshot or a replicated dataset: Store::snapshot's vector<Record>.
Record == [key : Key, value : Value, expire_at : Int]

\* clear() (and the empty maps of a new Store).
EmptyStore == [map     |-> [k \in Key |-> Absent],
               expires |-> [k \in Key |-> kNoExpiry]]

Has(s, k) == s.map[k] # Absent

is_expired(s, k, c) == s.expires[k] # kNoExpiry /\ c >= s.expires[k]

Live(s, k, c) == Has(s, k) /\ ~is_expired(s, k, c)

\* Bug: the index entry outlives the key.
MutRemoveKeepsIndex(s, k) == [s EXCEPT !.map[k] = Absent]

remove(s, k) == [map     |-> [s.map EXCEPT ![k] = Absent],
                 expires |-> [s.expires EXCEPT ![k] = kNoExpiry]]

(***************************************************************************)
(* get() returns the value of a live key; an expired one it removes.       *)
(* touch is the store get(), contains() and pttl() leave behind.           *)
(***************************************************************************)
touch(s, k, c) == IF Has(s, k) /\ is_expired(s, k, c) THEN remove(s, k) ELSE s

get(s, k, c) == IF Live(s, k, c) THEN s.map[k] ELSE Absent

set(s, k, v, e) == [map     |-> [s.map EXCEPT ![k] = v],
                    expires |-> [s.expires EXCEPT ![k] = e]]

\* erase() reports (was_live) whether the key was alive: Live(s, k, c).
erase(s, k) == IF Has(s, k) THEN remove(s, k) ELSE s

\* Milliseconds left, -1 without a deadline, -2 without a live key.
pttl(s, k, c1, c2) ==
  IF ~Live(s, k, c1) THEN -2
  ELSE IF s.expires[k] = kNoExpiry THEN -1
  ELSE s.expires[k] - c2

\* expire_at() returns Live(s, k, c1); this is the store it leaves behind.
expire_at(s, k, deadline, c1, c2) ==
  IF ~Live(s, k, c1) THEN touch(s, k, c1)
  ELSE IF deadline <= c2 THEN remove(s, k)
  ELSE [map |-> s.map, expires |-> [s.expires EXCEPT ![k] = deadline]]

\* persist() returns persisted; the store it leaves behind is persist.
persisted(s, k, c) == Live(s, k, c) /\ s.expires[k] # kNoExpiry

persist(s, k, c) ==
  IF Live(s, k, c)
  THEN [map |-> s.map, expires |-> [s.expires EXCEPT ![k] = kNoExpiry]]
  ELSE touch(s, k, c)

(***************************************************************************)
(* Operations over many keys.                                              *)
(***************************************************************************)
removeAll(s, K) ==
  [map     |-> [k \in Key |-> IF k \in K THEN Absent ELSE s.map[k]],
   expires |-> [k \in Key |-> IF k \in K THEN kNoExpiry ELSE s.expires[k]]]

\* keys() removes every entry it finds expired, whatever the pattern.
keys(s, c) == removeAll(s, {k \in Key : Has(s, k) /\ is_expired(s, k, c[k])})

(***************************************************************************)
(* The keys one run of active_expire_cycle() or reap_expired() may remove: *)
(* those of the index whose deadline has passed.  Which of them a cycle    *)
(* finds is decided by its sampling: see module ActiveExpiry.              *)
(***************************************************************************)
reapable(s, c) == {k \in Key : s.expires[k] # kNoExpiry /\ c >= s.expires[k]}

\* size(): entries minus expired index entries, an unsigned subtraction.
size(s, c) == Cardinality({k \in Key : Has(s, k)}) - Cardinality(reapable(s, c))

snapshot(s, c) ==
  {[key |-> k, value |-> s.map[k], expire_at |-> s.expires[k]] :
     k \in {x \in Key : Live(s, x, c)}}

(***************************************************************************)
(* load_record() for every record of a snapshot, into an empty store: a    *)
(* record whose deadline has passed when it is reached is dropped.         *)
(***************************************************************************)
\* Bug: the comparison with the clock is the wrong way round.
MutLoadableInverted(r, c) == r.expire_at = kNoExpiry \/ c >= r.expire_at

loadable(r, c) == r.expire_at = kNoExpiry \/ c < r.expire_at

load_records(R, c) ==
  LET kept(k) == {r \in R : r.key = k /\ loadable(r, c[k])}
      the(k)  == CHOOSE r \in kept(k) : TRUE
  IN  [map     |-> [k \in Key |-> IF kept(k) = {} THEN Absent ELSE the(k).value],
       expires |-> [k \in Key |-> IF kept(k) = {} THEN kNoExpiry
                                                  ELSE the(k).expire_at]]

(***************************************************************************)
(* Every key of the expires_ index has an entry in map_.  size() subtracts *)
(* one count from the other without looking: an orphan in the index would  *)
(* make DBSIZE too small and, at zero, wrap around.                        *)
(***************************************************************************)
IndexSound(s) == \A k \in Key : s.expires[k] # kNoExpiry => Has(s, k)
=============================================================================
