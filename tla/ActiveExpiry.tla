---------------------------- MODULE ActiveExpiry ----------------------------
(***************************************************************************)
(* The active expiry cycle of the store (store.cpp): sample_expiring walks *)
(* the buckets of the expires_ index from a cursor that outlives the call, *)
(* active_expire_cycle removes what it finds dead and samples again while  *)
(* more than a given share of the sample was dead.                         *)
(*                                                                         *)
(* Which bucket a key hashes to is chosen once; chains are walked in the   *)
(* order of the keys, which are numbers.  The table is not rehashed: the   *)
(* index never outgrows the buckets it starts with.                        *)
(***************************************************************************)
EXTENDS Integers, Sequences, SequencesExt, FiniteSets

CONSTANTS
    NumKeys,    \* keys that can have a deadline
    Buckets,    \* expires_.bucket_count()
    SampleSize, \* ExpiryConfig::sample_size
    MaxPasses,  \* ExpiryConfig::max_passes
    Percent     \* ExpiryConfig::continue_threshold_pct

ASSUME ActiveExpiryAssumption ==
    /\ NumKeys \in Nat /\ Percent \in Nat
    /\ Buckets \in Nat \ {0}
    /\ SampleSize \in Nat \ {0}
    /\ MaxPasses \in Nat \ {0}

VARIABLES
    bucket,  \* the hash function
    index,   \* the keys of expires_
    dead,    \* the ones whose deadline has passed
    cursor,  \* cursor_
    beat     \* changes with every tick of the server's cron

vars == <<bucket, index, dead, cursor, beat>>

Key == 1..NumKeys

TypeOK ==
    /\ bucket \in [Key -> 0..(Buckets - 1)]
    /\ index \in SUBSET Key
    /\ dead \in SUBSET index
    /\ cursor \in 0..(Buckets - 1)
    /\ beat \in BOOLEAN

Init ==
    /\ bucket \in [Key -> 0..(Buckets - 1)]
    /\ index = {}
    /\ dead = {}
    /\ cursor = 0
    /\ beat = FALSE

\* A client gives a key a deadline, takes it away or removes the key.
Insert(k) ==
    /\ k \notin index
    /\ index' = index \cup {k}
    /\ UNCHANGED <<bucket, dead, cursor, beat>>

Forget(k) ==
    /\ k \in index
    /\ index' = index \ {k}
    /\ dead' = dead \ {k}
    /\ UNCHANGED <<bucket, cursor, beat>>

\* The deadline of k passes.
Expire(k) ==
    /\ k \in index \ dead
    /\ dead' = dead \cup {k}
    /\ UNCHANGED <<bucket, index, cursor, beat>>

Chain(keys, b) == SetToSortSeq({k \in keys : bucket[k] = b}, <)

\* Bug: the walk stops at the last bucket instead of wrapping.
MutWalkedNoWrap(keys, from, v) ==
    FlattenSeq([i \in 1..v |-> IF from + i - 1 < Buckets
                               THEN Chain(keys, from + i - 1) ELSE << >>])

\* The keys met in the first v buckets of a walk.
Walked(keys, from, v) ==
    FlattenSeq([i \in 1..v |-> Chain(keys, (from + i - 1) % Buckets)])

\* The walk ends with the bucket that fills the sample, or after a full turn.
Visited(keys, from) ==
    CHOOSE v \in 1..Buckets :
        /\ v = Buckets \/ Len(Walked(keys, from, v)) >= SampleSize
        /\ \A u \in 1..(v - 1) : Len(Walked(keys, from, u)) < SampleSize

sample_expiring(keys, from) ==
    LET walked == Walked(keys, from, Visited(keys, from))
    IN  IF Len(walked) > SampleSize THEN SubSeq(walked, 1, SampleSize) ELSE walked

\* Bug: every sample starts where the last one did.
MutResumeInPlace(keys, from) == from

\* The cursor skips every bucket of the walk, the last one included even when
\* the sample was full in the middle of its chain.
Resume(keys, from) == (from + Visited(keys, from)) % Buckets

\* One pass: what is left, where the next one starts, and whether there is one.
Pass(st) ==
    IF ~st.again \/ st.keys = {} THEN [st EXCEPT !.again = FALSE]
    ELSE LET sampled == sample_expiring(st.keys, st.cursor)
             found == ToSet(sampled) \cap dead
         IN  [keys   |-> st.keys \ found,
              cursor |-> Resume(st.keys, st.cursor),
              again  |-> Cardinality(found) > (Len(sampled) * Percent) \div 100]

Passes == FoldLeft(LAMBDA st, p : Pass(st),
                   [keys |-> index, cursor |-> cursor, again |-> TRUE],
                   [p \in 1..MaxPasses |-> p])

active_expire_cycle ==
    /\ \E end \in {Passes} :
        /\ index' = end.keys
        /\ dead' = dead \cap end.keys
        /\ cursor' = end.cursor
    /\ beat' = ~beat
    /\ UNCHANGED bucket

Next ==
    \/ \E k \in Key : Insert(k) \/ Forget(k) \/ Expire(k)
    \/ active_expire_cycle

Spec == Init /\ [][Next]_vars

\* The server's cron runs the cycle every 100 ms, so again and again.
FairSpec == Spec /\ []<><<beat' # beat>>_vars

(***************************************************************************)
(* Properties.                                                             *)
(***************************************************************************)

Alone(k) == \A j \in Key \ {k} : bucket[j] # bucket[k]

\* "The cycle sweeps the whole index over time": a dead key that is alone in
\* its bucket, as most are, is removed in the end, whatever clients insert and
\* remove and however other buckets fill the samples.  (A dead key behind a
\* live one in the same bucket may wait for ever: Resume skips it.)
SweepsLoneKeys == \A k \in Key : (k \in dead /\ Alone(k)) ~> k \notin dead

\* A backlog is reclaimed at full speed: when everything in the index is dead
\* a cycle removes a full sample per pass, wherever the cursor stands and
\* however the keys are spread over the buckets.
BacklogReclaimed ==
    [][active_expire_cycle /\ index = dead =>
          LET n == Cardinality(index)
          IN  Cardinality(index') =
                  IF n > MaxPasses * SampleSize THEN n - MaxPasses * SampleSize ELSE 0]_vars
=============================================================================
