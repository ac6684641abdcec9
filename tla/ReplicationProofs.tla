------------------------- MODULE ReplicationProofs -------------------------
(***************************************************************************)
(* Proofs about Replication, for any set of replicas and any bounds.       *)
(*                                                                         *)
(* The invariant has two halves.  Structure holds in every run: what a     *)
(* link thread has read, what its session has been sent and asked, and the *)
(* vector of fed links fit together, also after propagate's loop has run   *)
(* over a vector that a send() in it has changed.  Contents holds until    *)
(* the first such overflow: a stream is a snapshot and the writes behind   *)
(* it, and the tasks in a replica's event loop, whichever connections they *)
(* came from, lead from what the replica shows to what its thread has      *)
(* counted, one write at a time or by a snapshot that does not go back.    *)
(***************************************************************************)
EXTENDS Replication, Induction

USE ReplicationAssumption

-----------------------------------------------------------------------------
(***************************************************************************)
(* Sequences.                                                              *)
(***************************************************************************)

\* Lengths, and the empty sequence.
LEMMA EmptySeq ==
    ASSUME NEW T, NEW s \in Seq(T)
    PROVE  /\ << >> \in Seq(T) /\ Len(<< >>) = 0
           /\ Len(s) \in Nat /\ DOMAIN s = 1..Len(s) /\ \A i \in 1..Len(s) : s[i] \in T
           /\ s # << >> <=> Len(s) > 0
           /\ s \o << >> = s
  OBVIOUS

LEMMA SeqMonotonic ==
    ASSUME NEW S, NEW T, NEW s \in Seq(S), S \subseteq T
    PROVE  s \in Seq(T)
  OBVIOUS

\* The first n elements.
LEMMA PrefixOf ==
    ASSUME NEW T, NEW s \in Seq(T), NEW n \in 0..Len(s)
    PROVE  /\ SubSeq(s, 1, n) \in Seq(T) /\ Len(SubSeq(s, 1, n)) = n
           /\ \A i \in 1..n : SubSeq(s, 1, n)[i] = s[i]
  OBVIOUS

LEMMA HeadTail ==
    ASSUME NEW T, NEW s \in Seq(T), s # << >>
    PROVE  /\ Head(s) \in T /\ Head(s) = s[1] /\ Tail(s) \in Seq(T)
           /\ Len(s) >= 1 /\ Len(Tail(s)) = Len(s) - 1
           /\ \A i \in 1..Len(Tail(s)) : Tail(s)[i] = s[i + 1]
  OBVIOUS

LEMMA Appended ==
    ASSUME NEW T, NEW s \in Seq(T), NEW x \in T
    PROVE  /\ Append(s, x) \in Seq(T) /\ Len(Append(s, x)) = Len(s) + 1
           /\ \A i \in 1..Len(s) : Append(s, x)[i] = s[i]
           /\ Append(s, x)[Len(s) + 1] = x
  OBVIOUS

-----------------------------------------------------------------------------
(***************************************************************************)
(* on_disconnect's remove_if.                                              *)
(***************************************************************************)

\* k[i] is what the loop has kept of the first i entries of s.
RemoveLoop(k, T, s, c) ==
    /\ k \in [0..Len(s) -> Seq(T)]
    /\ k[0] = << >>
    /\ \A i \in 1..Len(s) :
           k[i] = IF s[i] = c THEN k[i - 1] ELSE Append(k[i - 1], s[i])

\* The loop of remove_if is well defined.
LEMMA WithoutLoop ==
    ASSUME NEW T, NEW s \in Seq(T), NEW c
    PROVE  \E k : RemoveLoop(k, T, s, c) /\ Without(s, c) = k[Len(s)]
  <1> DEFINE N == Len(s)
             V == Seq(T)
             F == [i \in 1..N |->
                      [q \in V |-> IF s[i] = c THEN q ELSE Append(q, s[i])]]
             Loop(g) == [i \in 0..N |->
                            IF i = 0
                            THEN << >>
                            ELSE IF s[i] = c THEN g[i - 1] ELSE Append(g[i - 1], s[i])]
             kept == CHOOSE g : g = Loop(g)
  <1>1. N \in Nat /\ << >> \in V /\ \A i \in 1..N : s[i] \in T
    OBVIOUS
  <1>2. ASSUME NEW q \in V, NEW x \in T
        PROVE  Append(q, x) \in V
    OBVIOUS
  <1>3. Without(s, c) = kept[N]
    BY DEF Without
  <1> HIDE DEF N, V
  <1>4. F \in [1..N -> [V -> V]]
    BY <1>1, <1>2
  <1>5. PICK f : IsRun(f, N, V, << >>, F)
    <2> HIDE DEF F
    <2> QED
      BY <1>1, <1>4, RunExists
  <1>6. f = Loop(f)
    <2>1. f \in [0..N -> V] /\ f[0] = << >>
      BY <1>5 DEF IsRun
    <2>2. ASSUME NEW i \in 1..N
          PROVE  f[i] = IF s[i] = c THEN f[i - 1] ELSE Append(f[i - 1], s[i])
      <3>1. f[i] = F[i][f[i - 1]]
        <4> HIDE DEF F
        <4> QED
          BY <1>5 DEF IsRun
      <3>2. f[i - 1] \in V
        BY <1>1, <2>1
      <3> QED
        BY <3>1, <3>2
    <2>3. ASSUME NEW i \in 0..N
          PROVE  f[i] = Loop(f)[i]
      <3>1. CASE i = 0
        BY <2>1, <3>1
      <3>2. CASE i # 0
        <4>1. i \in 1..N
          BY <1>1, <3>2
        <4> QED
          BY <2>2, <3>2, <4>1
      <3> QED
        BY <3>1, <3>2
    <2> QED
      BY <2>1, <2>3
  <1>7. kept = Loop(kept)
    <2> HIDE DEF Loop
    <2> QED
      BY <1>6
  <1> HIDE DEF kept
  <1>8. /\ kept[0] = << >>
        /\ \A i \in 1..N :
               kept[i] = IF s[i] = c THEN kept[i - 1] ELSE Append(kept[i - 1], s[i])
    <2>1. \A i \in 0..N : kept[i] = Loop(kept)[i]
      BY <1>7, Zenon
    <2> QED
      BY <1>1, <2>1
  <1>9. kept \in [0..N -> V]
    <2> DEFINE S == {i \in 0..N : kept[i] \in V}
    <2>1. 0 \in S
      BY <1>1, <1>8
    <2>2. ASSUME NEW n \in 0..(N - 1), n \in S
          PROVE  n + 1 \in S
      <3>1. n + 1 \in 1..N /\ (n + 1) - 1 = n
        BY <1>1
      <3>2. kept[n + 1] = IF s[n + 1] = c THEN kept[n] ELSE Append(kept[n], s[n + 1])
        BY <1>8, <3>1
      <3> QED
        BY <1>1, <1>2, <2>2, <3>1, <3>2
    <2> HIDE DEF S
    <2>3. \A n \in 0..N : n \in S
      BY <1>1, <2>1, <2>2, BoundedInduction
    <2>4. DOMAIN kept = 0..N /\ kept = [i \in 0..N |-> kept[i]]
      BY <1>7
    <2> QED
      BY <2>3, <2>4 DEF S
  <1> QED
    BY <1>3, <1>8, <1>9 DEF N, V, RemoveLoop

\* What on_disconnect leaves of the vector: every other link, none twice that was
\* not there twice.
LEMMA WithoutKeeps ==
    ASSUME NEW T, NEW s \in Seq(T), NEW c
    PROVE  /\ Without(s, c) \in Seq(T)
           /\ Len(Without(s, c)) <= Len(s)
           /\ Range(Without(s, c)) = Range(s) \ {c}
           /\ IsInjective(s) => IsInjective(Without(s, c))
  <1> DEFINE N == Len(s)
             W == Without(s, c)
             Of(q, n) == \A j \in 1..Len(q) : q[j] # c /\ \E l \in 1..n : s[l] = q[j]
             All(q, n) == \A l \in 1..n : s[l] # c => \E j \in 1..Len(q) : q[j] = s[l]
             Once(q) == \A i, j \in 1..Len(q) : q[i] = q[j] => i = j
             Kept(q, n) == Len(q) <= n /\ Of(q, n) /\ All(q, n) /\ (Once(s) => Once(q))
  <1>1. PICK k : RemoveLoop(k, T, s, c) /\ W = k[N]
    BY WithoutLoop
  <1>2. N \in Nat /\ DOMAIN s = 1..N
    OBVIOUS
  <1>3. Kept(k[0], 0)
    BY <1>1 DEF RemoveLoop
  <1>4. ASSUME NEW n \in 0..(N - 1), Kept(k[n], n)
        PROVE  Kept(k[n + 1], n + 1)
    <2> DEFINE q == k[n]
               r == k[n + 1]
    <2>1. n \in Nat /\ n + 1 \in 1..N /\ n + 1 \in 0..N /\ (n + 1) - 1 = n
      BY <1>2
    <2>2. q \in Seq(T) /\ r = IF s[n + 1] = c THEN q ELSE Append(q, s[n + 1])
      BY <1>1, <2>1 DEF RemoveLoop
    <2>3. Len(q) \in Nat /\ s[n + 1] \in T
      BY <2>1, <2>2
    <2>4. Len(q) <= n /\ Of(q, n) /\ All(q, n) /\ (Once(s) => Once(q))
      BY <1>4
    <2> HIDE DEF q, r
    <2>5. CASE s[n + 1] = c
      <3>1. r = q
        BY <2>2, <2>5
      <3>2. Len(q) <= n + 1 /\ Of(q, n + 1) /\ All(q, n + 1)
        BY <2>1, <2>3, <2>4, <2>5
      <3> QED
        BY <2>4, <3>1, <3>2 DEF r
    <2>6. CASE s[n + 1] # c
      <3>1. /\ Len(r) = Len(q) + 1 /\ r[Len(q) + 1] = s[n + 1]
            /\ \A j \in 1..Len(q) : r[j] = q[j]
        BY <2>2, <2>3, <2>6
      <3>2. Len(r) <= n + 1
        BY <2>1, <2>3, <2>4, <3>1
      <3>3. Of(r, n + 1)
        BY <2>1, <2>3, <2>4, <2>6, <3>1
      <3>4. All(r, n + 1)
        BY <2>1, <2>3, <2>4, <2>6, <3>1
      <3>5. ASSUME Once(s) PROVE Once(r)
        <4>1. ASSUME NEW j \in 1..Len(q), q[j] = s[n + 1]
              PROVE  FALSE
          <5>1. PICK l \in 1..n : s[l] = q[j]
            BY <2>4
          <5>2. l \in 1..Len(s) /\ n + 1 \in 1..Len(s) /\ l # n + 1
            BY <1>2, <2>1
          <5> QED
            BY <3>5, <4>1, <5>1, <5>2
        <4>2. Once(q)
          BY <2>4, <3>5
        <4>3. ASSUME NEW i \in 1..Len(r), NEW j \in 1..Len(r), r[i] = r[j]
              PROVE  i = j
          BY <2>3, <3>1, <4>1, <4>2, <4>3
        <4> QED
          BY <4>3
      <3> QED
        BY <3>2, <3>3, <3>4, <3>5 DEF r
    <2> QED
      BY <2>5, <2>6
  <1>5. Kept(k[N], N)
    <2> HIDE DEF Kept, N
    <2> DEFINE S == {n \in 0..N : Kept(k[n], n)}
    <2>1. 0 \in S
      BY <1>2, <1>3
    <2>2. \A n \in 0..(N - 1) : n \in S => n + 1 \in S
      BY <1>2, <1>4
    <2> HIDE DEF S
    <2>3. \A n \in 0..N : n \in S
      BY <1>2, <2>1, <2>2, BoundedInduction
    <2> QED
      BY <1>2, <2>3 DEF S
  <1>6. W \in Seq(T)
    BY <1>1, <1>2 DEF RemoveLoop
  <1>7. Len(W) <= N /\ Of(W, N) /\ All(W, N) /\ (Once(s) => Once(W))
    BY <1>1, <1>5
  <1> HIDE DEF W
  <1>8. DOMAIN W = 1..Len(W)
    BY <1>6
  <1>9. Range(W) = Range(s) \ {c}
    <2>1. ASSUME NEW x \in Range(W)
          PROVE  x \in Range(s) /\ x # c
      <3>1. PICK j \in 1..Len(W) : W[j] = x
        BY <1>8 DEF Range
      <3>2. PICK l \in 1..N : s[l] = W[j]
        BY <1>7, Zenon
      <3>3. W[j] # c
        BY <1>7, <3>1, Zenon
      <3>4. DOMAIN s = 1..N
        BY <1>2
      <3>5. s[l] \in Range(s)
        BY <3>2, <3>4, Zenon DEF Range
      <3> QED
        BY <3>1, <3>2, <3>3, <3>5, Zenon
    <2>2. ASSUME NEW x \in Range(s), x # c
          PROVE  x \in Range(W)
      <3>1. DOMAIN s = 1..N
        BY <1>2
      <3>2. PICK l \in 1..N : s[l] = x
        BY <3>1, Zenon DEF Range
      <3>3. PICK j \in 1..Len(W) : W[j] = x
        BY <1>7, <2>2, <3>2, Zenon
      <3> QED
        BY <1>8, <3>3, Zenon DEF Range
    <2> QED
      BY <2>1, <2>2
  <1>10. IsInjective(s) => IsInjective(W)
    BY <1>2, <1>7, <1>8, Zenon DEF IsInjective
  <1> QED
    BY <1>6, <1>7, <1>9, <1>10 DEF W

-----------------------------------------------------------------------------
(***************************************************************************)
(* propagate's loop over the vector that its own sends shrink.             *)
(***************************************************************************)

\* The links in the slots that count.
Live(w) == {w.slots[i] : i \in 1..w.size}

(***************************************************************************)
(* At every turn of the loop the vector holds no link twice, each fed link *)
(* whose session is still open is in it, and, where the vector held no     *)
(* closed link to begin with, it holds none now.  Only fed links have been *)
(* sent anything.                                                          *)
(***************************************************************************)
WalkOK(w) ==
    /\ w \in [slots : [1..Len(replicas) -> Fed], size : 0..Len(replicas),
              open : SUBSET open, times : [Conn -> Nat]]
    /\ \A i, j \in 1..w.size : w.slots[i] = w.slots[j] => i = j
    /\ Fed \cap w.open \subseteq Live(w)
    /\ Fed \subseteq open => Live(w) \subseteq w.open
    /\ \A c \in Conn \ Fed : w.times[c] = 0

\* A send that overflows erases its link and disturbs no other.
LEMMA EraseStep ==
    ASSUME TypeOK, NEW w, WalkOK(w), NEW c \in Fed
    PROVE  WalkOK(Erase(w, c))
  <1> DEFINE N == Len(replicas)
             sub == SubSeq(w.slots, 1, w.size)
             kept == Without(sub, c)
             e == Erase(w, c)
             next == [j \in 1..N |-> IF j <= Len(kept) THEN kept[j] ELSE w.slots[j]]
  <1>1. /\ N \in Nat /\ w.slots \in [1..N -> Fed] /\ w.size \in 0..N
        /\ w.open \in SUBSET open /\ w.times \in [Conn -> Nat]
        /\ w = [slots |-> w.slots, size |-> w.size, open |-> w.open, times |-> w.times]
    BY DEF WalkOK, TypeOK
  <1> HIDE DEF N
  <1>2. w.slots \in Seq(Fed) /\ Len(w.slots) = N
    BY <1>1
  <1>3. /\ sub \in Seq(Fed) /\ Len(sub) = w.size
        /\ \A i \in 1..w.size : sub[i] = w.slots[i]
    BY <1>1, <1>2, PrefixOf
  <1> HIDE DEF sub
  <1>4. Range(sub) = Live(w) /\ IsInjective(sub)
    <2>1. DOMAIN sub = 1..w.size
      BY <1>3
    <2>2. \A i, j \in 1..w.size : w.slots[i] = w.slots[j] => i = j
      BY DEF WalkOK
    <2> QED
      BY <1>3, <2>1, <2>2 DEF Range, Live, IsInjective
  <1>5. /\ kept \in Seq(Fed) /\ Len(kept) <= w.size
        /\ Range(kept) = Live(w) \ {c} /\ IsInjective(kept)
    BY <1>3, <1>4, WithoutKeeps
  <1>6. e = [slots |-> next, size |-> Len(kept), open |-> w.open \ {c},
             times |-> w.times]
    <2>1. e = [w EXCEPT
                  !.slots = [j \in DOMAIN w.slots |->
                                IF j <= Len(kept) THEN kept[j] ELSE w.slots[j]],
                  !.size = Len(kept),
                  !.open = @ \ {c}]
      BY DEF Erase, sub
    <2>2. [j \in DOMAIN w.slots |-> IF j <= Len(kept) THEN kept[j] ELSE w.slots[j]] = next
      BY <1>1
    <2> HIDE DEF kept, e, next
    <2> QED
      BY <1>1, <2>1, <2>2, Zenon
  <1> HIDE DEF kept
  <1>7. Len(kept) \in 0..N /\ DOMAIN kept = 1..Len(kept)
    BY <1>1, <1>5
  <1>8. next \in [1..N -> Fed]
    BY <1>1, <1>5, <1>7
  <1>9. \A j \in 1..Len(kept) : next[j] = kept[j]
    BY <1>1, <1>7
  <1> HIDE DEF next, e
  <1>10. e \in [slots : [1..N -> Fed], size : 0..N, open : SUBSET open,
                times : [Conn -> Nat]]
    BY <1>1, <1>6, <1>7, <1>8
  <1>11. Live(e) = Live(w) \ {c}
    <2>1. Live(e) = {kept[j] : j \in 1..Len(kept)}
      BY <1>6, <1>9 DEF Live
    <2> QED
      BY <1>5, <1>7, <2>1 DEF Range
  <1>12. \A i, j \in 1..e.size : e.slots[i] = e.slots[j] => i = j
    BY <1>5, <1>6, <1>7, <1>9 DEF IsInjective
  <1>13. Fed \cap e.open \subseteq Live(e)
    BY <1>6, <1>11, Zenon DEF WalkOK
  <1>14. Fed \subseteq open => Live(e) \subseteq e.open
    BY <1>6, <1>11, Zenon DEF WalkOK
  <1>15. \A d \in Conn \ Fed : e.times[d] = 0
    BY <1>6 DEF WalkOK
  <1>16. WalkOK(e)
    BY <1>10, <1>12, <1>13, <1>14, <1>15 DEF WalkOK, N
  <1> QED
    BY <1>16 DEF e

\* One turn of the loop.
LEMMA SendStep ==
    ASSUME TypeOK, NEW w, WalkOK(w), NEW c \in Fed, NEW m
    PROVE  WalkOK(Send(w, c, m))
  <1>1. CASE c \notin w.open
    BY <1>1 DEF Send
  <1>2. CASE c \in w.open /\ Buffered(c) + w.times[c] + Weight(m) > MaxOut
    <2>1. Send(w, c, m) = Erase(w, c)
      BY <1>2 DEF Send
    <2> QED
      BY <2>1, EraseStep
  <1>3. CASE c \in w.open /\ ~(Buffered(c) + w.times[c] + Weight(m) > MaxOut)
    <2> DEFINE e == [w EXCEPT !.times[c] = @ + 1]
    <2>1. Send(w, c, m) = e
      BY <1>3 DEF Send
    <2>2. /\ e.slots = w.slots /\ e.size = w.size /\ e.open = w.open
          /\ e.times = [w.times EXCEPT ![c] = @ + 1]
          /\ e \in [slots : [1..Len(replicas) -> Fed], size : 0..Len(replicas),
                    open : SUBSET open, times : [Conn -> Nat]]
      <3> DEFINE times == [w.times EXCEPT ![c] = @ + 1]
      <3>1. /\ w.slots \in [1..Len(replicas) -> Fed] /\ w.size \in 0..Len(replicas)
            /\ w.open \in SUBSET open /\ w.times \in [Conn -> Nat]
            /\ w = [slots |-> w.slots, size |-> w.size, open |-> w.open,
                    times |-> w.times]
        BY DEF WalkOK
      <3>2. times \in [Conn -> Nat]
        <4>1. c \in Conn
          BY DEF Fed, TypeOK
        <4> HIDE DEF e
        <4> QED
          BY <3>1, <4>1
      <3>3. e = [slots |-> w.slots, size |-> w.size, open |-> w.open, times |-> times]
        <4>1. e = [w EXCEPT !.times = times]
          OBVIOUS
        <4> HIDE DEF e, times
        <4> QED
          BY <3>1, <4>1
      <3> HIDE DEF e, times
      <3> QED
        BY <3>1, <3>2, <3>3 DEF times
    <2> HIDE DEF e
    <2>3. \A d \in Conn \ Fed : e.times[d] = 0
      BY <2>2 DEF WalkOK
    <2> QED
      BY <2>1, <2>2, <2>3 DEF WalkOK, Live
  <1> QED
    BY <1>1, <1>2, <1>3

\* The whole loop.
LEMMA WalkEnds ==
    ASSUME TypeOK, IsInjective(replicas), NEW m
    PROVE  WalkOK(Walk(m))
  <1> DEFINE N == Len(replicas)
             start == [slots |-> replicas, size |-> Len(replicas), open |-> open,
                       times |-> [c \in Conn |-> 0]]
             V == {w \in [slots : [1..N -> Fed], size : 0..N, open : SUBSET open,
                          times : [Conn -> Nat]] : WalkOK(w)}
             F == [i \in 1..N |-> [w \in V |-> Send(w, w.slots[i], m)]]
             Loop(g) == [i \in 0..N |->
                            IF i = 0 THEN start ELSE Send(g[i - 1], g[i - 1].slots[i], m)]
             walk == CHOOSE g : g = Loop(g)
  <1>1. Walk(m) = walk[N]
    BY DEF Walk
  <1>2. N \in Nat
    BY DEF TypeOK
  <1>3. start \in V
    <2>1. DOMAIN replicas = 1..N /\ replicas \in [1..N -> Fed]
      BY DEF TypeOK, Fed
    <2>2. start \in [slots : [1..N -> Fed], size : 0..N, open : SUBSET open,
                     times : [Conn -> Nat]]
      BY <1>2, <2>1
    <2>3. Live(start) = Fed
      BY <2>1 DEF Live, Fed
    <2>4. WalkOK(start)
      BY <2>1, <2>2, <2>3 DEF WalkOK, IsInjective
    <2> QED
      BY <2>2, <2>4
  <1>4. ASSUME NEW i \in 1..N, NEW w \in V
        PROVE  Send(w, w.slots[i], m) \in V
    <2>1. w.slots[i] \in Fed /\ WalkOK(w)
      OBVIOUS
    <2>2. WalkOK(Send(w, w.slots[i], m))
      BY <2>1, SendStep
    <2> QED
      BY <2>2 DEF WalkOK
  <1> HIDE DEF N, V, start
  <1>5. F \in [1..N -> [V -> V]]
    BY <1>4
  <1>6. PICK f : IsRun(f, N, V, start, F)
    <2> HIDE DEF F
    <2> QED
      BY <1>2, <1>3, <1>5, RunExists
  <1>7. f = Loop(f)
    <2>1. f \in [0..N -> V] /\ f[0] = start
      BY <1>6 DEF IsRun
    <2>2. ASSUME NEW i \in 1..N
          PROVE  f[i] = Send(f[i - 1], f[i - 1].slots[i], m)
      <3>1. f[i] = F[i][f[i - 1]]
        <4> HIDE DEF F
        <4> QED
          BY <1>6 DEF IsRun
      <3>2. f[i - 1] \in V
        BY <1>2, <2>1
      <3> QED
        BY <3>1, <3>2
    <2>3. ASSUME NEW i \in 0..N
          PROVE  f[i] = Loop(f)[i]
      <3>1. CASE i = 0
        BY <2>1, <3>1
      <3>2. CASE i # 0
        <4>1. i \in 1..N
          BY <1>2, <3>2
        <4> QED
          BY <2>2, <3>2, <4>1
      <3> QED
        BY <3>1, <3>2
    <2> QED
      BY <2>1, <2>3
  <1>8. walk = Loop(walk)
    <2> HIDE DEF Loop
    <2> QED
      BY <1>7
  <1> HIDE DEF walk
  <1>9. /\ walk[0] = start
        /\ \A i \in 1..N : walk[i] = Send(walk[i - 1], walk[i - 1].slots[i], m)
    <2>1. \A i \in 0..N : walk[i] = Loop(walk)[i]
      BY <1>8, Zenon
    <2> QED
      BY <1>2, <2>1
  <1>10. walk[N] \in V
    <2> DEFINE S == {i \in 0..N : walk[i] \in V}
    <2>1. 0 \in S
      BY <1>2, <1>3, <1>9
    <2>2. ASSUME NEW n \in 0..(N - 1), n \in S
          PROVE  n + 1 \in S
      <3>1. n + 1 \in 1..N /\ n + 1 \in 0..N /\ (n + 1) - 1 = n
        BY <1>2
      <3>2. walk[n + 1] = Send(walk[n], walk[n].slots[n + 1], m)
        BY <1>9, <3>1
      <3> QED
        BY <1>4, <2>2, <3>1, <3>2
    <2> HIDE DEF S
    <2>3. \A n \in 0..N : n \in S
      BY <1>2, <2>1, <2>2, BoundedInduction
    <2> QED
      BY <1>2, <2>3 DEF S
  <1> QED
    BY <1>1, <1>10 DEF V

-----------------------------------------------------------------------------
(***************************************************************************)
(* The output buffer of a session is empty once all of its stream is sent. *)
(***************************************************************************)
LEMMA NothingBuffered ==
    ASSUME TypeOK, NEW c \in Conn, sent[c] = Len(stream[c])
    PROVE  Buffered(c) = 0
  <1> DEFINE W(i) == [j \in DOMAIN stream[c] |-> Weight(stream[c][j])][i]
             E == (sent[c] + 1)..Len(stream[c])
             Pick(s) == CHOOSE x \in s : TRUE
             Iter(g) == [s \in SUBSET E |->
                            IF s = {} THEN 0 ELSE W(Pick(s)) + g[s \ {Pick(s)}]]
             iter == CHOOSE g : g = Iter(g)
             zero == [s \in SUBSET E |-> 0]
  <1>1. Buffered(c) = iter[E]
    BY DEF Buffered, SumFunctionOnSet, FoldFunctionOnSet, MapThenFoldSet
  <1>2. E = {}
    BY DEF TypeOK
  <1> HIDE DEF E
  <1>3. zero = Iter(zero)
    BY <1>2
  <1>4. iter = Iter(iter)
    <2> HIDE DEF Iter
    <2> QED
      BY <1>3
  <1> HIDE DEF iter
  <1>5. iter[E] = Iter(iter)[E]
    BY <1>4, Zenon
  <1> QED
    BY <1>1, <1>2, <1>5

-----------------------------------------------------------------------------
(***************************************************************************)
(* The invariant, overflow or not.                                         *)
(***************************************************************************)

\* The session of c: what it has been sent and what it has been asked.
LinkOK(c) ==
    /\ sent[c] <= Len(stream[c])
    /\ stream[c] # << >> => stream[c][1] = Ok
    /\ c \in Fed => stream[c] # << >>
    /\ c \in open \ Fed => Len(stream[c]) <= 1
    /\ request[c].type = "port" => stream[c] = << >>
    /\ request[c].type = "psync" =>
           c \notin Fed /\ Len(stream[c]) = 1 /\ sent[c] = 1
    /\ c[2] > conn[c[1]] =>
           c \notin open /\ stream[c] = << >> /\ request[c] = NoRequest /\ acked[c] = 0

\* The link thread of r has read as much as its state says.
ThreadOK(r) ==
    link[r] # "connecting" =>
        /\ conn[r] > 0
        /\ received[r] <= sent[Current(r)]
        /\ link[r] = "handshaking" =>
               /\ received[r] = 0
               /\ Len(stream[Current(r)]) <= 1
               /\ Current(r) \notin Fed
               /\ request[Current(r)].type # "psync"
        /\ link[r] = "syncing" => received[r] = 1
        /\ link[r] = "connected" => received[r] > 1
        /\ link[r] # "connected" =>
               acked[Current(r)] = 0 /\ request[Current(r)].type # "ack"

\* No link is fed twice, and what is remembered of a session goes with it.
VectorOK ==
    /\ IsInjective(replicas)
    /\ ports \subseteq open
    /\ SnapshotWeight <= MaxOut => Fed \subseteq open

Links == \A c \in Conn : LinkOK(c)

Threads == \A r \in Replica : ThreadOK(r)

Structure == TypeOK /\ Links /\ Threads /\ VectorOK

\* A connection is a pair.
LEMMA ConnPairs ==
    /\ \A c \in Conn : c[1] \in Replica /\ c[2] \in 1..MaxConn /\ c = <<c[1], c[2]>>
    /\ \A r \in Replica : \A k \in 1..MaxConn :
           <<r, k>> \in Conn /\ <<r, k>>[1] = r /\ <<r, k>>[2] = k
  BY DEF Conn

\* The connection of a replica whose thread is not between two of them.
LEMMA CurrentConn ==
    ASSUME TypeOK, NEW r \in Replica, conn[r] > 0
    PROVE  Current(r) \in Conn /\ Current(r)[1] = r /\ Current(r)[2] = conn[r]
  BY ConnPairs DEF Current, TypeOK

LEMMA FedType ==
    ASSUME TypeOK
    PROVE  Fed \subseteq Conn /\ Fed = Range(replicas)
  BY DEF TypeOK, Fed, Range

\* What a thread reads is a message of its connection.
LEMMA MessageRead ==
    ASSUME Structure, NEW r \in Replica, Arrived(r)
    PROVE  /\ link[r] # "connecting"
           /\ Current(r) \in Conn
           /\ received[r] + 1 \in 1..Len(stream[Current(r)])
           /\ received[r] + 1 <= sent[Current(r)]
           /\ NextMessage(r) \in Message
  <1>1. link[r] # "connecting" /\ received[r] < sent[Current(r)]
    BY DEF Arrived
  <1>2. Current(r) \in Conn
    BY <1>1, CurrentConn DEF Structure, Threads, ThreadOK
  <1>3. /\ received[r] \in Nat /\ sent[Current(r)] \in Nat
        /\ stream[Current(r)] \in Seq(Message)
    BY <1>2 DEF Structure, TypeOK
  <1>4. sent[Current(r)] <= Len(stream[Current(r)])
    BY <1>2 DEF Structure, Links, LinkOK
  <1>5. received[r] + 1 \in 1..Len(stream[Current(r)])
    BY <1>1, <1>3, <1>4
  <1> QED
    BY <1>1, <1>2, <1>3, <1>5 DEF NextMessage

\* The streams only grow, and only those of fed links.
Grows ==
    /\ stream' \in [Conn -> Seq(Message)]
    /\ \A c \in Conn :
           /\ Len(stream[c]) <= Len(stream'[c])
           /\ \A i \in 1..Len(stream[c]) : stream'[c][i] = stream[c][i]
           /\ c \notin Fed => stream'[c] = stream[c]

\* Every fed link gets the write.
LEMMA QuietGrows ==
    ASSUME TypeOK, NEW m \in Message, PropagateQuiet(m)
    PROVE  Grows
  <1>1. ASSUME NEW c \in Conn
        PROVE  /\ stream'[c] \in Seq(Message)
               /\ Len(stream[c]) <= Len(stream'[c])
               /\ \A i \in 1..Len(stream[c]) : stream'[c][i] = stream[c][i]
               /\ c \notin Fed => stream'[c] = stream[c]
    <2>1. stream[c] \in Seq(Message) /\ stream'[c] \in {stream[c], Append(stream[c], m)}
      BY DEF TypeOK, PropagateQuiet
    <2>2. c \notin Fed => stream'[c] = stream[c]
      BY DEF PropagateQuiet
    <2> QED
      BY <2>1, <2>2
  <1>2. stream' = [c \in Conn |-> stream'[c]]
    BY DEF PropagateQuiet
  <1> QED
    BY <1>1, <1>2 DEF Grows

\* The loop over the shrinking vector leaves a vector of fed, open links, and has
\* sent to fed links only.
LEMMA OverflowGrows ==
    ASSUME TypeOK, IsInjective(replicas), NEW m \in Message, PropagateOverflow(m)
    PROVE  /\ Grows
           /\ replicas' \in Seq(Conn) /\ IsInjective(replicas')
           /\ Fed' \subseteq Fed
           /\ open' \subseteq open
           /\ Fed \cap open' \subseteq Fed'
           /\ Fed \subseteq open => Fed' \subseteq open'
           /\ ports' = ports \ (open \ open')
  <1> DEFINE w == Walk(m)
  <1>1. WalkOK(w)
    BY WalkEnds
  <1>2. /\ stream' = [c \in Conn |-> stream[c] \o [i \in 1..w.times[c] |-> m]]
        /\ replicas' = SubSeq(w.slots, 1, w.size)
        /\ open' = w.open
        /\ ports' = ports \ (open \ w.open)
    BY DEF PropagateOverflow
  <1> HIDE DEF w
  <1>3. /\ Len(replicas) \in Nat /\ w.slots \in [1..Len(replicas) -> Fed]
        /\ w.size \in 0..Len(replicas) /\ w.open \subseteq open
        /\ w.times \in [Conn -> Nat]
    BY <1>1 DEF WalkOK, TypeOK
  <1>4. w.slots \in Seq(Fed) /\ Len(w.slots) = Len(replicas)
    BY <1>3
  <1>5. /\ replicas' \in Seq(Fed) /\ Len(replicas') = w.size
        /\ \A i \in 1..w.size : replicas'[i] = w.slots[i]
    BY <1>2, <1>3, <1>4, PrefixOf
  <1>6. Fed' = Live(w) /\ DOMAIN replicas' = 1..w.size
    BY <1>5 DEF Fed, Live
  <1>7. IsInjective(replicas')
    BY <1>1, <1>5, <1>6 DEF IsInjective, WalkOK
  <1>8. replicas' \in Seq(Conn)
    <2>1. Fed \subseteq Conn
      BY FedType
    <2> QED
      BY <1>5, <2>1, SeqMonotonic
  <1>9. Fed' \subseteq Fed
    BY <1>3, <1>6 DEF Live
  <1>10. Grows
    <2>1. ASSUME NEW c \in Conn
          PROVE  /\ stream'[c] \in Seq(Message)
                 /\ Len(stream[c]) <= Len(stream'[c])
                 /\ \A i \in 1..Len(stream[c]) : stream'[c][i] = stream[c][i]
                 /\ c \notin Fed => stream'[c] = stream[c]
      <3> DEFINE q == [i \in 1..w.times[c] |-> m]
                 st == stream[c]
      <3>1. stream'[c] = st \o q
        BY <1>2, Zenon
      <3>2. st \in Seq(Message) /\ w.times[c] \in Nat
        BY <1>3 DEF TypeOK
      <3>3. q \in Seq(Message) /\ Len(q) = w.times[c]
        BY <3>2
      <3>4. c \notin Fed => q = << >>
        BY <1>1 DEF WalkOK
      <3> HIDE DEF q, st
      <3>5. /\ st \o q \in Seq(Message)
            /\ Len(st) <= Len(st \o q)
            /\ \A i \in 1..Len(st) : (st \o q)[i] = st[i]
        BY <3>2, <3>3
      <3>6. c \notin Fed => st \o q = st
        BY <3>2, <3>4, EmptySeq
      <3> QED
        BY <3>1, <3>5, <3>6 DEF st
    <2>2. stream' = [c \in Conn |-> stream'[c]]
      BY <1>2, Zenon
    <2> QED
      BY <2>1, <2>2 DEF Grows
  <1> QED
    BY <1>1, <1>2, <1>3, <1>6, <1>7, <1>8, <1>9, <1>10 DEF WalkOK

-----------------------------------------------------------------------------
(***************************************************************************)
(* Every step keeps the types.                                             *)
(***************************************************************************)
LEMMA TypeStep ==
    ASSUME Structure, Next
    PROVE  TypeOK'
  <1> USE DEF masterVars, replicaVars
  <1>1. TypeOK
    BY DEF Structure
  <1>2. CASE ClientWrite
    <2>1. Command(written + 1) \in Message /\ written' \in Nat
      BY <1>1, <1>2 DEF Command, Message, TypeOK, ClientWrite
    <2>2. /\ Grows /\ replicas' \in Seq(Conn) /\ ports' \subseteq ports
          /\ open' \subseteq open /\ invalidated' \in BOOLEAN
      <3>1. CASE PropagateQuiet(Command(written + 1))
        <4>1. Grows
          BY <1>1, <2>1, <3>1, QuietGrows
        <4> QED
          BY <1>1, <3>1, <4>1 DEF PropagateQuiet, TypeOK
      <3>2. CASE PropagateOverflow(Command(written + 1))
        <4>1. IsInjective(replicas)
          BY DEF Structure, VectorOK
        <4>2. /\ Grows /\ replicas' \in Seq(Conn) /\ open' \subseteq open
              /\ ports' = ports \ (open \ open')
          BY <1>1, <2>1, <3>2, <4>1, OverflowGrows
        <4> QED
          BY <3>2, <4>2 DEF PropagateOverflow
      <3> QED
        BY <1>2, <3>1, <3>2 DEF ClientWrite
    <2> QED
      BY <1>1, <1>2, <2>1, <2>2 DEF TypeOK, ClientWrite, Grows
  <1>3. ASSUME NEW c \in Conn, HandleRequest(c)
        PROVE  TypeOK'
    <2>1. request' \in [Conn -> Request] /\ request[c].n \in Nat
      BY <1>1, <1>3 DEF TypeOK, HandleRequest, Request, NoRequest
    <2>2. UNCHANGED <<written, sent, conn, link, received, offset, posted, data,
                      invalidated>>
      BY <1>3 DEF HandleRequest
    <2>3. /\ replicas' \in Seq(Conn) /\ ports' \in SUBSET Conn
          /\ acked' \in [Conn -> Nat] /\ open' \in SUBSET Conn
          /\ stream' \in [Conn -> Seq(Message)]
      <3>1. CASE set_replica_port(c)
        <4>1. Ok \in Message
          BY DEF Ok, Message
        <4> QED
          BY <1>1, <3>1, <4>1 DEF TypeOK, set_replica_port
      <3>2. CASE start_full_resync(c)
        <4>1. FullResync(written) \in Message
          BY <1>1 DEF FullResync, Message, TypeOK
        <4>2. replicas' \in Seq(Conn) /\ acked' \in [Conn -> Nat]
          BY <1>1, <3>2 DEF TypeOK, start_full_resync
        <4>3. ports' \in SUBSET Conn /\ open' \in SUBSET Conn
          BY <1>1, <3>2 DEF TypeOK, start_full_resync
        <4>4. stream' \in {stream, [stream EXCEPT ![c] = Append(@, FullResync(written))]}
          BY <3>2 DEF start_full_resync
        <4>5. stream' \in [Conn -> Seq(Message)]
          <5>1. CASE stream' = stream
            BY <1>1, <5>1 DEF TypeOK
          <5>2. CASE stream' = [stream EXCEPT ![c] = Append(@, FullResync(written))]
            BY <1>1, <4>1, <5>2 DEF TypeOK
          <5> QED
            BY <4>4, <5>1, <5>2
        <4> QED
          BY <4>2, <4>3, <4>5
      <3>3. CASE on_replica_ack(c, request[c].n)
        BY <1>1, <2>1, <3>3 DEF TypeOK, on_replica_ack
      <3> QED
        BY <1>3, <3>1, <3>2, <3>3 DEF HandleRequest
    <2> QED
      BY <1>1, <2>1, <2>2, <2>3 DEF TypeOK
  <1>4. ASSUME NEW c \in Conn, Transmit(c)
        PROVE  TypeOK'
    BY <1>1, <1>4 DEF TypeOK, Transmit
  <1>5. ASSUME NEW c \in Conn, Close(c)
        PROVE  TypeOK'
    <2>1. replicas' \in Seq(Conn)
      BY <1>1, <1>5, WithoutKeeps DEF TypeOK, Close
    <2> QED
      BY <1>1, <1>5, <2>1 DEF TypeOK, Close
  <1>6. ASSUME NEW r \in Replica, Connect(r)
        PROVE  TypeOK'
    <2>1. conn[r] + 1 \in 1..MaxConn
      BY <1>1, <1>6 DEF TypeOK, Connect
    <2>2. <<r, conn[r] + 1>> \in Conn
      BY <2>1, ConnPairs
    <2>3. [type |-> "port", n |-> 0] \in Request /\ "handshaking" \in LinkState
      BY DEF Request, LinkState
    <2> DEFINE c == <<r, conn[r] + 1>>
    <2>4. /\ conn' = [conn EXCEPT ![r] = @ + 1]
          /\ open' = open \cup {c}
          /\ request' = [request EXCEPT ![c] = [type |-> "port", n |-> 0]]
          /\ link' = [link EXCEPT ![r] = "handshaking"]
          /\ received' = [received EXCEPT ![r] = 0]
          /\ UNCHANGED <<written, replicas, ports, acked, stream, sent, offset,
                         posted, data, invalidated>>
      BY <1>6 DEF Connect
    <2> HIDE DEF c
    <2>5. c \in Conn
      BY <2>2 DEF c
    <2> QED
      BY <1>1, <2>1, <2>3, <2>4, <2>5 DEF TypeOK
  <1>7. ASSUME NEW r \in Replica, Psync(r)
        PROVE  TypeOK'
    <2>1. [type |-> "psync", n |-> 0] \in Request /\ "syncing" \in LinkState
      BY DEF Request, LinkState
    <2>2. received' \in [Replica -> Nat]
      BY <1>1, <1>7 DEF TypeOK, Psync
    <2>3. link' \in [Replica -> LinkState]
      BY <1>1, <1>7, <2>1 DEF TypeOK, Psync
    <2>4. request' \in [Conn -> Request]
      BY <1>1, <1>7, <2>1, Zenon DEF TypeOK, Psync
    <2>5. UNCHANGED <<masterVars, conn, offset, posted, data, invalidated>>
      BY <1>7 DEF Psync
    <2> QED
      BY <1>1, <2>2, <2>3, <2>4, <2>5 DEF TypeOK
  <1>8. ASSUME NEW r \in Replica, LoadSnapshot(r) \/ ReadCommand(r)
        PROVE  TypeOK'
    <2> DEFINE m == NextMessage(r)
    <2>1. m \in Message
      BY <1>8, MessageRead DEF LoadSnapshot, ReadCommand
    <2>2. /\ m.type \in {"rdb", "cmd"}
          /\ received' = [received EXCEPT ![r] = @ + 1]
          /\ posted' = [posted EXCEPT ![r] = Append(@, m)]
          /\ offset' \in {[offset EXCEPT ![r] = m.n], [offset EXCEPT ![r] = @ + 1]}
          /\ link' \in {[link EXCEPT ![r] = "connected"], link}
          /\ UNCHANGED <<masterVars, request, conn, data, invalidated>>
      BY <1>8 DEF LoadSnapshot, ReadCommand
    <2> HIDE DEF m
    <2>3. m \in [type : {"rdb", "cmd"}, n : Nat] /\ m.n \in Nat
      BY <2>1, <2>2 DEF Message
    <2>4. posted' \in [Replica -> Seq([type : {"rdb", "cmd"}, n : Nat])]
      BY <1>1, <2>2, <2>3 DEF TypeOK
    <2>5. received' \in [Replica -> Nat]
      BY <1>1, <2>2 DEF TypeOK
    <2>6. offset' \in [Replica -> Nat]
      <3>1. CASE offset' = [offset EXCEPT ![r] = m.n]
        BY <1>1, <2>3, <3>1 DEF TypeOK
      <3>2. CASE offset' = [offset EXCEPT ![r] = @ + 1]
        BY <1>1, <3>2 DEF TypeOK
      <3> QED
        BY <2>2, <3>1, <3>2
    <2>7. link' \in [Replica -> LinkState]
      BY <1>1, <2>2, Zenon DEF TypeOK, LinkState
    <2>8. UNCHANGED <<masterVars, request, conn, data, invalidated>>
      BY <2>2
    <2> QED
      BY <1>1, <2>4, <2>5, <2>6, <2>7, <2>8 DEF TypeOK
  <1>9. ASSUME NEW r \in Replica, SendAck(r)
        PROVE  TypeOK'
    <2>1. [type |-> "ack", n |-> offset[r]] \in Request
      BY <1>1 DEF Request, TypeOK
    <2> QED
      BY <1>1, <1>9, <2>1, Zenon DEF TypeOK, SendAck
  <1>10. ASSUME NEW r \in Replica, LoseLink(r)
         PROVE  TypeOK'
    BY <1>1, <1>10 DEF TypeOK, LoseLink, LinkState
  <1>11. ASSUME NEW r \in Replica, RunPosted(r)
         PROVE  TypeOK'
    <2> DEFINE Task == [type : {"rdb", "cmd"}, n : Nat]
    <2>1. posted[r] \in Seq(Task) /\ posted[r] # << >> /\ data[r] \in Seq(Nat)
      BY <1>1, <1>11 DEF TypeOK, RunPosted
    <2>2. Head(posted[r]) \in Task /\ Tail(posted[r]) \in Seq(Task)
      BY <2>1, HeadTail, Zenon
    <2>3. Applied(data[r], Head(posted[r])) \in Seq(Nat)
      <3> DEFINE t == Head(posted[r])
      <3>1. t.n \in Nat
        BY <2>2
      <3> HIDE DEF t
      <3>2. Snapshot(t.n) \in Seq(Nat)
        BY <3>1 DEF Snapshot
      <3>3. Append(data[r], t.n) \in Seq(Nat)
        BY <2>1, <3>1
      <3> QED
        BY <3>2, <3>3 DEF Applied, t
    <2>4. data' \in [Replica -> Seq(Nat)]
      BY <1>1, <1>11, <2>3 DEF TypeOK, RunPosted
    <2>5. posted' \in [Replica -> Seq(Task)]
      BY <1>1, <1>11, <2>2 DEF TypeOK, RunPosted
    <2> QED
      BY <1>1, <1>11, <2>4, <2>5 DEF TypeOK, RunPosted
  <1> QED
    BY <1>2, <1>3, <1>4, <1>5, <1>6, <1>7, <1>8, <1>9, <1>10, <1>11
       DEF Next, MasterNext, ReplicaNext

-----------------------------------------------------------------------------
(***************************************************************************)
(* Every step keeps the rest of Structure.                                 *)
(***************************************************************************)

\* A link is pushed to the vector.
LEMMA FedAppend ==
    ASSUME TypeOK, NEW c \in Conn, replicas' = Append(replicas, c)
    PROVE  /\ Fed' = Fed \cup {c}
           /\ IsInjective(replicas) /\ c \notin Fed => IsInjective(replicas')
  <1>1. /\ replicas \in Seq(Conn) /\ Len(replicas) \in Nat
        /\ DOMAIN replicas = 1..Len(replicas)
        /\ DOMAIN replicas' = 1..(Len(replicas) + 1)
        /\ \A i \in 1..Len(replicas) : replicas'[i] = replicas[i]
        /\ replicas'[Len(replicas) + 1] = c
    BY DEF TypeOK
  <1>2. Fed' = Fed \cup {c}
    <2>1. \A x \in Fed' : x \in Fed \cup {c}
      BY <1>1 DEF Fed
    <2>2. \A x \in Fed : x \in Fed'
      BY <1>1 DEF Fed
    <2>3. c \in Fed'
      BY <1>1 DEF Fed
    <2> QED
      BY <2>1, <2>2, <2>3
  <1>3. ASSUME IsInjective(replicas), c \notin Fed
        PROVE  IsInjective(replicas')
    <2>1. \A i \in 1..Len(replicas) : replicas[i] # c
      BY <1>1, <1>3 DEF Fed
    <2> QED
      BY <1>1, <1>3, <2>1 DEF IsInjective
  <1> QED
    BY <1>2, <1>3

\* on_disconnect takes a link out of the vector.
LEMMA FedWithout ==
    ASSUME TypeOK, NEW c, replicas' = Without(replicas, c)
    PROVE  /\ Fed' = Fed \ {c}
           /\ IsInjective(replicas) => IsInjective(replicas')
  <1>1. /\ replicas \in Seq(Conn)
        /\ Range(replicas') = Range(replicas) \ {c}
        /\ IsInjective(replicas) => IsInjective(replicas')
    BY WithoutKeeps DEF TypeOK
  <1> QED
    BY <1>1 DEF Fed, Range

\* Sends reach fed links only, and the vector loses only links that close.
LEMMA WriteStructure ==
    ASSUME Structure, ClientWrite
    PROVE  Links' /\ Threads' /\ VectorOK'
  <1>1. TypeOK /\ Command(written + 1) \in Message
    BY DEF Structure, TypeOK, Command, Message
  <1>2. /\ Grows /\ IsInjective(replicas')
        /\ Fed' \subseteq Fed /\ open' \subseteq open /\ Fed \cap open' \subseteq Fed'
        /\ Fed \subseteq open => Fed' \subseteq open'
        /\ ports' = ports \ (open \ open')
    <2>1. IsInjective(replicas)
      BY DEF Structure, VectorOK
    <2>2. CASE PropagateQuiet(Command(written + 1))
      <3>1. Fed' = Fed
        BY <2>2 DEF PropagateQuiet, Fed
      <3> QED
        BY <1>1, <2>1, <2>2, <3>1, QuietGrows DEF PropagateQuiet
    <2>3. CASE PropagateOverflow(Command(written + 1))
      BY <1>1, <2>1, <2>3, OverflowGrows
    <2> QED
      BY <2>2, <2>3 DEF ClientWrite
  <1>3. UNCHANGED <<acked, sent, request, conn, link, received>>
    BY DEF ClientWrite, replicaVars
  <1>4. ASSUME NEW d \in Conn
        PROVE  LinkOK(d)'
    <2>1. /\ LinkOK(d) /\ stream[d] \in Seq(Message) /\ stream'[d] \in Seq(Message)
          /\ sent[d] \in Nat
      BY <1>1, <1>2, Zenon DEF Structure, Links, Grows, TypeOK
    <2>2. /\ Len(stream[d]) <= Len(stream'[d])
          /\ \A i \in 1..Len(stream[d]) : stream'[d][i] = stream[d][i]
          /\ d \notin Fed => stream'[d] = stream[d]
      BY <1>2 DEF Grows
    <2>3. stream[d] # << >> => stream'[d] # << >> /\ stream'[d][1] = stream[d][1]
      BY <2>1, <2>2, EmptySeq
    <2>4. d \in Fed => stream[d] # << >>
      BY <2>1 DEF LinkOK
    <2>5. d \in open' \ Fed' => d \in open \ Fed
      BY <1>2
    <2>6. sent'[d] <= Len(stream'[d])
      BY <1>3, <2>1, <2>2 DEF LinkOK
    <2> QED
      BY <1>2, <1>3, <2>1, <2>2, <2>3, <2>4, <2>5, <2>6 DEF LinkOK
  <1>5. ASSUME NEW r \in Replica
        PROVE  ThreadOK(r)'
    <2> DEFINE c == Current(r)
    <2>1. ThreadOK(r) /\ Current(r)' = Current(r)
      BY <1>3 DEF Structure, Threads, Current
    <2>2. link[r] # "connecting" => c \in Conn
      BY <1>1, <2>1, CurrentConn DEF ThreadOK
    <2>3. link[r] = "handshaking" => c \notin Fed' /\ stream'[c] = stream[c]
      BY <1>2, <2>1, <2>2 DEF ThreadOK, Grows
    <2> QED
      BY <1>3, <2>1, <2>2, <2>3 DEF ThreadOK
  <1>6. VectorOK'
    BY <1>2 DEF Structure, VectorOK
  <1> QED
    BY <1>4, <1>5, <1>6 DEF Links, Threads

\* REPLCONF listening-port is answered on an empty stream.
LEMMA PortStructure ==
    ASSUME Structure, NEW c \in Conn, HandleRequest(c), set_replica_port(c),
           request[c].type = "port"
    PROVE  Links' /\ Threads' /\ VectorOK'
  <1>1. TypeOK /\ LinkOK(c) /\ c \in open
    BY DEF Structure, Links, HandleRequest
  <1>2. /\ request' = [request EXCEPT ![c] = NoRequest]
        /\ stream' = [stream EXCEPT ![c] = Append(@, Ok)]
        /\ UNCHANGED <<sent, conn, link, received, replicas, acked, open>>
        /\ Fed' = Fed /\ ports' = ports \cup {c}
    BY DEF HandleRequest, set_replica_port, replicaVars, Fed
  <1>3. stream[c] = << >> /\ c \notin Fed /\ stream'[c] = <<Ok>> /\ request'[c] = NoRequest
    BY <1>1, <1>2 DEF LinkOK, TypeOK
  <1>4. ASSUME NEW d \in Conn
        PROVE  LinkOK(d)'
    <2>1. LinkOK(d)
      BY DEF Structure, Links
    <2>2. CASE d = c
      <3>1. stream'[d] # << >> /\ stream'[d][1] = Ok /\ Len(stream'[d]) = 1
        <4>1. <<Ok>>[1] = Ok /\ Len(<<Ok>>) = 1
          OBVIOUS
        <4>2. <<Ok>> # << >>
          OBVIOUS
        <4> QED
          BY <1>3, <2>2, <4>1, <4>2, Zenon
      <3>2. sent'[d] <= Len(stream'[d])
        BY <1>1, <1>2, <1>3, <2>2, <3>1 DEF LinkOK, TypeOK
      <3>3. request'[d].type = "none" /\ ~(d[2] > conn'[d[1]])
        BY <1>1, <1>2, <1>3, <2>2 DEF NoRequest, LinkOK
      <3> QED
        BY <3>1, <3>2, <3>3, <1>2 DEF LinkOK
    <2>3. CASE d # c
      <3>1. stream'[d] = stream[d] /\ request'[d] = request[d]
        BY <1>1, <1>2, <2>3 DEF TypeOK
      <3> QED
        BY <1>2, <2>1, <3>1, Zenon DEF LinkOK
    <2> QED
      BY <2>2, <2>3
  <1>5. ASSUME NEW r \in Replica
        PROVE  ThreadOK(r)'
    <2>1. ThreadOK(r) /\ Current(r)' = Current(r)
      BY <1>2 DEF Structure, Threads, Current
    <2>2. CASE Current(r) = c
      <3>1. request'[c].type = "none" /\ Len(stream'[c]) = 1
        BY <1>3 DEF NoRequest
      <3> QED
        BY <1>2, <2>1, <2>2, <3>1 DEF ThreadOK
    <2>3. CASE Current(r) # c
      <3>1. /\ stream'[Current(r)] = stream[Current(r)]
            /\ request'[Current(r)] = request[Current(r)]
        BY <1>1, <1>2, <2>3 DEF TypeOK
      <3> QED
        BY <1>2, <2>1, <3>1, Zenon DEF ThreadOK
    <2> QED
      BY <2>2, <2>3
  <1>6. VectorOK'
    BY <1>1, <1>2 DEF Structure, VectorOK
  <1> QED
    BY <1>4, <1>5, <1>6 DEF Links, Threads

\* A snapshot goes to a link that was not fed, on an empty output buffer.
LEMMA ResyncStructure ==
    ASSUME Structure, NEW c \in Conn, HandleRequest(c), start_full_resync(c),
           request[c].type = "psync"
    PROVE  Links' /\ Threads' /\ VectorOK'
  <1>1. TypeOK /\ LinkOK(c) /\ c \in open
    BY DEF Structure, Links, HandleRequest
  <1>2. /\ request' = [request EXCEPT ![c] = NoRequest]
        /\ acked' = [acked EXCEPT ![c] = 0]
        /\ replicas' = Append(replicas, c)
        /\ UNCHANGED <<sent, conn, link, received>>
    BY DEF HandleRequest, start_full_resync, replicaVars
  <1>3. c \notin Fed /\ Len(stream[c]) = 1 /\ sent[c] = 1 /\ ~(c[2] > conn[c[1]])
    BY <1>1 DEF LinkOK
  <1>4. Fed' = Fed \cup {c} /\ IsInjective(replicas')
    BY <1>1, <1>2, <1>3, FedAppend DEF Structure, VectorOK
  <1>5. \/ /\ SnapshotWeight > MaxOut
           /\ open' = open \ {c} /\ ports' = ports \ {c} /\ stream' = stream
        \/ /\ stream' = [stream EXCEPT ![c] = Append(@, FullResync(written))]
           /\ open' = open /\ ports' = ports
    <2>1. Buffered(c) = 0
      BY <1>1, <1>3, NothingBuffered, Zenon
    <2>2. Overflows(c, FullResync(written)) <=> SnapshotWeight > MaxOut
      BY <2>1 DEF Overflows, Weight, FullResync
    <2> QED
      BY <2>2 DEF start_full_resync
  <1>6. /\ stream'[c] # << >> /\ stream'[c][1] = stream[c][1]
        /\ Len(stream'[c]) >= 1 /\ stream[c] # << >>
        /\ \A d \in Conn \ {c} : stream'[d] = stream[d]
    <2>1. stream[c] \in Seq(Message) /\ stream[c] # << >>
      <3>1. stream[c] \in Seq(Message)
        BY <1>1 DEF TypeOK
      <3>2. Len(stream[c]) # 0
        BY <1>3
      <3> QED
        BY <3>1, <3>2, EmptySeq
    <2>2. FullResync(written) \in Message
      BY <1>1 DEF TypeOK, FullResync, Message
    <2>3. CASE stream' = stream
      BY <1>3, <2>1, <2>3
    <2>4. CASE stream' = [stream EXCEPT ![c] = Append(@, FullResync(written))]
      <3>1. /\ stream'[c] = Append(stream[c], FullResync(written))
            /\ \A d \in Conn \ {c} : stream'[d] = stream[d]
        BY <1>1, <2>4 DEF TypeOK
      <3> QED
        BY <1>3, <2>1, <2>2, <3>1
    <2> QED
      BY <1>5, <2>3, <2>4
  <1>7. open' \subseteq open /\ ports' \subseteq open' /\ open \ {c} \subseteq open'
    BY <1>5 DEF Structure, VectorOK
  <1>8. ASSUME NEW d \in Conn
        PROVE  LinkOK(d)'
    <2>1. LinkOK(d)
      BY DEF Structure, Links
    <2>2. CASE d = c
      <3>1. request'[d].type = "none"
        BY <1>1, <1>2, <2>2, Zenon DEF NoRequest, TypeOK
      <3>2. sent'[d] <= Len(stream'[d])
        BY <1>2, <1>3, <1>6, <2>2, Zenon
      <3> QED
        BY <1>2, <1>3, <1>4, <1>6, <2>1, <2>2, <3>1, <3>2 DEF LinkOK
    <2>3. CASE d # c
      <3>1. /\ stream'[d] = stream[d] /\ request'[d] = request[d]
            /\ acked'[d] = acked[d]
        BY <1>1, <1>2, <1>6, <2>3, Zenon DEF TypeOK
      <3>2. (d \in Fed' <=> d \in Fed) /\ (d \in open' <=> d \in open)
        BY <1>4, <1>7, <2>3, Zenon
      <3> QED
        BY <1>2, <2>1, <3>1, <3>2, Zenon DEF LinkOK
    <2> QED
      BY <2>2, <2>3
  <1>9. ASSUME NEW r \in Replica
        PROVE  ThreadOK(r)'
    <2>1. ThreadOK(r) /\ Current(r)' = Current(r)
      BY <1>2 DEF Structure, Threads, Current
    <2>2. CASE Current(r) = c
      <3>1. request'[c].type = "none" /\ acked'[c] = 0
        BY <1>1, <1>2, Zenon DEF NoRequest, TypeOK
      <3>2. link[r] # "handshaking"
        BY <2>1, <2>2 DEF ThreadOK
      <3> QED
        BY <1>2, <2>1, <2>2, <3>1, <3>2 DEF ThreadOK
    <2>3. CASE Current(r) # c
      <3>1. link[r] # "connecting" => Current(r) \in Conn
        BY <1>1, <2>1, CurrentConn, Zenon DEF ThreadOK
      <3>2. link[r] # "connecting" =>
                /\ stream'[Current(r)] = stream[Current(r)]
                /\ request'[Current(r)] = request[Current(r)]
                /\ acked'[Current(r)] = acked[Current(r)]
                /\ Current(r) \in Fed' <=> Current(r) \in Fed
        BY <1>1, <1>2, <1>4, <1>6, <2>3, <3>1 DEF TypeOK
      <3> QED
        BY <1>2, <2>1, <3>2, Zenon DEF ThreadOK
    <2> QED
      BY <2>2, <2>3
  <1>10. VectorOK'
    <2>1. SnapshotWeight <= MaxOut => Fed' \subseteq open'
      BY <1>1, <1>4, <1>5 DEF Structure, VectorOK
    <2> QED
      BY <1>4, <1>7, <2>1, Zenon DEF VectorOK
  <1> QED
    BY <1>8, <1>9, <1>10 DEF Links, Threads

\* REPLCONF ACK comes from a connected replica.
LEMMA AckStructure ==
    ASSUME Structure, NEW c \in Conn, HandleRequest(c),
           on_replica_ack(c, request[c].n), request[c].type = "ack"
    PROVE  Links' /\ Threads' /\ VectorOK'
  <1>1. TypeOK /\ LinkOK(c) /\ c \in open
    BY DEF Structure, Links, HandleRequest
  <1>2. /\ request' = [request EXCEPT ![c] = NoRequest]
        /\ UNCHANGED <<sent, conn, link, received, replicas, ports, open, stream>>
        /\ Fed' = Fed
    BY DEF HandleRequest, on_replica_ack, replicaVars, Fed
  <1>3. \A d \in Conn \ {c} : acked'[d] = acked[d]
    BY <1>1 DEF on_replica_ack, TypeOK
  <1>4. ASSUME NEW d \in Conn
        PROVE  LinkOK(d)'
    <2>1. LinkOK(d)
      BY DEF Structure, Links
    <2>2. CASE d = c
      <3>1. request'[d].type = "none"
        BY <1>1, <1>2, <2>2, Zenon DEF NoRequest, TypeOK
      <3>2. ~(d[2] > conn'[d[1]])
        BY <1>1, <1>2, <2>2 DEF LinkOK
      <3> QED
        BY <1>2, <2>1, <3>1, <3>2 DEF LinkOK
    <2>3. CASE d # c
      <3>1. request'[d] = request[d] /\ acked'[d] = acked[d]
        BY <1>1, <1>2, <1>3, <2>3 DEF TypeOK
      <3> QED
        BY <1>2, <2>1, <3>1 DEF LinkOK
    <2> QED
      BY <2>2, <2>3
  <1>5. ASSUME NEW r \in Replica
        PROVE  ThreadOK(r)'
    <2>1. ThreadOK(r) /\ Current(r)' = Current(r)
      BY <1>2, Zenon DEF Structure, Threads, Current
    <2>2. CASE Current(r) = c
      <3>1. request'[c].type = "none"
        BY <1>1, <1>2 DEF NoRequest, TypeOK
      <3>2. link[r] \in {"connecting", "connected"}
        BY <2>1, <2>2, Zenon DEF ThreadOK
      <3> QED
        BY <1>2, <2>1, <2>2, <3>1, <3>2 DEF ThreadOK
    <2>3. CASE Current(r) # c
      <3>1. link[r] # "connecting" => Current(r) \in Conn
        BY <1>1, <2>1, CurrentConn DEF ThreadOK
      <3>2. link[r] # "connecting" =>
                /\ request'[Current(r)] = request[Current(r)]
                /\ acked'[Current(r)] = acked[Current(r)]
        BY <1>1, <1>2, <1>3, <2>3, <3>1 DEF TypeOK
      <3> QED
        BY <1>2, <2>1, <3>2, Zenon DEF ThreadOK
    <2> QED
      BY <2>2, <2>3
  <1>6. VectorOK'
    BY <1>2 DEF Structure, VectorOK
  <1> QED
    BY <1>4, <1>5, <1>6 DEF Links, Threads

\* Sending and closing: a session that is gone is in neither table.
LEMMA SessionStructure ==
    ASSUME Structure, NEW c \in Conn, Transmit(c) \/ Close(c)
    PROVE  Links' /\ Threads' /\ VectorOK'
  <1>1. TypeOK /\ c \in open
    BY DEF Structure, Transmit, Close
  <1>2. CASE Transmit(c)
    <2>1. /\ UNCHANGED <<replicas, ports, acked, open, stream, request, conn, link,
                         received>>
          /\ sent' = [sent EXCEPT ![c] = @ + 1] /\ sent[c] < Len(stream[c])
          /\ Fed' = Fed
      BY <1>2 DEF Transmit, replicaVars, Fed
    <2>2. ASSUME NEW d \in Conn
          PROVE  /\ sent[d] \in Nat /\ Len(stream[d]) \in Nat
                 /\ sent'[d] = IF d = c THEN sent[d] + 1 ELSE sent[d]
      BY <1>1, <2>1 DEF TypeOK
    <2>3. ASSUME NEW d \in Conn
          PROVE  LinkOK(d)'
      <3>1. LinkOK(d)
        BY Zenon DEF Structure, Links
      <3>2. sent'[d] <= Len(stream'[d])
        BY <2>1, <2>2, <3>1 DEF LinkOK
      <3>3. request[d].type = "psync" => d # c
        <4>1. request[d].type = "psync" => Len(stream[d]) = 1 /\ sent[d] = 1
          BY <3>1 DEF LinkOK
        <4>2. sent[c] # Len(stream[c])
          BY <2>1, <2>2
        <4> QED
          BY <4>1, <4>2, ZenonT(30)
      <3> QED
        BY <2>1, <2>2, <3>1, <3>2, <3>3 DEF LinkOK
    <2>4. ASSUME NEW r \in Replica
          PROVE  ThreadOK(r)'
      <3>1. ThreadOK(r) /\ Current(r)' = Current(r)
        BY <2>1, Zenon DEF Structure, Threads, Current
      <3>2. link[r] # "connecting" => Current(r) \in Conn
        BY <1>1, <3>1, CurrentConn DEF ThreadOK
      <3>3. link[r] # "connecting" => received[r] <= sent'[Current(r)]
        <4>1. received[r] \in Nat
          BY <1>1 DEF TypeOK
        <4>2. link[r] # "connecting" => received[r] <= sent[Current(r)]
          BY <3>1 DEF ThreadOK
        <4> QED
          BY <2>2, <3>2, <4>1, <4>2
      <3> QED
        BY <2>1, <3>1, <3>3 DEF ThreadOK
    <2> QED
      BY <2>1, <2>3, <2>4 DEF Structure, Links, Threads, VectorOK
  <1>3. CASE Close(c)
    <2>1. /\ UNCHANGED <<sent, acked, stream, request, conn, link, received>>
          /\ open' = open \ {c} /\ ports' = ports \ {c}
          /\ replicas' = Without(replicas, c)
      BY <1>3 DEF Close, replicaVars
    <2>2. Fed' = Fed \ {c} /\ (IsInjective(replicas) => IsInjective(replicas'))
      BY <1>1, <2>1, FedWithout, Zenon
    <2>3. ASSUME NEW d \in Conn
          PROVE  LinkOK(d)'
      <3>1. LinkOK(d)
        BY DEF Structure, Links
      <3> QED
        BY <2>1, <2>2, <3>1, Zenon DEF LinkOK
    <2>4. ASSUME NEW r \in Replica
          PROVE  ThreadOK(r)'
      <3>1. ThreadOK(r) /\ Current(r)' = Current(r)
        BY <2>1 DEF Structure, Threads, Current
      <3> QED
        BY <2>1, <2>2, <3>1 DEF ThreadOK
    <2>5. VectorOK'
      BY <2>1, <2>2 DEF Structure, VectorOK
    <2> QED
      BY <2>3, <2>4, <2>5 DEF Links, Threads
  <1> QED
    BY <1>2, <1>3

\* A replica connects: nothing has happened on the new connection.
LEMMA ConnectStructure ==
    ASSUME Structure, NEW r \in Replica, Connect(r)
    PROVE  Links' /\ Threads' /\ VectorOK'
  <1> DEFINE c == <<r, conn[r] + 1>>
  <1>1. TypeOK /\ conn[r] \in 0..MaxConn /\ conn[r] < MaxConn
    BY DEF Structure, TypeOK, Connect
  <1>2. c \in Conn /\ c[1] = r /\ c[2] = conn[r] + 1
    BY <1>1, ConnPairs
  <1>3. /\ conn' = [conn EXCEPT ![r] = @ + 1]
        /\ open' = open \cup {c}
        /\ request' = [request EXCEPT ![c] = [type |-> "port", n |-> 0]]
        /\ link' = [link EXCEPT ![r] = "handshaking"]
        /\ received' = [received EXCEPT ![r] = 0]
        /\ UNCHANGED <<replicas, ports, acked, stream, sent>>
        /\ Fed' = Fed
    BY DEF Connect, Fed
  <1>4. Current(r)' = c
    BY <1>1, <1>3, Zenon DEF Current, TypeOK
  <1> HIDE DEF c
  <1>5. /\ stream[c] = << >> /\ acked[c] = 0 /\ c \notin Fed /\ c \notin open
        /\ request'[c].type = "port" /\ sent[c] \in Nat
    BY <1>1, <1>2, <1>3 DEF Structure, Links, LinkOK, TypeOK
  <1>6. Len(stream[c]) = 0
    BY <1>5, EmptySeq
  <1>7. ASSUME NEW d \in Conn
        PROVE  LinkOK(d)'
    <2>1. LinkOK(d) /\ d[1] \in Replica /\ d[2] \in Nat /\ conn[d[1]] \in Nat
      BY <1>1, ConnPairs DEF Structure, Links, TypeOK
    <2>2. conn'[d[1]] = IF d[1] = r THEN conn[r] + 1 ELSE conn[d[1]]
      <3>1. conn \in [Replica -> Nat] /\ d[1] \in Replica
        BY <1>1, <2>1 DEF TypeOK
      <3> QED
        BY <1>3, <3>1, Zenon
    <2>3. CASE d = c
      <3>1. ~(d[2] > conn'[d[1]])
        BY <1>1, <1>2, <2>2, <2>3
      <3>2. sent'[d] <= Len(stream'[d]) /\ stream'[d] = << >> /\ Len(stream'[d]) <= 1
        <4>1. sent[c] <= Len(stream[c])
          BY <2>1, <2>3, Zenon DEF LinkOK
        <4>2. stream'[d] = << >> /\ Len(stream'[d]) = 0 /\ sent'[d] = sent[c]
          BY <1>3, <1>5, <1>6, <2>3, Zenon
        <4> QED
          BY <1>5, <1>6, <4>1, <4>2
      <3>3. d \notin Fed' /\ request'[d].type = "port" /\ "port" # "psync"
        BY <1>3, <1>5, <2>3, Zenon
      <3> QED
        BY <3>1, <3>2, <3>3, Zenon DEF LinkOK
    <2>4. CASE d # c
      <3>1. request'[d] = request[d] /\ (d \in open' <=> d \in open)
        BY <1>1, <1>3, <2>4 DEF TypeOK
      <3>2. d[2] > conn'[d[1]] => d[2] > conn[d[1]]
        BY <1>1, <2>1, <2>2
      <3> QED
        BY <1>3, <2>1, <3>1, <3>2 DEF LinkOK
    <2> QED
      BY <2>3, <2>4
  <1>8. ASSUME NEW q \in Replica
        PROVE  ThreadOK(q)'
    <2>1. CASE q = r
      <3>1. link'[r] = "handshaking" /\ received'[r] = 0 /\ conn'[r] > 0
        BY <1>1, <1>3 DEF TypeOK
      <3> QED
        BY <1>3, <1>4, <1>5, <1>6, <2>1, <3>1 DEF ThreadOK
    <2>2. CASE q # r
      <3>1. /\ link'[q] = link[q] /\ conn'[q] = conn[q] /\ received'[q] = received[q]
            /\ Current(q)' = Current(q) /\ ThreadOK(q)
        BY <1>1, <1>3, <2>2, Zenon DEF Structure, Threads, Current, TypeOK
      <3>2. link[q] # "connecting" => Current(q) \in Conn /\ Current(q)[1] = q
        BY <1>1, <3>1, CurrentConn DEF ThreadOK
      <3>3. link[q] # "connecting" => request'[Current(q)] = request[Current(q)]
        BY <1>1, <1>2, <1>3, <2>2, <3>2, Zenon DEF TypeOK
      <3> QED
        BY <1>3, <3>1, <3>3, Zenon DEF ThreadOK
    <2> QED
      BY <2>1, <2>2, Zenon
  <1>9. VectorOK'
    BY <1>3 DEF Structure, VectorOK
  <1> QED
    BY <1>7, <1>8, <1>9 DEF Links, Threads

\* Two replicas have different connections.
LEMMA CurrentOwn ==
    ASSUME NEW r \in Replica, NEW q \in Replica, q # r
    PROVE  Current(q) # Current(r)
  BY DEF Current

\* +OK to the announced port: the replica asks for a resync.
LEMMA PsyncStructure ==
    ASSUME Structure, NEW r \in Replica, Psync(r)
    PROVE  Links' /\ Threads' /\ VectorOK'
  <1> DEFINE c == Current(r)
  <1>1. TypeOK /\ Arrived(r) /\ link[r] = "handshaking"
    BY DEF Structure, Psync
  <1>2. /\ request' = [request EXCEPT ![c] = [type |-> "psync", n |-> 0]]
        /\ link' = [link EXCEPT ![r] = "syncing"]
        /\ received' = [received EXCEPT ![r] = @ + 1]
        /\ UNCHANGED <<replicas, ports, acked, open, stream, sent, conn>>
        /\ Fed' = Fed
    BY DEF Psync, masterVars, Fed
  <1>3. c \in Conn /\ received[r] + 1 <= sent[c]
    BY <1>1, MessageRead
  <1>4. \A q \in Replica : Current(q)' = Current(q)
    BY <1>2 DEF Current
  <1>5. ThreadOK(r) /\ LinkOK(c)
    BY <1>3, Zenon DEF Structure, Threads, Links
  <1>6. c[1] = r /\ c[2] = conn[r]
    BY <1>1, <1>5, CurrentConn DEF ThreadOK
  <1>7. \A q \in Replica : q # r => Current(q) # c
    BY CurrentOwn
  <1> HIDE DEF c
  <1>8. /\ received[r] = 0 /\ c \notin Fed /\ Len(stream[c]) = 1 /\ sent[c] = 1
        /\ acked[c] = 0
    <2>1. received[r] = 0 /\ c \notin Fed /\ Len(stream[c]) <= 1 /\ acked[c] = 0
      BY <1>1, <1>5 DEF ThreadOK, c
    <2>2. sent[c] <= Len(stream[c]) /\ sent[c] \in Nat /\ Len(stream[c]) \in Nat
      BY <1>1, <1>3, <1>5 DEF LinkOK, TypeOK
    <2>3. 0 + 1 <= sent[c]
      BY <1>3, <2>1
    <2>4. \A i, j \in Nat : 0 + 1 <= i /\ i <= j /\ j <= 1 => i = 1 /\ j = 1
      OBVIOUS
    <2>5. Len(stream[c]) = 1 /\ sent[c] = 1
      BY <2>1, <2>2, <2>3, <2>4, Zenon
    <2> QED
      BY <2>1, <2>5
  <1>9. request'[c].type = "psync"
    BY <1>1, <1>2, <1>3 DEF TypeOK
  <1>10. ASSUME NEW d \in Conn
         PROVE  LinkOK(d)'
    <2>1. LinkOK(d)
      BY Zenon DEF Structure, Links
    <2>2. CASE d = c
      <3>1. ~(d[2] > conn'[d[1]])
        BY <1>1, <1>2, <1>6, <2>2 DEF TypeOK
      <3> QED
        BY <1>2, <1>8, <1>9, <2>1, <2>2, <3>1, Zenon DEF LinkOK
    <2>3. CASE d # c
      <3>1. request'[d] = request[d]
        BY <1>1, <1>2, <2>3, Zenon DEF TypeOK
      <3> QED
        BY <1>2, <2>1, <3>1 DEF LinkOK
    <2> QED
      BY <2>2, <2>3
  <1>11. ASSUME NEW q \in Replica
         PROVE  ThreadOK(q)'
    <2>1. CASE q = r
      <3>1. link'[r] = "syncing" /\ received'[r] = 1
        BY <1>1, <1>2, <1>8 DEF TypeOK
      <3>2. conn[r] > 0
        BY <1>1, <1>5, Zenon DEF ThreadOK
      <3> QED
        BY <1>2, <1>4, <1>8, <1>9, <2>1, <3>1, <3>2 DEF ThreadOK, c
    <2>2. CASE q # r
      <3>1. /\ link'[q] = link[q] /\ received'[q] = received[q] /\ ThreadOK(q)
            /\ request'[Current(q)] = request[Current(q)]
        BY <1>1, <1>2, <1>7, <2>2 DEF Structure, Threads, TypeOK
      <3> QED
        BY <1>2, <1>4, <3>1, Zenon DEF ThreadOK
    <2> QED
      BY <2>1, <2>2
  <1>12. VectorOK'
    BY <1>2 DEF Structure, VectorOK
  <1> QED
    BY <1>10, <1>11, <1>12 DEF Links, Threads

\* A connected thread reads, acknowledges or loses its link; the loop runs a task.
LEMMA ThreadStructure ==
    ASSUME Structure, NEW r \in Replica,
           LoadSnapshot(r) \/ ReadCommand(r) \/ SendAck(r) \/ LoseLink(r) \/ RunPosted(r)
    PROVE  Links' /\ Threads' /\ VectorOK'
  <1>1. TypeOK /\ ThreadOK(r)
    BY Zenon DEF Structure, Threads
  <1>2. /\ UNCHANGED <<replicas, ports, acked, open, stream, sent, conn>>
        /\ Fed' = Fed /\ \A q \in Replica : Current(q)' = Current(q)
    BY ZenonT(30) DEF LoadSnapshot, ReadCommand, SendAck, LoseLink, RunPosted, masterVars,
           replicaVars, Fed, Current
  <1>3. VectorOK'
    BY <1>2 DEF Structure, VectorOK
  <1>4. CASE LoadSnapshot(r) \/ ReadCommand(r) \/ LoseLink(r) \/ RunPosted(r)
    <2>1. request' = request
      BY <1>4 DEF LoadSnapshot, ReadCommand, LoseLink, RunPosted
    <2>2. Links'
      BY <1>2, <2>1, Zenon DEF Structure, Links, LinkOK
    <2>3. \A q \in Replica \ {r} : link'[q] = link[q] /\ received'[q] = received[q]
      <3>1. received \in [Replica -> Nat] /\ DOMAIN link = Replica
        BY <1>1 DEF TypeOK
      <3>2. CASE LoadSnapshot(r) \/ ReadCommand(r)
        BY <3>1, <3>2, Zenon DEF LoadSnapshot, ReadCommand
      <3>3. CASE LoseLink(r)
        BY <3>1, <3>3, Zenon DEF LoseLink
      <3>4. CASE RunPosted(r)
        BY <3>4, Zenon DEF RunPosted
      <3> QED
        BY <1>4, <3>2, <3>3, <3>4, Zenon
    <2>4. \A q \in Replica \ {r} : ThreadOK(q)'
      BY <1>2, <2>1, <2>3, ZenonT(30) DEF Structure, Threads, ThreadOK
    <2>5. ThreadOK(r)'
      <3>1. CASE LoadSnapshot(r) \/ ReadCommand(r)
        <4>1. /\ link[r] \in {"syncing", "connected"} /\ link'[r] = "connected"
              /\ received'[r] = received[r] + 1 /\ Arrived(r) /\ received[r] \in Nat
          BY <1>1, <3>1 DEF TypeOK, LoadSnapshot, ReadCommand
        <4>2. received[r] + 1 <= sent[Current(r)]
          BY <4>1, MessageRead, Zenon
        <4>3. received[r] >= 1 /\ conn[r] > 0
          <5>1. conn[r] > 0 /\ (received[r] = 1 \/ received[r] > 1)
            BY <1>1, <4>1, Zenon DEF ThreadOK
          <5> QED
            BY <4>1, <5>1
        <4>4. received'[r] > 1 /\ received'[r] <= sent[Current(r)]
          BY <4>1, <4>2, <4>3
        <4>5. "connected" # "handshaking" /\ "connected" # "syncing"
          OBVIOUS
        <4> QED
          BY <1>2, <4>1, <4>3, <4>4, <4>5, Zenon DEF ThreadOK
      <3>2. CASE LoseLink(r)
        <4>1. link'[r] = "connecting"
          BY <1>1, <3>2, Zenon DEF TypeOK, LoseLink
        <4> QED
          BY <4>1 DEF ThreadOK
      <3>3. CASE RunPosted(r)
        BY <1>1, <1>2, <2>1, <3>3, Zenon DEF ThreadOK, RunPosted
      <3> QED
        BY <1>4, <3>1, <3>2, <3>3
    <2> QED
      BY <1>3, <2>2, <2>4, <2>5 DEF Threads
  <1>5. CASE SendAck(r)
    <2> DEFINE c == Current(r)
    <2>1. /\ request' = [request EXCEPT ![c] = [type |-> "ack", n |-> offset[r]]]
          /\ link[r] = "connected" /\ UNCHANGED <<link, received>>
      <3>1. request' = [request EXCEPT ![c] = [type |-> "ack", n |-> offset[r]]]
        BY <1>5, Zenon DEF SendAck
      <3>2. link[r] = "connected" /\ UNCHANGED <<link, received>>
        BY <1>5, Zenon DEF SendAck, replicaVars
      <3> QED
        BY <3>1, <3>2, Zenon
    <2>2. c \in Conn /\ c[1] = r /\ c[2] = conn[r]
      BY <1>1, <2>1, CurrentConn DEF ThreadOK
    <2>3. \A q \in Replica : q # r => Current(q) # c
      BY CurrentOwn
    <2> HIDE DEF c
    <2>4. request'[c].type = "ack"
      BY <1>1, <2>1, <2>2 DEF TypeOK
    <2>5. ASSUME NEW d \in Conn
          PROVE  LinkOK(d)'
      <3>1. LinkOK(d)
        BY Zenon DEF Structure, Links
      <3>2. CASE d = c
        <4>1. ~(d[2] > conn'[d[1]])
          BY <1>1, <1>2, <2>2, <3>2 DEF TypeOK
        <4> QED
          BY <1>2, <2>4, <3>1, <3>2, <4>1, Zenon DEF LinkOK
      <3>3. CASE d # c
        <4>1. request'[d] = request[d]
          BY <1>1, <2>1, <3>3 DEF TypeOK
        <4> QED
          BY <1>2, <3>1, <4>1, Zenon DEF LinkOK
      <3> QED
        BY <3>2, <3>3
    <2>6. ASSUME NEW q \in Replica
          PROVE  ThreadOK(q)'
      <3>1. ThreadOK(q)
        BY Zenon DEF Structure, Threads
      <3>2. CASE q = r
        BY <1>2, <2>1, <3>1, <3>2, ZenonT(30) DEF ThreadOK
      <3>3. CASE q # r
        <4>1. request'[Current(q)] = request[Current(q)]
          BY <1>1, <2>1, <2>3, <3>3 DEF TypeOK
        <4> QED
          BY <1>2, <2>1, <3>1, <4>1, Zenon DEF ThreadOK
      <3> QED
        BY <3>2, <3>3
    <2> QED
      BY <1>3, <2>5, <2>6, Zenon DEF Links, Threads
  <1> QED
    BY <1>4, <1>5

\* Structure is inductive.
LEMMA StructureStep ==
    ASSUME Structure, [Next]_vars
    PROVE  Structure'
  <1>1. CASE UNCHANGED vars
    BY <1>1 DEF vars, masterVars, replicaVars, Structure, TypeOK, Links, LinkOK, Threads,
                ThreadOK, VectorOK, Fed, Current
  <1>2. CASE Next
    <2>1. TypeOK'
      BY <1>2, TypeStep, Zenon
    <2>2. ASSUME NEW c \in Conn, HandleRequest(c)
          PROVE  Links' /\ Threads' /\ VectorOK'
      BY <2>2, PortStructure, ResyncStructure, AckStructure, Zenon DEF HandleRequest
    <2>3. Links' /\ Threads' /\ VectorOK'
      BY <1>2, <2>2, WriteStructure, SessionStructure, ConnectStructure,
         PsyncStructure, ThreadStructure DEF Next, MasterNext, ReplicaNext
    <2> QED
      BY <2>1, <2>3 DEF Structure
  <1> QED
    BY <1>1, <1>2, Zenon

\* Nothing has happened at the start.
LEMMA StructureInit ==
    ASSUME Init
    PROVE  Structure
  <1>1. TypeOK
    <2>1. NoRequest \in Request /\ "connecting" \in LinkState /\ OwnData \in Seq(Nat)
      BY DEF Request, NoRequest, LinkState, OwnData
    <2>2. /\ written \in Nat /\ replicas \in Seq(Conn) /\ ports \in SUBSET Conn
          /\ open \in SUBSET Conn
      BY DEF Init
    <2>3. /\ conn \in [Replica -> 0..MaxConn] /\ link \in [Replica -> LinkState]
          /\ received \in [Replica -> Nat] /\ offset \in [Replica -> Nat]
          /\ data \in [Replica -> Seq(Nat)]
      BY <2>1 DEF Init
    <2>4. /\ acked \in [Conn -> Nat] /\ sent \in [Conn -> Nat]
          /\ request \in [Conn -> Request]
      BY <2>1 DEF Init
    <2>5. /\ stream \in [Conn -> Seq(Message)]
          /\ posted \in [Replica -> Seq([type : {"rdb", "cmd"}, n : Nat])]
      BY DEF Init
    <2>6. invalidated \in BOOLEAN
      BY Zenon DEF Init
    <2> QED
      BY <2>2, <2>3, <2>4, <2>5, <2>6 DEF TypeOK
  <1>2. Fed = {}
    BY DEF Init, Fed
  <1>3. Links
    BY <1>2 DEF Init, Links, LinkOK, NoRequest
  <1>4. Threads
    BY DEF Init, Threads, ThreadOK
  <1>5. VectorOK
    BY <1>2 DEF Init, VectorOK, IsInjective
  <1> QED
    BY <1>1, <1>3, <1>4, <1>5 DEF Structure

LEMMA StructureAlways == Spec => []Structure
  <1>1. Init => Structure
    BY StructureInit
  <1>2. Structure /\ [Next]_vars => Structure'
    BY StructureStep
  <1> QED
    BY <1>1, <1>2, PTL DEF Spec

\* The types of the replication state, overflows of propagate's loop included.
THEOREM TypeCorrect == Spec => []TypeOK
  <1>1. Structure => TypeOK
    BY DEF Structure
  <1> QED
    BY <1>1, StructureAlways, PTL

\* The vector of fed links and the table of ports hold nothing of a closed session,
\* and no link twice, even where propagate's loop runs over the vector that its own
\* sends shrink, as long as a snapshot fits the output buffer.
THEOREM FedLinksAlwaysOpen ==
    ASSUME SnapshotWeight <= MaxOut
    PROVE  Spec => []FedLinksOpen
  <1>1. Structure => FedLinksOpen
    BY DEF Structure, VectorOK, FedLinksOpen
  <1> QED
    BY <1>1, StructureAlways, PTL

-----------------------------------------------------------------------------
(***************************************************************************)
(* The invariant as long as no overflow has hit propagate's loop.          *)
(***************************************************************************)

\* The write at which the snapshot on c was taken.
Base(c) == stream[c][2].n

\* The last write on c.
Upto(c) == Base(c) + (Len(stream[c]) - 2)

\* Behind the snapshot come the writes that follow it, up to the last one of the
\* master where the link is fed.
StreamOK(c) ==
    /\ c \in Fed \cap open => Len(stream[c]) > 1
    /\ Len(stream[c]) > 1 =>
        /\ stream[c][2].type = "rdb"
        /\ \A i \in 3..Len(stream[c]) : stream[c][i] = Command(Base(c) + (i - 2))
        /\ Upto(c) <= written
        /\ c \in Fed \cap open => Upto(c) = written

\* What r shows when the event loop comes to the i-th posted task.
Front(r, i) == IF i = 1 THEN View(r) ELSE posted[r][i - 1].n

\* What r shows once all posted tasks have run.
Reaches(r) == Front(r, Len(posted[r]) + 1)

\* A command goes one write further, a snapshot never back.
TaskOK(r, i) ==
    /\ posted[r][i].n <= written
    /\ posted[r][i].type = "cmd" => Front(r, i) >= 0 /\ posted[r][i].n = Front(r, i) + 1
    /\ posted[r][i].type = "rdb" => Front(r, i) <= posted[r][i].n

QueueOK(r) == ShowsPrefix(r) /\ \A i \in 1..Len(posted[r]) : TaskOK(r, i)

\* The offset is what the posted tasks lead to and the place in the stream the
\* thread has come to; no acknowledgement is ahead of it.
OffsetOK(r) ==
    /\ link[r] = "syncing" /\ Len(stream[Current(r)]) > 1 =>
           Reaches(r) <= Base(Current(r))
    /\ link[r] = "connected" =>
           /\ Reaches(r) = offset[r]
           /\ offset[r] = Base(Current(r)) + (received[r] - 2)
           /\ acked[Current(r)] <= offset[r]
           /\ request[Current(r)].type = "ack" => request[Current(r)].n <= offset[r]

Streams == \A c \in Conn : StreamOK(c)

Queues == \A r \in Replica : QueueOK(r)

Offsets == \A r \in Replica : OffsetOK(r)

Contents == ~invalidated => Streams /\ Queues /\ Offsets

-----------------------------------------------------------------------------
(***************************************************************************)
(* What a replica shows.                                                   *)
(***************************************************************************)
LEMMA ViewIs ==
    ASSUME TypeOK, NEW r \in Replica, ShowsPrefix(r)
    PROVE  /\ View(r) \in Int /\ -1 <= View(r) /\ View(r) <= written
           /\ data[r] = OwnData => View(r) = -1
           /\ data[r] # OwnData =>
                  /\ View(r) = Len(data[r])
                  /\ \A i \in 1..Len(data[r]) : data[r][i] = i
  <1>1. written \in Nat /\ data[r] \in Seq(Nat)
    BY DEF TypeOK
  <1>2. Len(data[r]) \in Nat /\ DOMAIN data[r] = 1..Len(data[r])
    BY <1>1
  <1>3. CASE data[r] = OwnData
    <2>1. View(r) = -1
      BY <1>3 DEF View
    <2> QED
      BY <1>1, <1>3, <2>1
  <1>4. CASE data[r] # OwnData
    <2>1. View(r) = Len(data[r])
      BY <1>4 DEF View
    <2>2. Len(data[r]) <= written /\ \A i \in 1..Len(data[r]) : data[r][i] = i
      BY <1>2, <1>4 DEF ShowsPrefix
    <2> QED
      BY <1>1, <1>2, <1>4, <2>1, <2>2
  <1> QED
    BY <1>3, <1>4

\* Further writes of the master do not change it.
LEMMA ViewKeeps ==
    ASSUME TypeOK, NEW r \in Replica, ShowsPrefix(r), data'[r] = data[r],
           written' \in Nat, written <= written'
    PROVE  ShowsPrefix(r)' /\ View(r)' = View(r)
  <1>1. written \in Nat /\ Len(data[r]) \in Nat
    BY DEF TypeOK
  <1>2. ShowsPrefix(r)'
    BY <1>1 DEF ShowsPrefix
  <1> QED
    BY <1>2 DEF View

\* A keyspace that holds the first n writes shows n.
LEMMA ViewPrefix ==
    ASSUME NEW r \in Replica, NEW d \in Seq(Nat), data'[r] = d, written' \in Nat,
           Len(d) <= written', \A i \in 1..Len(d) : d[i] = i
    PROVE  ShowsPrefix(r)' /\ View(r)' = Len(d)
  <1>1. Len(d) \in Nat /\ DOMAIN d = 1..Len(d)
    OBVIOUS
  <1>2. d # OwnData
    <2>1. OwnData[1] = 0 /\ Len(OwnData) = 1
      BY DEF OwnData
    <2>2. Len(d) = 1 => d[1] = 1
      OBVIOUS
    <2> QED
      BY <2>1, <2>2
  <1>3. ShowsPrefix(r)'
    BY <1>1, Zenon DEF ShowsPrefix
  <1> QED
    BY <1>2, <1>3, Zenon DEF View

Task == [type : {"rdb", "cmd"}, n : Nat]

\* A replica whose queue and keyspace a step leaves alone.
LEMMA QueueKeeps ==
    ASSUME TypeOK, NEW r \in Replica, QueueOK(r),
           data'[r] = data[r], posted'[r] = posted[r],
           written' \in Nat, written <= written'
    PROVE  QueueOK(r)' /\ Reaches(r)' = Reaches(r)
  <1>1. ShowsPrefix(r)' /\ View(r)' = View(r)
    BY ViewKeeps DEF QueueOK
  <1>2. \A i \in Nat : Front(r, i)' = Front(r, i)
    BY <1>1 DEF Front
  <1>3. written \in Nat /\ posted[r] \in Seq(Task) /\ Len(posted[r]) \in Nat
    BY DEF TypeOK, Task
  <1>4. ASSUME NEW i \in 1..Len(posted'[r])
        PROVE  TaskOK(r, i)'
    <2>1. TaskOK(r, i) /\ Front(r, i)' = Front(r, i)
      BY <1>2, <1>3 DEF QueueOK
    <2>2. posted[r][i] \in Task
      BY <1>3
    <2>3. posted[r][i].n \in Nat
      BY <2>2 DEF Task
    <2> QED
      BY <1>3, <2>1, <2>3 DEF TaskOK
  <1> QED
    BY <1>1, <1>2, <1>3, <1>4 DEF QueueOK, Reaches

\* The queue leads to a number of writes the master has executed.
LEMMA ReachesBounds ==
    ASSUME TypeOK, NEW r \in Replica, QueueOK(r)
    PROVE  Reaches(r) \in Int /\ Reaches(r) <= written
  <1>1. posted[r] \in Seq(Task) /\ Len(posted[r]) \in Nat
    BY DEF TypeOK, Task
  <1>2. CASE Len(posted[r]) = 0
    BY <1>2, ViewIs DEF Reaches, Front, QueueOK
  <1>3. CASE Len(posted[r]) # 0
    <2>1. /\ Len(posted[r]) \in 1..Len(posted[r])
          /\ Reaches(r) = posted[r][Len(posted[r])].n
      BY <1>1, <1>3 DEF Reaches, Front
    <2>2. posted[r][Len(posted[r])] \in Task
      BY <1>1, <2>1
    <2> QED
      BY <2>1, <2>2 DEF QueueOK, TaskOK, Task
  <1> QED
    BY <1>2, <1>3

\* The thread posts a task.
LEMMA QueuePost ==
    ASSUME TypeOK, NEW r \in Replica, QueueOK(r), NEW m \in Task,
           data' = data, posted' = [posted EXCEPT ![r] = Append(@, m)],
           written' = written, m.n <= written,
           m.type = "cmd" => Reaches(r) >= 0 /\ m.n = Reaches(r) + 1,
           m.type = "rdb" => Reaches(r) <= m.n
    PROVE  QueueOK(r)' /\ Reaches(r)' = m.n
  <1> DEFINE p == posted[r]
             q == posted'[r]
             N == Len(posted[r])
  <1>1. written \in Nat /\ p \in Seq(Task) /\ N \in Nat
    BY DEF TypeOK, Task
  <1>2. /\ q = Append(p, m) /\ Len(q) = N + 1 /\ q[N + 1] = m
        /\ \A i \in 1..N : q[i] = p[i]
    BY <1>1 DEF TypeOK
  <1>3. ShowsPrefix(r)' /\ View(r)' = View(r)
    BY <1>1, ViewKeeps DEF QueueOK
  <1>4. \A i \in 1..(N + 1) : Front(r, i)' = Front(r, i)
    <2>1. \A i \in 1..(N + 1) : i # 1 => i - 1 \in 1..N
      BY <1>1
    <2> HIDE DEF q, p, N
    <2> QED
      BY <1>2, <1>3, <2>1 DEF Front, q, p
  <1>5. ASSUME NEW i \in 1..Len(q)
        PROVE  TaskOK(r, i)'
    <2>1. CASE i \in 1..N
      <3>1. TaskOK(r, i) /\ i \in 1..(N + 1)
        BY <1>1, <2>1 DEF QueueOK
      <3> QED
        BY <1>2, <1>4, <2>1, <3>1 DEF TaskOK
    <2>2. CASE i = N + 1
      <3>1. Front(r, i)' = Reaches(r) /\ posted'[r][i] = m
        BY <1>1, <1>2, <1>4, <2>2, Zenon DEF Reaches
      <3> QED
        BY <3>1, Zenon DEF TaskOK
    <2> QED
      BY <1>1, <1>2, <2>1, <2>2
  <1>6. Reaches(r)' = m.n
    BY <1>1, <1>2 DEF Reaches, Front
  <1> QED
    BY <1>3, <1>5, <1>6 DEF QueueOK

\* The event loop runs the first task: the replica shows what it led to.
LEMMA QueueRun ==
    ASSUME TypeOK, NEW r \in Replica, QueueOK(r), RunPosted(r)
    PROVE  /\ QueueOK(r)' /\ Reaches(r)' = Reaches(r)
           /\ View(r)' = posted[r][1].n
           /\ View(r) <= View(r)' /\ View(r)' <= written
  <1> DEFINE p == posted[r]
             q == posted'[r]
             N == Len(posted[r])
             t == posted[r][1]
             d == data[r]
  <1>1. written \in Nat /\ p \in Seq(Task) /\ N \in Nat /\ d \in Seq(Nat)
    BY DEF TypeOK, Task
  <1>2. p # << >> /\ written' = written
    BY DEF RunPosted, masterVars
  <1>3. N >= 1 /\ t \in Task /\ Head(p) = t
    BY <1>1, <1>2, HeadTail
  <1>4. /\ q = Tail(p) /\ q \in Seq(Task) /\ Len(q) = N - 1
        /\ \A i \in 1..(N - 1) : q[i] = p[i + 1]
    <2>1. q = Tail(p)
      BY DEF RunPosted, TypeOK
    <2> HIDE DEF q, p
    <2> QED
      BY <1>1, <1>2, <2>1, HeadTail, Zenon DEF p
  <1>5. data'[r] = Applied(d, t)
    BY <1>3, Zenon DEF RunPosted, TypeOK
  <1>6. /\ t.n \in Nat /\ t.n <= written
        /\ t.type = "cmd" => View(r) >= 0 /\ t.n = View(r) + 1
        /\ t.type = "rdb" => View(r) <= t.n
    <2>1. TaskOK(r, 1) /\ Front(r, 1) = View(r)
      BY <1>1, <1>3 DEF QueueOK, Front
    <2> QED
      BY <1>3, <2>1 DEF TaskOK, Task
  <1>7. ShowsPrefix(r)' /\ View(r)' = t.n
    <2>1. CASE t.type = "rdb"
      <3> DEFINE e == Snapshot(t.n)
      <3>1. e \in Seq(Nat) /\ Len(e) = t.n /\ \A i \in 1..t.n : e[i] = i
        BY <1>6 DEF Snapshot
      <3>2. data'[r] = e
        BY <1>5, <2>1, Zenon DEF Applied
      <3> HIDE DEF e
      <3> QED
        BY <1>1, <1>2, <1>6, <3>1, <3>2, ViewPrefix, Zenon
    <2>2. CASE t.type = "cmd"
      <3> DEFINE e == Append(d, t.n)
      <3>1. d # OwnData /\ View(r) = Len(d) /\ \A i \in 1..Len(d) : d[i] = i
        BY <1>6, <2>2, ViewIs DEF QueueOK
      <3>2. e \in Seq(Nat) /\ Len(e) = t.n /\ \A i \in 1..t.n : e[i] = i
        BY <1>1, <1>6, <2>2, <3>1
      <3>3. data'[r] = e
        BY <1>5, <2>2, Zenon DEF Applied
      <3> HIDE DEF e
      <3> QED
        BY <1>1, <1>2, <1>6, <3>2, <3>3, ViewPrefix
    <2> QED
      BY <1>3, <2>1, <2>2, Zenon DEF Task
  <1>8. View(r) <= View(r)' /\ View(r)' <= written
    <2>1. View(r) \in Int
      BY ViewIs DEF QueueOK
    <2> QED
      BY <1>3, <1>6, <1>7, <2>1 DEF Task
  <1>9. ASSUME NEW i \in 1..N
        PROVE  Front(r, i)' = Front(r, i + 1)
    <2>1. CASE i = 1
      BY <1>1, <1>7, <2>1 DEF Front
    <2>2. CASE i # 1
      <3>1. i - 1 \in 1..(N - 1) /\ (i - 1) + 1 = i /\ i + 1 # 1 /\ (i + 1) - 1 = i
        BY <1>1, <2>2
      <3>2. q[i - 1] = p[i]
        BY <1>4, <3>1, Zenon
      <3> QED
        BY <2>2, <3>1, <3>2 DEF Front
    <2> QED
      BY <2>1, <2>2
  <1>10. ASSUME NEW i \in 1..Len(q)
         PROVE  TaskOK(r, i)'
    <2>1. i \in 1..N /\ i + 1 \in 1..N /\ posted'[r][i] = posted[r][i + 1]
      BY <1>1, <1>4
    <2>2. TaskOK(r, i + 1) /\ Front(r, i)' = Front(r, i + 1)
      BY <1>9, <2>1 DEF QueueOK
    <2> QED
      BY <1>2, <2>1, <2>2, Zenon DEF TaskOK
  <1>11. Reaches(r)' = Reaches(r)
    <2>1. Len(posted'[r]) + 1 = N
      BY <1>1, <1>4
    <2> QED
      BY <1>3, <1>9, <1>1, <2>1 DEF Reaches
  <1> QED
    BY <1>7, <1>8, <1>10, <1>11, Zenon DEF QueueOK

-----------------------------------------------------------------------------
(***************************************************************************)
(* The streams.                                                            *)
(***************************************************************************)

\* A link that gets nothing, and is fed only if it was.
LEMMA StreamKeeps ==
    ASSUME NEW c \in Conn, StreamOK(c), stream'[c] = stream[c], written' = written,
           c \in Fed' \cap open' => c \in Fed \cap open
    PROVE  StreamOK(c)'
  BY DEF StreamOK, Base, Upto

\* Erasing a link adds none.
LEMMA CloseShrinks ==
    ASSUME TypeOK, NEW c \in Conn, Close(c)
    PROVE  Fed' \cap open' \subseteq Fed \cap open
  <1>1. replicas \in Seq(Conn)
    BY DEF TypeOK
  <1>2. Fed' = Fed \ {c}
    BY <1>1, FedWithout DEF Close
  <1> QED
    BY <1>2 DEF Close

\* A write that overflows nowhere goes to every link that is fed.
LEMMA WriteStreams ==
    ASSUME Structure, Streams, ClientWrite, ~invalidated'
    PROVE  Streams'
  <1> DEFINE k == written + 1
  <1>1. TypeOK /\ written \in Nat /\ written' = k /\ PropagateQuiet(Command(k))
    <2>1. ~PropagateOverflow(Command(k))
      BY ZenonT(30) DEF PropagateOverflow
    <2> QED
      BY <2>1 DEF Structure, TypeOK, ClientWrite
  <1>2. /\ Fed' = Fed /\ open' = open
        /\ \A c \in Conn : stream'[c] =
              IF c \in Fed \cap open THEN Append(stream[c], Command(k)) ELSE stream[c]
    BY <1>1 DEF PropagateQuiet, Fed
  <1> SUFFICES ASSUME NEW c \in Conn
               PROVE  StreamOK(c)'
    BY DEF Streams
  <1>3. StreamOK(c) /\ stream[c] \in Seq(Message) /\ Len(stream[c]) \in Nat
    BY <1>1 DEF Streams, TypeOK
  <1>4. CASE c \notin Fed \cap open
    <2>1. stream'[c] = stream[c]
      BY <1>2, <1>4
    <2>2. Len(stream[c]) > 1 => Upto(c) \in Int
      <3>1. ASSUME Len(stream[c]) > 1
            PROVE  stream[c][2] \in Message
        BY <1>3, <3>1
      <3> QED
        BY <1>3, <3>1 DEF Upto, Base, Message
    <2>3. Len(stream[c]) > 1 => Upto(c) <= written'
      BY <1>1, <1>3, <2>2 DEF StreamOK
    <2> QED
      BY <1>2, <1>3, <1>4, <2>1, <2>3, Zenon DEF StreamOK, Base, Upto
  <1>5. CASE c \in Fed \cap open
    <2> DEFINE m == Command(k)
               N == Len(stream[c])
    <2>1. N > 1 /\ N \in Nat /\ Upto(c) = written /\ stream[c][2].type = "rdb"
      BY <1>3, <1>5 DEF StreamOK
    <2>2. m \in Message
      BY <1>1 DEF Command, Message
    <2>3. /\ Len(stream'[c]) = N + 1 /\ stream'[c][N + 1] = m
          /\ \A i \in 1..N : stream'[c][i] = stream[c][i]
      <3>1. stream'[c] = Append(stream[c], m)
        BY <1>2, <1>5, Zenon
      <3> HIDE DEF m
      <3> QED
        BY <1>3, <2>2, <3>1, Appended
    <2>4. stream'[c][2] = stream[c][2] /\ Base(c)' = Base(c)
      BY <2>1, <2>3 DEF Base
    <2>5. Base(c) \in Nat /\ Base(c) + (N - 2) = written
      <3>1. stream[c][2] \in Message
        BY <1>3, <2>1
      <3> QED
        BY <2>1, <3>1 DEF Base, Upto, Message
    <2>6. Base(c) + ((N + 1) - 2) = k
      BY <1>1, <2>1, <2>5
    <2>7. ASSUME NEW i \in 3..(N + 1)
          PROVE  stream'[c][i] = Command(Base(c) + (i - 2))
      <3>1. CASE i = N + 1
        BY <2>3, <2>6, <3>1, Zenon
      <3>2. CASE i # N + 1
        <4>1. i \in 3..N /\ i \in 1..N
          BY <2>1, <3>2
        <4> QED
          BY <1>3, <2>1, <2>3, <4>1 DEF StreamOK
      <3> QED
        BY <3>1, <3>2
    <2>8. Upto(c)' = k
      BY <2>3, <2>4, <2>6, Zenon DEF Upto
    <2> HIDE DEF m, N, k
    <2>9. Len(stream'[c]) > 1
      BY <2>1, <2>3
    <2>10. k \in Nat /\ k <= k
      BY <1>1 DEF k
    <2> QED
      BY <1>1, <2>1, <2>3, <2>4, <2>7, <2>8, <2>9, <2>10, Zenon DEF StreamOK
  <1> QED
    BY <1>4, <1>5

\* A full resync puts the snapshot of this moment on the link.
LEMMA ResyncStreams ==
    ASSUME Structure, Streams, NEW c \in Conn, request[c].type = "psync",
           start_full_resync(c), written' = written
    PROVE  /\ Streams'
           /\ \A d \in Conn \ {c} : stream'[d] = stream[d]
           /\ Len(stream'[c]) > 1 => Base(c)' = written
  <1>1. TypeOK /\ written \in Nat /\ stream[c] \in Seq(Message) /\ Len(stream[c]) = 1
    BY DEF Structure, TypeOK, Links, LinkOK
  <1>2. Fed' = Fed \cup {c}
    <2>1. replicas' = Append(replicas, c)
      BY ZenonT(30) DEF start_full_resync
    <2> QED
      BY <1>1, <2>1, FedAppend, Zenon
  <1> DEFINE m == FullResync(written)
  <1>3. m \in Message /\ m.n = written /\ m.type = "rdb"
    BY <1>1 DEF FullResync, Message
  <1>4. CASE Overflows(c, m)
    <2>1. stream' = stream /\ open' = open \ {c}
      BY <1>4 DEF start_full_resync
    <2>2. \A d \in Conn : StreamOK(d)'
      BY <1>2, <2>1, StreamKeeps DEF Streams
    <2>3. ~(Len(stream'[c]) > 1)
      <3>1. ~(1 > 1)
        OBVIOUS
      <3> QED
        BY <1>1, <2>1, <3>1, Zenon
    <2> QED
      BY <2>1, <2>2, <2>3, Zenon DEF Streams
  <1>5. CASE ~Overflows(c, m)
    <2>1. stream' = [stream EXCEPT ![c] = Append(@, m)] /\ open' = open
      BY <1>5 DEF start_full_resync
    <2> HIDE DEF m
    <2>2. /\ \A d \in Conn \ {c} : stream'[d] = stream[d]
          /\ Len(stream'[c]) = 2 /\ stream'[c][2] = m
      <3>1. stream'[c] = Append(stream[c], m) /\ \A d \in Conn \ {c} : stream'[d] = stream[d]
        BY <1>1, <2>1 DEF TypeOK
      <3> QED
        BY <1>1, <1>3, <3>1, Appended
    <2>3. Base(c)' = written /\ Upto(c)' = written
      BY <1>1, <1>3, <2>2 DEF Base, Upto
    <2>4. StreamOK(c)'
      BY <1>1, <1>3, <2>2, <2>3 DEF StreamOK
    <2>5. \A d \in Conn \ {c} : StreamOK(d)'
      BY <1>2, <2>1, <2>2, StreamKeeps, Zenon DEF Streams
    <2> QED
      BY <2>2, <2>3, <2>4, <2>5, Zenon DEF Streams
  <1> QED
    BY <1>4, <1>5, Zenon

\* +OK is the first message of a session that is not fed yet.
LEMMA PortStreams ==
    ASSUME Structure, Streams, NEW c \in Conn, request[c].type = "port",
           set_replica_port(c), written' = written
    PROVE  /\ Streams'
           /\ \A d \in Conn \ {c} : stream'[d] = stream[d]
           /\ Len(stream[c]) = 0 /\ Len(stream'[c]) = 1
  <1>1. TypeOK /\ stream[c] = << >> /\ c \notin Fed
    BY DEF Structure, Links, LinkOK
  <1>2. Fed' = Fed /\ open' = open
    BY DEF set_replica_port, Fed
  <1>3. /\ \A d \in Conn \ {c} : stream'[d] = stream[d]
        /\ stream'[c] = Append(<< >>, Ok)
    BY <1>1 DEF set_replica_port, TypeOK
  <1>4. Len(stream[c]) = 0 /\ Len(stream'[c]) = 1
    BY <1>1, <1>3
  <1>5. StreamOK(c)'
    BY <1>1, <1>2, <1>4 DEF StreamOK
  <1>6. \A d \in Conn \ {c} : StreamOK(d)'
    BY <1>2, <1>3, StreamKeeps, Zenon DEF Streams
  <1> QED
    BY <1>3, <1>4, <1>5, <1>6 DEF Streams

-----------------------------------------------------------------------------
(***************************************************************************)
(* The offsets.                                                            *)
(***************************************************************************)

\* A step puts no snapshot on c and takes no acknowledgement from it.
Untouched(c) ==
    /\ Len(stream[c]) > 1 \/ Len(stream'[c]) > 1 =>
           Len(stream[c]) > 1 /\ stream'[c][2] = stream[c][2]
    /\ acked'[c] = acked[c]
    /\ request'[c] \in {request[c], NoRequest}

\* Such a step keeps the offset of a replica whose thread it leaves alone.
LEMMA OffsetKeeps ==
    ASSUME Structure, NEW r \in Replica, OffsetOK(r), Reaches(r)' = Reaches(r),
           conn'[r] = conn[r], link'[r] = link[r], received'[r] = received[r],
           offset'[r] = offset[r],
           link[r] # "connecting" => Untouched(Current(r))
    PROVE  OffsetOK(r)'
  <1> DEFINE c == Current(r)
  <1>1. c' = c
    BY Zenon DEF Current
  <1>2. CASE link[r] = "connecting"
    BY <1>2, Zenon DEF OffsetOK
  <1>3. CASE link[r] = "syncing"
    BY <1>1, <1>3, ZenonT(30) DEF OffsetOK, Base, Untouched
  <1>4. CASE link[r] = "connected"
    <2>1. /\ c \in Conn /\ received[r] > 1 /\ received[r] <= sent[c] /\ sent[c] <= Len(stream[c])
      <3>1. TypeOK /\ ThreadOK(r)
        BY Zenon DEF Structure, Threads
      <3>2. conn[r] > 0 /\ received[r] > 1 /\ received[r] <= sent[c]
        BY <1>4, <3>1, Zenon DEF ThreadOK
      <3>3. c \in Conn
        BY <3>1, <3>2, CurrentConn, Zenon
      <3>4. LinkOK(c)
        BY <3>3, Zenon DEF Structure, Links
      <3> QED
        BY <3>2, <3>3, <3>4, Zenon DEF LinkOK
    <2>2. received[r] \in Nat /\ sent[c] \in Nat /\ Len(stream[c]) \in Nat
      <3>1. received \in [Replica -> Nat] /\ sent \in [Conn -> Nat]
        BY Zenon DEF Structure, TypeOK
      <3>2. stream \in [Conn -> Seq(Message)]
        BY Zenon DEF Structure, TypeOK
      <3> HIDE DEF c
      <3>3. c \in Conn
        BY <2>1
      <3>4. stream[c] \in Seq(Message)
        BY <3>2, <3>3, Zenon
      <3>5. Len(stream[c]) \in Nat
        BY <3>4, EmptySeq, Zenon
      <3> QED
        BY <3>1, <3>3, <3>5, Zenon
    <2>3. stream'[c][2] = stream[c][2]
      <3>1. Len(stream[c]) > 1
        BY <2>1, <2>2
      <3>2. Untouched(c)
        BY <1>4, Zenon
      <3> QED
        BY <3>1, <3>2, Zenon DEF Untouched
    <2>4. acked'[c] = acked[c] /\ request'[c] \in {request[c], NoRequest}
      BY <1>4, Zenon DEF Untouched
    <2>5. /\ Reaches(r) = offset[r] /\ offset[r] = Base(c) + (received[r] - 2)
          /\ acked[c] <= offset[r] /\ (request[c].type = "ack" => request[c].n <= offset[r])
      BY <1>4, Zenon DEF OffsetOK
    <2>6. request'[c].type = "ack" => request'[c].n <= offset[r]
      <3>1. NoRequest.type # "ack"
        BY DEF NoRequest
      <3>2. request'[c] = request[c] \/ request'[c] = NoRequest
        BY <2>4, Zenon
      <3> QED
        BY <2>5, <3>1, <3>2, Zenon
    <2>7. Base(Current(r))' = Base(c)
      BY <1>1, <2>3, Zenon DEF Base
    <2> HIDE DEF c
    <2> QED
      BY <1>1, <1>4, <2>4, <2>5, <2>6, <2>7, Zenon DEF OffsetOK, c
  <1>5. link[r] = "handshaking" => OffsetOK(r)'
    BY Zenon DEF OffsetOK
  <1>6. link[r] \in LinkState
    BY Zenon DEF Structure, TypeOK
  <1> QED
    BY <1>2, <1>3, <1>4, <1>5, <1>6, Zenon DEF LinkState

\* A write.
LEMMA WriteContents ==
    ASSUME Structure, Streams, Queues, Offsets, ClientWrite, ~invalidated'
    PROVE  Queues' /\ Offsets'
  <1> DEFINE k == written + 1
  <1>1. TypeOK /\ written \in Nat /\ written' = k /\ PropagateQuiet(Command(k))
    <2>1. ~PropagateOverflow(Command(k))
      BY Zenon DEF PropagateOverflow
    <2> QED
      BY <2>1 DEF Structure, TypeOK, ClientWrite
  <1>2. UNCHANGED <<acked, request, conn, link, received, offset, posted, data>>
    BY Zenon DEF ClientWrite, replicaVars
  <1>3. stream' = [c \in Conn |-> IF c \in Fed \cap open THEN Append(stream[c], Command(k))
                                                        ELSE stream[c]]
    BY <1>1 DEF PropagateQuiet
  <1>4. \A r \in Replica : QueueOK(r)' /\ Reaches(r)' = Reaches(r)
    <2>1. k \in Nat /\ written <= k
      BY <1>1
    <2> HIDE DEF k
    <2> QED
      BY <1>1, <1>2, <2>1, QueueKeeps DEF Queues
  <1>5. ASSUME NEW c \in Conn
        PROVE  Untouched(c)
    <2>1. stream[c] \in Seq(Message) /\ Command(k) \in Message
      BY <1>1 DEF TypeOK, Command, Message
    <2> HIDE DEF k
    <2>2. CASE c \in Fed \cap open
      <3>1. stream'[c] = Append(stream[c], Command(k)) /\ Len(stream[c]) > 1
        <4>1. stream'[c] = Append(stream[c], Command(k))
          BY <1>3, <2>2, Zenon
        <4>2. StreamOK(c)
          BY Zenon DEF Streams
        <4> QED
          BY <2>2, <4>1, <4>2, Zenon DEF StreamOK
      <3>2. Len(stream[c]) \in Nat /\ 2 \in 1..Len(stream[c])
        <4>1. Len(stream[c]) \in Nat
          BY <2>1, EmptySeq, Zenon
        <4>2. Len(stream[c]) > 1
          BY <3>1
        <4> QED
          BY <4>1, <4>2
      <3>3. stream'[c][2] = stream[c][2]
        <4>1. stream[c] \in Seq(Message)
          BY <2>1
        <4>2. Command(k) \in Message
          BY <2>1
        <4>3. Append(stream[c], Command(k))[2] = stream[c][2]
          BY <3>2, <4>1, <4>2, Appended
        <4> QED
          BY <3>1, <4>3, Zenon
      <3> QED
        BY <1>2, <3>1, <3>3, Zenon DEF Untouched
    <2>3. CASE c \notin Fed \cap open
      <3>1. stream'[c] = stream[c]
        BY <1>3, <2>3, Zenon
      <3> QED
        BY <1>2, <3>1 DEF Untouched
    <2> QED
      BY <2>2, <2>3
  <1>6. ASSUME NEW r \in Replica
        PROVE  OffsetOK(r)'
    <2>1. link[r] # "connecting" => Current(r) \in Conn
      BY CurrentConn DEF Structure, Threads, ThreadOK
    <2>2. OffsetOK(r) /\ Reaches(r)' = Reaches(r)
      BY <1>4 DEF Offsets
    <2> QED
      BY <1>2, <1>5, <2>1, <2>2, OffsetKeeps, Zenon
  <1> QED
    BY <1>4, <1>6, Zenon DEF Queues, Offsets

\* A request of the replica on c.
LEMMA RequestContents ==
    ASSUME Structure, Streams, Queues, Offsets, NEW c \in Conn, HandleRequest(c)
    PROVE  Streams' /\ Queues' /\ Offsets'
  <1>1. /\ TypeOK /\ written \in Nat /\ written' = written
        /\ UNCHANGED <<conn, link, received, offset, posted, data>>
    BY Zenon DEF Structure, TypeOK, HandleRequest, replicaVars
  <1>2. \A r \in Replica : QueueOK(r)' /\ Reaches(r)' = Reaches(r)
    BY <1>1, QueueKeeps DEF Queues
  <1>3. /\ \A d \in Conn \ {c} : request'[d] = request[d]
        /\ request'[c] = NoRequest
    BY <1>1, Zenon DEF HandleRequest, TypeOK
  <1>4. ASSUME NEW r \in Replica, link[r] # "connecting"
        PROVE  /\ Current(r) \in Conn
               /\ link[r] = "connected" => Len(stream[Current(r)]) > 1
    <2>1. /\ Current(r) \in Conn /\ received[r] <= sent[Current(r)]
          /\ link[r] = "connected" => received[r] > 1
      BY <1>4, CurrentConn, Zenon DEF Structure, Threads, ThreadOK
    <2>2. /\ received[r] \in Nat /\ sent[Current(r)] \in Nat
          /\ Len(stream[Current(r)]) \in Nat /\ sent[Current(r)] <= Len(stream[Current(r)])
      BY <2>1 DEF Structure, TypeOK, Links, LinkOK
    <2> QED
      BY <2>1, <2>2
  <1>5. CASE request[c].type = "port" /\ set_replica_port(c)
    <2>1. /\ Streams' /\ acked' = acked
          /\ \A d \in Conn \ {c} : stream'[d] = stream[d]
          /\ Len(stream[c]) = 0 /\ Len(stream'[c]) = 1
      BY <1>1, <1>5, PortStreams, Zenon DEF set_replica_port
    <2>2. ASSUME NEW d \in Conn
          PROVE  Untouched(d)
      <3>1. ~(0 > 1) /\ ~(1 > 1)
        OBVIOUS
      <3>2. /\ request'[d] \in {request[d], NoRequest} /\ acked'[d] = acked[d]
            /\ Len(stream[c]) > 1 \/ Len(stream'[c]) > 1 => d # c
        BY <1>3, <2>1, <3>1, Zenon
      <3>3. CASE d = c
        BY <2>1, <3>1, <3>2, <3>3, Zenon DEF Untouched
      <3>4. CASE d # c
        BY <2>1, <3>2, <3>4, Zenon DEF Untouched
      <3> QED
        BY <3>3, <3>4
    <2>3. ASSUME NEW r \in Replica
          PROVE  OffsetOK(r)'
      <3>1. OffsetOK(r) /\ Reaches(r)' = Reaches(r)
        BY <1>2 DEF Offsets
      <3> QED
        BY <1>1, <1>4, <2>2, <3>1, OffsetKeeps
    <2> QED
      BY <1>2, <2>1, <2>3, Zenon DEF Queues, Offsets
  <1>6. CASE request[c].type = "psync" /\ start_full_resync(c)
    <2>1. /\ Streams'
          /\ \A d \in Conn \ {c} : stream'[d] = stream[d] /\ acked'[d] = acked[d]
          /\ Len(stream'[c]) > 1 => Base(c)' = written
      BY <1>1, <1>6, ResyncStreams, Zenon DEF start_full_resync, TypeOK
    <2>2. Len(stream[c]) = 1
      BY <1>6 DEF Structure, Links, LinkOK
    <2>3. ASSUME NEW r \in Replica
          PROVE  OffsetOK(r)'
      <3>1. OffsetOK(r)
        BY DEF Offsets
      <3>2. CASE link[r] # "connecting" /\ Current(r) = c
        <4>1. link[r] # "connected"
          <5>1. ~(1 > 1)
            OBVIOUS
          <5> QED
            BY <1>4, <2>2, <3>2, <5>1, Zenon
        <4>2. Reaches(r) <= written
          BY <1>1, ReachesBounds DEF Queues
        <4>3. Current(r)' = c
          BY <1>1, <3>2 DEF Current
        <4> QED
          BY <1>1, <1>2, <2>1, <4>1, <4>2, <4>3, Zenon DEF OffsetOK, Base
      <3>3. CASE link[r] # "connecting" /\ Current(r) # c
        <4>1. Untouched(Current(r))
          BY <1>3, <1>4, <2>1, <3>3, Zenon DEF Untouched
        <4> QED
          BY <1>1, <1>2, <3>1, <4>1, OffsetKeeps, ZenonT(30)
      <3>4. CASE link[r] = "connecting"
        BY <1>1, <3>4 DEF OffsetOK
      <3> QED
        BY <3>2, <3>3, <3>4
    <2> QED
      BY <1>2, <2>1, <2>3, Zenon DEF Queues, Offsets
  <1>7. CASE request[c].type = "ack" /\ on_replica_ack(c, request[c].n)
    <2>1. /\ stream' = stream /\ Fed' = Fed /\ open' = open
          /\ \A d \in Conn \ {c} : acked'[d] = acked[d]
          /\ acked'[c] \in {acked[c], request[c].n}
      BY <1>1, <1>7, Zenon DEF on_replica_ack, TypeOK, Fed
    <2>2. Streams'
      BY <1>1, <2>1, StreamKeeps DEF Streams
    <2>3. ASSUME NEW r \in Replica
          PROVE  OffsetOK(r)'
      <3>1. OffsetOK(r)
        BY DEF Offsets
      <3>2. CASE link[r] = "connected" /\ Current(r) = c
        <4>1. Current(r)' = c
          BY <1>1, <3>2, Zenon DEF Current
        <4>2. acked'[c] <= offset[r]
          BY <1>7, <2>1, <3>1, <3>2, Zenon DEF OffsetOK
        <4>3. NoRequest.type # "ack"
          BY DEF NoRequest
        <4> QED
          BY <1>1, <1>2, <1>3, <2>1, <3>1, <3>2, <4>1, <4>2, <4>3, Zenon DEF OffsetOK, Base
      <3>3. CASE link[r] # "connected" /\ Current(r) = c
        BY <1>1, <1>2, <2>1, <3>1, <3>3, Zenon DEF OffsetOK, Base, Current
      <3>4. CASE Current(r) # c
        <4>1. link[r] # "connecting" => Untouched(Current(r))
          BY <1>3, <1>4, <2>1, <3>4 DEF Untouched
        <4> QED
          BY <1>1, <1>2, <3>1, <4>1, OffsetKeeps, Zenon
      <3> QED
        BY <3>2, <3>3, <3>4, Zenon
    <2> QED
      BY <1>2, <2>2, <2>3, Zenon DEF Queues, Offsets
  <1> QED
    BY <1>5, <1>6, <1>7, Zenon DEF HandleRequest

\* A step of the sessions or of a thread that posts nothing and puts nothing on
\* a stream.
LEMMA QuietContents ==
    ASSUME Structure, Streams, Queues, Offsets,
           \/ \E c \in Conn : Transmit(c) \/ Close(c)
           \/ \E r \in Replica : Connect(r) \/ Psync(r) \/ SendAck(r) \/ LoseLink(r)
    PROVE  Streams' /\ Queues' /\ Offsets'
  <1>1. /\ TypeOK /\ written \in Nat
        /\ UNCHANGED <<written, stream, acked, offset, posted, data>>
    BY ZenonT(30) DEF Structure, TypeOK, Transmit, Close, Connect, Psync, SendAck, LoseLink,
           masterVars, replicaVars
  <1>2. \A r \in Replica : QueueOK(r)' /\ Reaches(r)' = Reaches(r)
    <2>1. written' \in Nat /\ written <= written'
      BY <1>1
    <2>2. ASSUME NEW r \in Replica
          PROVE  QueueOK(r) /\ data'[r] = data[r] /\ posted'[r] = posted[r]
      BY <1>1, Zenon DEF Queues
    <2> QED
      BY <1>1, <2>1, <2>2, QueueKeeps, Zenon
  <1>3. ASSUME NEW r \in Replica, link[r] # "connecting"
        PROVE  Current(r) \in Conn
    <2>1. conn[r] > 0
      BY <1>3, Zenon DEF Structure, Threads, ThreadOK
    <2> QED
      BY <1>1, <2>1, CurrentConn, Zenon
  <1>4. CASE \E c \in Conn : Transmit(c) \/ Close(c)
    <2>1. Fed' \cap open' \subseteq Fed \cap open
      BY <1>1, <1>4, CloseShrinks, Zenon DEF Transmit, Fed
    <2>2. \A c \in Conn : StreamOK(c)'
      BY <1>1, <2>1, StreamKeeps, Zenon DEF Streams
    <2>3. UNCHANGED <<request, conn, link, received>>
      BY <1>4 DEF Transmit, Close, replicaVars
    <2>4. ASSUME NEW r \in Replica
          PROVE  OffsetOK(r)'
      <3>1. Untouched(Current(r))
        BY <1>1, <2>3, Zenon DEF Untouched
      <3> QED
        BY <1>1, <1>2, <2>3, <3>1, OffsetKeeps, ZenonT(30) DEF Offsets
    <2> QED
      BY <1>2, <2>2, <2>4, Zenon DEF Streams, Queues, Offsets
  <1>5. ASSUME NEW r \in Replica, Connect(r)
        PROVE  Streams' /\ Queues' /\ Offsets'
    <2> DEFINE c == <<r, conn[r] + 1>>
    <2>1. c \in Conn /\ c[1] = r /\ c[2] = conn[r] + 1
      <3>1. conn[r] + 1 \in 1..MaxConn
        BY <1>1, <1>5 DEF Connect, TypeOK
      <3> QED
        BY <3>1, ConnPairs, Zenon
    <2>2. LinkOK(c) /\ c[2] > conn[c[1]]
      <3>1. conn[r] \in Nat
        BY <1>1 DEF TypeOK
      <3>2. conn[r] + 1 > conn[r]
        BY <3>1
      <3>3. LinkOK(c)
        BY <2>1, Zenon DEF Structure, Links
      <3> QED
        BY <2>1, <3>2, <3>3
    <2>3. stream[c] = << >>
      BY <2>2, Zenon DEF LinkOK
    <2>4. /\ open' = open \cup {c} /\ Fed' = Fed
          /\ conn' = [conn EXCEPT ![r] = @ + 1]
          /\ request' = [request EXCEPT ![c] = [type |-> "port", n |-> 0]]
          /\ link' = [link EXCEPT ![r] = "handshaking"]
          /\ received' = [received EXCEPT ![r] = 0]
      BY <1>5, ZenonT(30) DEF Connect, Fed
    <2>5. c \notin Fed
      BY <2>1, <2>2, <2>3, Zenon DEF LinkOK
    <2> HIDE DEF c
    <2>6. \A d \in Conn : StreamOK(d)'
      BY <1>1, <2>4, <2>5, StreamKeeps, Zenon DEF Streams
    <2>7. OffsetOK(r)'
      BY <1>1, <2>4, Zenon DEF OffsetOK, TypeOK
    <2>8. ASSUME NEW q \in Replica \ {r}
          PROVE  OffsetOK(q)'
      <3>1. conn'[q] = conn[q] /\ link'[q] = link[q] /\ received'[q] = received[q]
        BY <1>1, <2>4 DEF TypeOK
      <3>2. Current(q) # c
        BY Zenon DEF Current, c
      <3>3. link[q] # "connecting" => Untouched(Current(q))
        BY <1>1, <1>3, <2>4, <3>2, Zenon DEF Untouched, TypeOK
      <3> QED
        BY <1>1, <1>2, <3>1, <3>3, OffsetKeeps, Zenon DEF Offsets
    <2> QED
      BY <1>2, <2>6, <2>7, <2>8 DEF Streams, Queues, Offsets
  <1>6. ASSUME NEW r \in Replica, Psync(r) \/ SendAck(r) \/ LoseLink(r)
        PROVE  Streams' /\ Queues' /\ Offsets'
    <2>1. /\ Fed' = Fed /\ open' = open /\ conn' = conn
          /\ \A q \in Replica \ {r} : link'[q] = link[q] /\ received'[q] = received[q]
          /\ \A d \in Conn \ {Current(r)} : request'[d] = request[d]
      <3>1. UNCHANGED <<replicas, open, conn>>
        BY <1>6, Zenon DEF Psync, SendAck, LoseLink, masterVars, replicaVars
      <3>2. \A q \in Replica \ {r} : link'[q] = link[q] /\ received'[q] = received[q]
        BY <1>1, <1>6 DEF Psync, SendAck, LoseLink, replicaVars, TypeOK
      <3>3. \A d \in Conn \ {Current(r)} : request'[d] = request[d]
        BY <1>1, <1>6 DEF Psync, SendAck, LoseLink, replicaVars, TypeOK
      <3>4. Fed' = Fed
        BY <3>1, Zenon DEF Fed
      <3> QED
        BY <3>1, <3>2, <3>3, <3>4, Zenon
    <2>2. \A d \in Conn : StreamOK(d)'
      BY <1>1, <2>1, StreamKeeps, Zenon DEF Streams
    <2>3. ASSUME NEW q \in Replica \ {r}
          PROVE  OffsetOK(q)'
      <3>1. link[q] # "connecting" => Untouched(Current(q))
        BY <1>1, <1>3, <2>1, CurrentOwn, ZenonT(30) DEF Untouched
      <3> QED
        BY <1>1, <1>2, <2>1, <3>1, OffsetKeeps, ZenonT(30) DEF Offsets
    <2>4. ASSUME Psync(r)
          PROVE  OffsetOK(r)'
      <3>1. link'[r] = "syncing" /\ link[r] = "handshaking" /\ Current(r)' = Current(r)
        BY <1>1, <2>1, <2>4, Zenon DEF Psync, TypeOK, Current
      <3>2. Len(stream[Current(r)]) <= 1 /\ Len(stream[Current(r)]) \in Nat
        <4>1. link[r] # "connecting"
          BY <3>1
        <4>2. Current(r) \in Conn
          BY <1>3, <4>1
        <4>3. Len(stream[Current(r)]) <= 1
          BY <3>1, <4>1, Zenon DEF Structure, Threads, ThreadOK
        <4>4. stream[Current(r)] \in Seq(Message)
          BY <1>1, <4>2 DEF TypeOK
        <4> QED
          BY <4>3, <4>4
      <3>3. ~(Len(stream'[Current(r)']) > 1)
        <4>1. ~(Len(stream[Current(r)]) > 1)
          BY <3>2
        <4> QED
          BY <1>1, <3>1, <4>1, Zenon
      <3> QED
        BY <3>1, <3>3, Zenon DEF OffsetOK
    <2>5. ASSUME SendAck(r)
          PROVE  OffsetOK(r)'
      <3>1. /\ link[r] = "connected" /\ link'[r] = link[r] /\ received'[r] = received[r]
            /\ Current(r)' = Current(r)
            /\ request'[Current(r)] = [type |-> "ack", n |-> offset[r]]
        BY <1>1, <1>3, <2>5, Zenon DEF SendAck, TypeOK, Current, replicaVars
      <3>2. offset[r] \in Nat
        BY <1>1, Zenon DEF TypeOK
      <3>3. request'[Current(r)].n <= offset[r]
        <4>1. request'[Current(r)].n = [type |-> "ack", n |-> offset[r]].n
          BY <3>1, Zenon
        <4>2. request'[Current(r)].n = offset[r]
          BY <4>1
        <4> QED
          BY <3>2, <4>2
      <3> QED
        BY <1>1, <1>2, <3>1, <3>3, ZenonT(30) DEF Offsets, OffsetOK, Base
    <2>6. ASSUME LoseLink(r)
          PROVE  OffsetOK(r)'
      BY <1>1, <2>6 DEF LoseLink, OffsetOK, TypeOK
    <2> QED
      BY <1>2, <1>6, <2>2, <2>3, <2>4, <2>5, <2>6, Zenon DEF Streams, Queues, Offsets
  <1> QED
    BY <1>4, <1>5, <1>6, Zenon

\* The thread of r reads a message and posts it.
LEMMA ReadContents ==
    ASSUME Structure, Streams, Queues, Offsets, NEW r \in Replica,
           LoadSnapshot(r) \/ ReadCommand(r)
    PROVE  Streams' /\ Queues' /\ Offsets'
  <1> DEFINE c == Current(r)
             m == NextMessage(r)
             i == received[r] + 1
  <1>1. /\ TypeOK /\ written \in Nat /\ Arrived(r) /\ received[r] \in Nat
        /\ UNCHANGED <<written, replicas, open, stream, acked, request, conn, data>>
    BY Zenon DEF Structure, TypeOK, LoadSnapshot, ReadCommand, masterVars
  <1>2. /\ posted' = [posted EXCEPT ![r] = Append(@, m)]
        /\ received' = [received EXCEPT ![r] = i]
        /\ link' = [link EXCEPT ![r] = "connected"]
        /\ \A q \in Replica \ {r} : offset'[q] = offset[q]
    BY <1>1 DEF LoadSnapshot, ReadCommand, TypeOK
  <1>3. /\ c \in Conn /\ i \in 1..Len(stream[c]) /\ m \in Message /\ m = stream[c][i]
        /\ Current(r)' = c
    BY <1>1, MessageRead, ZenonT(30) DEF NextMessage, Current
  <1>4. m \in Task /\ m.n \in Nat
    BY <1>3, Zenon DEF LoadSnapshot, ReadCommand, Message, Task
  <1>5. Fed' = Fed
    BY <1>1 DEF Fed
  <1>6. Streams'
    BY <1>1, <1>5, StreamKeeps, Zenon DEF Streams
  <1>7. StreamOK(c) /\ OffsetOK(r) /\ QueueOK(r)
    BY <1>3, Zenon DEF Streams, Offsets, Queues
  <1>8. Reaches(r) \in Int
    BY <1>1, <1>7, ReachesBounds, Zenon
  <1>9. Len(stream[c]) \in Nat /\ offset[r] \in Nat
    BY <1>1, <1>3 DEF TypeOK
  <1>10. /\ i > 1 /\ Len(stream[c]) > 1
         /\ m.n = Base(c) + (i - 2) /\ offset'[r] = m.n /\ m.n <= written
         /\ acked[c] <= m.n /\ (request[c].type = "ack" => request[c].n <= m.n)
         /\ m.type = "cmd" => Reaches(r) >= 0 /\ m.n = Reaches(r) + 1
         /\ m.type = "rdb" => Reaches(r) <= m.n
    <2>1. CASE LoadSnapshot(r)
      <3>1. /\ link[r] = "syncing" /\ m.type = "rdb" /\ offset'[r] = m.n
        BY <1>1, <2>1, Zenon DEF LoadSnapshot, TypeOK
      <3>2. received[r] = 1 /\ acked[c] = 0 /\ request[c].type # "ack"
        BY <3>1, Zenon DEF Structure, Threads, ThreadOK
      <3>3. i = 2 /\ Len(stream[c]) > 1
        <4>1. i \in 1..Len(stream[c]) /\ Len(stream[c]) \in Nat /\ received[r] = 1
          BY <1>3, <1>9, <3>2, Zenon
        <4> HIDE DEF c
        <4> QED
          BY <4>1
      <3>4. m.n = Base(c)
        BY <1>3, <3>3, Zenon DEF Base
      <3>5. Base(c) + (Len(stream[c]) - 2) <= written
        BY <1>7, <3>3, Zenon DEF StreamOK, Upto
      <3>6. m.n <= written /\ m.n = Base(c) + (i - 2) /\ acked[c] <= m.n
        BY <1>1, <1>4, <1>9, <3>2, <3>3, <3>4, <3>5
      <3>7. Reaches(r) <= m.n
        BY <1>7, <3>1, <3>3, <3>4, Zenon DEF OffsetOK
      <3> HIDE DEF m, i, c
      <3> QED
        BY <3>1, <3>2, <3>3, <3>6, <3>7
    <2>2. CASE ReadCommand(r)
      <3>1. /\ link[r] = "connected" /\ m.type = "cmd" /\ offset'[r] = offset[r] + 1
        BY <1>1, <2>2, Zenon DEF ReadCommand, TypeOK
      <3>2. received[r] > 1
        BY <3>1, Zenon DEF Structure, Threads, ThreadOK
      <3>3. i \in 3..Len(stream[c]) /\ Len(stream[c]) > 1 /\ i > 1
        <4>1. /\ i \in 1..Len(stream[c]) /\ Len(stream[c]) \in Nat
              /\ received[r] \in Nat /\ received[r] > 1
          BY <1>1, <1>3, <1>9, <3>2, Zenon
        <4> HIDE DEF c
        <4> QED
          BY <4>1
      <3>4. m = Command(Base(c) + (i - 2))
        BY <1>3, <1>7, <3>3, Zenon DEF StreamOK
      <3>5. m.n = Base(c) + (i - 2)
        BY <3>4 DEF Command
      <3>6. /\ Reaches(r) = offset[r] /\ offset[r] = Base(c) + (received[r] - 2)
            /\ acked[c] <= offset[r]
            /\ request[c].type = "ack" => request[c].n <= offset[r]
        BY <1>7, <3>1, Zenon DEF OffsetOK
      <3>7. /\ Base(c) + (Len(stream[c]) - 2) <= written
        BY <1>7, <3>3, Zenon DEF StreamOK, Upto
      <3>8. Base(c) \in Nat /\ acked[c] \in Nat /\ request[c].n \in Nat
        <4>1. stream[c] \in Seq(Message) /\ acked[c] \in Nat /\ request[c] \in Request
          BY <1>1, <1>3, Zenon DEF TypeOK
        <4>2. stream[c][2] \in Message
          BY <1>9, <3>3, <4>1
        <4> QED
          BY <4>1, <4>2, Zenon DEF Base, Message, Request
      <3>9. m.n = offset[r] + 1 /\ m.n <= written
        <4>1. \A a, k, l, o \in Nat : o = a + (k - 2) => a + ((k + 1) - 2) = o + 1
          OBVIOUS
        <4>2. m.n = offset[r] + 1
          BY <1>1, <1>9, <3>5, <3>6, <3>8, <4>1
        <4>3. \A a \in Nat : \A l \in Nat : \A k \in 3..l : a + (k - 2) <= a + (l - 2)
          OBVIOUS
        <4>4. m.n <= Base(c) + (Len(stream[c]) - 2)
          BY <1>9, <3>3, <3>5, <3>8, <4>3, Zenon
        <4>5. Base(c) + (Len(stream[c]) - 2) \in Int /\ m.n \in Int
          BY <1>4, <1>9, <3>8
        <4> HIDE DEF m, c
        <4> QED
          BY <1>1, <3>7, <4>2, <4>4, <4>5
      <3> HIDE DEF m, i, c
      <3> QED
        BY <1>9, <3>1, <3>3, <3>5, <3>6, <3>8, <3>9
    <2> QED
      BY <2>1, <2>2, Zenon
  <1> HIDE DEF m, i
  <1>11. QueueOK(r)' /\ Reaches(r)' = m.n
    BY <1>1, <1>2, <1>4, <1>7, <1>10, QueuePost, ZenonT(30)
  <1>12. ASSUME NEW q \in Replica \ {r}
         PROVE  QueueOK(q)' /\ Reaches(q)' = Reaches(q) /\ OffsetOK(q)'
    <2>1. posted'[q] = posted[q] /\ link'[q] = link[q] /\ received'[q] = received[q]
      BY <1>1, <1>2, Zenon DEF TypeOK
    <2>2. QueueOK(q)' /\ Reaches(q)' = Reaches(q)
      <3>1. written' \in Nat /\ written <= written' /\ data'[q] = data[q]
        BY <1>1
      <3>2. TypeOK /\ QueueOK(q)
        BY <1>1, Zenon DEF Queues
      <3> QED
        BY <2>1, <3>1, <3>2, QueueKeeps, Zenon
    <2>3. Untouched(Current(q))
      BY <1>1, Zenon DEF Untouched
    <2> QED
      BY <1>1, <1>2, <2>1, <2>2, <2>3, OffsetKeeps, Zenon DEF Offsets
  <1>13. OffsetOK(r)'
    <2>1. link'[r] = "connected" /\ received'[r] = i
      BY <1>1, <1>2, Zenon DEF TypeOK
    <2>2. Base(Current(r))' = Base(c)
      BY <1>1, <1>3, Zenon DEF Base
    <2>3. acked'[Current(r)'] = acked[c] /\ request'[Current(r)'] = request[c]
      BY <1>1, <1>3
    <2> HIDE DEF c
    <2> QED
      BY <1>10, <1>11, <2>1, <2>2, <2>3, Zenon DEF OffsetOK
  <1> QED
    BY <1>6, <1>11, <1>12, <1>13, Zenon DEF Queues, Offsets

\* The event loop of r runs a task.
LEMMA RunContents ==
    ASSUME Structure, Streams, Queues, Offsets, NEW r \in Replica, RunPosted(r)
    PROVE  Streams' /\ Queues' /\ Offsets'
  <1>1. /\ TypeOK /\ written \in Nat /\ Fed' = Fed
        /\ UNCHANGED <<written, open, stream, acked, request, conn, link, received, offset>>
    BY Zenon DEF Structure, TypeOK, RunPosted, masterVars, Fed
  <1>2. Streams'
    BY <1>1, StreamKeeps DEF Streams
  <1>3. ASSUME NEW q \in Replica
        PROVE  QueueOK(q)' /\ Reaches(q)' = Reaches(q)
    <2>1. CASE q = r
      BY <1>1, <2>1, QueueRun, Zenon DEF Queues
    <2>2. CASE q # r
      <3>1. posted'[q] = posted[q] /\ data'[q] = data[q]
        BY <1>1, <2>2, Zenon DEF RunPosted, TypeOK
      <3>2. written' \in Nat /\ written <= written'
        BY <1>1
      <3> QED
        BY <1>1, <3>1, <3>2, QueueKeeps, Zenon DEF Queues
    <2> QED
      BY <2>1, <2>2, Zenon
  <1>4. ASSUME NEW q \in Replica
        PROVE  OffsetOK(q)'
    <2>1. Untouched(Current(q))
      BY <1>1 DEF Untouched
    <2> QED
      BY <1>1, <1>3, <2>1, OffsetKeeps, ZenonT(30) DEF Offsets
  <1> QED
    BY <1>2, <1>3, <1>4, Zenon DEF Queues, Offsets

-----------------------------------------------------------------------------
(***************************************************************************)
(* The whole invariant, and what follows from it.                          *)
(***************************************************************************)
IInv == Structure /\ Contents

\* An overflow in propagate's loop is remembered.
LEMMA InvalidatedStays ==
    ASSUME TypeOK, Next, invalidated
    PROVE  invalidated'
  <1>1. ASSUME ClientWrite
        PROVE  invalidated'
    <2>1. CASE PropagateQuiet(Command(written + 1))
      BY <2>1, Zenon DEF PropagateQuiet
    <2>2. CASE PropagateOverflow(Command(written + 1))
      BY <2>2, Zenon DEF PropagateOverflow
    <2> QED
      BY <1>1, <2>1, <2>2 DEF ClientWrite
  <1>2. ASSUME NEW c \in Conn, HandleRequest(c) \/ Transmit(c) \/ Close(c)
        PROVE  invalidated'
    BY <1>2, Zenon DEF HandleRequest, Transmit, Close
  <1>3. ASSUME NEW r \in Replica,
               \/ Connect(r) \/ Psync(r) \/ LoadSnapshot(r) \/ ReadCommand(r)
               \/ SendAck(r) \/ LoseLink(r) \/ RunPosted(r)
        PROVE  invalidated'
    BY <1>3, Zenon DEF Connect, Psync, LoadSnapshot, ReadCommand, SendAck, LoseLink, RunPosted
  <1> QED
    BY <1>1, <1>2, <1>3 DEF Next, MasterNext, ReplicaNext

LEMMA ContentsStep ==
    ASSUME IInv, [Next]_vars
    PROVE  IInv'
  <1>1. Structure /\ TypeOK /\ Structure'
    BY StructureStep DEF IInv, Structure
  <1>2. CASE UNCHANGED vars
    <2>1. UNCHANGED <<written, replicas, acked, open, stream, request, conn, link, received,
                      offset, posted, data, invalidated>>
      BY <1>2, Zenon DEF vars, masterVars, replicaVars
    <2>2. Streams' = Streams
      BY <2>1 DEF Streams, StreamOK, Base, Upto, Fed
    <2>3. Queues' = Queues
      BY <2>1 DEF Queues, QueueOK, TaskOK, Front, View, ShowsPrefix
    <2>4. Offsets' = Offsets
      BY <2>1 DEF Offsets, OffsetOK, Reaches, Front, View, ShowsPrefix, Base, Current
    <2> QED
      BY <1>1, <2>1, <2>2, <2>3, <2>4, ZenonT(30) DEF IInv, Contents
  <1>3. CASE Next
    <2> SUFFICES ASSUME ~invalidated'
                 PROVE  Streams' /\ Queues' /\ Offsets'
      BY <1>1, Zenon DEF IInv, Contents
    <2>1. Streams /\ Queues /\ Offsets
      BY <1>1, <1>3, InvalidatedStays, Zenon DEF IInv, Contents
    <2> QED
      BY <1>1, <1>3, <2>1, WriteStreams, WriteContents, RequestContents, QuietContents,
         ReadContents, RunContents DEF Next, MasterNext, ReplicaNext
  <1> QED
    BY <1>2, <1>3

LEMMA ContentsInit ==
    ASSUME Init
    PROVE  IInv
  <1>1. Structure
    BY StructureInit
  <1>2. Streams
    <2>1. ~(0 > 1) /\ Fed = {}
      BY DEF Init, Fed
    <2>2. \A c \in Conn : Len(stream[c]) = 0
      BY DEF Init
    <2> QED
      BY <2>1, <2>2, Zenon DEF Streams, StreamOK
  <1>3. Queues
    BY DEF Init, Queues, QueueOK, ShowsPrefix
  <1>4. Offsets
    BY DEF Init, Offsets, OffsetOK
  <1> QED
    BY <1>1, <1>2, <1>3, <1>4 DEF IInv, Contents

LEMMA ContentsAlways == Spec => []IInv
  <1>1. Init => IInv
    BY ContentsInit
  <1>2. IInv /\ [Next]_vars => IInv'
    BY ContentsStep
  <1> QED
    BY <1>1, <1>2, PTL DEF Spec

\* No replica ever has a gap, a repetition or a reordering in the writes it shows,
\* however often links fail and resync, and whatever the tasks left over from
\* earlier connections, as long as no overflow has hit propagate's loop.
THEOREM AlwaysPrefixConsistent == Spec => []PrefixConsistent
  <1>1. IInv => PrefixConsistent
    BY ZenonT(30) DEF IInv, Contents, Queues, QueueOK, PrefixConsistent
  <1> QED
    BY <1>1, ContentsAlways, PTL

\* What a connected replica has counted and what is under way on its link add up to
\* the master's offset, and no acknowledgement is ahead of its sender, as long as no
\* overflow has hit propagate's loop.
THEOREM OffsetsAlwaysAgree == Spec => []OffsetsAgree
  <1>1. IInv => OffsetsAgree
    <2> SUFFICES ASSUME IInv, ~invalidated, NEW r \in Replica, link[r] = "connected",
                        Current(r) \in Fed \cap open
                 PROVE  /\ offset[r] + Len(stream[Current(r)]) - received[r] = written
                        /\ acked[Current(r)] <= offset[r]
      BY Zenon DEF OffsetsAgree
    <2> DEFINE c == Current(r)
    <2>1. Structure /\ Streams /\ Offsets
      BY Zenon DEF IInv, Contents
    <2>2. c \in Conn
      BY <2>1, FedType DEF Structure
    <2>3. StreamOK(c) /\ OffsetOK(r)
      BY <2>1, <2>2 DEF Streams, Offsets
    <2>4. /\ offset[r] \in Nat /\ received[r] \in Nat /\ written \in Nat
          /\ stream[c] \in Seq(Message) /\ Len(stream[c]) \in Nat
      BY <2>1, <2>2 DEF Structure, TypeOK
    <2>5. /\ Len(stream[c]) > 1 /\ Base(c) + (Len(stream[c]) - 2) = written
      BY <2>3, Zenon DEF StreamOK, Upto
    <2>6. offset[r] = Base(c) + (received[r] - 2) /\ acked[c] <= offset[r]
      BY <2>3, Zenon DEF OffsetOK
    <2>7. Base(c) \in Nat
      <3>1. stream[c][2] \in Message
        BY <2>4, <2>5
      <3> QED
        BY <3>1 DEF Base, Message
    <2>8. \A a, l, k, o, w \in Nat :
              a + (l - 2) = w /\ o = a + (k - 2) => o + l - k = w
      OBVIOUS
    <2>9. offset[r] + Len(stream[c]) - received[r] = written
      BY <2>4, <2>5, <2>6, <2>7, <2>8
    <2> QED
      BY <2>6, <2>9, Zenon
  <1> QED
    BY <1>1, ContentsAlways, PTL

\* Links that fail, reconnect and resync implement a prefix of the master's writes
\* that only grows: a client's write is a write of the abstract specification, a
\* task the replica's event loop runs shows no less than before, and every other step
\* (of sessions, streams and threads) is invisible.  Of a run in which an overflow
\* has hit propagate's loop the theorem says nothing.
THEOREM ImplementsGrowingPrefix == Spec /\ []~invalidated => ImplementsPrefix
  <1> DEFINE view == [r \in Replica |-> View(r)]
  <1>1. Init => Abstract!Init
    BY DEF Init, Abstract!Init, Abstract!Own, View
  <1>2. ASSUME IInv, ~invalidated, ~invalidated', [Next]_vars
        PROVE  [Abstract!Next]_<<written, [r \in Replica |-> View(r)]>>
    <2>1. Structure /\ TypeOK /\ Queues /\ written \in Nat
      <3>1. Structure /\ Queues
        BY <1>2, Zenon DEF IInv, Contents
      <3> QED
        BY <3>1 DEF Structure, TypeOK
    <2>2. ASSUME UNCHANGED data, written' \in Nat, written <= written'
          PROVE  view' = view
      <3>1. \A r \in Replica : View(r)' = View(r)
        BY <2>1, <2>2, ViewKeeps DEF Queues, QueueOK
      <3> QED
        BY <3>1
    <2>3. ASSUME UNCHANGED vars
          PROVE  UNCHANGED <<written, view>>
      BY <2>1, <2>2, <2>3 DEF vars, masterVars, replicaVars
    <2>4. ASSUME ClientWrite
          PROVE  Abstract!Next
      <3>1. /\ UNCHANGED data /\ written' = written + 1 /\ written < MaxWrites
            /\ written' \in Nat /\ written <= written'
        BY <2>1, <2>4 DEF ClientWrite, replicaVars
      <3>2. view' = view
        BY <2>2, <3>1
      <3> QED
        BY <3>1, <3>2 DEF Abstract!Next, Abstract!Write
    <2>5. ASSUME NEW r \in Replica, RunPosted(r)
          PROVE  [Abstract!Next]_<<written, view>>
      <3>1. /\ View(r) <= View(r)' /\ View(r)' <= written /\ View(r) \in Int
            /\ View(r)' = posted[r][1].n
        BY <2>1, <2>5, QueueRun, ViewIs, Zenon DEF Queues, QueueOK
      <3>2. View(r)' \in Int
        <4>1. posted[r] \in Seq(Task) /\ posted[r] # << >>
          BY <2>1, <2>5 DEF TypeOK, Task, RunPosted
        <4>2. posted[r][1] \in Task
          BY <4>1
        <4> QED
          BY <3>1, <4>2 DEF Task
      <3>3. written' = written /\ \A q \in Replica \ {r} : data'[q] = data[q]
        BY <2>1, <2>5, Zenon DEF RunPosted, masterVars, TypeOK
      <3>4. \A q \in Replica \ {r} : View(q)' = View(q)
        BY <2>1, <3>3, ViewKeeps DEF Queues, QueueOK
      <3>5. view' = [view EXCEPT ![r] = View(r)']
        BY <3>4, Zenon
      <3>6. CASE View(r)' = View(r)
        BY <3>3, <3>5, <3>6, Zenon
      <3>7. CASE View(r)' # View(r)
        <4>1. View(r)' \in (View(r) + 1)..written
          BY <2>1, <3>1, <3>2, <3>7
        <4>2. Abstract!Advance(r)
          BY <3>3, <3>5, <4>1, Zenon DEF Abstract!Advance
        <4> QED
          BY <4>2 DEF Abstract!Next
      <3> QED
        BY <3>6, <3>7, Zenon
    <2>6. ASSUME \/ \E c \in Conn : HandleRequest(c) \/ Transmit(c) \/ Close(c)
                 \/ \E r \in Replica :
                      \/ Connect(r) \/ Psync(r) \/ LoadSnapshot(r) \/ ReadCommand(r)
                      \/ SendAck(r) \/ LoseLink(r)
          PROVE  UNCHANGED <<written, view>>
      <3>1. UNCHANGED <<written, data>>
        BY <2>6, Zenon DEF HandleRequest, Transmit, Close, Connect, Psync, LoadSnapshot,
                    ReadCommand, SendAck, LoseLink, masterVars, replicaVars
      <3> QED
        BY <2>1, <2>2, <3>1
    <2> HIDE DEF view
    <2>7. [Abstract!Next]_<<written, view>>
      BY <1>2, <2>3, <2>4, <2>5, <2>6 DEF Next, MasterNext, ReplicaNext
    <2> QED
      BY <2>7, Zenon DEF view
  <1> QED
    BY <1>1, <1>2, ContentsAlways, PTL DEF Spec, ImplementsPrefix, Abstract!Spec

=============================================================================
