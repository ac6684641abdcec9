----------------------------- MODULE AofProofs -----------------------------
(***************************************************************************)
(* What the append-only file keeps, for every policy, rewrite threshold    *)
(* and number of writes and troubles.                                      *)
(*                                                                         *)
(* The invariant IInv describes the bytes of the file, with those still in *)
(* stdio and in buffer_ behind them, three times: while nothing but an     *)
(* open() behind a rewrite has failed they encode a prefix of the keyspace *)
(* (Complete); up to the first crash the medium holds what the last fsync  *)
(* covered, and the crash leaves a prefix that still does (Synced); with   *)
(* short writes they encode commands in an order replay may apply (Order), *)
(* either whole (Clean) or up to the command a short write cut (Torn).     *)
(* The lemmas in front of it are about encoded files, and about replay.    *)
(***************************************************************************)
EXTENDS Aof, Induction, SequenceTheorems, TLAPS

-----------------------------------------------------------------------------
(***************************************************************************)
(* Files of commands.                                                      *)
(***************************************************************************)
FirstHalf(n) == [n |-> n, part |-> 1]
SecondHalf(n) == [n |-> n, part |-> 2]

\* A place in a file of commands is the first or the second half of one.
LEMMA Halves ==
    ASSUME NEW m \in Nat, NEW i \in 1..(2 * m)
    PROVE  \E j \in 1..m : i = 2 * j - 1 \/ i = 2 * j
  <1> DEFINE j == (i + 1) \div 2
  <1>1. j \in 1..m /\ (i = 2 * j - 1 \/ i = 2 * j)
    OBVIOUS
  <1> HIDE DEF j
  <1> QED
    BY <1>1

LEMMA HalfOf ==
    ASSUME NEW j \in Nat \ {0}
    PROVE  /\ ((2 * j - 1) + 1) \div 2 = j /\ ((2 * j - 1) - 1) % 2 = 0
           /\ (2 * j + 1) \div 2 = j /\ (2 * j - 1) % 2 = 1
  OBVIOUS

LEMMA EncodedAt ==
    ASSUME NEW s \in Seq(Nat)
    PROVE  /\ Encoded(s) \in Seq(Half)
           /\ Len(Encoded(s)) = 2 * Len(s)
           /\ \A j \in 1..Len(s) : /\ Encoded(s)[2 * j - 1] = FirstHalf(s[j])
                                   /\ Encoded(s)[2 * j] = SecondHalf(s[j])
  <1>1. ASSUME NEW i \in 1..(2 * Len(s))
        PROVE  /\ (i + 1) \div 2 \in 1..Len(s)
               /\ ((i - 1) % 2) + 1 \in {1, 2}
    OBVIOUS
  <1>2. ASSUME NEW i \in 1..(2 * Len(s))
        PROVE  encode(s[(i + 1) \div 2])[((i - 1) % 2) + 1] \in Half
    BY <1>1, <1>2 DEF encode, Half
  <1>3. Encoded(s) \in [1..(2 * Len(s)) -> Half]
    BY <1>2 DEF Encoded
  <1>4. Encoded(s) \in Seq(Half) /\ Len(Encoded(s)) = 2 * Len(s)
    BY <1>3
  <1>5. ASSUME NEW j \in 1..Len(s)
        PROVE  /\ Encoded(s)[2 * j - 1] = FirstHalf(s[j])
               /\ Encoded(s)[2 * j] = SecondHalf(s[j])
    <2>1. 2 * j - 1 \in 1..(2 * Len(s)) /\ 2 * j \in 1..(2 * Len(s))
      OBVIOUS
    <2>2. Encoded(s)[2 * j - 1] = encode(s[j])[1] /\ Encoded(s)[2 * j] = encode(s[j])[2]
      BY <2>1, HalfOf DEF Encoded
    <2> QED
      BY <2>2 DEF encode, FirstHalf, SecondHalf
  <1> QED
    BY <1>4, <1>5

\* The halves make the file.
LEMMA EncodedIs ==
    ASSUME NEW s \in Seq(Nat), NEW x \in Seq(Half), Len(x) = 2 * Len(s),
           \A j \in 1..Len(s) : x[2 * j - 1] = FirstHalf(s[j]) /\ x[2 * j] = SecondHalf(s[j])
    PROVE  x = Encoded(s)
  <1> DEFINE e == Encoded(s)
  <1>1. /\ e \in Seq(Half) /\ Len(e) = 2 * Len(s)
        /\ \A j \in 1..Len(s) : e[2 * j - 1] = FirstHalf(s[j]) /\ e[2 * j] = SecondHalf(s[j])
    BY EncodedAt
  <1> HIDE DEF e
  <1>2. ASSUME NEW i \in 1..Len(x)
        PROVE  x[i] = e[i]
    <2>1. Len(s) \in Nat /\ i \in 1..(2 * Len(s))
      OBVIOUS
    <2>2. PICK j \in 1..Len(s) : i = 2 * j - 1 \/ i = 2 * j
      BY <2>1, Halves, Zenon
    <2> QED
      BY <1>1, <2>2, Zenon
  <1>3. x = e
    BY <1>1, <1>2, SeqEqual
  <1> QED
    BY <1>3 DEF e

LEMMA EncodedEmpty == Encoded(<<>>) = <<>>
  <1> DEFINE e == Encoded(<<>>)
  <1>1. <<>> \in Seq(Nat) /\ Len(<<>>) = 0 /\ 2 * 0 = 0
    OBVIOUS
  <1>2. e \in Seq(Half) /\ Len(e) = 0
    BY <1>1, EncodedAt, Zenon
  <1> HIDE DEF e
  <1>3. e = <<>>
    BY <1>2
  <1> QED
    BY <1>3 DEF e

\* Two files of commands, one behind the other.
LEMMA EncodedConcat ==
    ASSUME NEW s \in Seq(Nat), NEW t \in Seq(Nat)
    PROVE  Encoded(s) \o Encoded(t) = Encoded(s \o t)
  <1> DEFINE e == Encoded(s)
             f == Encoded(t)
             u == s \o t
             x == e \o f
  <1>1. /\ e \in Seq(Half) /\ Len(e) = 2 * Len(s)
        /\ \A j \in 1..Len(s) : e[2 * j - 1] = FirstHalf(s[j]) /\ e[2 * j] = SecondHalf(s[j])
    BY EncodedAt
  <1>2. /\ f \in Seq(Half) /\ Len(f) = 2 * Len(t)
        /\ \A j \in 1..Len(t) : f[2 * j - 1] = FirstHalf(t[j]) /\ f[2 * j] = SecondHalf(t[j])
    BY EncodedAt
  <1> HIDE DEF e, f
  <1>3. /\ x \in Seq(Half) /\ Len(x) = Len(e) + Len(f)
        /\ \A i \in 1..(Len(e) + Len(f)) : x[i] = IF i <= Len(e) THEN e[i] ELSE f[i - Len(e)]
    BY <1>1, <1>2, ConcatProperties, Zenon
  <1>4. /\ u \in Seq(Nat) /\ Len(u) = Len(s) + Len(t)
        /\ \A i \in 1..(Len(s) + Len(t)) : u[i] = IF i <= Len(s) THEN s[i] ELSE t[i - Len(s)]
    BY ConcatProperties
  <1> HIDE DEF x, u
  <1>5. Len(s) \in Nat /\ Len(t) \in Nat
    OBVIOUS
  <1>6. ASSUME NEW j \in 1..Len(u)
        PROVE  x[2 * j - 1] = FirstHalf(u[j]) /\ x[2 * j] = SecondHalf(u[j])
    <2>1. CASE j <= Len(s)
      <3>1. /\ 2 * j - 1 \in 1..(Len(e) + Len(f)) /\ 2 * j - 1 <= Len(e)
            /\ 2 * j \in 1..(Len(e) + Len(f)) /\ 2 * j <= Len(e)
        <4>1. Len(e) = 2 * Len(s) /\ Len(f) = 2 * Len(t) /\ j \in Nat /\ 1 <= j
          BY <1>1, <1>2, <1>4, <1>5
        <4> QED
          BY <1>5, <2>1, <4>1
      <3>2. x[2 * j - 1] = e[2 * j - 1] /\ x[2 * j] = e[2 * j]
        BY <1>3, <3>1, Zenon
      <3>3. u[j] = s[j] /\ j \in 1..Len(s)
        <4>1. j \in 1..(Len(s) + Len(t))
          BY <1>4
        <4>2. j \in 1..Len(s)
          BY <1>5, <2>1, <4>1
        <4> QED
          BY <1>4, <2>1, <4>1, <4>2, Zenon
      <3> QED
        BY <1>1, <3>2, <3>3
    <2>2. CASE ~(j <= Len(s))
      <3> DEFINE k == j - Len(s)
      <3>1. k \in 1..Len(t) /\ (2 * j - 1) - Len(e) = 2 * k - 1 /\ 2 * j - Len(e) = 2 * k
        BY <1>1, <1>4, <1>5, <2>2
      <3>2. /\ 2 * j - 1 \in 1..(Len(e) + Len(f)) /\ ~(2 * j - 1 <= Len(e))
            /\ 2 * j \in 1..(Len(e) + Len(f)) /\ ~(2 * j <= Len(e))
        BY <1>1, <1>2, <1>4, <1>5, <2>2
      <3>3. x[2 * j - 1] = f[(2 * j - 1) - Len(e)] /\ x[2 * j] = f[2 * j - Len(e)]
        BY <1>3, <3>2, Zenon
      <3>4. u[j] = t[k]
        BY <1>4, <2>2, Zenon
      <3>5. x[2 * j - 1] = f[2 * k - 1] /\ x[2 * j] = f[2 * k] /\ u[j] = t[k]
        BY <3>1, <3>3, <3>4, Zenon
      <3> HIDE DEF k
      <3> QED
        BY <1>2, <3>1, <3>5
    <2> QED
      BY <2>1, <2>2
  <1>7. Len(x) = 2 * Len(u)
    BY <1>1, <1>2, <1>3, <1>4, <1>5
  <1>8. x = Encoded(u)
    BY <1>3, <1>4, <1>6, <1>7, EncodedIs, Zenon
  <1> QED
    BY <1>8 DEF x, u, e, f

\* One more command.
LEMMA EncodedOne ==
    ASSUME NEW n \in Nat
    PROVE  encode(n) = Encoded(<<n>>) /\ encode(n) \in Seq(Half)
  <1> DEFINE x == encode(n)
             s == <<n>>
  <1>1. x \in Seq(Half) /\ Len(x) = 2 /\ x[1] = FirstHalf(n) /\ x[2] = SecondHalf(n)
    BY DEF encode, Half, FirstHalf, SecondHalf
  <1>2. s \in Seq(Nat) /\ Len(s) = 1 /\ s[1] = n
    OBVIOUS
  <1> HIDE DEF x, s
  <1>3. \A j \in 1..Len(s) : x[2 * j - 1] = FirstHalf(s[j]) /\ x[2 * j] = SecondHalf(s[j])
    BY <1>1, <1>2
  <1>4. x = Encoded(s)
    <2>1. Len(x) = 2 * Len(s)
      BY <1>1, <1>2
    <2> QED
      BY <1>1, <1>2, <1>3, <2>1, EncodedIs, Zenon
  <1> QED
    BY <1>1, <1>4 DEF x, s

LEMMA EncodedAppend ==
    ASSUME NEW s \in Seq(Nat), NEW n \in Nat
    PROVE  Encoded(s) \o encode(n) = Encoded(Append(s, n))
  <1>1. Append(s, n) = s \o <<n>> /\ <<n>> \in Seq(Nat)
    OBVIOUS
  <1> QED
    BY <1>1, EncodedOne, EncodedConcat, Zenon

\* A file cut between two commands.
LEMMA EncodedPrefix ==
    ASSUME NEW s \in Seq(Nat), NEW m \in 0..Len(s)
    PROVE  /\ SubSeq(s, 1, m) \in Seq(Nat)
           /\ SubSeq(Encoded(s), 1, 2 * m) = Encoded(SubSeq(s, 1, m))
  <1> DEFINE e == Encoded(s)
             t == SubSeq(s, 1, m)
             x == SubSeq(e, 1, 2 * m)
  <1>1. /\ e \in Seq(Half) /\ Len(e) = 2 * Len(s)
        /\ \A j \in 1..Len(s) : e[2 * j - 1] = FirstHalf(s[j]) /\ e[2 * j] = SecondHalf(s[j])
    BY EncodedAt
  <1> HIDE DEF e
  <1>2. t \in Seq(Nat) /\ Len(t) = m /\ \A i \in 1..m : t[i] = s[i]
    OBVIOUS
  <1>3. x \in Seq(Half) /\ Len(x) = 2 * m /\ \A i \in 1..(2 * m) : x[i] = e[i]
    <2>1. 2 * m \in 0..Len(e)
      BY <1>1
    <2> QED
      BY <1>1, <2>1
  <1> HIDE DEF t, x
  <1>4. ASSUME NEW j \in 1..Len(t)
        PROVE  x[2 * j - 1] = FirstHalf(t[j]) /\ x[2 * j] = SecondHalf(t[j])
    <2>1. j \in 1..m /\ j \in 1..Len(s)
      BY <1>2
    <2>2. 2 * j - 1 \in 1..(2 * m) /\ 2 * j \in 1..(2 * m)
      BY <2>1
    <2>3. x[2 * j - 1] = e[2 * j - 1] /\ x[2 * j] = e[2 * j] /\ t[j] = s[j]
      BY <1>2, <1>3, <2>1, <2>2
    <2> QED
      BY <1>1, <2>1, <2>3
  <1>5. x = Encoded(t)
    BY <1>2, <1>3, <1>4, EncodedIs, Zenon
  <1> QED
    BY <1>2, <1>5 DEF x, t, e

-----------------------------------------------------------------------------
(***************************************************************************)
(* Replay.                                                                 *)
(***************************************************************************)
\* x begins with the commands of c.
Begins(x, c) ==
    /\ 2 * Len(c) <= Len(x)
    /\ \A j \in 1..Len(c) : x[2 * j - 1] = FirstHalf(c[j]) /\ x[2 * j] = SecondHalf(c[j])

\* Behind the first n commands of x there is no other whole one.
NoMore(x, n) == Len(x) >= 2 * n + 2 => x[2 * n + 2].part = 1

\* There is a last whole command.
LEMMA LastWhole ==
    ASSUME os \in Seq(Half)
    PROVE  /\ WholeCommands \in 0..(Len(os) \div 2)
           /\ Whole(WholeCommands)
           /\ \A j \in 0..(Len(os) \div 2) : Whole(j) => j <= WholeCommands
  <1> DEFINE N == Len(os) \div 2
             S == {n \in 0..N : \E i \in 0..n : Whole(i) /\ \A j \in 0..n : Whole(j) => j <= i}
  <1>1. N \in Nat
    OBVIOUS
  <1>2. Whole(0)
    BY DEF Whole
  <1> HIDE DEF N
  <1>3. 0 \in S
    BY <1>1, <1>2
  <1>4. ASSUME NEW n \in 0..(N - 1), n \in S
        PROVE  n + 1 \in S
    <2>1. PICK i \in 0..n : Whole(i) /\ \A j \in 0..n : Whole(j) => j <= i
      BY <1>4
    <2>2. n + 1 \in 0..N /\ i \in 0..(n + 1) /\ n + 1 \in 0..(n + 1)
      BY <1>1
    <2>3. CASE Whole(n + 1)
      <3>1. \A j \in 0..(n + 1) : Whole(j) => j <= n + 1
        OBVIOUS
      <3> QED
        BY <2>2, <2>3, <3>1
    <2>4. CASE ~Whole(n + 1)
      <3>1. ASSUME NEW j \in 0..(n + 1), Whole(j)
            PROVE  j <= i
        <4>1. j # n + 1
          BY <2>4, <3>1
        <4>2. j \in 0..n
          BY <4>1
        <4> QED
          BY <2>1, <3>1, <4>2
      <3> QED
        BY <2>1, <2>2, <3>1
    <2> QED
      BY <2>3, <2>4
  <1> HIDE DEF S
  <1>5. N \in 0..N
    BY <1>1
  <1>6. N \in S
    BY <1>1, <1>3, <1>4, <1>5, BoundedInduction, Zenon
  <1>7. \E i \in 0..N : Whole(i) /\ \A j \in 0..N : Whole(j) => j <= i
    BY <1>6 DEF S
  <1> QED
    BY <1>7, Zenon DEF WholeCommands, N

LEMMA ReplayType ==
    ASSUME os \in Seq(Half)
    PROVE  Replayed \in Seq(Nat)
  <1> DEFINE n == WholeCommands
  <1>1. n \in 0..(Len(os) \div 2)
    BY LastWhole
  <1> HIDE DEF n
  <1>2. ASSUME NEW i \in 1..n
        PROVE  os[2 * i].n \in Nat
    <2>1. 2 * i \in 1..Len(os)
      BY <1>1
    <2>2. os[2 * i] \in Half
      BY <2>1
    <2> QED
      BY <2>2 DEF Half
  <1>3. [i \in 1..n |-> os[2 * i].n] \in Seq(Nat)
    <2>1. n \in Nat
      BY <1>1
    <2> QED
      BY <1>2, <2>1
  <1> QED
    BY <1>3 DEF Replayed, n

\* A file that holds the commands of c, and no other whole one behind them, is
\* replayed as c.
LEMMA ReplayIs ==
    ASSUME os \in Seq(Half), NEW c \in Seq(Nat), Begins(os, c), NoMore(os, Len(c))
    PROVE  WholeCommands = Len(c) /\ Replayed = c
  <1> DEFINE N == Len(os) \div 2
             w == WholeCommands
             m == Len(c)
  <1>1. w \in 0..N /\ Whole(w) /\ \A j \in 0..N : Whole(j) => j <= w
    BY LastWhole
  <1>2. N \in Nat /\ 2 * N <= Len(os) /\ m \in Nat /\ 2 * m <= Len(os) /\ m <= N
    BY DEF Begins
  <1> HIDE DEF w, N
  <1>3. Whole(m)
    <2>1. ASSUME NEW j \in 1..m
          PROVE  /\ os[2 * j - 1].part = 1
                 /\ os[2 * j] = [os[2 * j - 1] EXCEPT !.part = 2]
      <3>1. os[2 * j - 1] = FirstHalf(c[j]) /\ os[2 * j] = SecondHalf(c[j])
        BY DEF Begins
      <3> QED
        BY <3>1 DEF FirstHalf, SecondHalf
    <2> QED
      BY <2>1 DEF Whole
  <1>4. m <= w
    BY <1>1, <1>2, <1>3
  <1>5. w <= m
    <2> SUFFICES ASSUME m < w PROVE FALSE
      BY <1>1, <1>2
    <2>1. m + 1 \in 1..w /\ Len(os) >= 2 * m + 2 /\ 2 * (m + 1) = 2 * m + 2
      BY <1>1, <1>2
    <2>2. os[2 * (m + 1)] = [os[2 * (m + 1) - 1] EXCEPT !.part = 2]
      BY <1>1, <2>1 DEF Whole
    <2>3. os[2 * m + 2].part = 1
      BY <2>1 DEF NoMore
    <2>4. 2 * (m + 1) - 1 \in 1..Len(os)
      BY <1>2, <2>1
    <2>5. os[2 * (m + 1) - 1] \in Half
      BY <2>4
    <2>6. os[2 * (m + 1)].part = 2
      BY <2>2, <2>5 DEF Half
    <2> QED
      BY <2>1, <2>3, <2>6
  <1>6. w = m
    BY <1>1, <1>2, <1>4, <1>5
  <1>7. ASSUME NEW i \in 1..m
        PROVE  os[2 * i].n = c[i]
    <2>1. os[2 * i] = SecondHalf(c[i])
      BY DEF Begins
    <2> QED
      BY <2>1 DEF SecondHalf
  <1>8. [i \in 1..w |-> os[2 * i].n] = c
    BY <1>6, <1>7
  <1> QED
    BY <1>6, <1>8 DEF Replayed, w

-----------------------------------------------------------------------------
(***************************************************************************)
(* The order of what is replayed.                                          *)
(***************************************************************************)
\* A write ahead of an earlier one comes again behind it.
InOrder(s) ==
    \A i, j \in DOMAIN s :
        i < j /\ s[i] > s[j] => \E k \in DOMAIN s : k > j /\ s[k] = s[i]

Increasing(s) == \A i, j \in DOMAIN s : i < j => s[i] < s[j]

\* None of the writes of s is later than the n-th.
Until(s, n) == \A i \in DOMAIN s : s[i] <= n

LEMMA IncreasingInOrder ==
    ASSUME NEW s \in Seq(Nat), Increasing(s)
    PROVE  InOrder(s)
  <1> SUFFICES ASSUME NEW i \in DOMAIN s, NEW j \in DOMAIN s, i < j, s[i] > s[j]
               PROVE  FALSE
    BY DEF InOrder
  <1>1. s[i] < s[j]
    BY DEF Increasing
  <1> QED
    BY <1>1

LEMMA IncreasingPrefix ==
    ASSUME NEW s \in Seq(Nat), Increasing(s), NEW m \in 0..Len(s)
    PROVE  Increasing(SubSeq(s, 1, m))
  <1> DEFINE t == SubSeq(s, 1, m)
  <1>1. DOMAIN t = 1..m /\ \A i \in 1..m : t[i] = s[i] /\ i \in DOMAIN s
    OBVIOUS
  <1> HIDE DEF t
  <1>2. Increasing(t)
    BY <1>1 DEF Increasing
  <1> QED
    BY <1>2 DEF t

\* A new write goes to the end.
LEMMA OrderAppend ==
    ASSUME NEW s \in Seq(Nat), NEW n \in Nat, Until(s, n)
    PROVE  /\ Append(s, n + 1) \in Seq(Nat)
           /\ Until(Append(s, n + 1), n + 1)
           /\ InOrder(s) => InOrder(Append(s, n + 1))
           /\ Increasing(s) => Increasing(Append(s, n + 1))
  <1> DEFINE t == Append(s, n + 1)
             e == Len(s) + 1
  <1>1. /\ t \in Seq(Nat) /\ DOMAIN t = 1..e /\ e \in Nat /\ DOMAIN s = 1..(e - 1)
        /\ \A i \in 1..(e - 1) : t[i] = s[i] /\ s[i] \in Nat
        /\ t[e] = n + 1
    OBVIOUS
  <1> HIDE DEF t, e
  <1>2. \A i \in 1..(e - 1) : t[i] <= n
    BY <1>1 DEF Until
  <1>3. Until(t, n + 1)
    <2> SUFFICES ASSUME NEW i \in 1..e PROVE t[i] <= n + 1
      BY <1>1 DEF Until
    <2>1. CASE i = e
      BY <1>1, <2>1
    <2>2. CASE i # e
      <3>1. i \in 1..(e - 1)
        BY <1>1, <2>2
      <3> QED
        BY <1>1, <1>2, <3>1
    <2> QED
      BY <2>1, <2>2
  <1>4. ASSUME InOrder(s)
        PROVE  InOrder(t)
    <2> SUFFICES ASSUME NEW i \in 1..e, NEW j \in 1..e, i < j, t[i] > t[j]
                 PROVE  \E k \in 1..e : k > j /\ t[k] = t[i]
      BY <1>1, Zenon DEF InOrder
    <2>1. i \in 1..(e - 1)
      BY <1>1
    <2>2. j # e
      BY <1>1, <1>2, <2>1
    <2>3. j \in 1..(e - 1)
      BY <1>1, <2>2
    <2>4. s[i] > s[j]
      BY <1>1, <2>1, <2>3
    <2>5. PICK k \in 1..(e - 1) : k > j /\ s[k] = s[i]
      BY <1>1, <1>4, <2>1, <2>3, <2>4, Zenon DEF InOrder
    <2>6. k \in 1..e /\ t[k] = t[i]
      BY <1>1, <2>1, <2>5
    <2> QED
      BY <2>5, <2>6
  <1>5. ASSUME Increasing(s)
        PROVE  Increasing(t)
    <2> SUFFICES ASSUME NEW i \in 1..e, NEW j \in 1..e, i < j
                 PROVE  t[i] < t[j]
      BY <1>1 DEF Increasing
    <2>1. i \in 1..(e - 1)
      BY <1>1
    <2>2. CASE j = e
      BY <1>1, <1>2, <2>1, <2>2
    <2>3. CASE j # e
      <3>1. j \in 1..(e - 1)
        BY <1>1, <2>3
      <3> QED
        BY <1>1, <1>5, <2>1, <3>1, Zenon DEF Increasing
    <2> QED
      BY <2>2, <2>3
  <1> QED
    BY <1>1, <1>3, <1>4, <1>5 DEF t

LEMMA UntilLater ==
    ASSUME NEW s \in Seq(Nat), NEW n \in Nat, Until(s, n)
    PROVE  Until(s, n + 1)
  BY DEF Until

LEMMA UntilConcat ==
    ASSUME NEW s \in Seq(Nat), NEW t \in Seq(Nat), NEW n \in Nat, Until(s, n), Until(t, n)
    PROVE  s \o t \in Seq(Nat) /\ Until(s \o t, n)
  BY DEF Until

LEMMA UntilPrefix ==
    ASSUME NEW s \in Seq(Nat), NEW n \in Nat, Until(s, n), NEW m \in 0..Len(s)
    PROVE  SubSeq(s, 1, m) \in Seq(Nat) /\ Until(SubSeq(s, 1, m), n)
  BY DEF Until

LEMMA ConcatAt ==
    ASSUME NEW S, NEW x \in Seq(S), NEW y \in Seq(S)
    PROVE  /\ x \o y \in Seq(S)
           /\ DOMAIN (x \o y) = 1..(Len(x) + Len(y))
           /\ \A i \in 1..Len(x) : (x \o y)[i] = x[i]
           /\ \A i \in 1..Len(y) : (x \o y)[Len(x) + i] = y[i]
  OBVIOUS

\* The first m writes of b are written, and then b: what they overtook is
\* overtaken again by the second copy.
LEMMA OrderShort ==
    ASSUME NEW c \in Seq(Nat), NEW b \in Seq(Nat), NEW m \in 0..Len(b),
           Increasing(b), InOrder(c \o b)
    PROVE  InOrder((c \o SubSeq(b, 1, m)) \o b)
  <1> DEFINE s == c \o b
             t == (c \o SubSeq(b, 1, m)) \o b
             C == Len(c)
             B == Len(b)
  <1>1. C \in Nat /\ B \in Nat /\ m \in Nat /\ m <= B /\ DOMAIN b = 1..B
    OBVIOUS
  <1>2. /\ DOMAIN s = 1..(C + B)
        /\ \A i \in 1..C : s[i] = c[i]
        /\ \A i \in 1..B : s[C + i] = b[i]
        /\ \A i \in 1..(C + B) : s[i] \in Nat
    OBVIOUS
  <1>3. /\ DOMAIN t = 1..(C + m + B)
        /\ \A i \in 1..C : t[i] = c[i]
        /\ \A i \in 1..m : t[C + i] = b[i]
        /\ \A i \in 1..B : t[C + m + i] = b[i]
    <2> DEFINE p == SubSeq(b, 1, m)
               q == c \o p
    <2>1. p \in Seq(Nat) /\ Len(p) = m /\ \A i \in 1..m : p[i] = b[i]
      OBVIOUS
    <2> HIDE DEF p
    <2>2. /\ q \in Seq(Nat) /\ Len(q) = C + m
          /\ \A i \in 1..C : q[i] = c[i]
          /\ \A i \in 1..m : q[C + i] = p[i]
      <3>1. p \in Seq(Nat) /\ Len(p) = m
        BY <2>1
      <3>2. q \in Seq(Nat) /\ Len(q) = Len(c) + Len(p)
        BY <3>1, ConcatProperties, Zenon
      <3>3. /\ \A i \in 1..Len(c) : q[i] = c[i]
            /\ \A i \in 1..Len(p) : q[Len(c) + i] = p[i]
        BY <3>1, ConcatAt
      <3> QED
        BY <3>1, <3>2, <3>3
    <2>3. t = q \o b
      BY DEF p
    <2> HIDE DEF q, C, B, t
    <2>4. /\ DOMAIN t = 1..(Len(q) + Len(b))
          /\ \A i \in 1..Len(q) : t[i] = q[i]
          /\ \A i \in 1..Len(b) : t[Len(q) + i] = b[i]
      <3>1. q \in Seq(Nat)
        BY <2>2
      <3> QED
        BY <2>3, <3>1, ConcatAt
    <2>5. /\ \A i \in 1..C : i \in 1..Len(q)
          /\ \A i \in 1..m : C + i \in 1..Len(q)
      BY <1>1, <2>2
    <2> QED
      BY <1>1, <2>1, <2>2, <2>4, <2>5 DEF B
  <1>4. InOrder(s)
    OBVIOUS
  <1> HIDE DEF s, t, C, B
  <1>5. ASSUME NEW i \in 1..B, NEW j \in 1..B, b[j] < b[i]
        PROVE  j < i
    <2>1. b[i] \in Nat /\ b[j] \in Nat
      BY DEF B
    <2>2. i < j => b[i] < b[j]
      BY <1>1, Zenon DEF Increasing
    <2>3. i = j => b[i] = b[j]
      OBVIOUS
    <2> QED
      BY <1>5, <2>1, <2>2, <2>3
  <1>10. DOMAIN t = 1..(C + m + B)
    BY <1>3
  <1> SUFFICES ASSUME NEW i \in 1..(C + m + B), NEW j \in 1..(C + m + B), i < j, t[i] > t[j]
               PROVE  \E k \in 1..(C + m + B) : k > j /\ t[k] = t[i]
    <2>1. InOrder(t) => InOrder((c \o SubSeq(b, 1, m)) \o b)
      BY DEF t
    <2> QED
      BY <1>10, <2>1, Zenon DEF InOrder
  \* the place in b of what is at place l of t
  <1> DEFINE Inb(l) == IF l <= C + m THEN l - C ELSE l - C - m
  <1>6. ASSUME NEW l \in 1..(C + m + B), l > C
        PROVE  Inb(l) \in 1..B /\ t[l] = b[Inb(l)] /\ l <= C + m + Inb(l)
    <2>1. CASE l <= C + m
      <3>1. l - C \in 1..m /\ C + (l - C) = l
        BY <1>1, <1>6, <2>1
      <3>2. t[C + (l - C)] = b[l - C]
        BY <1>3, <3>1
      <3> QED
        BY <1>1, <2>1, <3>1, <3>2
    <2>2. CASE ~(l <= C + m)
      <3>1. l - C - m \in 1..B /\ C + m + (l - C - m) = l
        BY <1>1, <2>2
      <3>2. t[C + m + (l - C - m)] = b[l - C - m]
        BY <1>3, <3>1
      <3> QED
        BY <1>1, <2>2, <3>1, <3>2
    <2> QED
      BY <2>1, <2>2
  <1> HIDE DEF Inb
  <1>7. CASE i > C
    <2>1. j > C
      BY <1>1, <1>7
    <2>2. Inb(j) < Inb(i)
      <3>1. /\ Inb(i) \in 1..B /\ t[i] = b[Inb(i)]
            /\ Inb(j) \in 1..B /\ t[j] = b[Inb(j)]
        BY <1>6, <1>7, <2>1
      <3>2. b[Inb(j)] \in Nat /\ b[Inb(i)] \in Nat
        BY <3>1 DEF B
      <3>3. b[Inb(j)] < b[Inb(i)]
        BY <3>1, <3>2
      <3> QED
        BY <1>5, <3>1, <3>3
    <2> DEFINE k == C + m + Inb(i)
    <2>3. k \in 1..(C + m + B) /\ k > j
      BY <1>1, <1>6, <1>7, <2>1, <2>2
    <2>4. t[k] = t[i]
      BY <1>3, <1>6, <1>7
    <2> HIDE DEF k
    <2> QED
      BY <2>3, <2>4
  <1>8. CASE ~(i > C)
    <2>1. i \in 1..C /\ t[i] = s[i] /\ i \in 1..(C + B)
      BY <1>1, <1>2, <1>3, <1>8
    \* where the later place of the pair is in s
    <2> DEFINE l == IF j > C THEN C + Inb(j) ELSE j
    <2>2. l \in 1..(C + B) /\ s[l] = t[j] /\ i < l
      <3>1. CASE j > C
        <4>1. Inb(j) \in 1..B /\ t[j] = b[Inb(j)]
          BY <1>6, <3>1
        <4>2. s[C + Inb(j)] = b[Inb(j)]
          BY <1>2, <4>1
        <4> QED
          BY <1>1, <2>1, <3>1, <4>1, <4>2
      <3>2. CASE ~(j > C)
        BY <1>1, <1>2, <1>3, <2>1, <3>2
      <3> QED
        BY <3>1, <3>2
    <2>3. j > C => j <= m + l /\ C < l
      BY <1>1, <1>6
    <2>4. ~(j > C) => j = l
      OBVIOUS
    <2> HIDE DEF l
    <2>5. PICK k \in 1..(C + B) : k > l /\ s[k] = s[i]
      BY <1>2, <1>4, <2>1, <2>2, Zenon DEF InOrder
    <2>6. CASE k <= C
      <3>1. k \in 1..(C + m + B) /\ t[k] = s[k]
        BY <1>1, <1>2, <1>3, <2>6
      <3>2. k > j
        BY <1>1, <2>2, <2>3, <2>4, <2>5, <2>6
      <3> QED
        BY <2>1, <2>5, <3>1, <3>2
    <2>7. CASE ~(k <= C)
      <3>1. k - C \in 1..B /\ C + (k - C) = k /\ C + m + (k - C) = m + k
        BY <1>1, <2>7
      <3>2. s[C + (k - C)] = b[k - C] /\ t[C + m + (k - C)] = b[k - C]
        BY <1>2, <1>3, <3>1
      <3>3. t[m + k] = s[k]
        BY <3>1, <3>2
      <3>4. m + k \in 1..(C + m + B) /\ m + k > j
        BY <1>1, <2>2, <2>3, <2>4, <2>5
      <3> QED
        BY <2>1, <2>5, <3>3, <3>4
    <2> QED
      BY <2>6, <2>7
  <1> QED
    BY <1>7, <1>8

-----------------------------------------------------------------------------
(***************************************************************************)
(* The invariant.                                                          *)
(***************************************************************************)
Flags == {handle, exists, due, rewritten} \subseteq BOOLEAN

Values ==
    /\ policy \in Policies
    /\ mode \in {"up", "down", "refused"}
    /\ mem \in Seq(Nat)
    /\ buffer \in Seq(Half) /\ stdio \in Seq(Half) /\ os \in Seq(Half) /\ temp \in Seq(Half)
    /\ medium \in 0..Len(os)
    /\ rewriting \in {"no", "temp", "close", "remove", "rename"}
    /\ commands \in Nat /\ acked \in Nat
    /\ durable \in Seq(Nat)
    /\ reopens \in Nat /\ cuts \in Nat /\ failures \in Nat /\ crashes \in Nat /\ shutdowns \in Nat

\* The bytes of the file, those that are still on their way included.
Log == (os \o stdio) \o buffer

\* Where nothing can be on its way.
Idle == mode # "up" \/ ~handle \/ rewriting \in {"remove", "rename"}

Structure ==
    /\ mode # "up" => rewriting = "no"
    /\ Idle => stdio = <<>> /\ buffer = <<>>
    /\ rewriting = "rename" => os = <<>> /\ medium = 0 /\ rewritten
    /\ rewriting \in {"close", "remove", "rename"} => temp = Encoded(mem)
    /\ reopens <= failures /\ cuts <= failures
    /\ failures = 0 => handle
    /\ crashes + shutdowns = 0 => mode = "up"

\* Every failure so far was that of opening the file again.
Unharmed == crashes = 0 /\ failures = reopens

\* The file is kept up to date.
Current == mode # "refused" /\ handle /\ rewriting # "rename"

\* The file is the stream of the commands, up to the last one that found it open.
Complete ==
    Unharmed =>
        \E p \in Seq(Nat) : Log = Encoded(p) /\ IsPrefix(p, mem) /\ (Current => p = mem)

\* What a crash left of the file.
Recoverable ==
    /\ IsPrefix(durable, mem)
    /\ 2 * Len(durable) <= Len(os)
    /\ Len(os) <= 2 * Len(mem)
    /\ os = SubSeq(Encoded(mem), 1, Len(os))

\* What was there at the last fsync is on the medium, until the first crash and
\* in what that crash leaves.
Synced ==
    failures = 0 /\ ~rewritten =>
        /\ crashes + shutdowns = 0 => IsPrefix(durable, mem) /\ 2 * Len(durable) <= medium
        /\ crashes + shutdowns = 1 /\ mode = "down" => Recoverable

\* The commands of c and behind them those of b, which buffer_ holds.
Holds(c, b) ==
    /\ os \o stdio = Encoded(c)
    /\ buffer = Encoded(b)
    /\ Increasing(b)
    /\ Until(c, acked) /\ Until(b, acked)
    /\ InOrder(c \o b)

Clean == \E c, b \in Seq(Nat) : Holds(c, b)

\* Replay ends behind the commands of c, at half a command with more behind it.
TornAt(c) ==
    /\ Begins(Log, c)
    /\ Len(Log) >= 2 * Len(c) + 2 /\ Log[2 * Len(c) + 2].part = 1
    /\ InOrder(c)
    /\ Until(c, acked)

Torn == \E c \in Seq(Nat) : TornAt(c)

\* No short write ended inside a command, or nothing else went wrong.
Tidy == crashes = 0 /\ (cuts = 0 \/ failures = 1)

Order ==
    Tidy =>
        /\ InOrder(mem) /\ Until(mem, acked)
        /\ failures = 0 => Increasing(mem)
        /\ Clean \/ (cuts = 1 /\ Torn)

IInv == Flags /\ Values /\ Structure /\ Complete /\ Synced /\ Order

LEMMA TypeParts == TypeOK <=> Flags /\ Values
  BY DEF TypeOK, Flags, Values

LEMMA InitInv == Init => IInv
  <1> SUFFICES ASSUME Init PROVE IInv
    OBVIOUS
  <1>1. <<>> \in Seq(Nat) /\ <<>> \in Seq(Half) /\ Len(<<>>) = 0 /\ DOMAIN <<>> = {}
    OBVIOUS
  <1>2. Flags
    BY Zenon DEF Init, Flags
  <1>3. Values
    BY <1>1 DEF Init, Values
  <1>4. (<<>> \o <<>>) \o <<>> = <<>> /\ <<>> \o <<>> = <<>>
    OBVIOUS
  <1>5. Log = <<>>
    BY <1>4 DEF Init, Log
  <1>6. IsPrefix(<<>>, <<>>)
    BY DEF IsPrefix
  <1>7. Structure
    <2>1. handle = TRUE /\ mode = "up" /\ rewriting = "no"
      BY DEF Init
    <2>2. reopens <= failures /\ cuts <= failures
      BY DEF Init
    <2> QED
      BY <2>1, <2>2, Zenon DEF Structure, Idle
  <1>8. Complete
    <2>1. mem = <<>>
      BY DEF Init
    <2> QED
      BY <1>1, <1>5, <1>6, <2>1, EncodedEmpty, Zenon DEF Complete
  <1>9. Synced
    <2>1. mem = <<>> /\ durable = <<>> /\ 2 * Len(durable) <= medium /\ crashes + shutdowns # 1
      BY <1>1 DEF Init
    <2> QED
      BY <1>6, <2>1, Zenon DEF Synced
  <1>10. Order
    <2>1. InOrder(<<>>) /\ Increasing(<<>>) /\ Until(<<>>, acked)
      BY DEF InOrder, Increasing, Until
    <2>2. mem = <<>> /\ os = <<>> /\ stdio = <<>> /\ buffer = <<>>
      BY DEF Init
    <2>3. Holds(<<>>, <<>>)
      BY <1>4, <2>1, <2>2, EncodedEmpty, Zenon DEF Holds
    <2> QED
      BY <1>1, <2>1, <2>2, <2>3, Zenon DEF Order, Clean
  <1> QED
    BY <1>2, <1>3, <1>7, <1>8, <1>9, <1>10 DEF IInv

-----------------------------------------------------------------------------
(***************************************************************************)
(* Steps of a running server that move the bytes of the file along and add *)
(* none.                                                                   *)
(***************************************************************************)
Shifts ==
    \/ UNCHANGED <<buffer, stdio, os>>
    \/ /\ os' \in Seq(Half) /\ stdio' \in Seq(Half) /\ buffer' = <<>>
       /\ os' \o stdio' = Log
       /\ Len(os) <= Len(os')

Syncs ==
    \/ UNCHANGED <<medium, durable>>
    \/ os' = Log /\ medium' = Len(os') /\ durable' = mem

Calm ==
    /\ mode = "up"
    /\ rewriting # "rename" /\ rewriting' # "rename"
    /\ failures' \in {failures, failures + 1}
    /\ UNCHANGED <<mode, mem, handle, acked, reopens, cuts, crashes, shutdowns, rewritten>>

LEMMA LogType ==
    ASSUME Values
    PROVE  Log \in Seq(Half) /\ os \o stdio \in Seq(Half)
  BY DEF Values, Log

LEMMA HalvesConcat ==
    \A x, y, z \in Seq(Half) : (x \o y) \o z = x \o (y \o z)
  BY ConcatAssociative

\* What Push does: the bytes are the same, and further along.
LEMMA PushShifts ==
    ASSUME Values, NEW k \in 0..Len(Unwritten), Push(k)
    PROVE  Shifts /\ (k = Len(Unwritten) => os' = Log /\ stdio' = <<>>)
  <1> DEFINE u == Unwritten
             p == SubSeq(u, 1, k)
             q == SubSeq(u, k + 1, Len(u))
  <1>1. os \in Seq(Half) /\ stdio \in Seq(Half) /\ buffer \in Seq(Half)
    BY DEF Values
  <1>2. u \in Seq(Half)
    BY <1>1 DEF Unwritten
  <1>3. os \o u = Log
    BY <1>1 DEF Unwritten, Log
  <1>4. os' = os \o p /\ stdio' = q /\ buffer' = <<>>
    BY DEF Push
  <1> HIDE DEF u
  <1>5. k \in 0..Len(u)
    BY DEF u
  <1>6. p \in Seq(Half) /\ q \in Seq(Half) /\ p \o q = u
    <2>1. 1 \in 1..(Len(u) + 1) /\ k \in (1 - 1)..Len(u) /\ Len(u) \in k..Len(u)
      BY <1>2, <1>5
    <2>2. p \o q = SubSeq(u, 1, Len(u))
      BY <1>2, <2>1, ConcatAdjacentSubSeq, Zenon
    <2>3. SubSeq(u, 1, Len(u)) = u
      BY <1>2, SubSeqFull
    <2>4. p \in Seq(Half) /\ q \in Seq(Half)
      BY <1>2, <1>5
    <2> QED
      BY <2>2, <2>3, <2>4, Zenon
  <1>7. k = Len(u) => p = u /\ q = <<>>
    BY <1>2, <1>5
  <1> HIDE DEF p, q
  <1>8. os' \in Seq(Half) /\ stdio' \in Seq(Half) /\ Len(os) <= Len(os')
    BY <1>1, <1>4, <1>6
  <1>9. os' \o stdio' = os \o u
    <2>1. p \in Seq(Half) /\ q \in Seq(Half)
      BY <1>6
    <2>2. (os \o p) \o q = os \o (p \o q)
      BY <1>1, <2>1, HalvesConcat, Zenon
    <2> QED
      BY <1>4, <1>6, <2>2
  <1>10. Shifts
    BY <1>3, <1>4, <1>8, <1>9 DEF Shifts
  <1> QED
    BY <1>3, <1>4, <1>7, <1>10, Zenon DEF u

LEMMA ShiftsLog ==
    ASSUME Values, Shifts
    PROVE  Log' = Log
  <1>1. CASE UNCHANGED <<buffer, stdio, os>>
    BY <1>1 DEF Log
  <1>2. CASE os' \o stdio' = Log /\ buffer' = <<>>
    <2>1. Log \o <<>> = Log
      BY LogType
    <2> QED
      BY <1>2, <2>1 DEF Log
  <1> QED
    BY <1>1, <1>2 DEF Shifts

\* fsync_handle.
LEMMA FsyncShifts ==
    ASSUME Values, FsyncHandle
    PROVE  Shifts /\ Syncs /\ os' = Log /\ stdio' = <<>> /\ buffer' = <<>>
  <1>1. Len(Unwritten) \in 0..Len(Unwritten)
    BY DEF Values, Unwritten
  <1>2. Push(Len(Unwritten)) /\ medium' = Len(os') /\ durable' = mem
    BY DEF FsyncHandle
  <1>3. Shifts /\ os' = Log /\ stdio' = <<>>
    BY <1>1, <1>2, PushShifts
  <1>4. buffer' = <<>>
    BY <1>2 DEF Push
  <1> QED
    BY <1>2, <1>3, <1>4 DEF Syncs

LEMMA CompleteCalm ==
    ASSUME Values, Structure, Complete, Calm, Shifts
    PROVE  Complete'
  <1>1. Log' = Log
    BY ShiftsLog
  <1>2. Unharmed' => Unharmed
    <2>1. failures' \in {failures, failures + 1} /\ UNCHANGED <<crashes, reopens>>
      BY DEF Calm
    <2>2. failures \in Nat /\ reopens \in Nat /\ reopens <= failures
      BY DEF Values, Structure
    <2> QED
      BY <2>1, <2>2 DEF Unharmed
  <1>3. Current' => Current
    BY Zenon DEF Current, Calm
  <1>4. mem' = mem
    BY DEF Calm
  <1> QED
    BY <1>1, <1>2, <1>3, <1>4, Zenon DEF Complete

LEMMA PrefixItself ==
    ASSUME NEW S, NEW s \in Seq(S)
    PROVE  IsPrefix(s, s)
  BY DEF IsPrefix

LEMMA SyncedCalm ==
    ASSUME Flags, Values, Structure, Complete, Synced, Calm, Shifts, Syncs
    PROVE  Synced'
  <1>1. SUFFICES ASSUME failures' = 0, ~rewritten', crashes' + shutdowns' = 0
                 PROVE  IsPrefix(durable', mem') /\ 2 * Len(durable') <= medium'
    <2>1. mode' # "down"
      BY DEF Calm
    <2> QED
      BY <1>1, <2>1, Zenon DEF Synced
  <1>2. failures = 0 /\ crashes + shutdowns = 0 /\ crashes = 0
    <2>1. failures' \in {failures, failures + 1} /\ UNCHANGED <<crashes, shutdowns>>
      BY DEF Calm
    <2>2. failures \in Nat /\ crashes \in Nat /\ shutdowns \in Nat
      BY DEF Values
    <2> QED
      BY <1>1, <2>1, <2>2
  <1>3. ~rewritten
    BY <1>1, Zenon DEF Calm
  <1>4. IsPrefix(durable, mem) /\ 2 * Len(durable) <= medium
    BY <1>2, <1>3, Zenon DEF Synced
  <1>5. mem' = mem
    BY DEF Calm
  <1>6. CASE UNCHANGED <<medium, durable>>
    BY <1>4, <1>5, <1>6
  <1>7. CASE os' = Log /\ medium' = Len(os') /\ durable' = mem
    <2>1. Log = Encoded(mem)
      <3>1. Unharmed
        BY <1>2 DEF Structure, Values, Unharmed
      <3>2. Current
        <4>1. handle
          BY <1>2, Zenon DEF Structure
        <4>2. mode # "refused" /\ rewriting # "rename"
          BY DEF Calm
        <4> QED
          BY <4>1, <4>2, Zenon DEF Current
      <3> QED
        BY <3>1, <3>2, Zenon DEF Complete
    <2>2. mem \in Seq(Nat)
      BY DEF Values
    <2>3. medium' = 2 * Len(mem)
      BY <1>7, <2>1, <2>2, EncodedAt
    <2>4. IsPrefix(mem, mem)
      BY <2>2, PrefixItself
    <2> QED
      BY <1>5, <1>7, <2>2, <2>3, <2>4
  <1> QED
    BY <1>6, <1>7 DEF Syncs

\* The bytes move along, the commands stay.
LEMMA HoldsShifts ==
    ASSUME Values, Clean, Shifts, acked' = acked
    PROVE  Clean'
  <1>1. PICK c \in Seq(Nat), b \in Seq(Nat) : Holds(c, b)
    BY DEF Clean
  <1>2. CASE UNCHANGED <<buffer, stdio, os>>
    <2>1. Holds(c, b)'
      BY <1>1, <1>2 DEF Holds
    <2> QED
      BY <2>1 DEF Clean
  <1>3. CASE os' \o stdio' = Log /\ buffer' = <<>>
    <2> DEFINE d == c \o b
    <2>1. Log = Encoded(d)
      BY <1>1, EncodedConcat, Zenon DEF Holds, Log
    <2>2. d \in Seq(Nat) /\ Until(d, acked)
      <3>1. Until(c, acked) /\ Until(b, acked) /\ acked \in Nat
        BY <1>1 DEF Holds, Values
      <3> QED
        BY <3>1, UntilConcat
    <2>3. InOrder(d)
      BY <1>1 DEF Holds
    <2> HIDE DEF d
    <2>4. d \o <<>> = d /\ <<>> \in Seq(Nat) /\ Increasing(<<>>) /\ Until(<<>>, acked)
      BY <2>2 DEF Increasing, Until
    <2>5. Holds(d, <<>>)'
      BY <1>3, <2>1, <2>2, <2>3, <2>4, EncodedEmpty, Zenon DEF Holds
    <2> QED
      BY <2>2, <2>4, <2>5, Zenon DEF Clean
  <1> QED
    BY <1>2, <1>3 DEF Shifts

LEMMA TornKept ==
    ASSUME Torn, Log' = Log, acked' = acked
    PROVE  Torn'
  BY DEF Torn, TornAt

LEMMA OrderCalm ==
    ASSUME Values, Structure, Order, Calm, Shifts
    PROVE  Order'
  <1> SUFFICES ASSUME Tidy'
               PROVE  /\ InOrder(mem') /\ Until(mem', acked')
                      /\ failures' = 0 => Increasing(mem')
                      /\ Clean' \/ (cuts' = 1 /\ Torn')
    BY DEF Order
  <1>1. /\ mem' = mem /\ acked' = acked /\ cuts' = cuts /\ crashes' = crashes
        /\ failures' \in {failures, failures + 1}
    BY DEF Calm
  <1>2. failures \in Nat /\ cuts \in Nat /\ cuts <= failures
    BY DEF Values, Structure
  <1>3. Tidy
    BY <1>1, <1>2 DEF Tidy
  <1>4. failures' = 0 => failures = 0
    BY <1>1, <1>2
  <1>5. /\ InOrder(mem) /\ Until(mem, acked)
        /\ failures = 0 => Increasing(mem)
        /\ Clean \/ (cuts = 1 /\ Torn)
    BY <1>3 DEF Order
  <1>6. Clean' \/ (cuts' = 1 /\ Torn')
    BY <1>1, <1>5, HoldsShifts, TornKept, ShiftsLog
  <1> QED
    BY <1>1, <1>4, <1>5, <1>6

LEMMA CalmStep ==
    ASSUME IInv, Calm, Shifts, Syncs
    PROVE  Complete' /\ Synced' /\ Order'
  BY CompleteCalm, SyncedCalm, OrderCalm DEF IInv

LEMMA SecondStep ==
    ASSUME IInv, Second
    PROVE  IInv'
  <1>1. /\ UNCHANGED <<rewritten, policy, mode, mem, handle, buffer, stdio, exists, os, medium, temp>>
        /\ UNCHANGED <<rewriting, commands, acked, durable, reopens, cuts, failures, crashes, shutdowns>>
        /\ due' = TRUE /\ mode = "up"
    BY Zenon DEF Second, fileVars, histVars
  <1>2. Flags'
    BY <1>1 DEF IInv, Flags
  <1>3. Values'
    BY <1>1 DEF IInv, Values
  <1>4. Structure'
    BY <1>1, Zenon DEF IInv, Structure, Idle
  <1>5. Complete'
    BY <1>1, Zenon DEF IInv, Complete, Unharmed, Current, Log
  <1>6. Synced'
    BY <1>1, Zenon DEF IInv, Synced, Recoverable
  <1>7. Order'
    BY <1>1, Zenon DEF IInv, Order, Tidy, Clean, Holds, Torn, TornAt, Log
  <1> QED
    BY <1>2, <1>3, <1>4, <1>5, <1>6, <1>7 DEF IInv

LEMMA RewriteBegins ==
    ASSUME IInv, rewrite_aof \/ RewriteTemp \/ RewriteTempFails
    PROVE  IInv'
  <1>1. /\ UNCHANGED <<rewritten, policy, mode, mem, handle, buffer, stdio, exists, os, medium>>
        /\ UNCHANGED <<commands, due, acked, durable, reopens, cuts, crashes, shutdowns>>
        /\ mode = "up" /\ rewriting \in {"no", "temp"}
    BY Zenon DEF rewrite_aof, RewriteTemp, RewriteTempFails, LoopFree, fileVars, histVars
  <1>2. \/ rewriting' \in {"no", "temp"} /\ temp' = temp
        \/ rewriting' = "close" /\ temp' = Encoded(mem)
    BY DEF rewrite_aof, RewriteTemp, RewriteTempFails, fileVars
  <1>3. failures' = failures \/ failures' = failures + 1
    BY DEF rewrite_aof, RewriteTemp, RewriteTempFails, histVars
  <1>4. Values /\ Flags /\ Structure
    BY DEF IInv
  <1>5. Flags'
    BY <1>1, <1>4, Zenon DEF Flags
  <1>6. failures' \in Nat /\ failures <= failures' /\ failures \in Nat
    BY <1>3, <1>4 DEF Values
  <1>7. temp' \in Seq(Half) /\ rewriting' \in {"no", "temp", "close"}
    BY <1>2, <1>4, EncodedAt DEF Values
  <1>8. Values'
    BY <1>1, <1>4, <1>6, <1>7 DEF Values
  <1>9. Structure'
    <2>1. reopens' <= failures' /\ cuts' <= failures'
      BY <1>1, <1>4, <1>6 DEF Structure, Values
    <2>2. failures' = 0 => failures = 0
      BY <1>6
    <2>3. rewriting' # "remove" /\ rewriting' # "rename"
      BY <1>7
    <2>4. Idle' => Idle
      BY <1>1, <2>3, Zenon DEF Idle
    <2>5. rewriting' = "close" => temp' = Encoded(mem')
      BY <1>1, <1>2
    <2>6. Idle' => stdio' = <<>> /\ buffer' = <<>>
      BY <1>1, <1>4, <2>4, Zenon DEF Structure
    <2>7. failures' = 0 => handle'
      BY <1>1, <1>4, <2>2, Zenon DEF Structure
    <2> QED
      BY <1>1, <2>1, <2>3, <2>5, <2>6, <2>7, Zenon DEF Structure
  <1>10. Calm
    <2>1. rewriting # "rename" /\ rewriting' # "rename"
      BY <1>1, <1>7
    <2> QED
      BY <1>1, <1>3, <2>1, Zenon DEF Calm
  <1>11. Shifts /\ Syncs
    BY <1>1 DEF Shifts, Syncs
  <1> QED
    BY <1>5, <1>8, <1>9, <1>10, <1>11, CalmStep DEF IInv

\* close(): nothing is on its way any more.
LEMMA CloseShifts ==
    ASSUME Values, Structure, close
    PROVE  /\ Shifts /\ Syncs /\ os' = Log /\ stdio' = <<>> /\ buffer' = <<>>
           /\ handle => durable' = mem
  <1>1. CASE handle
    <2>1. FsyncHandle
      BY <1>1, Zenon DEF close
    <2>2. Shifts /\ Syncs /\ os' = Log /\ stdio' = <<>> /\ buffer' = <<>>
      BY <2>1, FsyncShifts
    <2>3. durable' = mem
      BY <2>1 DEF FsyncHandle
    <2> QED
      BY <2>2, <2>3
  <1>2. CASE ~handle
    <2>1. UNCHANGED <<buffer, stdio, os, medium, durable>>
      BY <1>2, Zenon DEF close
    <2>2. stdio = <<>> /\ buffer = <<>>
      BY <1>2, Zenon DEF Structure, Idle
    <2>3. Shifts /\ Syncs
      BY <2>1 DEF Shifts, Syncs
    <2>4. (os \o <<>>) \o <<>> = os
      BY DEF Values
    <2>5. Log = os
      BY <2>2, <2>4 DEF Log
    <2> QED
      BY <1>2, <2>1, <2>2, <2>3, <2>5, Zenon
  <1> QED
    BY <1>1, <1>2

LEMMA ShiftTypes ==
    ASSUME Values, Shifts, Syncs
    PROVE  /\ os' \in Seq(Half) /\ stdio' \in Seq(Half) /\ buffer' \in Seq(Half)
           /\ medium' \in 0..Len(os') /\ durable' \in Seq(Nat)
  <1>1. /\ os \in Seq(Half) /\ stdio \in Seq(Half) /\ buffer \in Seq(Half)
        /\ medium \in 0..Len(os) /\ durable \in Seq(Nat) /\ mem \in Seq(Nat)
    BY DEF Values
  <1>2. /\ os' \in Seq(Half) /\ stdio' \in Seq(Half) /\ buffer' \in Seq(Half)
        /\ Len(os) <= Len(os')
    <2>1. <<>> \in Seq(Half) /\ Len(os) <= Len(os)
      BY <1>1
    <2> QED
      BY <1>1, <2>1, Zenon DEF Shifts
  <1>3. Len(os) \in Nat /\ Len(os') \in Nat
    BY <1>1, <1>2
  <1>4. medium' \in 0..Len(os') /\ durable' \in Seq(Nat)
    BY <1>1, <1>2, <1>3 DEF Syncs
  <1> QED
    BY <1>2, <1>4

\* close(), on the way of a rewrite.
LEMMA RewriteCloseStep ==
    ASSUME IInv, RewriteClose
    PROVE  IInv'
  <1>1. /\ UNCHANGED <<rewritten, policy, mode, mem, handle, exists, temp, commands, due, acked>>
        /\ UNCHANGED <<reopens, cuts, failures, crashes, shutdowns>>
        /\ mode = "up" /\ rewriting = "close" /\ rewriting' = "remove"
    BY Zenon DEF RewriteClose, histVars
  <1>2. Values /\ Flags /\ Structure
    BY DEF IInv
  <1>3. /\ Shifts /\ Syncs /\ stdio' = <<>> /\ buffer' = <<>>
        /\ os' \in Seq(Half) /\ medium' \in 0..Len(os') /\ durable' \in Seq(Nat)
    BY <1>2, CloseShifts, ShiftTypes DEF RewriteClose
  <1>4. Flags'
    BY <1>1, <1>2, Zenon DEF Flags
  <1>5. Values'
    BY <1>1, <1>2, <1>3 DEF Values
  <1>6. Structure'
    <2>1. temp' = Encoded(mem')
      BY <1>1, <1>2 DEF Structure
    <2>2. reopens' <= failures' /\ cuts' <= failures'
      BY <1>1, <1>2 DEF Structure
    <2>3. failures' = 0 => handle'
      BY <1>1, <1>2, Zenon DEF Structure
    <2>4. rewriting' # "rename" /\ mode' = "up"
      BY <1>1
    <2> QED
      BY <1>3, <2>1, <2>2, <2>3, <2>4, Zenon DEF Structure
  <1>7. Calm
    <2>1. rewriting # "rename" /\ rewriting' # "rename"
      BY <1>1
    <2> QED
      BY <1>1, <2>1, Zenon DEF Calm
  <1> QED
    BY <1>3, <1>4, <1>5, <1>6, <1>7, CalmStep DEF IInv

\* A file torn behind c stays so when it grows.
LEMMA TornBegins ==
    ASSUME NEW x \in Seq(Half), NEW t \in Seq(Half), NEW c \in Seq(Nat),
           Begins(x, c), Len(x) >= 2 * Len(c) + 2, x[2 * Len(c) + 2].part = 1
    PROVE  /\ Begins(x \o t, c)
           /\ Len(x \o t) >= 2 * Len(c) + 2
           /\ (x \o t)[2 * Len(c) + 2].part = 1
  <1> DEFINE y == x \o t
             m == Len(c)
  <1>1. Len(x) \in Nat /\ Len(t) \in Nat /\ m \in Nat
    OBVIOUS
  <1>2. Len(y) = Len(x) + Len(t) /\ \A i \in 1..Len(x) : y[i] = x[i]
    OBVIOUS
  <1> HIDE DEF y
  <1>3. 2 * m + 2 \in 1..Len(x)
    BY <1>1
  <1>4. Len(y) >= 2 * m + 2 /\ y[2 * m + 2].part = 1
    BY <1>1, <1>2, <1>3
  <1>5. ASSUME NEW j \in 1..m
        PROVE  y[2 * j - 1] = FirstHalf(c[j]) /\ y[2 * j] = SecondHalf(c[j])
    <2>1. 2 * j - 1 \in 1..Len(x) /\ 2 * j \in 1..Len(x)
      BY <1>1
    <2>2. y[2 * j - 1] = x[2 * j - 1] /\ y[2 * j] = x[2 * j]
      BY <1>2, <2>1, Zenon
    <2> QED
      BY <2>2 DEF Begins
  <1>6. 2 * m <= Len(y)
    BY <1>1, <1>4
  <1> QED
    BY <1>4, <1>5, <1>6 DEF Begins, y

\* A write goes behind what the file holds.
LEMMA AppendStep ==
    ASSUME IInv, append
    PROVE  IInv'
  <1>0. PICK n \in Nat : n = acked + 1
    BY DEF IInv, Values
  <1>1. /\ UNCHANGED <<rewritten, policy, mode, handle, stdio, exists, os, medium, temp>>
        /\ UNCHANGED <<rewriting, due, durable, reopens, cuts, failures, crashes, shutdowns>>
        /\ mode = "up" /\ rewriting = "no"
    BY Zenon DEF append, LoopFree, histVars
  <1>2. acked' = n /\ mem' = Append(mem, n)
    BY <1>0 DEF append
  <1>3. \/ handle /\ buffer' = buffer \o encode(n) /\ commands' = commands + 1
        \/ ~handle /\ buffer' = buffer /\ commands' = commands
    BY <1>0, Zenon DEF append
  <1>4. Values /\ Flags /\ Structure
    BY DEF IInv
  <1>5. acked \in Nat /\ n \in Nat /\ mem \in Seq(Nat) /\ mem' \in Seq(Nat)
    BY <1>2, <1>4 DEF Values
  <1>6. encode(n) \in Seq(Half)
    BY <1>5, EncodedOne, Zenon
  <1>7. buffer' \in Seq(Half) /\ commands' \in Nat
    <2>1. buffer' = buffer \o encode(n) \/ buffer' = buffer
      BY <1>3, Zenon
    <2>2. commands' = commands + 1 \/ commands' = commands
      BY <1>3, Zenon
    <2>3. buffer \in Seq(Half) /\ commands \in Nat
      BY <1>4 DEF Values
    <2>4. buffer \o encode(n) \in Seq(Half)
      BY <1>6, <2>3, ConcatProperties
    <2>5. buffer' \in Seq(Half)
      BY <2>1, <2>3, <2>4, Zenon
    <2>6. commands' \in Nat
      BY <2>2, <2>3
    <2> QED
      BY <2>5, <2>6
  <1>8. Flags'
    BY <1>1, <1>4, Zenon DEF Flags
  <1>9. Values'
    BY <1>1, <1>2, <1>4, <1>5, <1>7 DEF Values
  <1>10. Structure'
    <2>1. Idle' => Idle /\ ~handle
      BY <1>1, Zenon DEF Idle
    <2>2. Idle' => stdio' = <<>> /\ buffer' = <<>>
      BY <1>1, <1>3, <1>4, <2>1, Zenon DEF Structure
    <2>3. rewriting' = "no" /\ "no" # "rename" /\ "no" \notin {"close", "remove", "rename"}
      BY <1>1
    <2> QED
      BY <1>1, <1>4, <2>2, <2>3, Zenon DEF Structure
  <1>11. Complete'
    <2> SUFFICES ASSUME Unharmed'
                 PROVE  \E p \in Seq(Nat) : /\ Log' = Encoded(p) /\ IsPrefix(p, mem')
                                            /\ Current' => p = mem'
      BY DEF Complete
    <2>1. Unharmed
      BY <1>1 DEF Unharmed
    <2>2. PICK p \in Seq(Nat) : Log = Encoded(p) /\ IsPrefix(p, mem) /\ (Current => p = mem)
      BY <2>1 DEF IInv, Complete
    <2>3. CASE handle
      <3>1. Current
        <4>1. mode # "refused" /\ rewriting # "rename"
          BY <1>1
        <4> QED
          BY <2>3, <4>1, Zenon DEF Current
      <3>2. Log' = Encoded(mem) \o encode(n)
        <4>1. buffer' = buffer \o encode(n)
          BY <1>3, <2>3, Zenon
        <4>2. os \o stdio \in Seq(Half) /\ buffer \in Seq(Half)
          BY <1>4, LogType DEF Values
        <4>3. (os \o stdio) \o (buffer \o encode(n)) = ((os \o stdio) \o buffer) \o encode(n)
          BY <1>6, <4>2, HalvesConcat, Zenon
        <4>4. Log = Encoded(mem)
          BY <2>2, <3>1
        <4> QED
          BY <1>1, <4>1, <4>3, <4>4 DEF Log
      <3>3. Log' = Encoded(mem')
        BY <1>2, <1>5, <3>2, EncodedAppend, Zenon
      <3>4. IsPrefix(mem', mem')
        BY <1>5, PrefixItself
      <3> QED
        BY <1>5, <3>3, <3>4
    <2>4. CASE ~handle
      <3>1. Log' = Log
        BY <1>1, <1>3, <2>4, Zenon DEF Log
      <3>2. IsPrefix(p, mem')
        BY <1>2, <1>5, <2>2 DEF IsPrefix
      <3>3. ~Current'
        BY <1>1, <2>4, Zenon DEF Current
      <3> QED
        BY <2>2, <3>1, <3>2, <3>3
    <2> QED
      BY <2>3, <2>4
  <1>12. Synced'
    <2>1. IsPrefix(durable, mem) => IsPrefix(durable, mem')
      <3>1. durable \in Seq(Nat)
        BY <1>4 DEF Values
      <3> QED
        BY <1>2, <1>5, <3>1 DEF IsPrefix
    <2>2. mode' # "down"
      BY <1>1
    <2> QED
      BY <1>1, <2>1, <2>2, Zenon DEF IInv, Synced
  <1>13. Order'
    <2> SUFFICES ASSUME Tidy'
                 PROVE  /\ InOrder(mem') /\ Until(mem', acked')
                        /\ failures' = 0 => Increasing(mem')
                        /\ Clean' \/ (cuts' = 1 /\ Torn')
      BY DEF Order
    <2>1. Tidy
      BY <1>1 DEF Tidy
    <2>2. /\ InOrder(mem) /\ Until(mem, acked)
          /\ failures = 0 => Increasing(mem)
          /\ Clean \/ (cuts = 1 /\ Torn)
      BY <2>1 DEF IInv, Order
    <2>3. InOrder(mem') /\ Until(mem', acked') /\ (failures' = 0 => Increasing(mem'))
      BY <1>1, <1>2, <1>5, <2>2, <1>0, OrderAppend
    <2>4. ASSUME Clean
          PROVE  Clean'
      <3>1. PICK c \in Seq(Nat), b \in Seq(Nat) : Holds(c, b)
        BY <2>4 DEF Clean
      <3>2. /\ os \o stdio = Encoded(c) /\ buffer = Encoded(b) /\ Increasing(b)
            /\ Until(c, acked) /\ Until(b, acked) /\ InOrder(c \o b)
        BY <3>1 DEF Holds
      <3>3. Until(c, n)
        BY <1>5, <3>2, <1>0, UntilLater
      <3>4. os' \o stdio' = Encoded(c)
        BY <1>1, <3>2
      <3>5. CASE handle
        <4>0. PICK d : d = Append(b, n)
          BY Zenon
        <4>1. d \in Seq(Nat) /\ Until(d, n) /\ Increasing(d)
          BY <1>5, <3>2, <1>0, <4>0, OrderAppend
        <4>2. buffer' = Encoded(d)
          <5>1. buffer' = buffer \o encode(n)
            BY <1>3, <3>5, Zenon
          <5> QED
            BY <1>5, <3>2, <4>0, <5>1, EncodedAppend, Zenon
        <4>3. InOrder(c \o d)
          <5>1. c \o d = Append(c \o b, n)
            BY <1>5, <4>0
          <5>2. c \o b \in Seq(Nat) /\ Until(c \o b, acked)
            BY <1>5, <3>2, UntilConcat
          <5>3. InOrder(Append(c \o b, n))
            BY <1>5, <3>2, <5>2, <1>0, OrderAppend, Zenon
          <5> QED
            BY <5>1, <5>3
        <4>4. Holds(c, d)'
          BY <1>2, <3>3, <3>4, <4>1, <4>2, <4>3 DEF Holds
        <4> QED
          BY <4>1, <4>4 DEF Clean
      <3>6. CASE ~handle
        <4>1. buffer' = buffer
          BY <1>3, <3>6, Zenon
        <4>2. Until(b, n)
          BY <1>5, <3>2, <1>0, UntilLater
        <4>3. Holds(c, b)'
          BY <1>2, <3>2, <3>3, <3>4, <4>1, <4>2 DEF Holds
        <4> QED
          BY <4>3 DEF Clean
      <3> QED
        BY <3>5, <3>6
    <2>5. ASSUME Torn
          PROVE  Torn'
      <3>1. PICK c \in Seq(Nat) : TornAt(c)
        BY <2>5 DEF Torn
      <3>2. \E t \in Seq(Half) : Log' = Log \o t
        <4>1. os \o stdio \in Seq(Half) /\ buffer \in Seq(Half) /\ Log \in Seq(Half)
          BY <1>4, LogType DEF Values
        <4>2. CASE handle
          <5>1. buffer' = buffer \o encode(n)
            BY <1>3, <4>2, Zenon
          <5>2. (os \o stdio) \o (buffer \o encode(n)) = ((os \o stdio) \o buffer) \o encode(n)
            BY <1>6, <4>1, HalvesConcat, Zenon
          <5>3. Log' = Log \o encode(n)
            BY <1>1, <5>1, <5>2 DEF Log
          <5> QED
            BY <1>6, <5>3, Zenon
        <4>3. CASE ~handle
          <5>1. Log' = Log
            BY <1>1, <1>3, <4>3, Zenon DEF Log
          <5>2. Log \o <<>> = Log /\ <<>> \in Seq(Half)
            BY <4>1
          <5> QED
            BY <5>1, <5>2, Zenon
        <4> QED
          BY <4>2, <4>3, Zenon
      <3>3. PICK t \in Seq(Half) : Log' = Log \o t
        BY <3>2, Zenon
      <3>4. Log \in Seq(Half)
        BY <1>4, LogType
      <3>5. Begins(Log', c) /\ Len(Log') >= 2 * Len(c) + 2 /\ Log'[2 * Len(c) + 2].part = 1
        BY <3>1, <3>3, <3>4, TornBegins DEF TornAt
      <3>6. InOrder(c) /\ Until(c, n)
        BY <1>5, <3>1, <1>0, UntilLater DEF TornAt
      <3>7. TornAt(c)'
        BY <1>2, <3>5, <3>6 DEF TornAt
      <3> QED
        BY <3>7 DEF Torn
    <2> QED
      BY <1>1, <2>2, <2>3, <2>4, <2>5
  <1> QED
    BY <1>8, <1>9, <1>10, <1>11, <1>12, <1>13 DEF IInv

LEMMA FlushShifts ==
    ASSUME Values, flush
    PROVE  /\ Shifts /\ Syncs
           /\ UNCHANGED <<failures, cuts>> /\ due' \in {due, FALSE}
           /\ ~handle => UNCHANGED <<buffer, stdio>>
  <1>0. Len(Unwritten) \in Nat
    BY DEF Values, Unwritten
  <1>1. CASE ~handle /\ UNCHANGED <<buffer, stdio, os, medium, due, durable, failures, cuts>>
    <2>1. Shifts /\ Syncs
      BY <1>1 DEF Shifts, Syncs
    <2> QED
      BY <1>1, <2>1, Zenon
  <1>2. CASE handle /\ FsyncHandle /\ due' = FALSE /\ UNCHANGED <<failures, cuts>>
    BY <1>2, FsyncShifts, Zenon
  <1>3. CASE /\ handle /\ UNCHANGED <<medium, due, durable, failures, cuts>>
             /\ \E k \in 0..Len(Unwritten) : Push(k)
    <2>1. PICK k \in 0..Len(Unwritten) : Push(k)
      BY <1>3, Zenon
    <2>2. Shifts
      BY <2>1, PushShifts
    <2>3. Syncs
      BY <1>3, Zenon DEF Syncs
    <2> QED
      BY <1>3, <2>2, <2>3, Zenon
  <1>4. Len(Unwritten) \in 0..Len(Unwritten)
    BY <1>0
  <1> QED
    BY <1>1, <1>2, <1>3, <1>4, Zenon DEF flush

LEMMA FlushStep ==
    ASSUME IInv, cron, flush
    PROVE  IInv'
  <1>1. /\ UNCHANGED <<rewritten, policy, mode, mem, handle, exists, temp, commands, acked>>
        /\ UNCHANGED <<reopens, crashes, shutdowns>> /\ mode = "up" /\ rewriting = "no"
    BY Zenon DEF cron, LoopFree
  <1>2. rewriting' \in {"temp", "no"}
    BY Zenon DEF cron
  <1>3. Flags /\ Values /\ Structure
    BY DEF IInv
  <1>4. /\ Shifts /\ Syncs
        /\ UNCHANGED <<failures, cuts>> /\ due' \in {due, FALSE}
        /\ ~handle => UNCHANGED <<buffer, stdio>>
    BY <1>3, FlushShifts, Zenon
  <1>5. /\ os' \in Seq(Half) /\ stdio' \in Seq(Half) /\ buffer' \in Seq(Half)
        /\ medium' \in 0..Len(os') /\ durable' \in Seq(Nat)
    BY <1>3, <1>4, ShiftTypes
  <1>6. Flags'
    BY <1>1, <1>3, <1>4, Zenon DEF Flags
  <1>7. failures' = failures /\ cuts' = cuts
    BY <1>4, Zenon
  <1>8. Values'
    BY <1>1, <1>2, <1>3, <1>5, <1>7 DEF Values
  <1>9. rewriting' \notin {"close", "remove", "rename"} /\ rewriting' # "rename" /\ mode' = "up"
    BY <1>1, <1>2
  <1>10. Structure'
    <2>1. Idle' => ~handle
      BY <1>1, <1>9, Zenon DEF Idle
    <2>2. Idle' => stdio' = <<>> /\ buffer' = <<>>
      BY <1>3, <1>4, <2>1, Zenon DEF Structure, Idle
    <2> QED
      BY <1>1, <1>3, <1>7, <1>9, <2>2, Zenon DEF Structure
  <1>11. Calm
    <2>1. rewriting # "rename"
      BY <1>1
    <2> QED
      BY <1>1, <1>7, <1>9, <2>1, Zenon DEF Calm
  <1> QED
    BY <1>4, <1>6, <1>8, <1>10, <1>11, CalmStep DEF IInv

-----------------------------------------------------------------------------
(***************************************************************************)
(* A short write.                                                          *)
(***************************************************************************)
LEMMA EncodedInjective ==
    ASSUME NEW s \in Seq(Nat), NEW t \in Seq(Nat), Encoded(s) = Encoded(t)
    PROVE  s = t
  <1> DEFINE e == Encoded(s)
             f == Encoded(t)
  <1>1. /\ Len(e) = 2 * Len(s)
        /\ \A j \in 1..Len(s) : e[2 * j - 1] = FirstHalf(s[j]) /\ e[2 * j] = SecondHalf(s[j])
    BY EncodedAt
  <1>2. /\ Len(f) = 2 * Len(t)
        /\ \A j \in 1..Len(t) : f[2 * j - 1] = FirstHalf(t[j]) /\ f[2 * j] = SecondHalf(t[j])
    BY EncodedAt
  <1>3. e = f
    OBVIOUS
  <1> HIDE DEF e, f
  <1>4. Len(s) \in Nat /\ Len(t) \in Nat
    OBVIOUS
  <1>5. Len(s) = Len(t)
    <2>1. 2 * Len(s) = 2 * Len(t)
      BY <1>1, <1>2, <1>3, Zenon
    <2> QED
      BY <1>4, <2>1
  <1>6. ASSUME NEW j \in 1..Len(s)
        PROVE  s[j] = t[j]
    <2>1. FirstHalf(s[j]) = FirstHalf(t[j])
      BY <1>1, <1>2, <1>3, <1>5
    <2>2. FirstHalf(s[j]).n = s[j] /\ FirstHalf(t[j]).n = t[j]
      BY DEF FirstHalf
    <2> QED
      BY <2>1, <2>2
  <1> QED
    BY <1>5, <1>6, SeqEqual

\* What a write that ends inside a command, and the next one behind it, make of
\* the file.
LEMMA TornFile ==
    ASSUME NEW d \in Seq(Nat), NEW h \in Half, NEW b \in Seq(Nat), b # <<>>,
           NEW x, x = (Encoded(d) \o <<h>>) \o Encoded(b)
    PROVE  Begins(x, d) /\ Len(x) >= 2 * Len(d) + 2 /\ x[2 * Len(d) + 2].part = 1
  <1> DEFINE e == Encoded(d)
             f == Encoded(b)
             g == e \o <<h>>
             m == Len(d)
  <1>1. /\ e \in Seq(Half) /\ Len(e) = 2 * m
        /\ \A j \in 1..m : e[2 * j - 1] = FirstHalf(d[j]) /\ e[2 * j] = SecondHalf(d[j])
    BY EncodedAt
  <1>2. f \in Seq(Half) /\ Len(f) >= 2 /\ f[1].part = 1
    <2>1. Len(b) \in Nat /\ Len(b) >= 1
      OBVIOUS
    <2>2. f \in Seq(Half) /\ Len(f) = 2 * Len(b)
      BY EncodedAt
    <2>3. 1 \in 1..Len(b) /\ 2 * 1 - 1 = 1
      BY <2>1
    <2>4. f[2 * 1 - 1] = FirstHalf(b[1])
      BY <2>3, EncodedAt
    <2>5. FirstHalf(b[1]).part = 1
      BY DEF FirstHalf
    <2> HIDE DEF f
    <2>6. Len(f) >= 2
      BY <2>1, <2>2
    <2> QED
      BY <2>2, <2>3, <2>4, <2>5, <2>6
  <1>3. x = g \o f
    OBVIOUS
  <1> HIDE DEF e, f
  <1>4. /\ g \in Seq(Half) /\ Len(g) = Len(e) + 1
        /\ \A i \in 1..Len(e) : g[i] = e[i]
    BY <1>1
  <1> HIDE DEF g
  <1>5. /\ DOMAIN x = 1..(Len(g) + Len(f)) /\ x \in Seq(Half)
        /\ \A i \in 1..Len(g) : x[i] = g[i]
        /\ \A i \in 1..Len(f) : x[Len(g) + i] = f[i]
    <2>1. g \in Seq(Half) /\ f \in Seq(Half)
      BY <1>2, <1>4
    <2>2. /\ g \o f \in Seq(Half)
          /\ DOMAIN (g \o f) = 1..(Len(g) + Len(f))
          /\ \A i \in 1..Len(g) : (g \o f)[i] = g[i]
          /\ \A i \in 1..Len(f) : (g \o f)[Len(g) + i] = f[i]
      BY <2>1, ConcatAt
    <2> QED
      BY <1>3, <2>2, Zenon
  <1>6. Len(x) = Len(g) + Len(f) /\ m \in Nat /\ Len(g) = 2 * m + 1 /\ Len(f) \in Nat
    BY <1>1, <1>2, <1>4, <1>5
  <1>7. Len(x) >= 2 * m + 2 /\ 2 * m <= Len(x)
    BY <1>2, <1>6
  <1>8. x[2 * m + 2] = f[1]
    <2>1. 1 \in 1..Len(f) /\ Len(g) + 1 = 2 * m + 2
      BY <1>2, <1>6
    <2> QED
      BY <1>5, <2>1, Zenon
  <1>9. ASSUME NEW j \in 1..m
        PROVE  x[2 * j - 1] = FirstHalf(d[j]) /\ x[2 * j] = SecondHalf(d[j])
    <2>1. /\ 2 * j - 1 \in 1..Len(e) /\ 2 * j \in 1..Len(e)
          /\ 2 * j - 1 \in 1..Len(g) /\ 2 * j \in 1..Len(g)
      BY <1>1, <1>6
    <2>2. x[2 * j - 1] = e[2 * j - 1] /\ x[2 * j] = e[2 * j]
      BY <1>4, <1>5, <2>1, Zenon
    <2> QED
      BY <1>1, <2>2, Zenon
  <1> QED
    BY <1>2, <1>7, <1>8, <1>9, Zenon DEF Begins

\* The first 2m + 1 halves of a file.
LEMMA EncodedCut ==
    ASSUME NEW s \in Seq(Nat), NEW m \in 0..(Len(s) - 1)
    PROVE  \E h \in Half :
               SubSeq(Encoded(s), 1, 2 * m + 1) = Encoded(SubSeq(s, 1, m)) \o <<h>>
  <1> DEFINE e == Encoded(s)
             h == e[2 * m + 1]
  <1>1. e \in Seq(Half) /\ Len(e) = 2 * Len(s)
    BY EncodedAt
  <1>2. m \in 0..Len(s) /\ 2 * m + 1 \in 1..(2 * Len(s)) /\ (2 * m + 1) - 1 = 2 * m
    OBVIOUS
  <1>3. SubSeq(e, 1, 2 * m) = Encoded(SubSeq(s, 1, m))
    BY <1>2, EncodedPrefix
  <1> HIDE DEF e
  <1>4. h \in Half
    BY <1>1, <1>2
  <1>5. SubSeq(e, 1, 2 * m + 1) = SubSeq(e, 1, 2 * m) \o <<h>>
    BY <1>1, <1>2
  <1> QED
    BY <1>3, <1>4, <1>5, Zenon DEF e

LEMMA TwoHalves ==
    ASSUME NEW n \in Nat, NEW k \in 0..(2 * n - 1)
    PROVE  /\ k % 2 \in {0, 1}
           /\ k % 2 = 0 => \E m \in 0..n : k = 2 * m
           /\ k % 2 = 1 => \E m \in 0..(n - 1) : k = 2 * m + 1
  <1> DEFINE m == k \div 2
  <1>1. k = 2 * m + (k % 2) /\ k % 2 \in {0, 1} /\ m \in Nat
    OBVIOUS
  <1> HIDE DEF m
  <1>2. k % 2 = 0 => m \in 0..n
    BY <1>1
  <1>3. k % 2 = 1 => m \in 0..(n - 1)
    BY <1>1
  <1> QED
    BY <1>1, <1>2, <1>3

\* A short write that ends between two commands.
LEMMA ShortClean ==
    ASSUME Values, Clean, NEW k \in 0..(Len(buffer) - 1), k % 2 = 0,
           os' = (os \o stdio) \o SubSeq(buffer, 1, k), stdio' = <<>>,
           buffer' = buffer, acked' = acked
    PROVE  Clean'
  <1>1. PICK c \in Seq(Nat), b \in Seq(Nat) : Holds(c, b)
    BY DEF Clean
  <1>2. /\ os \o stdio = Encoded(c) /\ buffer = Encoded(b) /\ Increasing(b)
        /\ Until(c, acked) /\ Until(b, acked) /\ InOrder(c \o b)
    BY <1>1 DEF Holds
  <1>3. Len(buffer) = 2 * Len(b)
    BY <1>2, EncodedAt
  <1>4. PICK m \in 0..Len(b) : k = 2 * m
    <2>1. Len(b) \in Nat /\ k \in 0..(2 * Len(b) - 1)
      BY <1>3
    <2> QED
      BY <2>1, TwoHalves, Zenon
  <1> DEFINE p == SubSeq(b, 1, m)
             d == c \o p
  <1>5. p \in Seq(Nat) /\ SubSeq(buffer, 1, k) = Encoded(p)
    BY <1>2, <1>4, EncodedPrefix
  <1>6. acked \in Nat
    BY DEF Values
  <1>7. Until(p, acked)
    BY <1>2, <1>6, UntilPrefix
  <1>8. InOrder(d \o b)
    BY <1>2, OrderShort
  <1> HIDE DEF p
  <1>9. d \in Seq(Nat) /\ Until(d, acked)
    BY <1>2, <1>5, <1>6, <1>7, UntilConcat
  <1>10. os' = Encoded(d)
    BY <1>2, <1>5, EncodedConcat, Zenon
  <1> HIDE DEF d
  <1>11. os' \o stdio' = Encoded(d)
    <2>1. Encoded(d) \in Seq(Half)
      BY <1>9, EncodedAt
    <2>2. Encoded(d) \o <<>> = Encoded(d)
      BY <2>1
    <2> QED
      BY <1>10, <2>2
  <1>12. Holds(d, b)'
    BY <1>2, <1>8, <1>9, <1>11, Zenon DEF Holds
  <1> QED
    BY <1>9, <1>12 DEF Clean

\* The first failure is a short write that ends inside a command.
LEMMA ShortTorn ==
    ASSUME Values, Clean, Log = Encoded(mem), Increasing(mem),
           NEW k \in 0..(Len(buffer) - 1), k % 2 = 1,
           os' = (os \o stdio) \o SubSeq(buffer, 1, k), stdio' = <<>>,
           buffer' = buffer, acked' = acked
    PROVE  Torn'
  <1>1. PICK c \in Seq(Nat), b \in Seq(Nat) : Holds(c, b)
    BY DEF Clean
  <1>2. /\ os \o stdio = Encoded(c) /\ buffer = Encoded(b)
        /\ Until(c, acked) /\ Until(b, acked)
    BY <1>1 DEF Holds
  <1>3. Len(buffer) = 2 * Len(b)
    BY <1>2, EncodedAt
  <1>4. PICK m \in 0..(Len(b) - 1) : k = 2 * m + 1
    <2>1. Len(b) \in Nat /\ k \in 0..(2 * Len(b) - 1)
      BY <1>3
    <2> QED
      BY <2>1, TwoHalves, Zenon
  <1> DEFINE p == SubSeq(b, 1, m)
             d == c \o p
  <1>5. m \in 0..Len(b) /\ m \in Nat /\ Len(b) \in Nat
    OBVIOUS
  <1>6. PICK h \in Half : SubSeq(buffer, 1, k) = Encoded(p) \o <<h>>
    BY <1>2, <1>4, EncodedCut, Zenon
  <1>7. p \in Seq(Nat)
    BY <1>5, EncodedPrefix
  <1>8. acked \in Nat /\ mem \in Seq(Nat)
    BY DEF Values
  <1>9. Until(p, acked)
    BY <1>2, <1>5, <1>8, UntilPrefix
  <1>10. InOrder(d)
    <2>1. c \o b = mem
      <3>1. Encoded(c \o b) = Encoded(mem)
        BY <1>2, EncodedConcat, Zenon DEF Log
      <3>2. c \o b \in Seq(Nat)
        OBVIOUS
      <3> QED
        BY <1>8, <3>1, <3>2, EncodedInjective, Zenon
    <2>2. d = SubSeq(c \o b, 1, Len(c) + m) /\ Len(c) + m \in 0..Len(c \o b)
      BY <1>5
    <2>3. Increasing(d)
      BY <1>8, <2>1, <2>2, IncreasingPrefix, Zenon
    <2>4. d \in Seq(Nat)
      BY <1>7
    <2> QED
      BY <2>3, <2>4, IncreasingInOrder, Zenon
  <1> HIDE DEF p
  <1>11. d \in Seq(Nat) /\ Until(d, acked)
    BY <1>2, <1>7, <1>8, <1>9, UntilConcat
  <1>12. os' = Encoded(d) \o <<h>>
    <2>1. Encoded(c) \in Seq(Half) /\ Encoded(p) \in Seq(Half) /\ <<h>> \in Seq(Half)
      BY <1>7, EncodedAt
    <2>2. Encoded(c) \o (Encoded(p) \o <<h>>) = (Encoded(c) \o Encoded(p)) \o <<h>>
      BY <2>1, HalvesConcat
    <2>3. Encoded(c) \o Encoded(p) = Encoded(d)
      BY <1>7, EncodedConcat
    <2> QED
      BY <1>2, <1>6, <2>2, <2>3, Zenon
  <1> HIDE DEF d
  <1>13. Log' = (Encoded(d) \o <<h>>) \o Encoded(b)
    <2>1. Encoded(d) \in Seq(Half)
      BY <1>11, EncodedAt
    <2>2. (Encoded(d) \o <<h>>) \o <<>> = Encoded(d) \o <<h>>
      BY <2>1
    <2> QED
      BY <1>2, <1>12, <2>2, Zenon DEF Log
  <1>14. b # <<>>
    BY <1>5
  <1>15. /\ Begins(Log', d)
         /\ Len(Log') >= 2 * Len(d) + 2 /\ Log'[2 * Len(d) + 2].part = 1
    BY <1>11, <1>13, <1>14, TornFile, Zenon
  <1>16. TornAt(d)'
    BY <1>10, <1>11, <1>15 DEF TornAt
  <1> QED
    BY <1>11, <1>16 DEF Torn

LEMMA ShortWriteStep ==
    ASSUME IInv, cron, ShortWrite
    PROVE  IInv'
  <1>1. /\ UNCHANGED <<rewritten, policy, mode, mem, handle, exists, temp, commands, acked>>
        /\ UNCHANGED <<reopens, crashes, shutdowns, buffer, medium, due, durable>>
        /\ mode = "up" /\ rewriting = "no" /\ handle
    BY Zenon DEF cron, ShortWrite, LoopFree
  <1>2. rewriting' \in {"temp", "no"}
    BY Zenon DEF cron
  <1>3. Flags /\ Values /\ Structure
    BY DEF IInv
  <1>4. failures' = failures + 1 /\ stdio' = <<>>
    BY DEF ShortWrite
  <1>5. PICK k \in 0..(Len(buffer) - 1) :
            os' = (os \o stdio) \o SubSeq(buffer, 1, k) /\ cuts' = cuts + (k % 2)
    BY Zenon DEF ShortWrite
  <1>6. k % 2 \in {0, 1}
    <2>1. k \in Nat
      OBVIOUS
    <2> QED
      BY <2>1
  <1>7. /\ failures \in Nat /\ cuts \in Nat /\ reopens \in Nat
        /\ reopens <= failures /\ cuts <= failures
    BY <1>3 DEF Values, Structure
  <1>8. /\ failures' \in Nat /\ cuts' \in Nat /\ cuts' <= failures' /\ reopens' < failures'
        /\ failures' # 0
    BY <1>1, <1>4, <1>5, <1>6, <1>7
  <1>9. os' \in Seq(Half) /\ medium' \in 0..Len(os')
    <2>1. /\ os \in Seq(Half) /\ stdio \in Seq(Half) /\ buffer \in Seq(Half)
          /\ medium \in 0..Len(os)
      BY <1>3 DEF Values
    <2>2. k \in 0..Len(buffer)
      BY <2>1
    <2>3. SubSeq(buffer, 1, k) \in Seq(Half) /\ os \o stdio \in Seq(Half)
      BY <2>1, <2>2
    <2>4. os' \in Seq(Half) /\ Len(os') = Len(os \o stdio) + Len(SubSeq(buffer, 1, k))
      BY <1>5, <2>3
    <2>5. Len(os \o stdio) = Len(os) + Len(stdio)
      BY <2>1
    <2>6. Len(os) \in Nat /\ Len(stdio) \in Nat /\ Len(SubSeq(buffer, 1, k)) \in Nat
      BY <2>1, <2>3
    <2> QED
      BY <1>1, <2>1, <2>4, <2>5, <2>6
  <1>10. Flags'
    BY <1>1, <1>3, Zenon DEF Flags
  <1>11. Values'
    <2>1. <<>> \in Seq(Half)
      OBVIOUS
    <2> QED
      BY <1>1, <1>2, <1>3, <1>4, <1>8, <1>9, <2>1 DEF Values
  <1>12. rewriting' \notin {"close", "remove", "rename"} /\ rewriting' # "rename" /\ mode' = "up"
    BY <1>1, <1>2
  <1>13. Structure'
    <2>1. ~Idle'
      BY <1>1, <1>12, Zenon DEF Idle
    <2>2. reopens' <= failures' /\ crashes' + shutdowns' = crashes + shutdowns
      BY <1>1, <1>4, <1>7
    <2> QED
      BY <1>8, <1>12, <2>1, <2>2, Zenon DEF Structure
  <1>14. Complete' /\ Synced'
    <2>1. ~Unharmed'
      BY <1>8 DEF Unharmed
    <2> QED
      BY <1>8, <2>1, Zenon DEF Complete, Synced
  <1>15. Order'
    <2> SUFFICES ASSUME Tidy'
                 PROVE  /\ InOrder(mem') /\ Until(mem', acked')
                        /\ failures' = 0 => Increasing(mem')
                        /\ Clean' \/ (cuts' = 1 /\ Torn')
      BY DEF Order
    <2>1. crashes = 0 /\ (cuts' = 0 \/ failures' = 1)
      BY <1>1 DEF Tidy
    <2>2. cuts = 0 /\ (k % 2 = 1 => failures = 0 /\ cuts' = 1)
      BY <1>4, <1>5, <1>6, <1>7, <2>1
    <2>3. /\ InOrder(mem) /\ Until(mem, acked) /\ Clean
          /\ failures = 0 => Increasing(mem)
      <3>1. Tidy
        BY <2>1, <2>2 DEF Tidy
      <3> QED
        BY <2>2, <3>1 DEF IInv, Order
    <2>4. CASE k % 2 = 0
      <3>1. Clean'
        BY <1>1, <1>3, <1>4, <1>5, <2>3, <2>4, ShortClean, Zenon
      <3> QED
        BY <1>1, <1>8, <2>3, <3>1
    <2>5. CASE k % 2 = 1
      <3>1. failures = 0 /\ reopens = 0
        BY <1>7, <2>2, <2>5
      <3>2. Unharmed
        BY <2>1, <3>1 DEF Unharmed
      <3>3. Current
        <4>1. mode # "refused" /\ rewriting # "rename"
          BY <1>1
        <4> QED
          BY <1>1, <4>1, Zenon DEF Current
      <3>4. Log = Encoded(mem)
        BY <3>2, <3>3 DEF IInv, Complete
      <3>5. Torn'
        BY <1>1, <1>3, <1>4, <1>5, <2>3, <2>5, <3>1, <3>4, ShortTorn, Zenon
      <3> QED
        BY <1>1, <1>8, <2>2, <2>3, <2>5, <3>5
    <2> QED
      BY <1>6, <2>4, <2>5
  <1> QED
    BY <1>10, <1>11, <1>13, <1>14, <1>15 DEF IInv

-----------------------------------------------------------------------------
(***************************************************************************)
(* The end of a rewrite.                                                   *)
(***************************************************************************)
\* The order does not depend on the failures that are no short writes.
LEMMA OrderKept ==
    ASSUME Values, Structure, Order, failures' \in {failures, failures + 1},
           UNCHANGED <<mem, acked, cuts, crashes>>, Tidy => Clean'
    PROVE  Order'
  <1> SUFFICES ASSUME Tidy'
               PROVE  /\ InOrder(mem') /\ Until(mem', acked')
                      /\ failures' = 0 => Increasing(mem')
                      /\ Clean'
    BY DEF Order
  <1>1. failures \in Nat /\ cuts \in Nat /\ cuts <= failures
    BY DEF Values, Structure
  <1>2. Tidy /\ (failures' = 0 => failures = 0)
    BY <1>1 DEF Tidy
  <1> QED
    BY <1>2 DEF Order

\* A file without a command.
LEMMA EmptyFile ==
    ASSUME os' = <<>>, stdio' = <<>>, buffer' = <<>>
    PROVE  Log' = Encoded(<<>>) /\ Clean'
  <1>1. <<>> \in Seq(Nat) /\ <<>> \o <<>> = <<>>
    OBVIOUS
  <1>2. InOrder(<<>>) /\ Increasing(<<>>) /\ Until(<<>>, acked')
    BY DEF InOrder, Increasing, Until
  <1>3. Holds(<<>>, <<>>)'
    BY <1>1, <1>2, EncodedEmpty, Zenon DEF Holds
  <1> QED
    BY <1>1, <1>3, EncodedEmpty, Zenon DEF Clean, Log

LEMMA RewriteRemoveStep ==
    ASSUME IInv, RewriteRemove
    PROVE  IInv'
  <1>1. /\ UNCHANGED <<policy, mode, mem, handle, buffer, stdio, temp, commands, due, acked>>
        /\ UNCHANGED <<durable, reopens, cuts, failures, crashes, shutdowns>>
        /\ mode = "up" /\ rewriting = "remove" /\ rewriting' = "rename"
        /\ exists' = FALSE /\ rewritten' = TRUE
    BY Zenon DEF RewriteRemove, histVars
  <1>2. os' = <<>> /\ medium' = 0
    BY DEF RewriteRemove
  <1>3. Flags /\ Values /\ Structure /\ Order
    BY DEF IInv
  <1>4. stdio' = <<>> /\ buffer' = <<>> /\ temp' = Encoded(mem')
    <2>1. Idle
      BY <1>1 DEF Idle
    <2>2. temp = Encoded(mem)
      BY <1>1, <1>3 DEF Structure
    <2> QED
      BY <1>1, <1>3, <2>1, <2>2, Zenon DEF Structure
  <1>5. Flags'
    BY <1>1, <1>3, Zenon DEF Flags
  <1>6. Values'
    <2>1. <<>> \in Seq(Half) /\ Len(<<>>) = 0 /\ 0 \in 0..0
      OBVIOUS
    <2> QED
      BY <1>1, <1>2, <1>3, <2>1 DEF Values
  <1>7. Structure'
    <2>1. mode' = "up" /\ reopens' <= failures' /\ cuts' <= failures'
      BY <1>1, <1>3 DEF Structure
    <2>2. failures' = 0 => handle'
      BY <1>1, <1>3, Zenon DEF Structure
    <2> QED
      BY <1>1, <1>2, <1>4, <2>1, <2>2, Zenon DEF Structure
  <1>8. Log' = Encoded(<<>>) /\ Clean'
    BY <1>2, <1>4, EmptyFile
  <1>9. Complete'
    <2>1. <<>> \in Seq(Nat) /\ IsPrefix(<<>>, mem')
      <3>1. mem' \in Seq(Nat)
        BY <1>6 DEF Values
      <3> QED
        BY <3>1 DEF IsPrefix
    <2>2. ~Current'
      BY <1>1, Zenon DEF Current
    <2> QED
      BY <1>8, <2>1, <2>2, Zenon DEF Complete
  <1>10. Synced'
    BY <1>1, Zenon DEF Synced
  <1>11. Order'
    BY <1>1, <1>3, <1>8, OrderKept
  <1> QED
    BY <1>5, <1>6, <1>7, <1>9, <1>10, <1>11 DEF IInv

LEMMA RewriteRenameStep ==
    ASSUME IInv, RewriteRename
    PROVE  IInv'
  <1>1. /\ UNCHANGED <<rewritten, cuts, policy, mode, mem, buffer, stdio, medium, due, acked>>
        /\ UNCHANGED <<durable, crashes, shutdowns>>
        /\ mode = "up" /\ rewriting = "rename" /\ rewriting' = "no" /\ exists' = TRUE
    BY Zenon DEF RewriteRename
  <1>2. os' = temp /\ temp' = <<>> /\ commands' = Len(mem)
    BY DEF RewriteRename, Reopen
  <1>3. \/ handle' = handle /\ reopens' = reopens /\ failures' = failures
        \/ handle' = FALSE /\ reopens' = reopens + 1 /\ failures' = failures + 1
    BY Zenon DEF RewriteRename, Reopen
  <1>4. Flags /\ Values /\ Structure /\ Order
    BY DEF IInv
  <1>5. \/ reopens' = reopens /\ failures' = failures
        \/ reopens' = reopens + 1 /\ failures' = failures + 1
    BY <1>3, Zenon
  <1>6. stdio = <<>> /\ buffer = <<>> /\ rewritten /\ medium = 0 /\ temp = Encoded(mem)
    <2>1. Idle
      BY <1>1 DEF Idle
    <2>2. temp = Encoded(mem) /\ medium = 0
      BY <1>1, <1>4 DEF Structure
    <2>3. rewritten
      BY <1>1, <1>4, Zenon DEF Structure
    <2> QED
      BY <1>1, <1>4, <2>1, <2>2, <2>3, Zenon DEF Structure
  <1>7. mem \in Seq(Nat) /\ Encoded(mem) \in Seq(Half) /\ Len(mem) \in Nat
    BY <1>4, EncodedAt DEF Values
  <1>8. Flags'
    BY <1>1, <1>3, <1>4, Zenon DEF Flags
  <1>9. reopens' \in Nat /\ failures' \in Nat /\ reopens' <= failures' /\ cuts' <= failures'
    BY <1>1, <1>4, <1>5 DEF Values, Structure
  <1>10. Values'
    <2>1. <<>> \in Seq(Half) /\ 0 \in 0..Len(os')
      BY <1>2, <1>6, <1>7
    <2> QED
      BY <1>1, <1>2, <1>4, <1>6, <1>7, <1>9, <2>1 DEF Values
  <1>11. Structure'
    <2>1. failures' = 0 => handle'
      <3>1. failures + 1 # 0
        BY <1>4 DEF Values
      <3> QED
        BY <1>3, <1>4, <3>1, Zenon DEF Structure
    <2>2. rewriting' \notin {"close", "remove", "rename"} /\ rewriting' # "rename" /\ mode' = "up"
      BY <1>1
    <2>3. stdio' = <<>> /\ buffer' = <<>>
      BY <1>1, <1>6
    <2> QED
      BY <1>9, <2>1, <2>2, <2>3, Zenon DEF Structure
  <1>12. os' \o stdio' = Encoded(mem) /\ Log' = Encoded(mem)
    <2>1. Encoded(mem) \o <<>> = Encoded(mem)
      BY <1>7
    <2> QED
      BY <1>1, <1>2, <1>6, <2>1 DEF Log
  <1>13. Complete'
    <2>1. IsPrefix(mem, mem)
      BY <1>7, PrefixItself
    <2> QED
      BY <1>1, <1>7, <1>12, <2>1 DEF Complete
  <1>14. Synced'
    BY <1>1, <1>6, Zenon DEF Synced
  <1>15. Order'
    <2>1. ASSUME Tidy
          PROVE  Clean'
      <3>1. InOrder(mem) /\ Until(mem, acked)
        BY <1>4, <2>1 DEF Order
      <3>2. <<>> \in Seq(Nat) /\ mem \o <<>> = mem
        BY <1>7
      <3>3. Increasing(<<>>) /\ Until(<<>>, acked)
        BY DEF Increasing, Until
      <3>4. buffer' = Encoded(<<>>) /\ acked' = acked
        BY <1>1, <1>6, EncodedEmpty
      <3>5. PICK c \in Seq(Nat) : c = mem
        BY <1>7
      <3>6. Holds(c, <<>>)'
        BY <1>12, <3>1, <3>2, <3>3, <3>4, <3>5, Zenon DEF Holds
      <3> QED
        BY <3>2, <3>6, Zenon DEF Clean
    <2>2. failures' \in {failures, failures + 1}
      BY <1>5
    <2> QED
      BY <1>1, <1>4, <2>1, <2>2, OrderKept
  <1> QED
    BY <1>8, <1>10, <1>11, <1>13, <1>14, <1>15 DEF IInv

LEMMA RewriteRenameFailsStep ==
    ASSUME IInv, RewriteRenameFails
    PROVE  IInv'
  <1>1. /\ UNCHANGED <<rewritten, cuts, policy, mode, mem, buffer, stdio, os, medium, commands>>
        /\ UNCHANGED <<due, acked, durable, reopens, crashes, shutdowns>>
        /\ mode = "up" /\ rewriting = "rename" /\ rewriting' = "no"
        /\ handle' \in {handle, FALSE} /\ exists' = handle'
    BY Zenon DEF RewriteRenameFails
  <1>2. failures' = failures + 1 /\ temp' = <<>>
    BY DEF RewriteRenameFails
  <1>3. Flags /\ Values /\ Structure /\ Order
    BY DEF IInv
  <1>4. stdio' = <<>> /\ buffer' = <<>> /\ rewritten' /\ os' = <<>>
    <2>1. Idle
      BY <1>1 DEF Idle
    <2> QED
      BY <1>1, <1>3, <2>1, Zenon DEF Structure
  <1>5. Flags'
    BY <1>1, <1>3, Zenon DEF Flags
  <1>6. /\ failures' \in Nat /\ failures' # 0 /\ reopens' < failures'
        /\ reopens' <= failures' /\ cuts' <= failures'
    BY <1>1, <1>2, <1>3 DEF Values, Structure
  <1>7. Values'
    <2>1. <<>> \in Seq(Half)
      OBVIOUS
    <2> QED
      BY <1>1, <1>2, <1>3, <1>6, <2>1 DEF Values
  <1>8. Structure'
    <2>1. rewriting' \notin {"close", "remove", "rename"} /\ rewriting' # "rename" /\ mode' = "up"
      BY <1>1
    <2> QED
      BY <1>4, <1>6, <2>1, Zenon DEF Structure
  <1>9. Complete'
    BY <1>6 DEF Complete, Unharmed
  <1>10. Synced'
    BY <1>4, Zenon DEF Synced
  <1>11. Order'
    BY <1>1, <1>2, <1>3, <1>4, EmptyFile, OrderKept
  <1> QED
    BY <1>5, <1>7, <1>8, <1>9, <1>10, <1>11 DEF IInv

-----------------------------------------------------------------------------
(***************************************************************************)
(* Going down.                                                             *)
(***************************************************************************)
\* Before the first failure and the first rewrite the file is the keyspace.
LEMMA WholeFile ==
    ASSUME IInv, mode = "up", failures = 0, ~rewritten, crashes + shutdowns = 0
    PROVE  Log = Encoded(mem) /\ handle
  <1>1. Values /\ Structure /\ Complete
    BY DEF IInv
  <1>2. Unharmed
    BY <1>1 DEF Unharmed, Values, Structure
  <1>3. handle
    BY <1>1, Zenon DEF Structure
  <1>4. rewriting # "rename"
    BY <1>1, Zenon DEF Structure
  <1>5. mode # "refused"
    OBVIOUS
  <1>6. Current
    BY <1>3, <1>4, <1>5, Zenon DEF Current
  <1> QED
    BY <1>1, <1>2, <1>3, <1>6, Zenon DEF Complete

LEMMA ShutdownStep ==
    ASSUME IInv, shutdown
    PROVE  IInv'
  <1>1. /\ UNCHANGED <<rewritten, cuts, policy, mem, handle, exists, temp, rewriting, commands>>
        /\ UNCHANGED <<due, acked, reopens, failures, crashes>>
        /\ mode = "up" /\ rewriting = "no" /\ mode' = "down"
    BY Zenon DEF shutdown, LoopFree
  <1>2. shutdowns' = shutdowns + 1
    BY DEF shutdown
  <1>3. Flags /\ Values /\ Structure /\ Complete /\ Order
    BY DEF IInv
  <1>4. /\ Shifts /\ Syncs /\ os' = Log /\ stdio' = <<>> /\ buffer' = <<>>
        /\ handle => durable' = mem
    BY <1>3, CloseShifts DEF shutdown
  <1>5. /\ os' \in Seq(Half) /\ stdio' \in Seq(Half) /\ buffer' \in Seq(Half)
        /\ medium' \in 0..Len(os') /\ durable' \in Seq(Nat)
    BY <1>3, <1>4, ShiftTypes
  <1>6. crashes \in Nat /\ shutdowns \in Nat /\ shutdowns' \in Nat /\ crashes' + shutdowns' # 0
    BY <1>1, <1>2, <1>3 DEF Values
  <1>7. Flags'
    BY <1>1, <1>3, Zenon DEF Flags
  <1>8. Values'
    BY <1>1, <1>3, <1>5, <1>6 DEF Values
  <1>9. rewriting' \notin {"close", "remove", "rename"} /\ rewriting' # "rename"
    BY <1>1
  <1>10. Structure'
    <2>1. failures' = 0 => handle'
      BY <1>1, <1>3, Zenon DEF Structure
    <2>2. reopens' <= failures' /\ cuts' <= failures'
      BY <1>1, <1>3 DEF Structure
    <2> QED
      BY <1>1, <1>4, <1>6, <1>9, <2>1, <2>2, Zenon DEF Structure
  <1>11. Log' = Log
    BY <1>3, <1>4, ShiftsLog
  <1>12. Complete'
    <2>1. Unharmed' => Unharmed
      BY <1>1 DEF Unharmed
    <2>2. mode # "refused" /\ rewriting # "rename"
      BY <1>1
    <2>3. Current' => Current
      BY <1>1, <2>2, Zenon DEF Current
    <2> QED
      BY <1>1, <1>3, <1>11, <2>1, <2>3, Zenon DEF Complete
  <1>13. Synced'
    <2> SUFFICES ASSUME failures = 0, ~rewritten, crashes' + shutdowns' = 1
                 PROVE  Recoverable'
      BY <1>1, <1>6, Zenon DEF Synced
    <2>1. crashes + shutdowns = 0
      BY <1>1, <1>2, <1>6
    <2>2. os' = Encoded(mem) /\ durable' = mem
      BY <1>1, <1>4, <2>1, WholeFile
    <2>3. mem \in Seq(Nat)
      BY <1>3 DEF Values
    <2>4. IsPrefix(mem, mem) /\ Encoded(mem) \in Seq(Half) /\ Len(Encoded(mem)) = 2 * Len(mem)
      BY <2>3, EncodedAt, PrefixItself
    <2>5. Encoded(mem) = SubSeq(Encoded(mem), 1, Len(Encoded(mem)))
      BY <2>4
    <2>6. 2 * Len(mem) \in Nat
      BY <2>3
    <2> QED
      BY <1>1, <2>2, <2>4, <2>5, <2>6 DEF Recoverable
  <1>14. Order'
    <2> SUFFICES ASSUME Tidy'
                 PROVE  /\ InOrder(mem') /\ Until(mem', acked')
                        /\ failures' = 0 => Increasing(mem')
                        /\ Clean' \/ (cuts' = 1 /\ Torn')
      BY DEF Order
    <2>1. Tidy
      BY <1>1 DEF Tidy
    <2>2. Clean => Clean'
      BY <1>1, <1>3, <1>4, HoldsShifts
    <2>3. Torn => Torn'
      BY <1>1, <1>11, TornKept
    <2> QED
      BY <1>1, <1>3, <2>1, <2>2, <2>3, Zenon DEF Order
  <1> QED
    BY <1>7, <1>8, <1>10, <1>12, <1>13, <1>14 DEF IInv

\* A crash leaves some k halves of the file, at least the synced ones.
LEMMA CrashStep ==
    ASSUME IInv, Crash, NEW k \in medium..Len(os), os' = SubSeq(os, 1, k), medium' \in 0..k
    PROVE  IInv'
  <1>1. /\ UNCHANGED <<rewritten, cuts, policy, mem, handle, exists, commands, due, acked>>
        /\ UNCHANGED <<durable, reopens, failures, shutdowns>>
        /\ mode = "up" /\ mode' = "down" /\ rewriting' = "no"
        /\ buffer' = <<>> /\ stdio' = <<>> /\ temp' = <<>>
    BY Zenon DEF Crash
  <1>2. crashes' = crashes + 1
    BY DEF Crash
  <1>3. Flags /\ Values /\ Structure /\ Synced
    BY DEF IInv
  <1>4. /\ os \in Seq(Half) /\ stdio \in Seq(Half) /\ buffer \in Seq(Half)
        /\ medium \in 0..Len(os) /\ mem \in Seq(Nat) /\ durable \in Seq(Nat)
    BY <1>3 DEF Values
  <1>5. k \in 0..Len(os) /\ k \in Nat /\ medium \in Nat /\ medium <= k /\ Len(os) \in Nat
    BY <1>4
  <1>6. os' \in Seq(Half) /\ Len(os') = k
    BY <1>4, <1>5
  <1>7. /\ crashes \in Nat /\ shutdowns \in Nat /\ crashes' \in Nat /\ crashes' # 0
        /\ crashes' + shutdowns' # 0
    BY <1>1, <1>2, <1>3 DEF Values
  <1>8. Flags'
    BY <1>1, <1>3, Zenon DEF Flags
  <1>9. Values'
    <2>1. <<>> \in Seq(Half)
      OBVIOUS
    <2> QED
      BY <1>1, <1>3, <1>6, <1>7, <2>1 DEF Values
  <1>10. Structure'
    <2>1. failures' = 0 => handle'
      BY <1>1, <1>3, Zenon DEF Structure
    <2>2. reopens' <= failures' /\ cuts' <= failures'
      BY <1>1, <1>3 DEF Structure
    <2>3. rewriting' \notin {"close", "remove", "rename"} /\ rewriting' # "rename"
      BY <1>1
    <2> QED
      BY <1>1, <1>7, <2>1, <2>2, <2>3, Zenon DEF Structure
  <1>11. Complete' /\ Order'
    BY <1>7 DEF Complete, Unharmed, Order, Tidy
  <1>12. Synced'
    <2> SUFFICES ASSUME failures = 0, ~rewritten, crashes' + shutdowns' = 1
                 PROVE  Recoverable'
      BY <1>1, <1>7, Zenon DEF Synced
    <2>1. crashes + shutdowns = 0
      BY <1>1, <1>2, <1>7
    <2>2. Log = Encoded(mem)
      BY <1>1, <2>1, WholeFile
    <2>3. IsPrefix(durable, mem) /\ 2 * Len(durable) <= medium
      BY <1>3, <2>1, Zenon DEF Synced
    <2> DEFINE e == Encoded(mem)
               t == stdio \o buffer
    <2>4. e \in Seq(Half) /\ Len(e) = 2 * Len(mem) /\ t \in Seq(Half)
      BY <1>4, EncodedAt
    <2>5. e = os \o t
      BY <1>4, <2>2, HalvesConcat, Zenon DEF Log
    <2> HIDE DEF e, t
    <2>6. Len(os) <= Len(e) /\ SubSeq(e, 1, k) = SubSeq(os, 1, k)
      BY <1>4, <1>5, <2>4, <2>5
    <2>7. k <= 2 * Len(mem) /\ 2 * Len(durable) <= k
      <3>1. Len(mem) \in Nat /\ Len(durable) \in Nat
        BY <1>4
      <3> QED
        BY <1>5, <2>3, <2>4, <2>6, <3>1
    <2> QED
      BY <1>1, <1>6, <2>3, <2>6, <2>7 DEF Recoverable, e
  <1> QED
    BY <1>8, <1>9, <1>10, <1>11, <1>12 DEF IInv

LEMMA CrashesStep ==
    ASSUME IInv, Kill \/ PowerFailure
    PROVE  IInv'
  <1>1. os \in Seq(Half) /\ medium \in 0..Len(os)
    BY DEF IInv, Values
  <1>2. CASE Kill
    <2>1. Crash /\ os' = os /\ medium' = medium
      BY <1>2 DEF Kill
    <2>2. Len(os) \in medium..Len(os) /\ SubSeq(os, 1, Len(os)) = os
      BY <1>1
    <2> QED
      BY <1>1, <2>1, <2>2, CrashStep, Zenon
  <1>3. CASE PowerFailure
    <2>1. Crash
      BY <1>3 DEF PowerFailure
    <2>2. PICK k \in medium..Len(os) : os' = SubSeq(os, 1, k) /\ medium' = k
      BY <1>3 DEF PowerFailure
    <2>3. k \in 0..k
      BY <1>1
    <2> QED
      BY <2>1, <2>2, <2>3, CrashStep
  <1> QED
    BY <1>2, <1>3

-----------------------------------------------------------------------------
(***************************************************************************)
(* Coming back.                                                            *)
(***************************************************************************)
\* A file of whole commands is replayed to the last one.
LEMMA ReplayEncoded ==
    ASSUME NEW c \in Seq(Nat), os = Encoded(c)
    PROVE  Replayed = c
  <1>1. /\ os \in Seq(Half) /\ Len(os) = 2 * Len(c)
        /\ \A j \in 1..Len(c) : os[2 * j - 1] = FirstHalf(c[j]) /\ os[2 * j] = SecondHalf(c[j])
    BY EncodedAt
  <1>2. Len(c) \in Nat
    OBVIOUS
  <1>3. Begins(os, c) /\ NoMore(os, Len(c))
    BY <1>1, <1>2 DEF Begins, NoMore
  <1> QED
    BY <1>1, <1>3, ReplayIs

\* What the first crash leaves is replayed to a prefix of the keyspace that
\* holds what was synced.
LEMMA ReplayRecoverable ==
    ASSUME Values, Recoverable
    PROVE  IsPrefix(durable, Replayed) /\ IsPrefix(Replayed, mem)
  <1> DEFINE k == Len(os)
             m == k \div 2
             c == SubSeq(mem, 1, m)
             e == Encoded(mem)
  <1>1. os \in Seq(Half) /\ mem \in Seq(Nat) /\ durable \in Seq(Nat)
    BY DEF Values
  <1>2. /\ IsPrefix(durable, mem) /\ 2 * Len(durable) <= k /\ k <= 2 * Len(mem)
        /\ os = SubSeq(e, 1, k)
    BY DEF Recoverable
  <1>3. k \in Nat /\ Len(mem) \in Nat /\ Len(durable) \in Nat
    BY <1>1
  <1>4. m \in 0..Len(mem) /\ 2 * m <= k /\ k < 2 * m + 2 /\ Len(durable) <= m
    <2> HIDE DEF k
    <2> QED
      BY <1>2, <1>3
  <1>5. /\ e \in Seq(Half) /\ Len(e) = 2 * Len(mem)
        /\ \A j \in 1..Len(mem) : e[2 * j - 1] = FirstHalf(mem[j]) /\ e[2 * j] = SecondHalf(mem[j])
    BY <1>1, EncodedAt
  <1> HIDE DEF e, m
  <1>6. \A i \in 1..k : os[i] = e[i]
    BY <1>1, <1>2, <1>3, <1>5
  <1> HIDE DEF k
  <1>7. c \in Seq(Nat) /\ Len(c) = m /\ \A i \in 1..m : c[i] = mem[i]
    BY <1>1, <1>3, <1>4
  <1> HIDE DEF c
  <1>8. ASSUME NEW j \in 1..m
        PROVE  os[2 * j - 1] = FirstHalf(c[j]) /\ os[2 * j] = SecondHalf(c[j])
    <2>1. 2 * j - 1 \in 1..k /\ 2 * j \in 1..k /\ j \in 1..Len(mem)
      BY <1>3, <1>4
    <2> QED
      BY <1>5, <1>6, <1>7, <2>1, Zenon
  <1>9. Begins(os, c) /\ NoMore(os, Len(c))
    BY <1>3, <1>4, <1>7, <1>8 DEF Begins, NoMore, k
  <1>10. Replayed = c
    BY <1>1, <1>7, <1>9, ReplayIs
  <1>11. IsPrefix(c, mem)
    BY <1>1, <1>3, <1>4, <1>7 DEF IsPrefix
  <1>12. IsPrefix(durable, c)
    <2>1. DOMAIN durable = 1..Len(durable) /\ m \in Nat
      BY <1>1, <1>4
    <2>2. ASSUME NEW i \in DOMAIN durable
          PROVE  durable[i] = c[i]
      <3>1. durable[i] = mem[i]
        BY <1>2 DEF IsPrefix
      <3>2. i \in 1..m
        BY <1>3, <1>4, <2>1
      <3> QED
        BY <1>7, <3>1, <3>2
    <2> QED
      BY <1>4, <1>7, <2>2 DEF IsPrefix
  <1> QED
    BY <1>10, <1>11, <1>12

\* What a boot finds when the server has gone down: the whole file, up to the
\* last command that found it open, and the commands in order.
LEMMA BootFinds ==
    ASSUME IInv, mode = "down"
    PROVE  /\ stdio = <<>> /\ buffer = <<>> /\ rewriting = "no" /\ Log = os
           /\ Unharmed => /\ Log = Encoded(Replayed) /\ Replayed \in Seq(Nat)
                          /\ IsPrefix(Replayed, mem)
                          /\ failures = 0 => Replayed = mem
           /\ Tidy => InOrder(Replayed) /\ Until(Replayed, acked)
  <1>1. Values /\ Structure /\ Complete /\ Order
    BY DEF IInv
  <1>2. mode # "up" /\ mode # "refused"
    OBVIOUS
  <1>3. Idle
    BY <1>2 DEF Idle
  <1>4. stdio = <<>> /\ buffer = <<>> /\ rewriting = "no"
    BY <1>1, <1>2, <1>3, Zenon DEF Structure
  <1>5. Log = os /\ os \o stdio = os /\ os \in Seq(Half)
    <2>1. os \in Seq(Half)
      BY <1>1 DEF Values
    <2>2. os \o <<>> = os
      BY <2>1
    <2> QED
      BY <1>4, <2>1, <2>2 DEF Log
  <1>6. ASSUME Unharmed
        PROVE  /\ Log = Encoded(Replayed) /\ Replayed \in Seq(Nat)
               /\ IsPrefix(Replayed, mem) /\ (failures = 0 => Replayed = mem)
    <2>1. PICK p \in Seq(Nat) : Log = Encoded(p) /\ IsPrefix(p, mem) /\ (Current => p = mem)
      BY <1>1, <1>6 DEF Complete
    <2>2. Replayed = p
      BY <1>5, <2>1, ReplayEncoded
    <2>3. "no" # "rename"
      OBVIOUS
    <2>4. failures = 0 => Current
      BY <1>1, <1>2, <1>4, <2>3, Zenon DEF Structure, Current
    <2> QED
      BY <2>1, <2>2, <2>4, Zenon
  <1>7. ASSUME Tidy
        PROVE  InOrder(Replayed) /\ Until(Replayed, acked)
    <2>1. CASE Clean
      <3>1. PICK c \in Seq(Nat), b \in Seq(Nat) : Holds(c, b)
        BY <2>1 DEF Clean
      <3>2. os = Encoded(c) /\ Encoded(b) = <<>> /\ InOrder(c \o b) /\ Until(c, acked)
        BY <1>4, <1>5, <3>1 DEF Holds
      <3>3. b = <<>>
        <4>1. Len(Encoded(b)) = 2 * Len(b) /\ Len(b) \in Nat
          BY EncodedAt
        <4>2. Len(b) = 0
          BY <3>2, <4>1
        <4> QED
          BY <4>2, EmptySeq
      <3>4. c \o <<>> = c
        OBVIOUS
      <3>5. Replayed = c
        BY <3>2, ReplayEncoded
      <3> QED
        BY <3>2, <3>3, <3>4, <3>5
    <2>2. CASE Torn
      <3>1. PICK c \in Seq(Nat) : TornAt(c)
        BY <2>2 DEF Torn
      <3>2. /\ Begins(os, c) /\ os[2 * Len(c) + 2].part = 1
            /\ InOrder(c) /\ Until(c, acked)
        BY <1>5, <3>1 DEF TornAt
      <3>3. NoMore(os, Len(c))
        BY <3>2 DEF NoMore
      <3>4. Replayed = c
        BY <1>5, <3>2, <3>3, ReplayIs
      <3> QED
        BY <3>2, <3>4
    <2> QED
      BY <1>1, <1>7, <2>1, <2>2 DEF Order
  <1> QED
    BY <1>4, <1>5, <1>6, <1>7

LEMMA LoadStep ==
    ASSUME IInv, load
    PROVE  IInv'
  <1>1. /\ UNCHANGED <<rewritten, policy, buffer, stdio, os, medium, temp, rewriting, acked>>
        /\ UNCHANGED <<durable, reopens, cuts, failures, crashes, shutdowns>>
        /\ mode = "down" /\ handle' = TRUE /\ exists' = TRUE /\ due' = TRUE
    BY Zenon DEF load, histVars
  <1>2. \/ mode' = "up" /\ mem' = Replayed
        \/ mode' = "refused" /\ mem' = mem
    BY DEF load
  <1>3. commands' = 0
    BY DEF load
  <1>4. Flags /\ Values /\ Structure /\ Complete /\ Order
    BY DEF IInv
  <1>5. /\ stdio = <<>> /\ buffer = <<>> /\ rewriting = "no" /\ Log = os
        /\ Unharmed => /\ Log = Encoded(Replayed) /\ Replayed \in Seq(Nat)
                       /\ IsPrefix(Replayed, mem)
                       /\ failures = 0 => Replayed = mem
        /\ Tidy => InOrder(Replayed) /\ Until(Replayed, acked)
    BY <1>1, BootFinds
  <1>6. crashes + shutdowns # 0
    BY <1>1, <1>4 DEF Structure
  <1>7. mem' \in Seq(Nat) /\ mode' \in {"up", "refused"}
    <2>1. Replayed \in Seq(Nat) /\ mem \in Seq(Nat)
      BY <1>4, ReplayType DEF Values
    <2> QED
      BY <1>2, <2>1
  <1>8. Flags'
    BY <1>1, <1>4, Zenon DEF Flags
  <1>9. Values'
    BY <1>1, <1>3, <1>4, <1>7 DEF Values
  <1>10. Structure'
    <2>1. rewriting' \notin {"close", "remove", "rename"} /\ rewriting' # "rename"
      BY <1>1, <1>5
    <2>2. reopens' <= failures' /\ cuts' <= failures' /\ crashes' + shutdowns' # 0
      BY <1>1, <1>4, <1>6 DEF Structure
    <2> QED
      BY <1>1, <1>5, <2>1, <2>2, Zenon DEF Structure
  <1>11. Log' = Log
    BY <1>1 DEF Log
  <1>12. Complete'
    <2> SUFFICES ASSUME Unharmed'
                 PROVE  \E p \in Seq(Nat) : /\ Log' = Encoded(p) /\ IsPrefix(p, mem')
                                            /\ Current' => p = mem'
      BY DEF Complete
    <2>1. Unharmed
      BY <1>1 DEF Unharmed
    <2>2. CASE mode' = "up" /\ mem' = Replayed
      <3>1. IsPrefix(Replayed, Replayed)
        BY <1>5, <2>1, PrefixItself
      <3> QED
        BY <1>5, <1>11, <2>1, <2>2, <3>1, Zenon
    <2>3. CASE mode' = "refused" /\ mem' = mem
      <3>1. ~Current'
        BY <2>3, Zenon DEF Current
      <3> QED
        BY <1>5, <1>11, <2>1, <2>3, <3>1, Zenon
    <2> QED
      BY <1>2, <2>2, <2>3
  <1>13. Synced'
    <2>1. mode' # "down" /\ crashes' + shutdowns' # 0
      BY <1>1, <1>6, <1>7
    <2> QED
      BY <2>1, Zenon DEF Synced
  <1>14. Order'
    <2> SUFFICES ASSUME Tidy'
                 PROVE  /\ InOrder(mem') /\ Until(mem', acked')
                        /\ failures' = 0 => Increasing(mem')
                        /\ Clean' \/ (cuts' = 1 /\ Torn')
      BY DEF Order
    <2>1. Tidy
      BY <1>1 DEF Tidy
    <2>2. /\ InOrder(mem) /\ Until(mem, acked) /\ (failures = 0 => Increasing(mem))
          /\ Clean \/ (cuts = 1 /\ Torn)
      BY <1>4, <2>1 DEF Order
    <2>3. Clean' \/ (cuts' = 1 /\ Torn')
      BY <1>1, <1>11, <2>2, Zenon DEF Clean, Holds, Torn, TornAt
    <2>4. failures = 0 => Replayed = mem
      <3>1. failures = 0 => Unharmed
        BY <1>4, <2>1 DEF Unharmed, Tidy, Values, Structure
      <3> QED
        BY <1>5, <3>1
    <2>5. mem' \in {Replayed, mem} /\ acked' = acked /\ failures' = failures
      BY <1>1, <1>2
    <2> QED
      BY <1>5, <2>1, <2>2, <2>3, <2>4, <2>5
  <1> QED
    BY <1>8, <1>9, <1>10, <1>12, <1>13, <1>14 DEF IInv

-----------------------------------------------------------------------------
(***************************************************************************)
(* The results.                                                            *)
(***************************************************************************)
LEMMA StutterStep ==
    ASSUME IInv, UNCHANGED vars
    PROVE  IInv'
  <1>1. /\ UNCHANGED <<policy, mode, mem, handle, buffer, stdio, exists, os, medium, temp>>
        /\ UNCHANGED <<rewriting, commands, due, acked, durable, rewritten>>
        /\ UNCHANGED <<reopens, cuts, failures, crashes, shutdowns>>
    BY DEF vars, fileVars, histVars
  <1>2. Flags' /\ Structure'
    BY <1>1, Zenon DEF IInv, Flags, Structure, Idle
  <1>3. Values'
    BY <1>1 DEF IInv, Values
  <1>4. Complete' /\ Synced'
    BY <1>1, Zenon DEF IInv, Complete, Unharmed, Current, Log, Synced, Recoverable
  <1>5. Order'
    BY <1>1, Zenon DEF IInv, Order, Tidy, Clean, Holds, Torn, TornAt, Log
  <1> QED
    BY <1>2, <1>3, <1>4, <1>5 DEF IInv

LEMMA Inductive == IInv /\ [Next]_vars => IInv'
  <1> SUFFICES ASSUME IInv, [Next]_vars PROVE IInv'
    OBVIOUS
  <1>1. CASE append
    BY <1>1, AppendStep
  <1>2. CASE Second
    BY <1>2, SecondStep
  <1>3. CASE cron
    BY <1>3, FlushStep, ShortWriteStep DEF cron
  <1>4. CASE rewrite_aof \/ RewriteTemp \/ RewriteTempFails
    BY <1>4, RewriteBegins
  <1>5. CASE RewriteClose
    BY <1>5, RewriteCloseStep
  <1>6. CASE RewriteRemove
    BY <1>6, RewriteRemoveStep
  <1>7. CASE RewriteRename
    BY <1>7, RewriteRenameStep
  <1>8. CASE RewriteRenameFails
    BY <1>8, RewriteRenameFailsStep
  <1>9. CASE shutdown
    BY <1>9, ShutdownStep
  <1>10. CASE Kill \/ PowerFailure
    BY <1>10, CrashesStep
  <1>11. CASE load
    BY <1>11, LoadStep
  <1>12. CASE UNCHANGED vars
    BY <1>12, StutterStep
  <1> QED
    BY <1>1, <1>2, <1>3, <1>4, <1>5, <1>6, <1>7, <1>8, <1>9, <1>10, <1>11, <1>12, Zenon DEF Next

LEMMA Invariance == Spec => []IInv
  BY InitInv, Inductive, PTL DEF Spec

\* Every variable of the append-only file and of its history keeps its type: what
\* replay builds out of any file a crash can leave is a keyspace, and the medium
\* never holds more than the file.
THEOREM TypeCorrect == Spec => []TypeOK
  <1>1. IInv => TypeOK
    BY TypeParts DEF IInv
  <1> QED
    BY <1>1, Invariance, PTL

\* Whatever the fsync policy, the rewrite threshold and the number of writes, and
\* wherever rewrites and orderly restarts come between, the file with the bytes
\* still in stdio and in buffer_ is the encoding of the keyspace, until a crash
\* or a failed system call.
THEOREM FileAlwaysStream == Spec => []FileIsStream
  <1>1. IInv => FileIsStream
    <2> SUFFICES ASSUME IInv, LoopFree, crashes = 0, failures = 0
                 PROVE  os \o stdio \o buffer = Encoded(mem)
      BY DEF FileIsStream
    <2>1. Values /\ Structure /\ Complete
      BY DEF IInv
    <2>2. Unharmed
      BY <2>1 DEF Unharmed, Values, Structure
    <2>3. mode # "refused" /\ rewriting # "rename"
      BY DEF LoopFree
    <2>4. Current
      BY <2>1, <2>3, Zenon DEF Structure, Current
    <2> QED
      BY <2>1, <2>2, <2>4 DEF Complete, Log
  <1> QED
    BY <1>1, Invariance, PTL

\* However many short writes leave a part of buffer_ twice in the file, and
\* whatever else fails, no boot applies an older write over a newer one, unless a
\* write was cut inside a command and something else failed too.
THEOREM AlwaysReplayedInOrder == Spec => []ReplayedInOrder
  <1>1. IInv => ReplayedInOrder
    BY DEF IInv, Order, Tidy, InOrder, ReplayedInOrder
  <1> QED
    BY <1>1, Invariance, PTL

\* A boot is the only step that takes the server from down to up, and the
\* keyspace it comes up with is what it replays.
LEMMA OnlyLoadBoots ==
    ASSUME [Next]_vars, mode = "down", mode' = "up"
    PROVE  mem' = Replayed
  <1>1. mode # "up" /\ mode' # mode /\ mode' # "refused"
    OBVIOUS
  <1>2. load
    <2>1. ~(append \/ Second \/ cron \/ rewrite_aof \/ shutdown)
      BY <1>1, Zenon DEF append, Second, cron, rewrite_aof, shutdown, LoopFree
    <2>2. ~(RewriteTemp \/ RewriteTempFails \/ RewriteClose \/ RewriteRemove)
      BY <1>1, Zenon DEF RewriteTemp, RewriteTempFails, RewriteClose, RewriteRemove
    <2>3. ~(RewriteRename \/ RewriteRenameFails \/ Kill \/ PowerFailure)
      BY <1>1, Zenon DEF RewriteRename, RewriteRenameFails, Kill, PowerFailure, Crash
    <2>4. ~UNCHANGED vars
      BY <1>1 DEF vars
    <2> QED
      BY <2>1, <2>2, <2>3, <2>4, Zenon DEF Next
  <1> QED
    BY <1>1, <1>2 DEF load

\* Orderly shutdowns lose nothing, what was still in buffer_ included, however
\* many rewrites and restarts there were; when the only failures are rewrites that
\* could not open their file again, a boot still brings back a prefix.
THEOREM AlwaysRecoversAll == Spec => RecoversAll
  <1>1. IInv /\ [Next]_vars =>
            [mode = "down" /\ mode' = "up" /\ crashes = 0 =>
                /\ failures = 0 => mem' = mem
                /\ failures = reopens => IsPrefix(mem', mem)]_vars
    <2> SUFFICES ASSUME IInv, [Next]_vars, mode = "down", mode' = "up", crashes = 0
                 PROVE  /\ failures = 0 => mem' = mem
                        /\ failures = reopens => IsPrefix(mem', mem)
      OBVIOUS
    <2>1. mem' = Replayed
      BY OnlyLoadBoots
    <2>2. failures = 0 => failures = reopens
      BY DEF IInv, Values, Structure
    <2>3. failures = reopens => Unharmed
      BY DEF Unharmed
    <2>4. Unharmed => IsPrefix(Replayed, mem) /\ (failures = 0 => Replayed = mem)
      BY BootFinds
    <2> QED
      BY <2>1, <2>2, <2>3, <2>4
  <1> QED
    BY <1>1, Invariance, PTL DEF Spec, RecoversAll

\* Wherever the first kill or power failure falls, and however much of what was
\* not synced has reached the medium, the boot behind it brings back a prefix of
\* the keyspace, and all of what the last fsync covered.
THEOREM AlwaysRecoversSynced == Spec => RecoversSynced
  <1>1. IInv /\ [Next]_vars =>
            [/\ mode = "down" /\ mode' = "up"
             /\ crashes + shutdowns = 1 /\ failures = 0 /\ ~rewritten
             => IsPrefix(durable, mem') /\ IsPrefix(mem', mem)]_vars
    <2> SUFFICES ASSUME IInv, [Next]_vars, mode = "down", mode' = "up",
                        crashes + shutdowns = 1, failures = 0, ~rewritten
                 PROVE  IsPrefix(durable, mem') /\ IsPrefix(mem', mem)
      OBVIOUS
    <2>1. mem' = Replayed
      BY OnlyLoadBoots
    <2>2. Recoverable
      BY Zenon DEF IInv, Synced
    <2>3. IsPrefix(durable, Replayed) /\ IsPrefix(Replayed, mem)
      BY <2>2, ReplayRecoverable DEF IInv
    <2> QED
      BY <2>1, <2>3
  <1> QED
    BY <1>1, Invariance, PTL DEF Spec, RecoversSynced
=============================================================================
