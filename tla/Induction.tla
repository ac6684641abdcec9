----------------------------- MODULE Induction -----------------------------
(***************************************************************************)
(* Induction and recursion over an initial segment of the naturals, in the *)
(* first-order form the provers can use: the induction hypothesis is       *)
(* membership in a set, and the step of a recursion is a function.         *)
(***************************************************************************)
EXTENDS Integers, WellFoundedInduction, TLAPS

\* A set that holds 0 and, with every number, its successor holds every natural
\* number: the least number outside it would have a predecessor outside it.
LEMMA SetInduction ==
    ASSUME NEW S, 0 \in S, \A n \in Nat : n \in S => n + 1 \in S
    PROVE  \A n \in Nat : n \in S
  <1> DEFINE T == {n \in Nat : n \notin S}
             Less == OpToRel(<, Nat)
  <1>1. SUFFICES ASSUME T # {} PROVE FALSE
    OBVIOUS
  <1>2. PICK x \in T : \A y \in T : ~(<<y, x>> \in Less)
    <2>1. IsWellFoundedOn(Less, Nat)
      BY NatLessThanWellFounded, Zenon
    <2>2. T \subseteq Nat
      OBVIOUS
    <2> HIDE DEF T, Less
    <2> QED
      BY <1>1, <2>1, <2>2, WFMin, Zenon
  <1>3. x # 0 /\ x \in Nat
    OBVIOUS
  <1>4. x - 1 \in Nat /\ (x - 1) + 1 = x
    BY <1>3
  <1>5. x - 1 \in T
    BY <1>4
  <1>6. <<x - 1, x>> \in Less
    BY <1>3, <1>4 DEF OpToRel
  <1> QED
    BY <1>2, <1>5, <1>6, Zenon

\* The same up to a bound.
LEMMA BoundedInduction ==
    ASSUME NEW N \in Nat, NEW S, 0 \in S,
           \A n \in 0..(N - 1) : n \in S => n + 1 \in S
    PROVE  \A n \in 0..N : n \in S
  <1> DEFINE T == {n \in Nat : n <= N => n \in S}
  <1>1. 0 \in T
    OBVIOUS
  <1>2. \A n \in Nat : n \in T => n + 1 \in T
    OBVIOUS
  <1> HIDE DEF T
  <1>3. \A n \in Nat : n \in T
    BY <1>1, <1>2, SetInduction
  <1> QED
    BY <1>3 DEF T

\* f starts at v and takes the steps F[1], ..., F[n] one after the other.
IsRun(f, n, V, v, F) ==
    /\ f \in [0..n -> V]
    /\ f[0] = v
    /\ \A i \in 1..n : f[i] = F[i][f[i - 1]]

\* Every recursion along an initial segment has a solution.
LEMMA RunExists ==
    ASSUME NEW V, NEW v \in V, NEW N \in Nat, NEW F \in [1..N -> [V -> V]]
    PROVE  \E f : IsRun(f, N, V, v, F)
  <1> DEFINE S == {n \in Nat : n <= N => \E f : IsRun(f, n, V, v, F)}
  <1>1. 0 \in S
    <2> DEFINE f == [i \in 0..0 |-> v]
    <2>1. IsRun(f, 0, V, v, F)
      BY DEF IsRun
    <2> QED
      BY <2>1
  <1>2. ASSUME NEW n \in Nat, n \in S
        PROVE  n + 1 \in S
    <2> SUFFICES ASSUME n + 1 <= N
                 PROVE  \E f : IsRun(f, n + 1, V, v, F)
      OBVIOUS
    <2>1. PICK f : IsRun(f, n, V, v, F)
      BY <1>2
    <2> DEFINE g == [i \in 0..(n + 1) |-> IF i <= n THEN f[i] ELSE F[n + 1][f[n]]]
    <2>2. F[n + 1] \in [V -> V] /\ f[n] \in V
      BY <2>1 DEF IsRun
    <2>3. F[n + 1][f[n]] \in V
      BY <2>2
    <2>4. g \in [0..(n + 1) -> V]
      BY <2>1, <2>3 DEF IsRun
    <2>5. \A i \in 1..(n + 1) : g[i] = F[i][g[i - 1]]
      BY <2>1 DEF IsRun
    <2>6. g[0] = v
      BY <2>1 DEF IsRun
    <2>7. IsRun(g, n + 1, V, v, F)
      BY <2>4, <2>5, <2>6, Zenon DEF IsRun
    <2> QED
      BY <2>7
  <1> HIDE DEF S
  <1>3. N \in S
    BY <1>1, <1>2, SetInduction
  <1> QED
    BY <1>3 DEF S
=============================================================================
