-------------------------------- MODULE Glob --------------------------------
(***************************************************************************)
(* glob_match (resp.cpp), the matcher of KEYS and CONFIG GET, and what a   *)
(* pattern means.  The matcher is one loop with one place to go back to,   *)
(* the latest star; the meaning is by recursion over the pattern.          *)
(***************************************************************************)
EXTENDS Integers, Sequences

StarChar == 42
AnyChar == 63
OpenClass == 91
Escape == 92
CloseClass == 93
Negate == 94
Dash == 45

(***************************************************************************)
(* The class whose items start at q, tried on c: whether an item names c,  *)
(* and where the class ends.                                               *)
(***************************************************************************)
RECURSIVE ScanClass(_, _, _, _)
ScanClass(p, q, c, matched) ==
    IF q > Len(p) \/ p[q] = CloseClass THEN [matched |-> matched, q |-> q]
    ELSE IF p[q] = Escape /\ q < Len(p)
      THEN ScanClass(p, q + 2, c, matched \/ p[q + 1] = c)
    ELSE IF q + 2 <= Len(p) /\ p[q + 1] = Dash /\ p[q + 2] # CloseClass
      THEN ScanClass(p, q + 3, c, matched \/ (p[q] <= c /\ c <= p[q + 2])
                                          \/ (p[q + 2] <= c /\ c <= p[q]))
    ELSE ScanClass(p, q + 1, c, matched \/ p[q] = c)

(***************************************************************************)
(* One item of the pattern at i, other than a star, tried on c: where the  *)
(* pattern goes on, or 0 if c does not match.                              *)
(***************************************************************************)
Step(p, i, c) ==
    LET negate == i < Len(p) /\ p[i + 1] = Negate
        class == ScanClass(p, IF negate THEN i + 2 ELSE i + 1, c, FALSE)
        escaped == p[i] = Escape /\ i < Len(p)
    IN  IF p[i] = AnyChar THEN i + 1
        ELSE IF p[i] = OpenClass
          THEN IF class.matched = negate THEN 0
               ELSE IF class.q <= Len(p) THEN class.q + 1 ELSE class.q
        ELSE IF c # (IF escaped THEN p[i + 1] ELSE p[i]) THEN 0
        ELSE IF escaped THEN i + 2 ELSE i + 1

\* Bug: the text goes on behind the mismatch instead of behind the star.
MutRetry(star, s) == s + 1

\* The star swallows one more character.
Retry(star, s) == star.s + 1

RECURSIVE Loop(_, _, _, _, _)
Loop(p, str, i, s, star) ==
    LET next == Step(p, i, str[s])
    IN  IF s > Len(str)
          THEN \A j \in i..Len(p) : p[j] = StarChar
        ELSE IF i <= Len(p) /\ p[i] = StarChar
          THEN Loop(p, str, i + 1, s, [p |-> i, s |-> s])
        ELSE IF i <= Len(p) /\ next # 0 THEN Loop(p, str, next, s + 1, star)
        ELSE IF star.p # 0
          THEN Loop(p, str, star.p + 1, Retry(star, s), [star EXCEPT !.s = @ + 1])
        ELSE FALSE

glob_match(p, str) == Loop(p, str, 1, 1, [p |-> 0, s |-> 0])

-----------------------------------------------------------------------------
(***************************************************************************)
(* What a pattern means.  Its items are read off once: a star, or the set  *)
(* of the characters an item stands for.                                   *)
(***************************************************************************)
RECURSIVE ClassItems(_)
ClassItems(p) ==
    IF p = <<>> \/ p[1] = CloseClass THEN [chars |-> {}, rest |-> p]
    ELSE LET width == IF p[1] = Escape /\ Len(p) > 1 THEN 2
                      ELSE IF Len(p) > 2 /\ p[2] = Dash /\ p[3] # CloseClass THEN 3
                      ELSE 1
             more == ClassItems(SubSeq(p, width + 1, Len(p)))
             these == CASE width = 1 -> {p[1]}
                        [] width = 2 -> {p[2]}
                        [] width = 3 -> (p[1]..p[3]) \cup (p[3]..p[1])
         IN  [more EXCEPT !.chars = @ \cup these]

RECURSIVE Means(_, _)
Means(p, str) ==
    IF p = <<>> THEN str = <<>>
    ELSE IF p[1] = StarChar
      THEN \E k \in 0..Len(str) : Means(Tail(p), SubSeq(str, k + 1, Len(str)))
    ELSE LET negate == p[1] = OpenClass /\ Len(p) > 1 /\ p[2] = Negate
             class == ClassItems(SubSeq(p, IF negate THEN 3 ELSE 2, Len(p)))
             escaped == p[1] = Escape /\ Len(p) > 1
             rest == IF p[1] = OpenClass
                       THEN SubSeq(class.rest, 2, Len(class.rest))
                     ELSE SubSeq(p, IF escaped THEN 3 ELSE 2, Len(p))
         IN  /\ str # <<>>
             /\ \/ p[1] = AnyChar
                \/ p[1] = OpenClass /\ negate # (Head(str) \in class.chars)
                \/ /\ p[1] \notin {AnyChar, OpenClass}
                   /\ Head(str) = (IF escaped THEN p[2] ELSE p[1])
             /\ Means(rest, Tail(str))
=============================================================================
