--------------------------- MODULE BackendsProofs ---------------------------
(***************************************************************************)
(* What both backends promise, for any number of connections, any scripts, *)
(* any size of a read, of the output limit and of what the kernel holds.   *)
(*                                                                         *)
(* The steps of the poll backend keep the invariant of AsioProofs, as those*)
(* of the clients and of the asio backend do, and the theorems follow.     *)
(***************************************************************************)
EXTENDS AsioProofs

-----------------------------------------------------------------------------
(***************************************************************************)
(* The steps of the poll backend.                                          *)
(***************************************************************************)
\* The length of a queue of reply numbers is a number.
LEMMA LenIsNat == \A x \in Seq(Nat) : Len(x) \in Nat
  OBVIOUS

\* A bound on a counter holds of a later value of the bounding counter.
LEMMA UpTo == \A a \in Nat, b \in Nat, d \in Nat : a <= b /\ d >= b => a <= d
  OBVIOUS

\* What the server writes arrives behind what is on its way.
LEMMA AppendNet ==
    ASSUME NEW g \in Nat, NEW n \in Seq(Nat), NEW x \in Seq(Nat),
           \A i \in 1..Len(n) : n[i] = g + i,
           \A i \in 1..Len(x) : x[i] = g + Len(n) + i
    PROVE  /\ n \o x \in Seq(Nat) /\ Len(n \o x) = Len(n) + Len(x)
           /\ \A i \in 1..Len(n \o x) : (n \o x)[i] = g + i
  <1>1. n \o x \in Seq(Nat) /\ Len(n \o x) = Len(n) + Len(x)
    OBVIOUS
  <1>2. ASSUME NEW i \in 1..Len(n \o x) PROVE (n \o x)[i] = g + i
    <2>1. CASE i <= Len(n)
      BY <1>1, <1>2, <2>1
    <2>2. CASE i > Len(n)
      <3>1. (n \o x)[i] = x[i - Len(n)] /\ i - Len(n) \in 1..Len(x)
        BY <1>1, <1>2, <2>2
      <3>2. x[i - Len(n)] = g + Len(n) + (i - Len(n))
        BY <3>1
      <3> QED
        BY <1>1, <1>2, <3>1, <3>2
    <2> QED
      BY <2>1, <2>2
  <1> QED
    BY <1>1, <1>2

\* The step of the loop leaves the clients and asio's variables alone.
PollStep ==
    /\ sent' = sent /\ peer' = peer /\ got' = got
    /\ readop' = readop /\ readn' = readn /\ backend' = backend

\* poll() reports on open connections only.
LEMMA PollOK ==
    ASSUME IInv, backend = "poll", Poll, UNCHANGED <<backend, asioVars>>
    PROVE  IInv' /\ \A q \in Conn : Steady(world, world', q)
  <1>1. /\ dead = {} /\ revents' = [c \in Conn |-> Ready(c)]
        /\ accepting' \in BOOLEAN
        /\ sent' = sent /\ peer' = peer /\ got' = got /\ rcv' = rcv /\ net' = net
        /\ world' = world /\ readop' = readop /\ readn' = readn /\ backend' = backend
        /\ cursor' = cursor /\ dead' = dead
    BY DEF Poll, Swept, clientVars, asioVars
  <1>2. /\ TypeOK /\ ServerOK(world) /\ \A q \in Conn : ConnOK(q)
        /\ world \in World
    BY DEF IInv, ServerOK
  <1>3. /\ \A c \in Conn : revents'[c] = Ready(c)
        /\ revents' \in [Conn -> SUBSET {"in", "out", "hup"}]
    BY <1>1, Zenon DEF Ready
  <1>4. \A c \in Conn : revents'[c] # {} => Open(c)
    BY <1>3, Zenon DEF Ready
  <1>5. TypeOK'
    BY <1>1, <1>2, <1>3, Zenon DEF TypeOK, ConnectionTypeOK, AsioTypeOK, PollTypeOK
  <1>6. ServerOK(world)'
    BY <1>1, <1>2, SameQueues, Zenon
  <1>7. ASSUME NEW q \in Conn PROVE ConnOK(q)'
    <2>1. ConnOK(q)
      BY <1>2
    <2>2. UnitsOK(q)' /\ ArrivedOK(q)' /\ SessionOK(q)' /\ Bounded(world, q)'
      BY <1>1, <2>1, Zenon
      DEF ConnOK, UnitsOK, ArrivedOK, Delivered, SessionOK, Bounded
    <2>3. backend # "asio" /\ q \notin dead
      BY <1>1
    <2>4. SweepOK(q)'
      BY <1>1, <1>4, <2>3 DEF SweepOK, Open
    <2>5. EndedOK(q)'
      <3>1. ~(Open(q) /\ Closed(q))
        BY DEF Open, Closed
      <3> QED
        BY <1>1, <1>4, <2>1, <2>3, <3>1 DEF ConnOK, EndedOK, Closed
    <2> QED
      BY <2>2, <2>4, <2>5, Zenon DEF ConnOK
  <1>8. \A q \in Conn : Steady(world, world', q)
    BY <1>1, <1>2, SteadySame
  <1> QED
    BY <1>5, <1>6, <1>7, <1>8, Zenon DEF IInv

\* The connections of S in another state, as accept_ready and the loop's end
\* leave them.
Restate(w, S, s, f, a) ==
    [link   |-> [c \in Conn |-> IF c \in S THEN InState(w.link[c], s) ELSE w.link[c]],
     fed    |-> f,
     active |-> a]

Restates(w, v, S, s, f, a) ==
    /\ v \in World /\ v.fed = f /\ v.active = a
    /\ \A q \in Conn : q \in S => v.link[q] = InState(w.link[q], s)
    /\ \A q \in Conn : q \notin S => v.link[q] = w.link[q]

\* The connections outside S stay as they are.
LEMMA RestateFields ==
    ASSUME NEW w \in World, NEW S, NEW s \in {"backlog", "open", "closed"},
           NEW f \in SUBSET Conn, NEW a \in Int, NEW v, v = Restate(w, S, s, f, a)
    PROVE  Restates(w, v, S, s, f, a)
  <1>1. /\ v.fed = f /\ v.active = a
        /\ v.link = [c \in Conn |-> IF c \in S THEN InState(w.link[c], s)
                                    ELSE w.link[c]]
    BY DEF Restate
  <1>2. \A q \in Conn : w.link[q] \in LinkType /\ InState(w.link[q], s) \in LinkType
    BY LinkFields, InStateFields, Zenon
  <1>3. v.link \in [Conn -> LinkType]
    BY <1>1, <1>2
  <1>4. v \in World
    BY <1>1, <1>3, Zenon DEF Restate, World
  <1> QED
    BY <1>1, <1>4 DEF Restates

\* A connection whose state alone changes.
OnlyState(k, l, s) ==
    /\ l.state = s /\ l.why = k.why /\ l.in = k.in /\ l.done = k.done
    /\ l.out = k.out /\ l.pending = k.pending /\ l.written = k.written
    /\ l.writing = k.writing /\ l.made = k.made

\* InState changes nothing else.
LEMMA InStateIs ==
    ASSUME NEW w \in World, NEW q \in Conn, NEW s \in {"backlog", "open", "closed"},
           NEW l, l = InState(w.link[q], s)
    PROVE  OnlyState(w.link[q], l, s)
  <1>1. PICK k \in LinkType : k = w.link[q]
    BY LinkFields
  <1>2. OnlyState(k, InState(k, s), s)
    BY InStateFields, Zenon DEF OnlyState
  <1> QED
    BY <1>1, <1>2, Zenon

\* A connection that is accepted or dropped keeps its queue.
LEMMA InStateQueue ==
    ASSUME NEW w \in World, NEW v, NEW q \in Conn, QueueOK(w, q),
           NEW s \in {"backlog", "open", "closed"},
           v.link[q] = InState(w.link[q], s),
           s = "closed" \/ w.link[q].state # "closed"
    PROVE  QueueOK(v, q)
  <1>1. OnlyState(w.link[q], v.link[q], s)
    BY InStateIs
  <1> QED
    BY <1>1 DEF OnlyState, QueueOK, Settled, Continues

\* Such a step keeps the server's part of the invariant if the gauge is right
\* and no connection is closed that is still fed.
LEMMA RestateServer ==
    ASSUME NEW w, ServerOK(w), NEW v \in World, NEW S,
           NEW s \in {"open", "closed"},
           \A q \in Conn : q \in S => v.link[q] = InState(w.link[q], s),
           \A q \in Conn : q \notin S => v.link[q] = w.link[q],
           \A q \in Conn : q \in S => s = "closed" \/ w.link[q].state # "closed",
           v.fed \subseteq w.fed, v.active = Cardinality(OpenIn(v))
    PROVE  ServerOK(v)
  <1>1. w \in World /\ s \in {"backlog", "open", "closed"} /\ s # "backlog"
    BY DEF ServerOK
  <1>2. ASSUME NEW q \in Conn PROVE QueueOK(v, q)
    <2>1. QueueOK(w, q)
      BY DEF ServerOK
    <2>2. CASE q \in S
      BY <1>1, <2>1, <2>2, InStateQueue
    <2>3. CASE q \notin S
      <3>1. v.link[q] = w.link[q]
        BY <2>3
      <3> QED
        BY <2>1, <3>1, Zenon DEF QueueOK
    <2> QED
      BY <2>2, <2>3
  <1>3. ASSUME NEW q \in v.fed
        PROVE  v.link[q].state # "backlog" /\ Resynced(v.link[q], q)
    <2>1. q \in Conn /\ w.link[q].state # "backlog" /\ Resynced(w.link[q], q)
      <3>1. w.fed \subseteq Conn
        BY <1>1 DEF World
      <3> QED
        BY <1>3, <3>1, Zenon DEF ServerOK
    <2>2. CASE q \in S
      <3>1. OnlyState(w.link[q], v.link[q], s)
        BY <1>1, <2>1, <2>2, InStateIs
      <3> QED
        BY <1>1, <2>1, <3>1, Zenon DEF OnlyState, Resynced
    <2>3. CASE q \notin S
      <3>1. v.link[q] = w.link[q]
        BY <2>1, <2>3
      <3> QED
        BY <2>1, <3>1, Zenon
    <2> QED
      BY <2>2, <2>3
  <1> QED
    BY <1>2, <1>3, Zenon DEF ServerOK

\* The gauge when connections of S are accepted, or dropped.
LEMMA Recount ==
    ASSUME NEW w, NEW S \in SUBSET Conn
    PROVE  /\ Cardinality(S) \in Nat
           /\ S \cap OpenIn(w) = {} =>
                  Cardinality(OpenIn(w) \cup S) = Cardinality(OpenIn(w)) + Cardinality(S)
           /\ S \subseteq OpenIn(w) =>
                  Cardinality(OpenIn(w) \ S) = Cardinality(OpenIn(w)) - Cardinality(S)
  <1>1. IsFiniteSet(S) /\ Cardinality(S) \in Nat
    BY ConnectionAssumption, FS_Subset, FS_CardinalityType
  <1>2. PICK T : T = OpenIn(w)
    OBVIOUS
  <1>3. IsFiniteSet(T) /\ Cardinality(T) \in Nat
    BY <1>2, OpenFinite, Zenon
  <1>4. Cardinality({}) = 0
    BY FS_EmptySet
  <1>5. ASSUME S \cap T = {} PROVE Cardinality(T \cup S) = Cardinality(T) + Cardinality(S)
    <2>1. Cardinality(T \cup S) = Cardinality(T) + Cardinality(S) - Cardinality(T \cap S)
      BY <1>1, <1>3, FS_Union
    <2>2. T \cap S = {}
      BY <1>5
    <2>3. \A x, y \in Nat : x + y - 0 = x + y
      OBVIOUS
    <2> QED
      BY <1>1, <1>3, <1>4, <2>1, <2>2, <2>3, Zenon
  <1>6. ASSUME S \subseteq T PROVE Cardinality(T \ S) = Cardinality(T) - Cardinality(S)
    <2>1. Cardinality(T \ S) = Cardinality(T) - Cardinality(T \cap S)
      BY <1>3, FS_Difference, Zenon
    <2>2. T \cap S = S
      BY <1>6
    <2> QED
      BY <2>1, <2>2, Zenon
  <1> QED
    BY <1>1, <1>2, <1>5, <1>6, Zenon

\* accept_ready opens and counts every connection of the backlog.
LEMMA AcceptReadyOK ==
    ASSUME IInv, backend = "poll", AcceptReady, UNCHANGED <<backend, asioVars>>
    PROVE  IInv' /\ \A q \in Conn : Steady(world, world', q)
  <1> DEFINE new == {c \in Conn : world.link[c].state = "backlog"}
  <1>1. /\ accepting' = FALSE
        /\ sent' = sent /\ peer' = peer /\ got' = got /\ rcv' = rcv /\ net' = net
        /\ readop' = readop /\ readn' = readn /\ backend' = backend
        /\ revents' = revents /\ cursor' = cursor /\ dead' = dead
    BY DEF AcceptReady, clientVars, asioVars
  <1>2. /\ TypeOK /\ ServerOK(world) /\ \A q \in Conn : ConnOK(q)
        /\ world \in World
    BY DEF IInv, ServerOK
  <1>3. PICK w \in World : w = world
    BY <1>2
  <1>4. PICK v : v = world'
    OBVIOUS
  <1>5. PICK N \in SUBSET Conn : N = new
    BY Zenon
  <1>6. /\ w.fed \in SUBSET Conn /\ w.active \in Int /\ Cardinality(N) \in Nat
        /\ w.active + Cardinality(N) \in Int
    <2>1. Cardinality(N) \in Nat
      BY Recount, Zenon
    <2> QED
      BY <2>1 DEF World
  <1>7. v = Restate(w, N, "open", w.fed, w.active + Cardinality(N))
    <2>1. v = [w EXCEPT
               !.link = [c \in Conn |-> IF c \in N THEN [@[c] EXCEPT !.state = "open"]
                                        ELSE @[c]],
               !.active = @ + Cardinality(N)]
      BY <1>3, <1>4, <1>5 DEF AcceptReady
    <2> QED
      BY <2>1, Zenon DEF Restate, InState, World
  <1>8. /\ v \in World /\ v.fed = w.fed /\ v.active = w.active + Cardinality(N)
        /\ \A q \in Conn : q \in N => v.link[q] = InState(w.link[q], "open")
        /\ \A q \in Conn : q \notin N => v.link[q] = w.link[q]
    <2>1. PICK s \in {"backlog", "open", "closed"}, f \in SUBSET Conn, a \in Int :
              s = "open" /\ f = w.fed /\ a = w.active + Cardinality(N)
      BY <1>6, Zenon
    <2>2. v = Restate(w, N, s, f, a)
      BY <1>7, <2>1
    <2>3. Restates(w, v, N, s, f, a)
      BY <2>2, RestateFields
    <2> QED
      BY <2>1, <2>3 DEF Restates
  <1>9. \A q \in Conn : q \in N <=> w.link[q].state = "backlog"
    BY <1>3, <1>5
  <1>10. \A q \in Conn : q \in N => OnlyState(w.link[q], v.link[q], "open")
    BY <1>8, InStateIs
  <1>11. ServerOK(v)
    <2>1. OpenIn(v) = OpenIn(w) \cup N /\ N \cap OpenIn(w) = {}
      <3>1. \A q \in Conn : q \in N => v.link[q].state = "open"
        BY <1>10, Zenon DEF OnlyState
      <3> QED
        BY <1>8, <1>9, <3>1 DEF OpenIn
    <2>2. v.active = Cardinality(OpenIn(v))
      <3>1. Cardinality(OpenIn(w) \cup N) = Cardinality(OpenIn(w)) + Cardinality(N)
        BY <2>1, Recount
      <3>2. w.active = Cardinality(OpenIn(w))
        BY <1>2, <1>3, Zenon DEF ServerOK
      <3> QED
        BY <1>8, <2>1, <3>1, <3>2, Zenon
    <2>3. PICK s \in {"open", "closed"} : s = "open"
      OBVIOUS
    <2>4. \A q \in Conn : q \in N => v.link[q] = InState(w.link[q], s)
      BY <1>8, <2>3, Zenon
    <2>5. \A q \in Conn : q \in N => w.link[q].state # "closed"
      BY <1>9
    <2>6. ServerOK(w)
      BY <1>2, <1>3, Zenon
    <2> QED
      BY <1>8, <2>2, <2>4, <2>5, <2>6, RestateServer
  <1>12. ServerOK(world')
    BY <1>4, <1>11, Zenon
  <1>13. ServerOK(world)'
    BY <1>1, <1>12, SameQueues, Zenon
  <1>14. TypeOK'
    <2>1. world' \in [link : [Conn -> LinkType], fed : SUBSET Conn, active : Nat]
      BY <1>12, ServerType, Zenon
    <2>2. accepting' \in BOOLEAN
      BY <1>1, Zenon
    <2> QED
      BY <1>1, <1>2, <2>1, <2>2, Zenon
      DEF TypeOK, ConnectionTypeOK, AsioTypeOK, PollTypeOK
  <1>15. ASSUME NEW q \in Conn PROVE ConnOK(q)' /\ Steady(world, world', q)
    <2>1. ConnOK(q) /\ world' \in World
      BY <1>2, <1>4, <1>8
    <2>2. CASE q \notin N
      <3>1. SameSocket(q)
        BY <1>1 DEF SameSocket
      <3>2. world'.link[q] = world.link[q] /\ world'.fed = world.fed
        BY <1>3, <1>4, <1>8, <2>2, Zenon
      <3>3. ConnOK(q)'
        BY <1>1, <1>2, <2>1, <3>1, <3>2, SameConn, Zenon
      <3> QED
        BY <1>2, <3>2, <3>3, SteadySame
    <2>3. CASE q \in N
      <3> DEFINE k == world.link[q]
                 l == world'.link[q]
      <3>1. OnlyState(k, l, "open") /\ k.state = "backlog"
        BY <1>3, <1>4, <1>9, <1>10, <2>3, Zenon
      <3>2. /\ "backlog" # "open" /\ "backlog" # "closed" /\ "open" # "closed"
            /\ backend # "asio"
        OBVIOUS
      <3>3. ~Open(q) /\ ~Closed(q)
        BY <3>1, <3>2, Zenon DEF Open, Closed
      <3>4. UnitsOK(q)' /\ ArrivedOK(q)'
        BY <1>1, <2>1, <3>1, Zenon
        DEF ConnOK, UnitsOK, ArrivedOK, Delivered, OnlyState
      <3>5. SessionOK(q)'
        BY <1>1, <2>1, <3>1, <3>2 DEF ConnOK, SessionOK, OnlyState
      <3>6. SweepOK(q)'
        BY <1>1, <2>1, <3>2, <3>3 DEF ConnOK, SweepOK
      <3>7. EndedOK(q)'
        <4>1. l.why # "eof"
          BY <2>1, <3>1, <3>3, Zenon DEF ConnOK, EndedOK, SweepOK, OnlyState
        <4> QED
          BY <4>1, Zenon DEF EndedOK
      <3>8. Queued(l) <= MaxOut
        <4>1. l.out = <<>> /\ l.pending = <<>>
          BY <2>1, <3>1, Zenon DEF ConnOK, SessionOK, OnlyState
        <4>2. Len(<<>>) + Len(<<>>) <= MaxOut
          BY ConnectionAssumption
        <4> QED
          BY <4>1, <4>2, Zenon DEF Queued
      <3>9. Bounded(world, q)'
        BY <3>8, Zenon DEF Bounded, Queued
      <3>10. Steady(world, world', q)
        <4>1. k.made \in Nat /\ k.made >= k.made
          BY <1>2, LinkFields
        <4>2. ~k.writing
          BY <2>1, <3>1, Zenon DEF ConnOK, SessionOK
        <4> QED
          BY <3>1, <3>2, <4>1, <4>2 DEF Steady, OnlyState
      <3> QED
        BY <3>4, <3>5, <3>6, <3>7, <3>9, <3>10, Zenon DEF ConnOK
    <2> QED
      BY <2>2, <2>3
  <1> QED
    BY <1>13, <1>14, <1>15 DEF IInv

\* drop closes, uncounts and stops feeding every connection that has failed.
LEMMA DropOK ==
    ASSUME IInv, backend = "poll", Drop, UNCHANGED <<backend, asioVars>>
    PROVE  IInv' /\ \A q \in Conn : Steady(world, world', q)
  <1>1. /\ \A c \in Conn : revents[c] = {}
        /\ dead' = {}
        /\ sent' = sent /\ peer' = peer /\ got' = got /\ rcv' = rcv /\ net' = net
        /\ readop' = readop /\ readn' = readn /\ backend' = backend
        /\ revents' = revents /\ cursor' = cursor /\ accepting' = accepting
    BY DEF Drop, clientVars, asioVars
  <1>2. /\ TypeOK /\ ServerOK(world) /\ \A q \in Conn : ConnOK(q)
        /\ world \in World
    BY DEF IInv, ServerOK
  <1>3. PICK w \in World : w = world
    BY <1>2
  <1>4. PICK v : v = world'
    OBVIOUS
  <1>5. PICK N \in SUBSET Conn : N = dead
    BY <1>2 DEF TypeOK, PollTypeOK
  <1>6. /\ w.fed \in SUBSET Conn /\ w.active \in Int /\ w.fed \ N \in SUBSET Conn
        /\ w.active - Cardinality(N) \in Int
    <2>1. Cardinality(N) \in Nat
      BY Recount, Zenon
    <2> QED
      BY <2>1 DEF World
  <1>7. v = Restate(w, N, "closed", w.fed \ N, w.active - Cardinality(N))
    <2>1. v = [w EXCEPT
               !.link = [c \in Conn |-> IF c \in N THEN [@[c] EXCEPT !.state = "closed"]
                                        ELSE @[c]],
               !.fed = @ \ N,
               !.active = @ - Cardinality(N)]
      BY <1>3, <1>4, <1>5 DEF Drop, OnDisconnect
    <2> QED
      BY <2>1, Zenon DEF Restate, InState, World
  <1>8. /\ v \in World /\ v.fed = w.fed \ N /\ v.active = w.active - Cardinality(N)
        /\ \A q \in Conn : q \in N => v.link[q] = InState(w.link[q], "closed")
        /\ \A q \in Conn : q \notin N => v.link[q] = w.link[q]
    <2>1. PICK s \in {"backlog", "open", "closed"}, f \in SUBSET Conn, a \in Int :
              s = "closed" /\ f = w.fed \ N /\ a = w.active - Cardinality(N)
      BY <1>6, Zenon
    <2>2. v = Restate(w, N, s, f, a)
      BY <1>7, <2>1
    <2>3. Restates(w, v, N, s, f, a)
      BY <2>2, RestateFields
    <2> QED
      BY <2>1, <2>3 DEF Restates
  <1>9. \A q \in N : w.link[q].state = "open"
    BY <1>2, <1>3, <1>5 DEF ConnOK, SweepOK, Open
  <1>10. \A q \in Conn : q \in N => OnlyState(w.link[q], v.link[q], "closed")
    BY <1>8, InStateIs
  <1>11. ServerOK(v)
    <2>1. OpenIn(v) = OpenIn(w) \ N /\ N \subseteq OpenIn(w)
      <3>1. \A q \in Conn : q \in N => v.link[q].state = "closed"
        BY <1>10, Zenon DEF OnlyState
      <3> QED
        BY <1>8, <1>9, <3>1 DEF OpenIn
    <2>2. v.active = Cardinality(OpenIn(v))
      <3>1. Cardinality(OpenIn(w) \ N) = Cardinality(OpenIn(w)) - Cardinality(N)
        BY <2>1, Recount
      <3>2. w.active = Cardinality(OpenIn(w))
        BY <1>2, <1>3 DEF ServerOK
      <3> QED
        BY <1>8, <2>1, <3>1, <3>2, Zenon
    <2>3. PICK s \in {"open", "closed"} : s = "closed"
      OBVIOUS
    <2>4. \A q \in Conn : q \in N => v.link[q] = InState(w.link[q], s)
      BY <1>8, <2>3, Zenon
    <2>5. ServerOK(w) /\ v.fed \subseteq w.fed
      BY <1>2, <1>3, <1>8
    <2> QED
      BY <1>8, <2>2, <2>3, <2>4, <2>5, RestateServer
  <1>12. ServerOK(world')
    BY <1>4, <1>11
  <1>13. ServerOK(world)'
    BY <1>1, <1>12, SameQueues, Zenon
  <1>14. TypeOK'
    <2>1. world' \in [link : [Conn -> LinkType], fed : SUBSET Conn, active : Nat]
      BY <1>12, ServerType
    <2>2. dead' \subseteq Conn
      BY <1>1
    <2> QED
      BY <1>1, <1>2, <2>1, <2>2, Zenon
      DEF TypeOK, ConnectionTypeOK, AsioTypeOK, PollTypeOK
  <1>15. ASSUME NEW q \in Conn PROVE ConnOK(q)' /\ Steady(world, world', q)
    <2>1. ConnOK(q) /\ world' \in World
      BY <1>2, <1>4, <1>8
    <2>2. CASE q \notin N
      <3>1. SameSocket(q)
        BY <1>1, <1>5, <2>2 DEF SameSocket
      <3>2. world'.link[q] = world.link[q] /\ (q \in world'.fed <=> q \in world.fed)
        BY <1>3, <1>4, <1>8, <2>2
      <3>3. ConnOK(q)'
        BY <1>1, <1>2, <2>1, <3>1, <3>2, SameConn, Zenon
      <3> QED
        BY <1>2, <3>2, <3>3, SteadySame, Zenon
    <2>3. CASE q \in N
      <3> DEFINE k == world.link[q]
                 l == world'.link[q]
      <3>1. OnlyState(k, l, "closed")
        BY <1>3, <1>4, <1>10, <2>3, Zenon
      <3>2. "closed" # "backlog" /\ "closed" # "open" /\ backend # "asio" /\ q \notin dead'
        BY <1>1
      <3>3. UnitsOK(q)' /\ ArrivedOK(q)'
        BY <1>1, <2>1, <3>1, Zenon
        DEF ConnOK, UnitsOK, ArrivedOK, Delivered, OnlyState
      <3>4. SessionOK(q)'
        BY <1>1, <2>1, <3>1, <3>2 DEF ConnOK, SessionOK, OnlyState
      <3>5. SweepOK(q)'
        BY <1>1, <3>2, Zenon DEF SweepOK
      <3>6. EndedOK(q)'
        BY <1>1, <2>1, <3>1, <3>2, Zenon DEF ConnOK, EndedOK, OnlyState, Closed
      <3>7. Bounded(world, q)'
        BY <3>1, <3>2, Zenon DEF Bounded, OnlyState
      <3>8. Steady(world, world', q)
        <4>1. k.made \in Nat /\ k.made >= k.made
          BY <1>2, LinkFields
        <4>2. q \notin world'.fed
          BY <1>4, <1>8, <2>3
        <4> QED
          BY <3>1, <4>1, <4>2, Zenon DEF Steady, OnlyState
      <3> QED
        BY <3>3, <3>4, <3>5, <3>6, <3>7, <3>8 DEF ConnOK
    <2> QED
      BY <2>2, <2>3
  <1> QED
    BY <1>13, <1>14, <1>15 DEF IInv

\* A step of the sweep that is about c: the others only see what executing c's
\* requests does to them.
LEMMA SweepStep ==
    ASSUME IInv, backend = "poll", NEW c \in Conn, PollStep, accepting' = accepting,
           \A q \in Conn : q # c => /\ rcv'[q] = rcv[q] /\ net'[q] = net[q]
                                    /\ revents'[q] = revents[q]
                                    /\ (q \in dead' <=> q \in dead)
                                    /\ ServesOne(world, world', c, q),
           rcv' \in [Conn -> Nat], net' \in [Conn -> Seq(Nat)],
           revents' \in [Conn -> SUBSET {"in", "out", "hup"}],
           cursor' \in Conn \cup {NoConn}, dead' \subseteq Conn,
           ServerOK(world)', world'.link[c].state = "open",
           UnitsOK(c)', ArrivedOK(c)', EndedOK(c)', Bounded(world, c)',
           Steady(world, world', c)
    PROVE  IInv' /\ \A q \in Conn : Steady(world, world', q)
  <1>1. /\ TypeOK /\ ServerOK(world) /\ \A q \in Conn : ConnOK(q)
        /\ world \in World
    BY Zenon DEF IInv, ServerOK
  <1>2. /\ sent' = sent /\ peer' = peer /\ got' = got
        /\ readop' = readop /\ readn' = readn /\ backend' = backend
    BY Zenon DEF PollStep
  <1>3. world' \in World /\ world'.active = Cardinality(OpenIn(world'))
    BY Zenon DEF ServerOK, OpenIn
  <1>4. TypeOK'
    <2>1. world' \in [link : [Conn -> LinkType], fed : SUBSET Conn, active : Nat]
      <3>1. world'.active \in Nat
        BY <1>3, OpenFinite
      <3> QED
        BY <1>3, <3>1 DEF World
    <2> QED
      BY <1>1, <1>2, <2>1, Zenon DEF TypeOK, ConnectionTypeOK, AsioTypeOK, PollTypeOK
  <1>5. ConnOK(c)'
    <2>1. ConnOK(c) /\ "open" # "backlog" /\ backend # "asio"
      BY <1>1
    <2>2. SessionOK(c)'
      <3>1. readop[c] = "none" /\ "none" # "done" /\ "none" # "eof"
        BY <2>1 DEF ConnOK, SessionOK
      <3> QED
        BY <1>2, <2>1, <3>1, Zenon DEF ConnOK, SessionOK
    <2>3. SweepOK(c)'
      BY <1>2, <2>1, Zenon DEF SweepOK, Open
    <2> QED
      BY <2>2, <2>3, Zenon DEF ConnOK
  <1>6. ASSUME NEW q \in Conn, q # c PROVE ConnOK(q)' /\ Steady(world, world', q)
    <2>1. SameSocket(q)
      BY <1>2, <1>6, Zenon DEF SameSocket
    <2>2. ServesOne(world, world', c, q)
      BY <1>6, Zenon
    <2>3. ConnOK(q)'
      BY <1>1, <1>2, <1>3, <1>6, <2>1, <2>2, OtherConn, Zenon DEF ServesOne
    <2> QED
      BY <1>1, <2>2, <2>3, ServesSteady, Zenon
  <1> QED
    BY <1>4, <1>5, <1>6, Zenon DEF IInv

\* A connection on which the sweep works is open, and has not found the end of
\* the stream.
LEMMA Sweeping ==
    ASSUME IInv, backend = "poll", NEW c \in Conn, AtConn(c)
    PROVE  /\ TypeOK /\ ServerOK(world) /\ ConnOK(c) /\ world \in World
           /\ world.link[c].state = "open" /\ world.link[c].why # "eof"
           /\ readn[c] = 0
           /\ ~world.link[c].writing /\ world.link[c].pending = <<>>
  <1>1. TypeOK /\ ServerOK(world) /\ ConnOK(c) /\ world \in World /\ QueueOK(world, c)
    BY Zenon DEF IInv, ServerOK
  <1>2. revents[c] # {}
    BY DEF AtConn
  <1>3. readop[c] = "none" /\ "none" # "done"
    BY <1>1 DEF ConnOK, SessionOK
  <1> QED
    BY <1>1, <1>2, <1>3, Zenon DEF ConnOK, SweepOK, SessionOK, EndedOK, QueueOK, Open

\* Behind the requests that were executed only c's own link has changed.
LEMMA ThenLink ==
    ASSUME NEW w, NEW v, NEW u, NEW c \in Conn, Serves(w, v, c), OnlyLink(v, u, c),
           u.fed = v.fed, NEW q \in Conn, q # c
    PROVE  ServesOne(w, u, c, q)
  <1>1. u.link[q] = v.link[q]
    BY DEF OnlyLink
  <1>2. ServesOne(w, v, c, q)
    BY Zenon DEF Serves
  <1> QED
    BY <1>1, <1>2, Zenon DEF ServesOne, Bounded

\* Of c's link only the reason of its end changes.
LEMMA SetWhyFields ==
    ASSUME NEW u \in World, NEW c \in Conn, NEW y \in {"none", "eof", "error", "overflow"}, NEW w,
           w = SetWhy(u, c, y)
    PROVE  SetsWhy(u, w, c, y)
  <1> DEFINE k == [u.link[c] EXCEPT !.why = y]
  <1>1. u.link[c] \in LinkType
    BY LinkFields
  <1>2. u.fed \in SUBSET Conn /\ u.active \in Int
    BY LinkFields
  <1>3. w = Put(u, c, k, u.fed, u.active)
    BY DEF SetWhy, World, Put
  <1>4. k \in LinkType
    BY <1>1, Zenon DEF LinkType
  <1>5. /\ k.in = u.link[c].in /\ k.done = u.link[c].done
        /\ k.made = u.link[c].made /\ k.out = u.link[c].out
        /\ k.pending = u.link[c].pending /\ k.written = u.link[c].written
        /\ k.writing = u.link[c].writing /\ k.state = u.link[c].state
        /\ k.why = y
    BY <1>1 DEF LinkType
  <1> HIDE DEF k
  <1>6. OnlyLink(u, w, c) /\ w.fed = u.fed /\ w.active = u.active /\ w.link[c] = k
    BY <1>2, <1>3, <1>4, PutFields
  <1> QED
    BY <1>5, <1>6, Zenon DEF SetsWhy

\* Noting why a connection fails changes nothing else.
LEMMA WhyServer ==
    ASSUME NEW w, ServerOK(w), NEW c \in Conn,
           NEW y \in {"none", "eof", "error", "overflow"}, NEW v, v = SetWhy(w, c, y)
    PROVE  ServerOK(v) /\ SetsWhy(w, v, c, y)
  <1>1. w \in World /\ QueueOK(w, c)
    BY DEF ServerOK
  <1>2. SetsWhy(w, v, c, y)
    BY <1>1, SetWhyFields
  <1>3. QueueOK(v, c) /\ Booked(w, v, c)
    BY <1>1, <1>2, Zenon DEF SetsWhy, QueueOK, Settled, Continues, Booked
  <1>4. OnlyLink(w, v, c) /\ v.link[c].done = w.link[c].done
    BY <1>2, Zenon DEF SetsWhy
  <1>5. ServerOK(v)
    BY <1>3, <1>4, BookedServer
  <1> QED
    BY <1>2, <1>5

\* Without a request everything is served as it is.
LEMMA ServesNothing ==
    ASSUME NEW w \in World, NEW c \in Conn
    PROVE  Serves(w, w, c)
  BY ServesSame DEF Serves

\* The connection fails, behind the requests that were executed on it.
LEMMA FailStep ==
    ASSUME IInv, backend = "poll", NEW c \in Conn, AtConn(c), PollStep, Fail(c),
           accepting' = accepting, net' = net, rcv' \in [Conn -> Nat],
           \A q \in Conn : q # c => rcv'[q] = rcv[q],
           NEW v, ServerOK(v), Serves(world, v, c),
           NEW y \in {"none", "eof", "error", "overflow"}, world' = SetWhy(v, c, y),
           sent[c] = rcv'[c] + readn[c] + v.link[c].in + 2 * v.link[c].done,
           v.link[c].in <= 1 \/ v.link[c].in >= ReadChunk,
           y = "eof" => /\ peer[c] # "open"
                        /\ \/ v.link[c].done = sent[c] \div 2
                           \/ v.link[c].in >= ReadChunk
    PROVE  IInv' /\ \A q \in Conn : Steady(world, world', q)
  <1>1. /\ TypeOK /\ ServerOK(world) /\ ConnOK(c) /\ world \in World
        /\ world.link[c].state = "open" /\ ~world.link[c].writing
    BY Sweeping, Zenon
  <1>2. /\ sent' = sent /\ peer' = peer /\ got' = got
        /\ readop' = readop /\ readn' = readn /\ backend' = backend
    BY Zenon DEF PollStep
  <1>3. /\ dead' = dead \cup {c} /\ revents' = [revents EXCEPT ![c] = {}]
        /\ cursor' = NoConn
    BY DEF Fail
  <1>4. /\ revents \in [Conn -> SUBSET {"in", "out", "hup"}] /\ dead \subseteq Conn
        /\ net \in [Conn -> Seq(Nat)]
    BY <1>1 DEF TypeOK, PollTypeOK, ConnectionTypeOK
  <1>5. /\ \A q \in Conn : q # c => /\ revents'[q] = revents[q]
                                    /\ (q \in dead' <=> q \in dead)
        /\ revents' \in [Conn -> SUBSET {"in", "out", "hup"}]
        /\ cursor' \in Conn \cup {NoConn} /\ dead' \subseteq Conn /\ c \in dead'
        /\ revents'[c] = {}
    BY <1>3, <1>4
  <1>6. ServerOK(world') /\ SetsWhy(v, world', c, y)
    <2>1. PICK u : u = world'
      BY Zenon
    <2>2. ServerOK(u) /\ SetsWhy(v, u, c, y)
      BY <2>1, WhyServer
    <2> QED
      BY <2>1, <2>2, Zenon
  <1>7. ServerOK(world)'
    BY <1>2, <1>6, SameQueues, Zenon
  <1>8. /\ OnlyLink(v, world', c) /\ world'.fed = v.fed
        /\ world'.link[c].made = v.link[c].made /\ world'.link[c].why = y
        /\ world'.link[c].state = v.link[c].state
        /\ world'.link[c].in = v.link[c].in /\ world'.link[c].done = v.link[c].done
    BY <1>6, Zenon DEF SetsWhy
  <1>9. Follows(world.link[c], v.link[c])
    BY Zenon DEF Serves, ServesOne
  <1>10. world'.link[c].state = "open"
    BY <1>1, <1>8, <1>9 DEF Follows
  <1>11. world'.link[c].made >= world.link[c].made
    BY <1>8, <1>9, Zenon DEF Follows
  <1>12. ArrivedOK(c)'
    <2>1. Delivered(c) <= world.link[c].made /\ Delivered(c)' = Delivered(c)
      BY <1>1, <1>2, Zenon DEF ConnOK, ArrivedOK, Delivered
    <2>2. /\ Delivered(c) \in Nat /\ world.link[c].made \in Nat
          /\ world'.link[c].made \in Nat
      BY <1>1, <1>6, DeliveredType, LinkFields DEF TypeOK, ServerOK
    <2>3. Delivered(c)' <= world'.link[c].made
      BY <1>11, <2>1, <2>2, UpTo, Zenon
    <2> QED
      BY <1>1, <1>2, <2>3, Zenon DEF ConnOK, ArrivedOK
  <1>13. UnitsOK(c)' /\ EndedOK(c)'
    <2>1. sent[c] <= 2 * Len(Script[c]) /\ backend # "asio"
      BY <1>1, Zenon DEF ConnOK, UnitsOK
    <2>2. UnitsOK(c)'
      BY <1>2, <1>8, <2>1, Zenon DEF UnitsOK
    <2>3. EndedOK(c)'
      BY <1>2, <1>5, <1>8, <2>1, Zenon DEF EndedOK
    <2> QED
      BY <2>2, <2>3, Zenon
  <1>14. Bounded(world, c)'
    <2>1. c \in world'.fed \cup dead' /\ backend # "asio"
      BY <1>5
    <2> QED
      BY <1>2, <2>1, Zenon DEF Bounded
  <1>15. Steady(world, world', c)
    <2>1. "open" # "closed"
      OBVIOUS
    <2> QED
      BY <1>1, <1>10, <1>11, <2>1, Zenon DEF Steady
  <1>16. ASSUME NEW q \in Conn, q # c PROVE ServesOne(world, world', c, q)
    BY <1>8, <1>16, ThenLink
  <1>17. \A q \in Conn : net'[q] = net[q]
    BY Zenon
  <1>18. net' \in [Conn -> Seq(Nat)]
    BY <1>4, Zenon
  <1> QED
    BY <1>5, <1>7, <1>10, <1>12, <1>13, <1>14, <1>15, <1>16, <1>17, <1>18, SweepStep, Zenon

\* POLLHUP or POLLERR: the connection is marked as dead.
LEMMA HangUpOK ==
    ASSUME IInv, backend = "poll", NEW c \in Conn, HangUp(c),
           UNCHANGED <<backend, asioVars>>
    PROVE  IInv' /\ \A q \in Conn : Steady(world, world', q)
  <1>1. AtConn(c) /\ Fail(c) /\ PollStep /\ accepting' = accepting /\ net' = net
        /\ rcv' = rcv
    BY DEF HangUp, PollStep, clientVars, asioVars
  <1>2. PICK y \in {"none", "eof", "error", "overflow"} : y = "error" /\ y # "eof"
    OBVIOUS
  <1>3. PICK v : v = world
    OBVIOUS
  <1>4. world' = SetWhy(v, c, y)
    BY <1>2, <1>3, Zenon DEF HangUp, SetWhy
  <1>5. TypeOK /\ ServerOK(world) /\ ConnOK(c) /\ world \in World
    BY <1>1, Sweeping, Zenon
  <1>6. ServerOK(v) /\ Serves(world, v, c)
    BY <1>3, <1>5, ServesNothing, Zenon
  <1>7. rcv' \in [Conn -> Nat] /\ \A q \in Conn : rcv'[q] = rcv[q]
    BY <1>1, <1>5 DEF TypeOK, ConnectionTypeOK
  <1>8. /\ sent[c] = rcv'[c] + readn[c] + v.link[c].in + 2 * v.link[c].done
        /\ v.link[c].in <= 1 \/ v.link[c].in >= ReadChunk
    BY <1>3, <1>5, <1>7, Zenon DEF ConnOK, UnitsOK
  <1> QED
    BY <1>1, <1>2, <1>4, <1>6, <1>7, <1>8, FailStep

\* As much of out as the socket takes.
LEMMA TakenIs ==
    ASSUME TypeOK, NEW c \in Conn, Len(net[c]) <= SendCap, NEW v \in World,
           NEW n, n = Taken(v, c)
    PROVE  n \in Nat /\ n <= Len(v.link[c].out) /\ Len(net[c]) + n <= SendCap
  <1>1. PICK a \in Nat, x \in Nat, b \in Nat :
            a = Len(v.link[c].out) /\ x = Len(net[c]) /\ b = SendCap - x
    <2>1. PICK x \in Nat : x = Len(net[c])
      BY ConnTypes
    <2>2. Len(v.link[c].out) \in Nat
      BY LinkFields
    <2>3. SendCap - x \in Nat
      BY <2>1, ConnectionAssumption
    <2> QED
      BY <2>1, <2>2, <2>3, Zenon
  <1>2. n = Min({a, b})
    BY <1>1, Zenon DEF Taken
  <1>3. n \in {a, b} /\ n <= a /\ n <= b
    <2>1. \E z \in {a, b} : \A w \in {a, b} : z <= w
      OBVIOUS
    <2> QED
      BY <1>2, <2>1 DEF Min
  <1>4. n \in Nat /\ x + n <= SendCap
    BY <1>1, <1>3, ConnectionAssumption
  <1> QED
    BY <1>1, <1>3, <1>4, Zenon

\* The lengths of the parts.
LEMMA SplitLengths ==
    ASSUME NEW o \in Seq(Nat), NEW n \in Nat, n <= Len(o)
    PROVE  /\ SubSeq(o, 1, n) \in Seq(Nat) /\ SubSeq(o, n + 1, Len(o)) \in Seq(Nat)
           /\ Len(SubSeq(o, 1, n)) = n /\ Len(SubSeq(o, n + 1, Len(o))) <= Len(o)
  <1>1. PICK x \in Nat : x = Len(o)
    OBVIOUS
  <1>2. SubSeq(o, 1, n) \in Seq(Nat) /\ Len(SubSeq(o, 1, n)) = n
    BY <1>1
  <1>3. SubSeq(o, n + 1, x) \in Seq(Nat) /\ Len(SubSeq(o, n + 1, x)) = x - n
    BY <1>1
  <1> QED
    BY <1>1, <1>2, <1>3

\* out falls apart into what is written and what is left.
LEMMA SplitOut ==
    ASSUME NEW o \in Seq(Nat), NEW n \in Nat, n <= Len(o), NEW m \in Nat, NEW b \in Nat,
           Counts(o, <<>>, 0, m, b)
    PROVE  /\ b + n <= m
           /\ \A i \in 1..Len(SubSeq(o, 1, n)) : SubSeq(o, 1, n)[i] = b + i
           /\ Counts(SubSeq(o, n + 1, Len(o)), <<>>, 0, m, b + n)
  <1>1. PICK x \in Nat : x = Len(o)
    OBVIOUS
  <1>2. /\ m = b + (x - 0) + Len(<<>>)
        /\ \A i \in (0 + 1)..x : o[i] = b + (i - 0)
    BY <1>1, Zenon DEF Counts
  <1>3. m = b + x /\ \A i \in 1..x : o[i] = b + i
    BY <1>2
  <1>4. b + n <= m
    BY <1>1, <1>3
  <1>5. /\ Len(SubSeq(o, 1, n)) = n /\ \A i \in 1..n : SubSeq(o, 1, n)[i] = o[i]
    BY <1>1
  <1>6. \A i \in 1..Len(SubSeq(o, 1, n)) : SubSeq(o, 1, n)[i] = b + i
    BY <1>1, <1>3, <1>5
  <1>7. PICK r \in Seq(Nat) : r = SubSeq(o, n + 1, Len(o))
    BY SplitLengths, Zenon
  <1>8. /\ Len(r) = x - n /\ \A i \in 1..(x - n) : r[i] = o[i + n]
    <2>1. r = SubSeq(o, n + 1, x)
      BY <1>1, <1>7
    <2>2. /\ Len(SubSeq(o, n + 1, x)) = x - n
          /\ \A i \in 1..(x - n) : SubSeq(o, n + 1, x)[i] = o[i + n]
      BY <1>1
    <2> QED
      BY <2>1, <2>2
  <1>9. ASSUME NEW i \in (0 + 1)..Len(r) PROVE r[i] = (b + n) + (i - 0)
    <2>1. i \in 1..(x - n) /\ i + n \in 1..x
      BY <1>1, <1>8, <1>9
    <2>2. r[i] = b + (i + n)
      BY <1>3, <1>8, <2>1
    <2> QED
      BY <2>1, <2>2
  <1>10. /\ 0 <= Len(r) /\ m = (b + n) + (Len(r) - 0) + Len(<<>>)
         /\ 1..Len(<<>>) = {}
    BY <1>1, <1>3, <1>8
  <1>11. Counts(r, <<>>, 0, m, b + n)
    BY <1>9, <1>10, Zenon DEF Counts
  <1> QED
    BY <1>4, <1>6, <1>7, <1>11, Zenon

\* s counts on from g.
CountsFrom(s, g) == \A i \in 1..Len(s) : s[i] = g + i

\* y is x with the first n of o behind it, and r the rest of o.
Transfers(g, x, o, n, m, b, y, r) ==
    /\ y \in Seq(Nat) /\ Len(y) = Len(x) + n
    /\ CountsFrom(y, g)
    /\ g + Len(y) <= m
    /\ r \in Seq(Nat) /\ Len(r) <= Len(o)
    /\ Counts(o, <<>>, 0, m, b) => Counts(r, <<>>, 0, m, g + Len(y))
    /\ o = <<>> => y = x

\* The part that is written arrives behind what is on its way, and the part that
\* is left continues it.
LEMMA Transfer ==
    ASSUME NEW g \in Nat, NEW x \in Seq(Nat), NEW o \in Seq(Nat), NEW n \in Nat,
           n <= Len(o), NEW m \in Nat, CountsFrom(x, g),
           NEW b, b = g + Len(x), b <= m, o = <<>> \/ Counts(o, <<>>, 0, m, b),
           NEW y, y = x \o SubSeq(o, 1, n), NEW r, r = SubSeq(o, n + 1, Len(o))
    PROVE  Transfers(g, x, o, n, m, b, y, r)
  <1>1. b \in Nat
    OBVIOUS
  <1>2. PICK t \in Seq(Nat) : t = SubSeq(o, 1, n) /\ Len(t) = n
    BY SplitLengths, Zenon
  <1>3. r \in Seq(Nat) /\ Len(r) <= Len(o)
    BY SplitLengths
  <1>4. CASE Counts(o, <<>>, 0, m, b)
    <2>1. /\ b + n <= m /\ \A i \in 1..Len(t) : t[i] = b + i
          /\ Counts(r, <<>>, 0, m, b + n)
      <3>1. /\ b + n <= m
            /\ \A i \in 1..Len(SubSeq(o, 1, n)) : SubSeq(o, 1, n)[i] = b + i
            /\ Counts(SubSeq(o, n + 1, Len(o)), <<>>, 0, m, b + n)
        BY <1>1, <1>4, SplitOut
      <3> QED
        BY <1>2, <3>1, Zenon
    <2>2. /\ x \o t \in Seq(Nat) /\ Len(x \o t) = Len(x) + Len(t)
          /\ \A i \in 1..Len(x \o t) : (x \o t)[i] = g + i
      <3>1. \A i \in 1..Len(x) : x[i] = g + i
        BY DEF CountsFrom
      <3>2. \A i \in 1..Len(t) : t[i] = g + Len(x) + i
        BY <2>1, Zenon
      <3> QED
        BY <3>1, <3>2, AppendNet, Zenon
    <2>3. y = x \o t
      BY <1>2, Zenon
    <2>4. Len(y) = Len(x) + n
      BY <1>2, <2>2, <2>3, Zenon
    <2>5. g + Len(y) = b + n
      <3>1. PICK z \in Nat : z = Len(x)
        OBVIOUS
      <3>2. g + (z + n) = (g + z) + n
        OBVIOUS
      <3> QED
        BY <2>4, <3>1, <3>2, Zenon
    <2>6. o = <<>> => y = x
      <3>1. ASSUME o = <<>> PROVE n = 0
        BY <3>1
      <3>2. ASSUME n = 0 PROVE t = <<>>
        BY <1>2, <3>2
      <3>3. x \o <<>> = x
        OBVIOUS
      <3> QED
        BY <2>3, <3>1, <3>2, <3>3
    <2> QED
      BY <1>3, <2>1, <2>2, <2>3, <2>4, <2>5, <2>6, Zenon DEF Transfers, CountsFrom
  <1>5. CASE o = <<>> /\ ~Counts(o, <<>>, 0, m, b)
    <2>1. n = 0
      BY <1>5
    <2>2. t = <<>>
      BY <1>2, <2>1
    <2>3. y = x
      <3>1. x \o <<>> = x
        OBVIOUS
      <3> QED
        BY <1>2, <2>2, <3>1, Zenon
    <2>4. Len(x) = Len(x) + 0
      OBVIOUS
    <2> QED
      BY <1>3, <1>5, <2>1, <2>3, <2>4, Zenon DEF Transfers
  <1> QED
    BY <1>4, <1>5, Zenon

\* The sweep is done with one event and stays at c only if another is left.
LEMMA ServedIs ==
    ASSUME TypeOK, NEW c \in Conn, NEW e, Served(c, e)
    PROVE  /\ revents' \in [Conn -> SUBSET {"in", "out", "hup"}]
           /\ \A q \in Conn : q # c => revents'[q] = revents[q]
           /\ cursor' \in Conn \cup {NoConn} /\ dead' = dead /\ dead' \subseteq Conn
  <1>1. /\ revents \in [Conn -> SUBSET {"in", "out", "hup"}] /\ dead \subseteq Conn
    BY DEF TypeOK, PollTypeOK
  <1>2. /\ revents' = [revents EXCEPT ![c] = @ \ {e}] /\ cursor' \in {NoConn, c}
        /\ dead' = dead
    BY DEF Served
  <1> QED
    BY <1>1, <1>2

\* handle_write, behind the requests that were executed on the connection.
LEMMA WriteStep ==
    ASSUME IInv, backend = "poll", NEW c \in Conn, AtConn(c), PollStep,
           accepting' = accepting, rcv' \in [Conn -> Nat],
           \A q \in Conn : q # c => rcv'[q] = rcv[q],
           NEW v, ServerOK(v), Serves(world, v, c),
           Bounded(v, c), HandleWrite(v, c), ~WriteFails(v, c), NEW e, Served(c, e),
           sent[c] = rcv'[c] + readn[c] + v.link[c].in + 2 * v.link[c].done,
           v.link[c].in <= 1 \/ v.link[c].in >= ReadChunk
    PROVE  IInv' /\ \A q \in Conn : Steady(world, world', q)
  <1>1. /\ TypeOK /\ ServerOK(world) /\ ConnOK(c) /\ world \in World
        /\ world.link[c].state = "open" /\ world.link[c].why # "eof"
        /\ ~world.link[c].writing
    BY Sweeping, Zenon
  <1>2. /\ sent' = sent /\ peer' = peer /\ got' = got
        /\ readop' = readop /\ readn' = readn /\ backend' = backend
    BY Zenon DEF PollStep
  <1>3. Follows(world.link[c], v.link[c]) /\ v \in World /\ QueueOK(v, c)
    BY Zenon DEF Serves, ServesOne, ServerOK
  <1>4. /\ v.link[c].state = "open" /\ ~v.link[c].writing
        /\ v.link[c].pending = <<>> /\ v.link[c].written = 0
        /\ v.link[c].made >= world.link[c].made
    <2>1. v.link[c].state = "open" /\ "open" # "closed"
      BY <1>1, <1>3 DEF Follows
    <2> QED
      BY <1>3, <2>1, Zenon DEF Follows, QueueOK, Settled
  <1>5. PICK g \in Nat, x \in Seq(Nat), o \in Seq(Nat), m \in Nat, b \in Nat :
            /\ g = Len(got[c]) /\ x = net[c] /\ o = v.link[c].out
            /\ m = v.link[c].made /\ b = Delivered(c)
    <2>1. got[c] \in Seq(Nat) /\ net[c] \in Seq(Nat)
      BY <1>1, ConnTypes, Zenon
    <2>2. v.link[c].out \in Seq(Nat) /\ v.link[c].made \in Nat
      BY <1>3, LinkFields, Zenon
    <2>3. Delivered(c) \in Nat
      BY <1>1, DeliveredType, Zenon DEF TypeOK
    <2> QED
      BY <2>1, <2>2, <2>3, LenIsNat, Zenon
  <1>6. b = g + Len(x) /\ b <= m /\ \A i \in 1..Len(x) : x[i] = g + i
    <2>1. b <= world.link[c].made /\ world.link[c].made \in Nat /\ m >= world.link[c].made
      BY <1>1, <1>4, <1>5, LinkFields, Zenon DEF ConnOK, ArrivedOK
    <2>2. b <= m
      BY <2>1, UpTo, Zenon
    <2> QED
      BY <1>1, <1>5, <2>2, Zenon DEF ConnOK, ArrivedOK, Delivered
  <1>7. peer[c] # "reset" => Counts(o, <<>>, 0, m, b)
    <2>1. "open" # "closed"
      OBVIOUS
    <2> QED
      BY <1>3, <1>4, <1>5, <2>1, Zenon DEF QueueOK, Continues
  <1>8. peer[c] = "reset" => o = <<>> /\ x = <<>>
    BY <1>1, <1>5, Zenon DEF WriteFails, ConnOK, ArrivedOK
  <1>9. PICK n \in Nat : n = Taken(v, c) /\ n <= Len(o) /\ Len(x) + n <= SendCap
    <2>1. Len(net[c]) <= SendCap
      BY <1>1, Zenon DEF ConnOK, ArrivedOK
    <2>2. PICK n : n = Taken(v, c)
      BY Zenon
    <2>3. n \in Nat /\ n <= Len(v.link[c].out) /\ Len(net[c]) + n <= SendCap
      BY <1>1, <1>3, <2>1, <2>2, TakenIs
    <2> QED
      BY <1>5, <2>2, <2>3, Zenon
  <1>10. PICK y, r : y = x \o SubSeq(o, 1, n) /\ r = SubSeq(o, n + 1, Len(o))
    BY Zenon
  <1>11. /\ y \in Seq(Nat) /\ Len(y) = Len(x) + n
         /\ \A i \in 1..Len(y) : y[i] = g + i
         /\ g + Len(y) <= m
         /\ r \in Seq(Nat) /\ Len(r) <= Len(o)
         /\ Counts(o, <<>>, 0, m, b) => Counts(r, <<>>, 0, m, g + Len(y))
         /\ o = <<>> => y = x
    <2>1. o = <<>> \/ Counts(o, <<>>, 0, m, b)
      BY <1>7, <1>8
    <2>2. CountsFrom(x, g) /\ b = g + Len(x) /\ b <= m
      BY <1>6, Zenon DEF CountsFrom
    <2>3. Transfers(g, x, o, n, m, b, y, r)
      BY <1>9, <1>10, <2>1, <2>2, Transfer, Zenon
    <2> QED
      BY <2>3 DEF Transfers, CountsFrom
  <1>12. /\ net' \in [Conn -> Seq(Nat)] /\ net'[c] = y
         /\ \A q \in Conn : q # c => net'[q] = net[q]
    <2>1. net' = [net EXCEPT ![c] = net[c] \o SubSeq(o, 1, n)]
      BY <1>5, <1>9, Zenon DEF HandleWrite
    <2>2. net' = [net EXCEPT ![c] = y]
      BY <1>5, <1>10, <2>1, Zenon
    <2>3. net \in [Conn -> Seq(Nat)]
      BY <1>1 DEF TypeOK, ConnectionTypeOK
    <2> QED
      BY <1>11, <2>2, <2>3
  <1>13. SetsOut(v, world', c, r)
    <2>1. PICK u : u = world'
      BY Zenon
    <2>2. world' = [v EXCEPT !.link[c].out = SubSeq(v.link[c].out, n + 1, Len(v.link[c].out))]
      BY <1>9, Zenon DEF HandleWrite
    <2>3. u = SetOut(v, c, r)
      BY <1>5, <1>10, <2>1, <2>2, Zenon DEF SetOut
    <2>4. SetsOut(v, u, c, r)
      BY <1>3, <1>11, <2>3, SetOutFields
    <2> QED
      BY <2>1, <2>4, Zenon
  <1>14. /\ OnlyLink(v, world', c) /\ world'.fed = v.fed /\ world'.active = v.active
         /\ world'.link[c].in = v.link[c].in /\ world'.link[c].done = v.link[c].done
         /\ world'.link[c].made = m /\ world'.link[c].out = r
         /\ world'.link[c].pending = <<>> /\ world'.link[c].written = 0
         /\ ~world'.link[c].writing /\ world'.link[c].state = "open"
         /\ world'.link[c].why = v.link[c].why
    BY <1>4, <1>5, <1>13, Zenon DEF SetsOut
  <1>15. Delivered(c)' = g + Len(y)
    BY <1>2, <1>5, <1>12, Zenon DEF Delivered
  <1>16. ArrivedOK(c)'
    <2>1. Len(net'[c]) <= SendCap
      BY <1>9, <1>11, <1>12, Zenon
    <2>2. peer[c] = "reset" => net'[c] = <<>>
      BY <1>8, <1>11, <1>12, Zenon
    <2> QED
      BY <1>1, <1>2, <1>5, <1>11, <1>12, <1>14, <1>15, <2>1, <2>2, Zenon
      DEF ConnOK, ArrivedOK
  <1>17. QueueOK(world, c)'
    <2>1. peer[c] # "reset" => Continues(world'.link[c], g + Len(y))
      BY <1>7, <1>11, <1>14, Zenon DEF Continues
    <2>2. backend # "asio"
      OBVIOUS
    <2> QED
      BY <1>2, <1>14, <1>15, <2>1, <2>2, Zenon DEF QueueOK, Settled, Continues
  <1>18. ServerOK(world)'
    <2>1. world'.link[c].state = v.link[c].state
      BY <1>4, <1>14, Zenon
    <2> QED
      BY <1>2, <1>12, <1>14, <1>17, <2>1, WrittenServer, Zenon
  <1>19. UnitsOK(c)'
    <2>1. sent[c] <= 2 * Len(Script[c])
      BY <1>1, Zenon DEF ConnOK, UnitsOK
    <2> QED
      BY <1>2, <1>14, <2>1, Zenon DEF UnitsOK
  <1>20. EndedOK(c)'
    BY <1>1, <1>3, <1>14, Zenon DEF EndedOK, Follows
  <1>21. /\ revents' \in [Conn -> SUBSET {"in", "out", "hup"}]
         /\ \A q \in Conn : q # c => revents'[q] = revents[q]
         /\ cursor' \in Conn \cup {NoConn} /\ dead' = dead /\ dead' \subseteq Conn
    BY <1>1, ServedIs
  <1>22. Bounded(world, c)'
    <2>1. Queued(v.link[c]) = Len(o) + Len(<<>>) /\ Queued(world'.link[c]) = Len(r) + Len(<<>>)
      BY <1>4, <1>5, <1>14, Zenon DEF Queued
    <2>2. Len(r) + Len(<<>>) <= Len(o) + Len(<<>>)
      BY <1>11
    <2>3. \A a \in Nat, d \in Nat, z \in Nat : a <= d /\ d <= z => a <= z
      OBVIOUS
    <2>4. Len(r) + Len(<<>>) \in Nat /\ Len(o) + Len(<<>>) \in Nat /\ MaxOut \in Nat
      BY <1>11, ConnectionAssumption
    <2>5. c \notin v.fed \cup dead => Len(r) + Len(<<>>) <= MaxOut
      BY <1>4, <2>1, <2>2, <2>3, <2>4, Zenon DEF Bounded
    <2>6. backend # "asio"
      OBVIOUS
    <2> QED
      BY <1>2, <1>14, <1>21, <2>1, <2>5, <2>6, Zenon DEF Bounded, Queued
  <1>23. Steady(world, world', c)
    <2>1. "open" # "closed"
      OBVIOUS
    <2> QED
      BY <1>1, <1>4, <1>5, <1>14, <2>1, Zenon DEF Steady
  <1>24. ASSUME NEW q \in Conn, q # c PROVE ServesOne(world, world', c, q)
    BY <1>14, <1>24, ThenLink
  <1>25. ASSUME NEW q \in Conn, q # c
         PROVE  /\ rcv'[q] = rcv[q] /\ net'[q] = net[q] /\ revents'[q] = revents[q]
                /\ (q \in dead' <=> q \in dead)
    BY <1>12, <1>21, <1>25, Zenon
  <1> QED
    BY <1>12, <1>14, <1>16, <1>18, <1>19, <1>20, <1>21, <1>22, <1>23, <1>24, <1>25,
       SweepStep, Zenon

\* POLLOUT: handle_write, or the connection fails.
LEMMA HandlePollOutOK ==
    ASSUME IInv, backend = "poll", NEW c \in Conn, HandlePollOut(c),
           UNCHANGED <<backend, asioVars>>
    PROVE  IInv' /\ \A q \in Conn : Steady(world, world', q)
  <1>1. AtConn(c) /\ PollStep /\ accepting' = accepting /\ rcv' = rcv
    BY DEF HandlePollOut, PollStep, clientVars, asioVars
  <1>2. PICK v : v = world
    BY Zenon
  <1>3. TypeOK /\ ServerOK(world) /\ ConnOK(c) /\ world \in World
    BY <1>1, Sweeping, Zenon
  <1>4. ServerOK(v) /\ Serves(world, v, c)
    BY <1>2, <1>3, ServesNothing, Zenon
  <1>5. rcv' \in [Conn -> Nat] /\ \A q \in Conn : rcv'[q] = rcv[q]
    BY <1>1, <1>3 DEF TypeOK, ConnectionTypeOK
  <1>6. /\ sent[c] = rcv'[c] + readn[c] + v.link[c].in + 2 * v.link[c].done
        /\ v.link[c].in <= 1 \/ v.link[c].in >= ReadChunk
    BY <1>2, <1>3, <1>5, Zenon DEF ConnOK, UnitsOK
  <1>7. CASE /\ WriteFails(world, c) /\ Fail(c) /\ net' = net
             /\ world' = [world EXCEPT !.link[c].why = "error"]
    <2>1. PICK y \in {"none", "eof", "error", "overflow"} : y = "error" /\ y # "eof"
      OBVIOUS
    <2>2. world' = SetWhy(v, c, y)
      BY <1>2, <1>7, <2>1, Zenon DEF SetWhy
    <2> QED
      BY <1>1, <1>4, <1>5, <1>7, <1>6, <2>1, <2>2, FailStep
  <1>8. CASE ~WriteFails(world, c) /\ HandleWrite(world, c) /\ Served(c, "out")
    <2>1. /\ ~WriteFails(v, c) /\ HandleWrite(v, c)
      BY <1>2, <1>8, Zenon
    <2>2. PICK e : e = "out"
      BY Zenon
    <2>3. Bounded(v, c) /\ Served(c, e)
      BY <1>2, <1>3, <1>8, <2>2, Zenon DEF ConnOK
    <2> QED
      BY <1>1, <1>4, <1>5, <1>6, <2>1, <2>3, WriteStep, Zenon
  <1> QED
    BY <1>7, <1>8 DEF HandlePollOut

\* Another count of units in the input.
SetsIn(u, w, c, j) ==
    /\ OnlyLink(u, w, c) /\ w.fed = u.fed /\ w.active = u.active
    /\ w.link[c].in = j /\ w.link[c].done = u.link[c].done
    /\ w.link[c].made = u.link[c].made /\ w.link[c].out = u.link[c].out
    /\ w.link[c].pending = u.link[c].pending /\ w.link[c].written = u.link[c].written
    /\ w.link[c].writing = u.link[c].writing /\ w.link[c].state = u.link[c].state
    /\ w.link[c].why = u.link[c].why

\* Input that is not executed yet changes nothing else.
LEMMA InServer ==
    ASSUME NEW w, ServerOK(w), NEW c \in Conn, w.link[c].state # "backlog",
           NEW j \in Nat, NEW v, v = SetIn(w, c, j)
    PROVE  ServerOK(v) /\ Serves(w, v, c) /\ SetsIn(w, v, c, j)
  <1>1. w \in World /\ QueueOK(w, c)
    BY Zenon DEF ServerOK
  <1>2. SetsIn(w, v, c, j)
    BY <1>1, InFields DEF SetsIn
  <1>3. /\ OnlyLink(w, v, c) /\ v.fed = w.fed /\ v.active = w.active
        /\ v.link[c].done = w.link[c].done /\ v.link[c].made = w.link[c].made
        /\ v.link[c].out = w.link[c].out /\ v.link[c].pending = w.link[c].pending
        /\ v.link[c].written = w.link[c].written
        /\ v.link[c].writing = w.link[c].writing
        /\ v.link[c].state = w.link[c].state /\ v.link[c].why = w.link[c].why
    BY <1>2, Zenon DEF SetsIn
  <1>4. QueueOK(v, c) /\ Booked(w, v, c)
    BY <1>1, <1>3, Zenon DEF QueueOK, Settled, Continues, Booked
  <1>5. ServerOK(v)
    BY <1>3, <1>4, BookedServer
  <1>6. ASSUME NEW q \in Conn PROVE ServesOne(w, v, c, q)
    <2>1. CASE q # c
      <3>1. v.link[q] = w.link[q]
        BY <1>3, <2>1 DEF OnlyLink
      <3> QED
        BY <1>1, <1>3, <3>1, ServesSame
    <2>2. CASE q = c
      <3>1. PICK m \in Nat, d \in Nat : m = w.link[c].made /\ d = w.link[c].done
        BY <1>1, LinkFields
      <3>2. m >= m /\ d >= d
        OBVIOUS
      <3> QED
        BY <1>3, <2>2, <3>1, <3>2, Zenon DEF ServesOne, Follows
    <2> QED
      BY <2>1, <2>2, Zenon
  <1> QED
    BY <1>2, <1>5, <1>6, Zenon DEF Serves

\* One recv() of handle_read, before what was read is looked at: n units are
\* taken from the socket into the input, which holds j then.
Receives(c, n, j) ==
    /\ n = ReadSize(c) /\ n \in Nat /\ j \in Nat /\ j = world.link[c].in + n
    /\ rcv' \in [Conn -> Nat] /\ \A q \in Conn : q # c => rcv'[q] = rcv[q]
    /\ sent[c] = rcv'[c] + j + 2 * world.link[c].done
    /\ sent[c] <= 2 * Len(Script[c])
    /\ n = 0 => rcv'[c] = 0
    /\ n >= ReadChunk => j >= ReadChunk

\* recv() takes what Receives says out of the socket.
LEMMA ReceiveIs ==
    ASSUME IInv, backend = "poll", NEW c \in Conn, AtConn(c),
           rcv' = [rcv EXCEPT ![c] = @ - ReadSize(c)]
    PROVE  \E n, j : Receives(c, n, j)
  <1>1. /\ TypeOK /\ ConnOK(c) /\ world \in World /\ readn[c] = 0
    BY Sweeping, Zenon
  <1>2. PICK n : n = ReadSize(c)
    OBVIOUS
  <1>3. n \in Nat /\ (n = 0 => rcv[c] = 0) /\ rcv[c] - n \in Nat
    BY <1>1, <1>2, ReadSizeIs
  <1>4. PICK s \in Nat, x \in Nat, i \in Nat, d \in Nat, h \in Nat :
            s = sent[c] /\ x = rcv[c] /\ i = world.link[c].in /\ d = world.link[c].done
            /\ h = ReadChunk
    BY <1>1, ConnTypes, LinkFields, ConnectionAssumption, Zenon
  <1>5. s = x + 0 + i + 2 * d /\ sent[c] <= 2 * Len(Script[c])
    BY <1>1, <1>4, Zenon DEF ConnOK, UnitsOK
  <1>6. x - n \in Nat /\ (n = 0 => x = 0)
    BY <1>3, <1>4, Zenon
  <1>7. /\ i + n \in Nat /\ s = (x - n) + (i + n) + 2 * d
        /\ n = 0 => x - n = 0
        /\ n >= h => i + n >= h
    BY <1>3, <1>5, <1>6
  <1>8. rcv \in [Conn -> Nat]
    BY <1>1 DEF TypeOK, ConnectionTypeOK
  <1>9. rcv' = [rcv EXCEPT ![c] = x - n]
    BY <1>2, <1>4, Zenon
  <1>10. /\ rcv' \in [Conn -> Nat] /\ rcv'[c] = x - n
         /\ \A q \in Conn : q # c => rcv'[q] = rcv[q]
    BY <1>6, <1>8, <1>9
  <1>11. Receives(c, n, i + n)
    BY <1>2, <1>3, <1>4, <1>5, <1>7, <1>10, Zenon DEF Receives
  <1> QED
    BY <1>11, Zenon

\* A full chunk: the loop of handle_read goes on.
LEMMA FullChunkOK ==
    ASSUME IInv, backend = "poll", NEW c \in Conn, AtConn(c), PollStep,
           accepting' = accepting, NEW n, NEW j, Receives(c, n, j), n = ReadChunk,
           world' = SetIn(world, c, j), cursor' = c, net' = net, revents' = revents,
           dead' = dead
    PROVE  IInv' /\ \A q \in Conn : Steady(world, world', q)
  <1>1. /\ TypeOK /\ ServerOK(world) /\ ConnOK(c) /\ world \in World
        /\ world.link[c].state = "open" /\ world.link[c].why # "eof"
        /\ ~world.link[c].writing /\ readn[c] = 0
    BY Sweeping, Zenon
  <1>2. /\ sent' = sent /\ peer' = peer /\ got' = got
        /\ readop' = readop /\ readn' = readn /\ backend' = backend
    BY Zenon DEF PollStep
  <1>3. /\ j \in Nat /\ rcv' \in [Conn -> Nat] /\ \A q \in Conn : q # c => rcv'[q] = rcv[q]
        /\ sent[c] = rcv'[c] + j + 2 * world.link[c].done
        /\ sent[c] <= 2 * Len(Script[c])
    BY Zenon DEF Receives
  <1>4. ServerOK(world') /\ Serves(world, world', c) /\ SetsIn(world, world', c, j)
    <2>1. PICK u, w : u = world' /\ w = world
      BY Zenon
    <2>2. ServerOK(w) /\ w.link[c].state # "backlog" /\ u = SetIn(w, c, j)
      <3>1. "open" # "backlog"
        OBVIOUS
      <3> QED
        BY <1>1, <2>1, <3>1, Zenon
    <2>3. ServerOK(u) /\ Serves(w, u, c) /\ SetsIn(w, u, c, j)
      BY <1>3, <2>2, InServer
    <2> QED
      BY <2>1, <2>3, Zenon
  <1>5. /\ world'.link[c].in = j /\ world'.link[c].done = world.link[c].done
        /\ world'.link[c].made = world.link[c].made
        /\ world'.link[c].out = world.link[c].out
        /\ world'.link[c].pending = world.link[c].pending
        /\ world'.link[c].state = "open" /\ world'.link[c].why = world.link[c].why
        /\ world'.fed = world.fed
    BY <1>1, <1>4, Zenon DEF SetsIn
  <1>6. ServerOK(world)'
    BY <1>2, <1>4, SameQueues, Zenon
  <1>7. j >= ReadChunk
    <2>1. n >= ReadChunk
      BY ConnectionAssumption
    <2> QED
      BY <2>1, Zenon DEF Receives
  <1>8. UnitsOK(c)'
    <2>1. sent[c] = rcv'[c] + 0 + j + 2 * world.link[c].done
      <3>1. PICK x \in Nat, d \in Nat : x = rcv'[c] /\ d = world.link[c].done
        BY <1>1, <1>3, LinkFields
      <3>2. x + j + 2 * d = x + 0 + j + 2 * d
        BY <1>3
      <3> QED
        BY <1>3, <3>1, <3>2, Zenon
    <2> QED
      BY <1>1, <1>2, <1>3, <1>5, <1>7, <2>1, Zenon DEF UnitsOK
  <1>9. ArrivedOK(c)' /\ EndedOK(c)' /\ Bounded(world, c)'
    BY <1>1, <1>2, <1>5, Zenon DEF ConnOK, ArrivedOK, Delivered, EndedOK, Bounded, Queued
  <1>10. \A q \in Conn : Steady(world, world', q)
    BY <1>1, <1>4, ServesSteady, Zenon DEF Serves
  <1>11. /\ net' \in [Conn -> Seq(Nat)]
         /\ revents' \in [Conn -> SUBSET {"in", "out", "hup"}]
         /\ cursor' \in Conn \cup {NoConn} /\ dead' \subseteq Conn
    BY <1>1 DEF TypeOK, PollTypeOK, ConnectionTypeOK
  <1>12. ASSUME NEW q \in Conn, q # c
         PROVE  /\ rcv'[q] = rcv[q] /\ net'[q] = net[q] /\ revents'[q] = revents[q]
                /\ (q \in dead' <=> q \in dead)
                /\ ServesOne(world, world', c, q)
    BY <1>3, <1>4, <1>12, Zenon DEF Serves
  <1> QED
    BY <1>3, <1>5, <1>6, <1>8, <1>9, <1>10, <1>11, <1>12, SweepStep, Zenon

\* The end of the stream, or an error of recv().
LEMMA StreamEndOK ==
    ASSUME IInv, backend = "poll", NEW c \in Conn, AtConn(c), PollStep,
           accepting' = accepting, NEW n, NEW j, Receives(c, n, j), n = 0,
           peer[c] # "open", NEW y \in {"none", "eof", "error", "overflow"},
           world' = SetWhy(SetIn(world, c, j), c, y), Fail(c), net' = net
    PROVE  IInv' /\ \A q \in Conn : Steady(world, world', q)
  <1>1. /\ TypeOK /\ ServerOK(world) /\ ConnOK(c) /\ world \in World
        /\ world.link[c].state = "open" /\ readn[c] = 0
    BY Sweeping, Zenon
  <1>2. /\ j \in Nat /\ rcv' \in [Conn -> Nat] /\ \A q \in Conn : q # c => rcv'[q] = rcv[q]
        /\ sent[c] = rcv'[c] + j + 2 * world.link[c].done /\ rcv'[c] = 0
        /\ j = world.link[c].in + n
    BY DEF Receives
  <1>3. PICK v : v = SetIn(world, c, j)
    BY Zenon
  <1>4. ServerOK(v) /\ Serves(world, v, c) /\ SetsIn(world, v, c, j)
    <2>1. PICK w : w = world
      BY Zenon
    <2>2. ServerOK(w) /\ w.link[c].state # "backlog" /\ v = SetIn(w, c, j)
      <3>1. "open" # "backlog"
        OBVIOUS
      <3> QED
        BY <1>1, <1>3, <2>1, <3>1, Zenon
    <2>3. ServerOK(v) /\ Serves(w, v, c) /\ SetsIn(w, v, c, j)
      BY <1>2, <2>2, InServer
    <2> QED
      BY <2>1, <2>3, Zenon
  <1>5. v.link[c].in = j /\ v.link[c].done = world.link[c].done
    BY <1>4, Zenon DEF SetsIn
  <1>6. PICK s \in Nat, i \in Nat, d \in Nat, h \in Nat :
            s = sent[c] /\ i = world.link[c].in /\ d = world.link[c].done /\ h = ReadChunk
    BY <1>1, ConnTypes, LinkFields, ConnectionAssumption, Zenon
  <1>7. i <= 1 \/ i >= h
    BY <1>1, <1>6, Zenon DEF ConnOK, UnitsOK
  <1>8. s = 0 + j + 2 * d /\ j = i + 0
    BY <1>2, <1>6, Zenon
  <1>9. /\ s = 0 + 0 + j + 2 * d
        /\ j <= 1 \/ j >= h
        /\ d = s \div 2 \/ j >= h
    BY <1>7, <1>8
  <1>10. /\ sent[c] = rcv'[c] + readn[c] + v.link[c].in + 2 * v.link[c].done
         /\ v.link[c].in <= 1 \/ v.link[c].in >= ReadChunk
         /\ v.link[c].done = sent[c] \div 2 \/ v.link[c].in >= ReadChunk
    BY <1>1, <1>2, <1>5, <1>6, <1>9, Zenon
  <1>11. world' = SetWhy(v, c, y)
    BY <1>3, Zenon
  <1> QED
    BY <1>2, <1>4, <1>10, <1>11, FailStep, Zenon

\* The rest of handle_read once the loop is done.
LEMMA ProcessOK ==
    ASSUME IInv, backend = "poll", NEW c \in Conn, AtConn(c), PollStep,
           accepting' = accepting, NEW n, NEW j, Receives(c, n, j),
           Process(SetIn(world, c, j), c)
    PROVE  IInv' /\ \A q \in Conn : Steady(world, world', q)
  <1>1. /\ TypeOK /\ ServerOK(world) /\ ConnOK(c) /\ world \in World
        /\ world.link[c].state = "open" /\ readn[c] = 0
    BY Sweeping, Zenon
  <1>2. /\ j \in Nat /\ rcv' \in [Conn -> Nat] /\ \A q \in Conn : q # c => rcv'[q] = rcv[q]
        /\ sent[c] = rcv'[c] + j + 2 * world.link[c].done
        /\ sent[c] <= 2 * Len(Script[c])
    BY Zenon DEF Receives
  <1>3. PICK s \in Nat, r \in Nat, d \in Nat, m \in Nat :
            s = sent[c] /\ r = rcv'[c] /\ d = world.link[c].done /\ m = Len(Script[c])
    <2>1. sent[c] \in Nat /\ rcv'[c] \in Nat /\ world.link[c].done \in Nat
      BY <1>1, <1>2, ConnTypes, LinkFields
    <2>2. Len(Script[c]) \in Nat
      BY ConnectionAssumption
    <2> QED
      BY <2>1, <2>2, Zenon
  <1>4. /\ d + (j \div 2) <= m /\ s = r + 0 + (j % 2) + 2 * (d + (j \div 2))
        /\ j % 2 <= 1
    <2>1. s <= 2 * m /\ s = r + j + 2 * d
      BY <1>2, <1>3, Zenon
    <2>2. j \in Nat
      BY <1>2, Zenon
    <2> QED
      BY <2>1, <2>2, Halves
  <1>5. PICK v : v = OnData(SetIn(world, c, j), c)
    BY Zenon
  <1>6. /\ ServerOK(v) /\ Serves(world, v, c)
        /\ v.link[c].in = j % 2 /\ v.link[c].done = d + (j \div 2)
    <2>1. PICK x : x = world
      OBVIOUS
    <2>2. PICK z : z = SetIn(x, c, j)
      BY Zenon
    <2>3. v = OnData(z, c)
      BY <1>5, <2>1, <2>2, Zenon
    <2>4. ServerOK(x) /\ x.link[c].state # "backlog"
      <3>1. "open" # "backlog"
        OBVIOUS
      <3> QED
        BY <1>1, <2>1, <3>1, Zenon
    <2>5. x.link[c].done + (j \div 2) <= Len(Script[c])
      BY <1>3, <1>4, <2>1, Zenon
    <2>6. ConnectionTypeOK /\ backend \in {"asio", "poll"}
      BY <1>1 DEF TypeOK
    <2>7. /\ ServerOK(v) /\ Serves(x, v, c)
          /\ v.link[c].in = j % 2 /\ v.link[c].done = x.link[c].done + (j \div 2)
      BY <1>2, <2>2, <2>3, <2>4, <2>5, <2>6, OnDataServes
    <2> QED
      BY <1>3, <2>1, <2>7, Zenon
  <1>7. /\ sent[c] = rcv'[c] + readn[c] + v.link[c].in + 2 * v.link[c].done
        /\ v.link[c].in <= 1 \/ v.link[c].in >= ReadChunk
    BY <1>1, <1>3, <1>4, <1>6, Zenon
  <1>8. ASSUME NEW y \in {"none", "eof", "error", "overflow"}, y # "eof",
               world' = [v EXCEPT !.link[c].why = y], Fail(c), net' = net
        PROVE  IInv' /\ \A q \in Conn : Steady(world, world', q)
    <2>1. world' = SetWhy(v, c, y)
      BY <1>8 DEF SetWhy
    <2> QED
      BY <1>2, <1>6, <1>7, <1>8, <2>1, FailStep, Zenon
  <1>9. CASE world' = [v EXCEPT !.link[c].why = "overflow"] /\ Fail(c) /\ net' = net
    BY <1>8, <1>9
  <1>10. CASE world' = [v EXCEPT !.link[c].why = "error"] /\ Fail(c) /\ net' = net
    BY <1>8, <1>10
  <1>11. CASE /\ ~(Len(v.link[c].out) > MaxOut) /\ HandleWrite(v, c)
              /\ ~(Len(v.link[c].out) <= MaxOut /\ WriteFails(v, c))
              /\ Served(c, "in")
    <2>1. PICK e : e = "in"
      BY Zenon
    <2>2. v \in World /\ v.link[c].pending = <<>>
      BY <1>6, Zenon DEF ServerOK, QueueOK
    <2>3. PICK k \in Nat : k = Len(v.link[c].out)
      BY <2>2, LinkFields
    <2>4. k <= MaxOut /\ k + Len(<<>>) <= MaxOut
      <3>1. ~(k > MaxOut)
        BY <1>11, <2>3, Zenon
      <3> QED
        BY <3>1, ConnectionAssumption
    <2>5. Bounded(v, c)
      BY <2>2, <2>3, <2>4, Zenon DEF Bounded, Queued
    <2>6. ~WriteFails(v, c) /\ HandleWrite(v, c) /\ Served(c, e)
      BY <1>11, <2>1, <2>3, <2>4, Zenon
    <2> QED
      BY <1>2, <1>6, <1>7, <2>5, <2>6, WriteStep, Zenon
  <1>12. /\ Len(v.link[c].out) > MaxOut =>
                world' = [v EXCEPT !.link[c].why = "overflow"] /\ Fail(c) /\ net' = net
         /\ Len(v.link[c].out) <= MaxOut /\ WriteFails(v, c) =>
                world' = [v EXCEPT !.link[c].why = "error"] /\ Fail(c) /\ net' = net
         /\ ~(Len(v.link[c].out) > MaxOut)
            /\ ~(Len(v.link[c].out) <= MaxOut /\ WriteFails(v, c)) =>
                HandleWrite(v, c) /\ Served(c, "in")
    <2>1. PICK k \in Nat : k = Len(v.link[c].out)
      <3>1. v \in World
        BY <1>6, Zenon DEF ServerOK
      <3> QED
        BY <3>1, LinkFields, LenIsNat, Zenon
    <2>2. ~(k > MaxOut /\ k <= MaxOut)
      BY ConnectionAssumption
    <2> QED
      BY <1>5, <2>1, <2>2, Zenon DEF Process
  <1> QED
    BY <1>9, <1>10, <1>11, <1>12, Zenon

\* POLLIN: handle_read.
LEMMA HandleReadOK ==
    ASSUME IInv, backend = "poll", NEW c \in Conn, HandleRead(c),
           UNCHANGED <<backend, asioVars>>
    PROVE  IInv' /\ \A q \in Conn : Steady(world, world', q)
  <1>1. /\ AtConn(c) /\ PollStep /\ accepting' = accepting
        /\ rcv' = [rcv EXCEPT ![c] = @ - ReadSize(c)]
    BY DEF HandleRead, PollStep, clientVars, asioVars
  <1>2. PICK n, j : Receives(c, n, j)
    BY <1>1, ReceiveIs, Zenon
  <1>3. [world EXCEPT !.link[c].in = @ + ReadSize(c)] = SetIn(world, c, j)
    BY <1>2 DEF Receives, SetIn
  <1>4. n = ReadSize(c)
    BY <1>2 DEF Receives
  <1>5. CASE /\ n = ReadChunk /\ world' = SetIn(world, c, j) /\ cursor' = c
             /\ net' = net /\ revents' = revents /\ dead' = dead
    BY <1>1, <1>2, <1>5, FullChunkOK, Zenon
  <1>6. CASE Process(SetIn(world, c, j), c)
    BY <1>1, <1>2, <1>6, ProcessOK, Zenon
  <1>7. CASE /\ n = 0 /\ peer[c] # "open" /\ Fail(c) /\ net' = net
             /\ world' = [SetIn(world, c, j) EXCEPT !.link[c].why =
                              IF peer[c] = "fin" THEN "eof" ELSE "error"]
    <2>1. PICK y \in {"none", "eof", "error", "overflow"} :
              y = IF peer[c] = "fin" THEN "eof" ELSE "error"
      OBVIOUS
    <2>2. world' = SetWhy(SetIn(world, c, j), c, y)
      BY <1>7, <2>1, Zenon DEF SetWhy
    <2> QED
      BY <1>1, <1>2, <1>7, <2>1, <2>2, StreamEndOK, Zenon
  <1> QED
    <2>1. \/ /\ n = ReadChunk /\ world' = SetIn(world, c, j) /\ cursor' = c
             /\ UNCHANGED <<net, revents, dead>>
          \/ Process(SetIn(world, c, j), c)
          \/ /\ n = 0 /\ peer[c] # "open" /\ Fail(c) /\ UNCHANGED net
             /\ world' = [SetIn(world, c, j) EXCEPT !.link[c].why =
                              IF peer[c] = "fin" THEN "eof" ELSE "error"]
      BY <1>3, <1>4, Zenon DEF HandleRead
    <2> QED
      BY <1>5, <1>6, <1>7, <2>1, Zenon

-----------------------------------------------------------------------------
(***************************************************************************)
(* The steps together.                                                     *)
(***************************************************************************)
\* What a client does never touches the server's state.
LEMMA ClientsOK ==
    ASSUME IInv, Clients
    PROVE  IInv' /\ world' = world
  <1>1. UNCHANGED <<backend, asioVars, pollVars>>
    BY DEF Clients
  <1>2. PICK c \in Conn :
            ClientSends(c) \/ ClientEnds(c) \/ ClientResets(c) \/ ClientReads(c)
    BY DEF Clients, Client
  <1>3. CASE ClientSends(c)
    BY <1>1, <1>3, ClientSendsOK, Zenon DEF ClientSends
  <1>4. CASE ClientEnds(c)
    BY <1>1, <1>4, ClientEndsOK, Zenon DEF ClientEnds
  <1>5. CASE ClientResets(c)
    BY <1>1, <1>5, ClientResetsOK, Zenon DEF ClientResets
  <1>6. CASE ClientReads(c)
    BY <1>1, <1>6, ClientReadsOK, Zenon DEF ClientReads
  <1> QED
    BY <1>2, <1>3, <1>4, <1>5, <1>6

\* The handlers of either backend keep the invariant, and are steady.
LEMMA ServerStepOK ==
    ASSUME IInv, Server
    PROVE  IInv' /\ \A q \in Conn : Steady(world, world', q)
  <1>1. CASE backend = "asio" /\ (\E c \in Conn : IoContext(c)) /\ UNCHANGED <<backend, pollVars>>
    <2>1. PICK c \in Conn : IoContext(c)
      BY <1>1
    <2>2. CASE Accept(c)
      BY <1>1, <2>2, AcceptOK
    <2>3. CASE ReadCompletes(c)
      BY <1>1, <2>3, ReadCompletesOK
    <2>4. CASE ReadFailed(c)
      BY <1>1, <2>4, ReadFailedOK
    <2>5. CASE ReadHandler(c)
      BY <1>1, <2>5, ReadHandlerOK
    <2>6. CASE WriteSome(c)
      BY <1>1, <2>6, WriteSomeOK
    <2>7. CASE WriteHandler(c)
      BY <1>1, <2>7, WriteHandlerOK
    <2> QED
      BY <2>1, <2>2, <2>3, <2>4, <2>5, <2>6, <2>7, Zenon DEF IoContext
  <1>2. CASE backend = "poll" /\ EventLoop /\ UNCHANGED <<backend, asioVars>>
    <2>1. CASE Poll
      BY <1>2, <2>1, PollOK
    <2>2. CASE AcceptReady
      BY <1>2, <2>2, AcceptReadyOK
    <2>3. CASE \E c \in Conn : HangUp(c) \/ HandleRead(c) \/ HandlePollOut(c)
      <3>1. PICK c \in Conn : HangUp(c) \/ HandleRead(c) \/ HandlePollOut(c)
        BY <2>3
      <3>2. CASE HangUp(c)
        BY <1>2, <3>2, HangUpOK
      <3>3. CASE HandleRead(c)
        BY <1>2, <3>3, HandleReadOK
      <3>4. CASE HandlePollOut(c)
        BY <1>2, <3>4, HandlePollOutOK
      <3> QED
        BY <3>1, <3>2, <3>3, <3>4, Zenon
    <2>4. CASE Drop
      BY <1>2, <2>4, DropOK
    <2> QED
      BY <1>2, <2>1, <2>2, <2>3, <2>4, Zenon DEF EventLoop
  <1> QED
    BY <1>1, <1>2 DEF Server

\* Every step keeps the invariant, and is steady.
LEMMA StepOK ==
    ASSUME IInv, [Next]_vars
    PROVE  IInv' /\ \A q \in Conn : Steady(world, world', q)
  <1>1. world \in World
    BY DEF IInv, ServerOK
  <1>2. ASSUME world' = world PROVE \A q \in Conn : Steady(world, world', q)
    BY <1>1, <1>2, SteadySame
  <1>3. CASE Clients
    BY <1>2, <1>3, ClientsOK
  <1>4. CASE Server
    BY <1>4, ServerStepOK
  <1>5. CASE UNCHANGED vars
    <2>1. /\ backend' = backend /\ sent' = sent /\ peer' = peer /\ got' = got
          /\ rcv' = rcv /\ net' = net /\ world' = world
          /\ readop' = readop /\ readn' = readn
          /\ revents' = revents /\ accepting' = accepting /\ cursor' = cursor
          /\ dead' = dead
      BY <1>5, Zenon DEF vars, clientVars, asioVars, pollVars
    <2>2. TypeOK'
      BY <2>1, Zenon DEF IInv, TypeOK, ConnectionTypeOK, AsioTypeOK, PollTypeOK
    <2>3. ServerOK(world)'
      BY <2>1, SameQueues, Zenon DEF IInv
    <2>4. ASSUME NEW q \in Conn PROVE ConnOK(q)'
      <3>1. ConnOK(q)
        BY DEF IInv
      <3> QED
        BY <2>1, <3>1, Zenon
        DEF ConnOK, UnitsOK, ArrivedOK, Delivered, SessionOK, SweepOK, EndedOK, Bounded,
            Open, Closed
    <2> QED
      BY <1>2, <2>1, <2>2, <2>3, <2>4, Zenon DEF IInv
  <1> QED
    BY <1>3, <1>4, <1>5, Zenon DEF Next

\* The invariant holds in every state of either backend.
LEMMA Invariance == Spec => []IInv
  <1>1. IInv /\ [Next]_vars => IInv'
    BY StepOK, Zenon
  <1> QED
    BY <1>1, InitOK, PTL DEF Spec

-----------------------------------------------------------------------------
\* Sockets, links, operations in flight and the state of the sweep keep their
\* types, whatever clients and kernel do: no handler of either backend leaves a
\* link with a state, a counter or a queue that it cannot have.
THEOREM TypeCorrect == Spec => []TypeOK
  <1>1. IInv => TypeOK
    BY Zenon DEF IInv
  <1> QED
    BY <1>1, Invariance, PTL

\* For any number of connections, any requests and any limits no session of the
\* asio backend has more output queued than the limit between two handlers, and no
\* client of the poll backend between two sweeps: of do_close, send, read and
\* handle_read none leaves a connection open above the limit.
THEOREM OutputAlwaysBounded == Spec => []OutputBounded
  <1>1. IInv => OutputBounded
    <2> SUFFICES ASSUME IInv, NEW c \in Conn, Open(c),
                        backend = "asio" \/ (Swept /\ c \notin world.fed)
                 PROVE  Queued(world.link[c]) <= MaxOut
      BY Zenon DEF OutputBounded
    <2>1. Bounded(world, c)
      BY Zenon DEF IInv, ConnOK
    <2>2. Swept => c \notin dead
      BY DEF Swept
    <2>3. backend = "asio" \/ c \notin world.fed \cup dead
      BY <2>2
    <2> QED
      BY <2>1, <2>3, Zenon DEF Bounded, Open
  <1> QED
    BY <1>1, Invariance, PTL

\* However the requests were cut into reads, a connection that the end of the
\* stream has closed has had every complete request executed, but for what
\* handle_read of the poll backend drops with a full chunk in its buffer.
THEOREM EndOfStreamAlwaysExecutes == Spec => []EndOfStreamExecutes
  <1>1. IInv => EndOfStreamExecutes
    BY Zenon DEF IInv, ConnOK, EndedOK, EndOfStreamExecutes
  <1> QED
    BY <1>1, Invariance, PTL

\* Whichever of the paths closes a connection, and however many of them meet on
\* one connection, the gauge of Stats is the number of the open connections behind
\* every step, and a link that closes is not fed any more.
THEOREM ClosingAlwaysBooked == Spec => ClosingIsBooked
  <1>1. IInv /\ [Next]_vars =>
            [/\ world'.active = Cardinality({c \in Conn : Open(c)'})
             /\ \A c \in world.fed : Open(c) /\ Closed(c)' => c \notin world'.fed]_vars
    <2> SUFFICES ASSUME IInv, [Next]_vars
                 PROVE  /\ world'.active = Cardinality({c \in Conn : Open(c)'})
                        /\ \A c \in world.fed :
                               Open(c) /\ Closed(c)' => c \notin world'.fed
      BY Zenon
    <2>1. IInv' /\ \A q \in Conn : Steady(world, world', q)
      BY StepOK
    <2>2. world'.active = Cardinality({c \in Conn : Open(c)'})
      BY <2>1, Zenon DEF IInv, ServerOK, OpenIn, Open
    <2>3. world.fed \subseteq Conn
      BY DEF IInv, ServerOK, World
    <2> QED
      BY <2>1, <2>2, <2>3, Zenon DEF Steady, Open, Closed
  <1> QED
    BY <1>1, Invariance, PTL DEF Spec, ClosingIsBooked

\* For any number of requests, pushes and partial writes nothing touches out_
\* while async_write has a part of it still to write.
THEOREM WriteBufferAlwaysStable == Spec => WriteBufferStable
  <1>1. IInv /\ [Next]_vars =>
            [\A c \in Conn :
                LET k == world.link[c] IN
                k.writing /\ k.written < Len(k.out) /\ world'.link[c].writing
                    => world'.link[c].out = k.out]_vars
    <2> SUFFICES ASSUME IInv, [Next]_vars, NEW c \in Conn,
                        world.link[c].writing,
                        world.link[c].written < Len(world.link[c].out),
                        world'.link[c].writing
                 PROVE  world'.link[c].out = world.link[c].out
      BY Zenon
    <2>1. Steady(world, world', c)
      BY StepOK
    <2> QED
      BY <2>1, Zenon DEF Steady
  <1> QED
    BY <1>1, Invariance, PTL DEF Spec, WriteBufferStable

\* Both backends implement the reply channel, for any scripts of the clients and
\* any sizes of reads and writes: a handler queues replies and pushes, a client
\* that reads gets the next one, and every other step is invisible.
THEOREM RepliesAlwaysInOrder == Spec => RepliesInOrder
  <1> DEFINE queued == [c \in Conn |-> world.link[c].made]
  <1>1. Init => ImplementsReplies!Init
    <2> SUFFICES ASSUME Init PROVE queued = [c \in Conn |-> 0] /\ got = [c \in Conn |-> <<>>]
      BY Zenon DEF ImplementsReplies!Init
    <2>1. /\ got = [c \in Conn |-> <<>>] /\ world.link = [c \in Conn |-> NewLink]
          /\ NewLink.made = 0
      BY DEF Init, ConnectionInit, NewLink
    <2> QED
      BY <2>1
  <1>2. ASSUME IInv, [Next]_vars
        PROVE  [ImplementsReplies!Next]_<<queued, got>>
    <2>1. IInv' /\ \A q \in Conn : Steady(world, world', q)
      BY <1>2, StepOK
    <2>2. world \in World /\ world' \in World
      BY <1>2, <2>1, Zenon DEF IInv, ServerOK
    <2>3. ASSUME got' = got PROVE ImplementsReplies!Answer
      <3>1. PICK u \in World, w \in World : u = world' /\ w = world
        BY <2>2
      <3>2. \A q \in Conn : u.link[q].made \in Nat /\ u.link[q].made >= w.link[q].made
        BY <2>1, <3>1, LinkFields DEF Steady
      <3>3. /\ [c \in Conn |-> u.link[c].made] \in [Conn -> Nat]
            /\ \A q \in Conn : [c \in Conn |-> u.link[c].made][q] >=
                               [c \in Conn |-> w.link[c].made][q]
        BY <3>2
      <3> QED
        BY <2>3, <3>1, <3>3, Zenon DEF ImplementsReplies!Answer
    <2>4. ASSUME NEW c \in Conn, ClientReads(c) PROVE ImplementsReplies!Deliver(c)
      <3>1. /\ net[c] # <<>> /\ got' = [got EXCEPT ![c] = Append(@, Head(net[c]))]
            /\ world' = world
        BY <2>4 DEF ClientReads
      <3>2. ConnOK(c) /\ got \in [Conn -> Seq(Nat)] /\ net \in [Conn -> Seq(Nat)]
        BY <1>2 DEF IInv, TypeOK, ConnectionTypeOK
      <3>3. PICK g \in Seq(Nat), n \in Seq(Nat), m \in Nat :
                g = got[c] /\ n = net[c] /\ m = world.link[c].made
        BY <2>2, <3>2, LinkFields, Zenon
      <3>4. Len(g) + Len(n) <= m /\ n # <<>> /\ \A i \in 1..Len(n) : n[i] = Len(g) + i
        BY <3>1, <3>2, <3>3 DEF ConnOK, ArrivedOK, Delivered
      <3>5. Head(n) = Len(g) + 1 /\ Len(g) < m
        BY <3>4
      <3>6. /\ Len(got[c]) < queued[c]
            /\ got' = [got EXCEPT ![c] = Append(got[c], Len(got[c]) + 1)]
        BY <3>1, <3>3, <3>5, Zenon
      <3> QED
        BY <3>1, <3>6, Zenon DEF ImplementsReplies!Deliver
    <2>5. \/ got' = got
          \/ \E c \in Conn : ClientReads(c)
      <3>1. CASE Clients
        BY <3>1 DEF Clients, Client, ClientSends, ClientEnds, ClientResets
      <3>2. CASE Server
        BY <3>2, Zenon
        DEF Server, IoContext, EventLoop, Accept, ReadCompletes, ReadFailed, ReadHandler,
            WriteSome, WriteHandler, Poll, AcceptReady, HangUp, HandleRead, HandlePollOut,
            Drop, clientVars
      <3>3. CASE UNCHANGED vars
        BY <3>3 DEF vars, clientVars
      <3> QED
        BY <1>2, <3>1, <3>2, <3>3 DEF Next
    <2> QED
      BY <2>3, <2>4, <2>5, Zenon DEF ImplementsReplies!Next
  <1> QED
    BY <1>1, <1>2, Invariance, PTL DEF Spec, RepliesInOrder, ImplementsReplies!Spec
=============================================================================
