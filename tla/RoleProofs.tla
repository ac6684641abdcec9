----------------------------- MODULE RoleProofs -----------------------------
(***************************************************************************)
(* Theorems about ReplicaRole for any set of servers, any number of writes *)
(* and role changes, and any number of links that break.                   *)
(*                                                                         *)
(* FollowsMaster says nothing of what is under way to the replica.  Its    *)
(* invariant looks at everything the event loop has yet to apply,          *)
(* Pending(s), and takes the keyspace for a snapshot in front of it,       *)
(* Shown(s): behind each snapshot of a server that was never a replica     *)
(* come the writes that continue it, and what a fed replica has to apply   *)
(* ends where its master's keyspace ends.                                  *)
(***************************************************************************)
EXTENDS ReplicaRole, SequenceTheorems, TLAPS

USE RoleAssumption

-----------------------------------------------------------------------------
(***************************************************************************)
(* Types.                                                                  *)
(***************************************************************************)
LEMMA InitTypeOK == Init => TypeOK
  BY DEF Init, TypeOK

\* Every step but RunPosted leaves data a sequence of writes; this one applies a
\* task of the type of what is posted.
LEMMA AppliedType ==
    ASSUME NEW d \in Seq(Write), NEW task \in Task
    PROVE  Applied(d, task) \in Seq(Write)
  BY DEF Applied, Task

\* Every step keeps the types.
LEMMA NextTypeOK ==
    ASSUME TypeOK, [Next]_vars
    PROVE  TypeOK'
  <1>1. CASE UNCHANGED vars
    BY <1>1 DEF TypeOK, vars, roleVars, linkVars
  <1>2. ASSUME NEW s \in Server, ClientWrite(s)
        PROVE  TypeOK'
    <2> DEFINE w == [from |-> s, n |-> writes + 1]
               t == [type |-> "cmd", write |-> w]
    <2>1. writes + 1 \in 1..MaxWrites /\ writes + 1 \in 0..MaxWrites
      BY <1>2 DEF ClientWrite, TypeOK
    <2>2. w \in Write /\ t \in Task
      BY <2>1 DEF Write, Task
    <2>3. data' \in [Server -> Seq(Write)]
      BY <1>2, <2>2 DEF ClientWrite, TypeOK
    <2>4. feed' \in [Server -> Seq(Task)]
      BY <1>2, <2>2 DEF ClientWrite, TypeOK
    <2>5. writes' \in 0..MaxWrites
      BY <1>2, <2>1 DEF ClientWrite
    <2> QED
      BY <1>2, <2>3, <2>4, <2>5 DEF ClientWrite, TypeOK, roleVars
  <1>3. ASSUME NEW s \in Server, NEW m \in Server \cup {None}, Replicaof(s, m)
        PROVE  TypeOK'
    BY <1>3 DEF Replicaof, TypeOK, linkVars
  <1>4. ASSUME NEW s \in Server, JoinReturns(s)
        PROVE  TypeOK'
    BY <1>4, Zenon DEF JoinReturns, TypeOK
  <1>5. ASSUME NEW m \in Server, NEW s \in Server, Answer(m, s)
        PROVE  TypeOK'
    <2>1. <<[type |-> "rdb", from |-> m, data |-> data[m]]>> \in Seq(Task)
      BY DEF TypeOK, Task
    <2> QED
      BY <1>5, <2>1 DEF Answer, TypeOK, roleVars
  <1>6. ASSUME NEW s \in Server, RunPosted(s)
        PROVE  TypeOK'
    <2>1. Head(posted[s]) \in Task /\ Tail(posted[s]) \in Seq(Task)
      BY <1>6 DEF RunPosted, TypeOK
    <2>2. data' \in [Server -> Seq(Write)]
      BY <1>6, <2>1, AppliedType, Zenon DEF RunPosted, TypeOK
    <2>3. shows' \in [Server -> Server \cup {None}]
      BY <1>6, <2>1 DEF RunPosted, TypeOK, Task
    <2>4. posted' \in [Server -> Seq(Task)]
      BY <1>6, <2>1 DEF RunPosted, TypeOK
    <2> QED
      BY <1>6, <2>2, <2>3, <2>4 DEF RunPosted, TypeOK, roleVars, linkVars
  <1>7. ASSUME NEW s \in Server, Post(s)
        PROVE  feed' \in [Server -> Seq(Task)] /\ posted' \in [Server -> Seq(Task)]
    BY <1>7 DEF Post, ToPost, TypeOK
  <1>8. ASSUME NEW s \in Server, Disconnected(s)
        PROVE  feed' \in [Server -> Seq(Task)] /\ fed' \in [Server -> SUBSET Server]
    BY <1>8 DEF Disconnected, TypeOK
  <1>9. ASSUME NEW s \in Server, Thread(s)
        PROVE  TypeOK'
    <2>1. CASE Connect(s)
      BY <2>1 DEF Connect, TypeOK, roleVars
    <2>2. CASE ReadSnapshot(s)
      BY <2>2, <1>7, Zenon DEF ReadSnapshot, Post, TypeOK, roleVars
    <2>3. CASE ReadStream(s)
      BY <2>3, <1>7, Zenon DEF ReadStream, Post, TypeOK, roleVars
    <2>4. CASE ThreadEnds(s)
      BY <2>4, <1>8 DEF ThreadEnds, Disconnected, TypeOK, roleVars
    <2> QED
      BY <1>9, <2>1, <2>2, <2>3, <2>4 DEF Thread
  <1>10. ASSUME NEW s \in Server, LinkBreaks(s)
         PROVE  TypeOK'
    BY <1>10, <1>8 DEF LinkBreaks, AfterBreak, Disconnected, TypeOK, roleVars
  <1> QED
    BY <1>1, <1>2, <1>3, <1>4, <1>5, <1>6, <1>9, <1>10 DEF Next, EventLoop

\* Roles, threads, streams and tasks keep their types; a task is a snapshot or
\* one write, whatever links break and whichever roles change.
THEOREM TypeCorrect == Spec => []TypeOK
  BY InitTypeOK, NextTypeOK, PTL DEF Spec

-----------------------------------------------------------------------------
(***************************************************************************)
(* Promotion.  PromotedKeepsWrites is about one step and needs to know     *)
(* that nothing can be posted to a server without a master, and that what  *)
(* is still posted when it gives the role up is what `leftover' records.   *)
(***************************************************************************)
Unlinked ==
    \A s \in Server :
        role[s] = None => /\ thread[s] = "none"
                          /\ ~leftover[s] => posted[s] = <<>>

\* A thread lives only between REPLICAOF and the join that ends the role.
LEMMA UnlinkedInductive ==
    ASSUME TypeOK, Unlinked, [Next]_vars
    PROVE  Unlinked'
  <1>1. CASE UNCHANGED vars
    BY <1>1 DEF Unlinked, vars, roleVars, linkVars
  <1>2. ASSUME NEW s \in Server, ClientWrite(s)
        PROVE  Unlinked'
    BY <1>2 DEF ClientWrite, Unlinked, roleVars
  <1>3. ASSUME NEW s \in Server, NEW m \in Server \cup {None}, Replicaof(s, m)
        PROVE  Unlinked'
    BY <1>3 DEF Replicaof, Unlinked, linkVars
  <1>4. ASSUME NEW s \in Server, JoinReturns(s)
        PROVE  Unlinked'
    BY <1>4, Zenon DEF JoinReturns, MayReturn, Unlinked, TypeOK
  <1>5. ASSUME NEW m \in Server, NEW s \in Server, Answer(m, s)
        PROVE  Unlinked'
    BY <1>5 DEF Answer, Unlinked, roleVars
  <1>6. ASSUME NEW s \in Server, RunPosted(s)
        PROVE  Unlinked'
    BY <1>6 DEF RunPosted, Unlinked, TypeOK, roleVars, linkVars
  <1>7. ASSUME NEW s \in Server, Thread(s) \/ LinkBreaks(s)
        PROVE  Unlinked'
    <2>1. role[s] # None
      BY <1>7 DEF Thread, Connect, ReadSnapshot, ReadStream, Streams, ThreadEnds,
                  LinkBreaks, Unlinked
    <2>2. /\ UNCHANGED <<role, leftover>>
          /\ \A x \in Server \ {s} : thread'[x] = thread[x] /\ posted'[x] = posted[x]
      BY <1>7 DEF Thread, Connect, ReadSnapshot, ReadStream, ThreadEnds, LinkBreaks,
                  Post, Disconnected, TypeOK, roleVars
    <2> QED
      BY <2>1, <2>2 DEF Unlinked
  <1> QED
    BY <1>1, <1>2, <1>3, <1>4, <1>5, <1>6, <1>7 DEF Next, EventLoop

\* A step that leaves the keyspace alone loses nothing.
LEMMA PrefixOfItself ==
    ASSUME NEW S, NEW d \in Seq(S)
    PROVE  IsPrefix(d, d)
  BY LenProperties DEF IsPrefix

\* Neither does one that adds a write.
LEMMA PrefixOfAppend ==
    ASSUME NEW S, NEW d \in Seq(S), NEW e \in S
    PROVE  IsPrefix(d, Append(d, e))
  <1>1. Len(d) \in Nat /\ Append(d, e) \in Seq(S) /\ Len(Append(d, e)) = Len(d) + 1
    BY LenProperties
  <1>2. SubSeq(Append(d, e), 1, Len(d)) = d
    BY <1>1
  <1>3. SubSeq(d, 1, Len(d)) = d
    BY <1>1
  <1> QED
    BY <1>1, <1>2, <1>3 DEF IsPrefix

\* A step that loses a write of a server that has no master before and after it
\* runs a task the server's last link had left behind.
LEMMA PromotedStep ==
    ASSUME TypeOK, Unlinked, Next,
           NEW s \in Server, role[s] = None, role'[s] = None, ~leftover[s]
    PROVE  IsPrefix(data[s], data'[s])
  <1>1. data[s] \in Seq(Write) /\ posted[s] = <<>>
    BY DEF TypeOK, Unlinked
  <1>2. CASE data'[s] = data[s]
    BY <1>1, <1>2, PrefixOfItself
  <1>3. CASE \E x \in Server : ClientWrite(x)
    <2>1. PICK x \in Server : ClientWrite(x)
      BY <1>3
    <2>2. [from |-> x, n |-> writes + 1] \in Write
      BY <2>1 DEF ClientWrite, Write, TypeOK
    <2>3. data'[s] = IF s = x THEN Append(data[s], [from |-> x, n |-> writes + 1])
                              ELSE data[s]
      BY <2>1 DEF ClientWrite, TypeOK
    <2> QED
      BY <1>1, <1>2, <2>2, <2>3, PrefixOfAppend
  <1>4. CASE \E x \in Server : RunPosted(x)
    <2>1. PICK x \in Server : RunPosted(x)
      BY <1>4
    <2>2. x # s
      BY <1>1, <2>1 DEF RunPosted
    <2>3. data'[s] = data[s]
      BY <2>1, <2>2 DEF RunPosted, TypeOK
    <2> QED
      BY <1>2, <2>3
  <1>5. CASE /\ ~\E x \in Server : ClientWrite(x)
             /\ ~\E x \in Server : RunPosted(x)
    <2>1. UNCHANGED data
      BY <1>5 DEF Next, EventLoop, Thread, Replicaof, JoinReturns, Answer, Connect,
                  ReadSnapshot, ReadStream, ThreadEnds, LinkBreaks, Post, Disconnected
    <2> QED
      BY <1>2, <2>1
  <1> QED
    BY <1>3, <1>4, <1>5

(***************************************************************************)
(* After REPLICAOF NO ONE, and once what the old link had posted has run,  *)
(* no step takes a write away from the new master: stop_replication joins  *)
(* the thread before it gives up the role, so that nothing can be posted   *)
(* later (replication.cpp, stop_replication and replicaof).                *)
(***************************************************************************)
THEOREM PromotedNeverLoses == Spec => PromotedKeepsWrites
  <1> DEFINE Inv == TypeOK /\ Unlinked
             Keeps == \A s \in Server :
                         role[s] = None /\ role'[s] = None /\ ~leftover[s]
                             => IsPrefix(data[s], data'[s])
  <1>1. Init => Inv
    BY InitTypeOK DEF Init, Unlinked
  <1>2. Inv /\ [Next]_vars => Inv'
    BY NextTypeOK, UnlinkedInductive
  <1>3. Inv /\ [Next]_vars => [Keeps]_vars
    BY PromotedStep
  <1>4. PromotedKeepsWrites <=> [][Keeps]_vars
    BY DEF PromotedKeepsWrites
  <1> QED
    BY <1>1, <1>2, <1>3, <1>4, PTL DEF Spec

-----------------------------------------------------------------------------
(***************************************************************************)
(* Queues of tasks: what the operations on a queue do to the predicates    *)
(* the invariant is built from.  A queue Q is seen with a snapshot h in    *)
(* front of it, the keyspace its tasks will be applied to.                 *)
(***************************************************************************)
\* The i-th task of Q, with h as the one in front of the first.
At(h, Q, i) == IF i = 0 THEN h ELSE Q[i]

Commands(Q, j, i) == \A l \in (j + 1)..i : Q[l].type = "cmd"

Begins(d, D) == Len(d) <= Len(D) /\ \A k \in 1..Len(d) : d[k] = D[k]

\* The j-th task is a snapshot of x.
From(x, h, Q, j) == At(h, Q, j).type = "rdb" /\ At(h, Q, j).from = x

\* How many writes x had at the i-th task, counted from its snapshot, the j-th.
Place(h, Q, j, i) == Len(At(h, Q, j).data) + (i - j)

\* Every snapshot of x begins x's writes D, and the commands behind it go on from
\* where it ends.
Good(x, D, h, Q) ==
    \A j \in 0..Len(Q) :
        From(x, h, Q, j) =>
            /\ Begins(At(h, Q, j).data, D)
            /\ \A i \in (j + 1)..Len(Q) :
                   Commands(Q, j, i) =>
                       /\ Place(h, Q, j, i) <= Len(D)
                       /\ Q[i].write = D[Place(h, Q, j, i)]

\* The j-th task is the last snapshot.
LatestRdb(h, Q, j) == At(h, Q, j).type = "rdb" /\ Commands(Q, j, Len(Q))

\* The last snapshot is of x.
FedBy(x, h, Q) == \A j \in 0..Len(Q) : LatestRdb(h, Q, j) => At(h, Q, j).from = x

\* What the queue leads to is as long as D.
UpToDate(D, h, Q) ==
    \A j \in 0..Len(Q) : LatestRdb(h, Q, j) => Place(h, Q, j, Len(Q)) = Len(D)

-----------------------------------------------------------------------------
Snap == [type : {"rdb"}, from : Server \cup {None}, data : Seq(Write)]

\* A snapshot in the queue holds a sequence of writes.
LEMMA SnapshotType ==
    ASSUME NEW h \in Snap, NEW Q \in Seq(Task), NEW j \in 0..Len(Q),
           At(h, Q, j).type = "rdb"
    PROVE  At(h, Q, j).data \in Seq(Write) /\ Len(At(h, Q, j).data) \in Nat
  <1>1. CASE j = 0
    BY <1>1 DEF At, Snap
  <1>2. CASE j # 0
    <2>1. Q[j] \in Task /\ At(h, Q, j) = Q[j]
      BY <1>2 DEF At
    <2>2. Q[j].data \in Seq(Write)
      BY <2>1 DEF Task
    <2> QED
      BY <2>1, <2>2
  <1> QED
    BY <1>1, <1>2

\* The master executes a write.
LEMMA GoodGrow ==
    ASSUME NEW x \in Server, NEW D \in Seq(Write), NEW w \in Write,
           NEW h \in Snap, NEW Q \in Seq(Task), Good(x, D, h, Q)
    PROVE  Good(x, Append(D, w), h, Q)
  <1> DEFINE E == Append(D, w)
  <1>1. /\ Len(D) \in Nat /\ Len(E) = Len(D) + 1
        /\ \A k \in 1..Len(D) : E[k] = D[k]
    BY DEF Write
  <1> HIDE DEF E
  <1> SUFFICES ASSUME NEW j \in 0..Len(Q), From(x, h, Q, j)
               PROVE  /\ Begins(At(h, Q, j).data, E)
                      /\ \A i \in (j + 1)..Len(Q) :
                             Commands(Q, j, i) =>
                                 /\ Place(h, Q, j, i) <= Len(E)
                                 /\ Q[i].write = E[Place(h, Q, j, i)]
    BY Zenon DEF Good, E
  <1>2. Len(At(h, Q, j).data) \in Nat
    BY SnapshotType DEF From
  <1>3. Begins(At(h, Q, j).data, E)
    <2>1. Begins(At(h, Q, j).data, D)
      BY DEF Good
    <2> QED
      BY <1>1, <1>2, <2>1 DEF Begins
  <1>4. ASSUME NEW i \in (j + 1)..Len(Q), Commands(Q, j, i)
        PROVE  /\ Place(h, Q, j, i) <= Len(E)
               /\ Q[i].write = E[Place(h, Q, j, i)]
    <2>1. Place(h, Q, j, i) <= Len(D) /\ Q[i].write = D[Place(h, Q, j, i)]
      BY <1>4 DEF Good
    <2>2. Place(h, Q, j, i) \in Nat /\ Place(h, Q, j, i) >= 1
      BY <1>2 DEF Place
    <2> QED
      BY <1>1, <2>1, <2>2
  <1> QED
    BY <1>3, <1>4

\* What has not been posted is lost.
LEMMA GoodCut ==
    ASSUME NEW x \in Server, NEW D \in Seq(Write), NEW h \in Snap,
           NEW Q \in Seq(Task), Good(x, D, h, Q),
           NEW R \in Seq(Task), Len(R) <= Len(Q), \A i \in 1..Len(R) : R[i] = Q[i]
    PROVE  Good(x, D, h, R)
  <1>1. Len(R) \in Nat /\ Len(Q) \in Nat
    OBVIOUS
  <1>2. \A j \in 0..Len(R) : At(h, R, j) = At(h, Q, j) /\ j \in 0..Len(Q)
    BY <1>1 DEF At
  <1>3. ASSUME NEW j \in 0..Len(R), NEW i \in (j + 1)..Len(R), Commands(R, j, i)
        PROVE  Commands(Q, j, i) /\ i \in (j + 1)..Len(Q) /\ R[i] = Q[i]
    BY <1>1, <1>3 DEF Commands
  <1> QED
    BY <1>1, <1>2, <1>3, Zenon DEF Good, From, Place

\* The keyspace stops to count as a snapshot of x.
LEMMA GoodForget ==
    ASSUME NEW x \in Server, NEW D \in Seq(Write), NEW h, NEW g,
           NEW Q \in Seq(Task), Good(x, D, h, Q), g.from # x
    PROVE  Good(x, D, g, Q)
  <1>1. ~From(x, g, Q, 0)
    BY DEF From, At
  <1>2. \A j \in 0..Len(Q) : j # 0 => At(g, Q, j) = At(h, Q, j)
    BY DEF At
  <1> QED
    BY <1>1, <1>2, Zenon DEF Good, From, Place

\* A task added at the end moves none of the others.
LEMMA AppendAt ==
    ASSUME NEW h, NEW Q \in Seq(Task), NEW t \in Task
    PROVE  /\ Append(Q, t) \in Seq(Task)
           /\ Len(Q) \in Nat
           /\ Len(Append(Q, t)) = Len(Q) + 1
           /\ Append(Q, t)[Len(Q) + 1] = t
           /\ At(h, Append(Q, t), Len(Q) + 1) = t
           /\ \A i \in 1..Len(Q) : Append(Q, t)[i] = Q[i]
           /\ \A j \in 0..Len(Q) : At(h, Append(Q, t), j) = At(h, Q, j)
  BY DEF At

\* A write is streamed.
LEMMA GoodCommand ==
    ASSUME NEW x \in Server, NEW D \in Seq(Write), NEW h \in Snap,
           NEW Q \in Seq(Task), Good(x, D, h, Q),
           NEW t \in Task, t.type = "cmd",
           \A j \in 0..Len(Q) :
               LatestRdb(h, Q, j) /\ At(h, Q, j).from = x =>
                   /\ Place(h, Q, j, Len(Q)) + 1 <= Len(D)
                   /\ t.write = D[Place(h, Q, j, Len(Q)) + 1]
    PROVE  Good(x, D, h, Append(Q, t))
  <1> DEFINE R == Append(Q, t)
  <1>1. /\ Len(Q) \in Nat /\ Len(R) = Len(Q) + 1 /\ R[Len(Q) + 1] = t
        /\ At(h, R, Len(Q) + 1) = t
        /\ \A i \in 1..Len(Q) : R[i] = Q[i]
        /\ \A j \in 0..Len(Q) : At(h, R, j) = At(h, Q, j)
    BY AppendAt
  <1> HIDE DEF R
  <1> SUFFICES ASSUME NEW j \in 0..Len(R), From(x, h, R, j)
               PROVE  /\ Begins(At(h, R, j).data, D)
                      /\ \A i \in (j + 1)..Len(R) :
                             Commands(R, j, i) =>
                                 /\ Place(h, R, j, i) <= Len(D)
                                 /\ R[i].write = D[Place(h, R, j, i)]
    BY DEF Good, R
  <1>2. j \in 0..Len(Q) /\ At(h, R, j) = At(h, Q, j) /\ From(x, h, Q, j)
    BY <1>1 DEF From
  <1>3. ASSUME NEW i \in (j + 1)..Len(R), Commands(R, j, i)
        PROVE  Place(h, R, j, i) <= Len(D) /\ R[i].write = D[Place(h, R, j, i)]
    <2>1. Place(h, R, j, i) = Place(h, Q, j, i)
      BY <1>2 DEF Place
    <2>2. CASE i \in (j + 1)..Len(Q)
      <3>1. Commands(Q, j, i)
        BY <1>1, <1>2, <1>3, <2>2 DEF Commands
      <3> QED
        BY <1>1, <1>2, <2>1, <2>2, <3>1 DEF Good
    <2>3. CASE i = Len(Q) + 1
      <3>1. LatestRdb(h, Q, j) /\ At(h, Q, j).from = x
        BY <1>1, <1>2, <1>3, <2>3 DEF LatestRdb, Commands, From
      <3>2. Len(At(h, Q, j).data) \in Nat
        BY <1>2, SnapshotType DEF From
      <3>3. Place(h, Q, j, i) = Place(h, Q, j, Len(Q)) + 1
        <4> DEFINE k == Len(At(h, Q, j).data)
        <4>1. k \in Nat /\ j \in Int /\ i = Len(Q) + 1
          BY <1>2, <2>3, <3>2
        <4> HIDE DEF k
        <4>2. k + (i - j) = (k + (Len(Q) - j)) + 1
          BY <1>1, <4>1
        <4> QED
          BY <4>2 DEF Place, k
      <3> QED
        BY <1>1, <1>2, <2>1, <2>3, <3>1, <3>3
    <2> QED
      BY <1>1, <1>2, <2>2, <2>3
  <1>4. Begins(At(h, R, j).data, D)
    BY <1>2 DEF Good
  <1> QED
    BY <1>3, <1>4

\* A snapshot is sent.
LEMMA GoodSnapshot ==
    ASSUME NEW x \in Server, NEW D \in Seq(Write), NEW h \in Snap,
           NEW Q \in Seq(Task), Good(x, D, h, Q),
           NEW t \in Task, t.type = "rdb", t.from = x => Begins(t.data, D)
    PROVE  Good(x, D, h, Append(Q, t))
  <1> DEFINE R == Append(Q, t)
  <1>1. /\ Len(Q) \in Nat /\ Len(R) = Len(Q) + 1 /\ R[Len(Q) + 1] = t
        /\ At(h, R, Len(Q) + 1) = t
        /\ \A i \in 1..Len(Q) : R[i] = Q[i]
        /\ \A j \in 0..Len(Q) : At(h, R, j) = At(h, Q, j)
    BY AppendAt
  <1> HIDE DEF R
  <1> SUFFICES ASSUME NEW j \in 0..Len(R), From(x, h, R, j)
               PROVE  /\ Begins(At(h, R, j).data, D)
                      /\ \A i \in (j + 1)..Len(R) :
                             Commands(R, j, i) =>
                                 /\ Place(h, R, j, i) <= Len(D)
                                 /\ R[i].write = D[Place(h, R, j, i)]
    BY DEF Good, R
  <1>2. CASE j = Len(Q) + 1
    <2>1. Begins(At(h, R, j).data, D)
      BY <1>1, <1>2 DEF From
    <2>2. (j + 1)..Len(R) = {}
      BY <1>1, <1>2
    <2> QED
      BY <2>1, <2>2
  <1>3. CASE j \in 0..Len(Q)
    <2>1. At(h, R, j) = At(h, Q, j) /\ From(x, h, Q, j)
      BY <1>1, <1>3 DEF From
    <2>2. ASSUME NEW i \in (j + 1)..Len(R), Commands(R, j, i)
          PROVE  Place(h, R, j, i) <= Len(D) /\ R[i].write = D[Place(h, R, j, i)]
      <3>1. i # Len(Q) + 1
        BY <1>1, <1>3, <2>2 DEF Commands
      <3>2. i \in (j + 1)..Len(Q) /\ R[i] = Q[i]
        BY <1>1, <1>3, <3>1
      <3>3. Commands(Q, j, i)
        BY <1>1, <1>3, <2>2, <3>2 DEF Commands
      <3> QED
        BY <1>3, <2>1, <3>2, <3>3 DEF Good, Place
    <2> QED
      BY <1>3, <2>1, <2>2 DEF Good
  <1> QED
    BY <1>1, <1>2, <1>3

\* The queue behind its first task.
LEMMA TailAt ==
    ASSUME NEW Q \in Seq(Task), Q # <<>>
    PROVE  /\ Tail(Q) \in Seq(Task)
           /\ Len(Q) \in Nat /\ Len(Q) >= 1
           /\ Len(Tail(Q)) = Len(Q) - 1
           /\ \A i \in 1..(Len(Q) - 1) : Tail(Q)[i] = Q[i + 1]
           /\ Q[1] \in Task
  BY HeadTailProperties, EmptySeq, LenProperties

(***************************************************************************)
(* The first task is applied: g is the keyspace afterwards.  A snapshot in *)
(* the rest of the queue had its place one further behind; in front of it  *)
(* is the task itself, or the keyspace with one more write.                *)
(***************************************************************************)
RunsTo(h, Q, g) ==
    /\ g \in Snap
    /\ g.data = Applied(h.data, Q[1])
    /\ g.from \in {IF Q[1].type = "rdb" THEN Q[1].from ELSE h.from, None}

\* Where the j-th task of the rest was.
Before(Q, j) == IF j = 0 /\ Q[1].type = "cmd" THEN 0 ELSE j + 1

\* A snapshot keeps its place among the writes when the first task is applied.
LEMMA RunAt ==
    ASSUME NEW h \in Snap, NEW Q \in Seq(Task), Q # <<>>, NEW g, RunsTo(h, Q, g),
           NEW j \in 0..(Len(Q) - 1), At(g, Tail(Q), j).type = "rdb"
    PROVE  /\ Before(Q, j) \in 0..Len(Q)
           /\ At(h, Q, Before(Q, j)).type = "rdb"
           /\ At(g, Tail(Q), j).from \in {At(h, Q, Before(Q, j)).from, None}
           /\ j # 0 => At(g, Tail(Q), j).from = At(h, Q, Before(Q, j)).from
           /\ \A i \in j..(Len(Q) - 1) :
                  /\ Place(g, Tail(Q), j, i) = Place(h, Q, Before(Q, j), i + 1)
                  /\ Commands(Tail(Q), j, i) => Commands(Q, Before(Q, j), i + 1)
  <1> DEFINE T == Tail(Q)
             b == Before(Q, j)
  <1>1. /\ Len(Q) \in Nat /\ Len(Q) >= 1 /\ j \in Nat
        /\ \A i \in 1..(Len(Q) - 1) : T[i] = Q[i + 1]
        /\ Q[1] \in Task
    BY TailAt
  <1> HIDE DEF T
  <1>2. CASE j # 0
    <2>1. b = j + 1 /\ b \in 0..Len(Q)
      BY <1>1, <1>2 DEF Before
    <2>2. At(g, T, j) = At(h, Q, b)
      BY <1>1, <1>2, <2>1 DEF At
    <2>3. ASSUME NEW i \in j..(Len(Q) - 1)
          PROVE  /\ Place(g, T, j, i) = Place(h, Q, b, i + 1)
                 /\ Commands(T, j, i) => Commands(Q, b, i + 1)
      <3>1. i - j = (i + 1) - b
        BY <1>1, <2>1
      <3>2. ASSUME Commands(T, j, i), NEW l \in (b + 1)..(i + 1)
            PROVE  Q[l].type = "cmd"
        <4>1. l - 1 \in (j + 1)..i /\ l - 1 \in 1..(Len(Q) - 1) /\ (l - 1) + 1 = l
          BY <1>1, <2>1
        <4> QED
          BY <1>1, <3>2, <4>1, Zenon DEF Commands
      <3> QED
        BY <2>2, <3>1, <3>2 DEF Place, Commands
    <2> QED
      BY <2>1, <2>2, <2>3 DEF T
  <1>3. CASE j = 0 /\ Q[1].type = "rdb"
    <2>1. b = 1 /\ b \in 0..Len(Q)
      BY <1>1, <1>3 DEF Before
    <2>2. At(g, T, j) = g /\ At(h, Q, b) = Q[1] /\ g.data = Q[1].data
      BY <1>1, <1>3, <2>1 DEF At, RunsTo, Applied
    <2>3. g.from \in {Q[1].from, None}
      BY <1>3 DEF RunsTo
    <2>4. ASSUME NEW i \in j..(Len(Q) - 1)
          PROVE  /\ Place(g, T, j, i) = Place(h, Q, b, i + 1)
                 /\ Commands(T, j, i) => Commands(Q, b, i + 1)
      <3>1. i - j = (i + 1) - b
        BY <1>1, <1>3, <2>1
      <3>2. ASSUME Commands(T, j, i), NEW l \in (b + 1)..(i + 1)
            PROVE  Q[l].type = "cmd"
        <4>1. l - 1 \in (j + 1)..i /\ l - 1 \in 1..(Len(Q) - 1) /\ (l - 1) + 1 = l
          BY <1>1, <1>3, <2>1
        <4> QED
          BY <1>1, <3>2, <4>1, Zenon DEF Commands
      <3> QED
        BY <2>2, <3>1, <3>2 DEF Place, Commands
    <2> QED
      BY <1>3, <2>1, <2>2, <2>3, <2>4 DEF T
  <1>4. CASE j = 0 /\ Q[1].type = "cmd"
    <2>1. b = 0 /\ b \in 0..Len(Q)
      BY <1>1, <1>4 DEF Before
    <2>2. At(g, T, j) = g /\ At(h, Q, b) = h
      BY <1>4, <2>1 DEF At
    <2>3. h.type = "rdb" /\ h.data \in Seq(Write)
      BY DEF Snap
    <2>4. Q[1].write \in Write
      BY <1>1, <1>4 DEF Task
    <2>5. g.data = Append(h.data, Q[1].write) /\ g.from \in {h.from, None}
      BY <1>4 DEF RunsTo, Applied
    <2>6. Len(g.data) = Len(h.data) + 1 /\ Len(h.data) \in Nat
      BY <2>3, <2>4, <2>5
    <2>7. ASSUME NEW i \in j..(Len(Q) - 1)
          PROVE  /\ Place(g, T, j, i) = Place(h, Q, b, i + 1)
                 /\ Commands(T, j, i) => Commands(Q, b, i + 1)
      <3>1. Len(g.data) + (i - j) = Len(h.data) + ((i + 1) - b)
        <4> DEFINE n == Len(h.data)
                   k == Len(g.data)
        <4>1. k = n + 1 /\ n \in Nat /\ i \in Int /\ j = 0 /\ b = 0
          BY <1>1, <1>4, <2>1, <2>6
        <4> HIDE DEF n, k, b
        <4>2. k + (i - j) = n + ((i + 1) - b)
          BY <4>1
        <4> QED
          BY <4>2 DEF n, k
      <3>2. ASSUME Commands(T, j, i), NEW l \in (b + 1)..(i + 1)
            PROVE  Q[l].type = "cmd"
        <4>1. CASE l = 1
          BY <1>4, <4>1
        <4>2. CASE l # 1
          <5>1. l - 1 \in (j + 1)..i /\ l - 1 \in 1..(Len(Q) - 1) /\ (l - 1) + 1 = l
            BY <1>1, <1>4, <2>1, <4>2
          <5> QED
            BY <1>1, <3>2, <5>1, Zenon DEF Commands
        <4> QED
          BY <4>1, <4>2
      <3> QED
        BY <2>2, <3>1, <3>2 DEF Place, Commands
    <2> QED
      BY <1>4, <2>1, <2>2, <2>3, <2>5, <2>7 DEF T
  <1> QED
    BY <1>1, <1>2, <1>3, <1>4 DEF Task

\* The event loop applies the first task.
LEMMA GoodRun ==
    ASSUME NEW x \in Server, NEW D \in Seq(Write), NEW h \in Snap,
           NEW Q \in Seq(Task), Q # <<>>, Good(x, D, h, Q), NEW g, RunsTo(h, Q, g)
    PROVE  Good(x, D, g, Tail(Q))
  <1> DEFINE T == Tail(Q)
  <1>1. /\ Len(Q) \in Nat /\ Len(Q) >= 1
        /\ T \in Seq(Task) /\ Len(T) = Len(Q) - 1
        /\ \A i \in 1..(Len(Q) - 1) : T[i] = Q[i + 1]
        /\ Q[1] \in Task
    BY TailAt
  <1> SUFFICES ASSUME NEW j \in 0..Len(T), From(x, g, T, j)
               PROVE  /\ Begins(At(g, T, j).data, D)
                      /\ \A i \in (j + 1)..Len(T) :
                             Commands(T, j, i) =>
                                 /\ Place(g, T, j, i) <= Len(D)
                                 /\ T[i].write = D[Place(g, T, j, i)]
    BY DEF Good
  <1> DEFINE b == Before(Q, j)
  <1> HIDE DEF T
  <1>2. /\ b \in 0..Len(Q) /\ From(x, h, Q, b)
        /\ \A i \in j..(Len(Q) - 1) :
               /\ Place(g, T, j, i) = Place(h, Q, b, i + 1)
               /\ Commands(T, j, i) => Commands(Q, b, i + 1)
    <2>1. j \in 0..(Len(Q) - 1) /\ At(g, T, j).type = "rdb" /\ At(g, T, j).from = x
      BY <1>1 DEF From
    <2>2. /\ b \in 0..Len(Q) /\ At(h, Q, b).type = "rdb"
          /\ At(g, T, j).from \in {At(h, Q, b).from, None}
          /\ \A i \in j..(Len(Q) - 1) :
                 /\ Place(g, T, j, i) = Place(h, Q, b, i + 1)
                 /\ Commands(T, j, i) => Commands(Q, b, i + 1)
      BY <2>1, RunAt DEF T
    <2> QED
      BY <2>1, <2>2 DEF From
  <1>3. b \in {j, j + 1}
    BY DEF Before
  <1>4. /\ Begins(At(h, Q, b).data, D)
        /\ \A i \in (b + 1)..Len(Q) :
               Commands(Q, b, i) => /\ Place(h, Q, b, i) <= Len(D)
                                    /\ Q[i].write = D[Place(h, Q, b, i)]
    BY <1>2 DEF Good
  <1>5. ASSUME NEW i \in (j + 1)..Len(T), Commands(T, j, i)
        PROVE  Place(g, T, j, i) <= Len(D) /\ T[i].write = D[Place(g, T, j, i)]
    <2>1. i \in j..(Len(Q) - 1) /\ i + 1 \in (b + 1)..Len(Q) /\ T[i] = Q[i + 1]
      BY <1>1, <1>2, <1>3
    <2> QED
      BY <1>2, <1>4, <1>5, <2>1
  <1>6. Begins(At(g, T, j).data, D)
    <2>1. CASE j # 0
      <3>1. At(g, T, j) = At(h, Q, b)
        BY <1>1, <2>1 DEF At, Before
      <3> QED
        BY <1>4, <3>1
    <2>2. CASE j = 0 /\ Q[1].type = "rdb"
      <3>1. At(g, T, j).data = At(h, Q, b).data
        BY <2>2 DEF At, Before, RunsTo, Applied
      <3> QED
        BY <1>4, <3>1
    <2>3. CASE j = 0 /\ Q[1].type = "cmd"
      <3> DEFINE d == h.data
                 w == Q[1].write
                 n == Len(h.data)
      <3>1. b = 0 /\ At(h, Q, b) = h /\ At(g, T, j) = g
        BY <2>3 DEF At, Before
      <3>2. d \in Seq(Write) /\ w \in Write /\ n \in Nat
        BY <1>1, <2>3 DEF Snap, Task
      <3>3. Commands(Q, b, 1) /\ 1 \in (b + 1)..Len(Q)
        BY <1>1, <2>3, <3>1 DEF Commands
      <3>4. Place(h, Q, b, 1) = n + 1
        BY <3>1, <3>2 DEF Place
      <3>5. n + 1 <= Len(D) /\ w = D[n + 1]
        BY <1>4, <3>3, <3>4
      <3>6. g.data = Append(d, w)
        BY <2>3 DEF RunsTo, Applied
      <3>7. Begins(d, D)
        BY <1>4, <3>1
      <3>8. /\ Len(Append(d, w)) = n + 1
            /\ \A k \in 1..n : Append(d, w)[k] = d[k]
            /\ Append(d, w)[n + 1] = w
        BY <3>2
      <3>9. Begins(Append(d, w), D)
        BY <3>2, <3>5, <3>7, <3>8 DEF Begins
      <3> QED
        BY <3>1, <3>6, <3>9
    <2> QED
      BY <1>1, <2>1, <2>2, <2>3 DEF Task
  <1> QED
    BY <1>5, <1>6

\* A write is streamed to a replica that had all the earlier ones.
LEMMA FedCommand ==
    ASSUME NEW m, NEW h \in Snap, NEW Q \in Seq(Task), NEW t \in Task,
           t.type = "cmd"
    PROVE  /\ FedBy(m, h, Q) => FedBy(m, h, Append(Q, t))
           /\ \A D \in Seq(Write) : \A w \in Write :
                  UpToDate(D, h, Q) => UpToDate(Append(D, w), h, Append(Q, t))
  <1> DEFINE R == Append(Q, t)
  <1>1. /\ Len(Q) \in Nat /\ Len(R) = Len(Q) + 1 /\ R[Len(Q) + 1] = t
        /\ At(h, R, Len(Q) + 1) = t
        /\ \A i \in 1..Len(Q) : R[i] = Q[i]
        /\ \A j \in 0..Len(Q) : At(h, R, j) = At(h, Q, j)
    BY AppendAt
  <1> HIDE DEF R
  <1>2. ASSUME NEW j \in 0..Len(R), LatestRdb(h, R, j)
        PROVE  /\ j \in 0..Len(Q) /\ LatestRdb(h, Q, j)
               /\ At(h, R, j) = At(h, Q, j)
               /\ Place(h, R, j, Len(R)) = Place(h, Q, j, Len(Q)) + 1
    <2>1. j \in 0..Len(Q) /\ At(h, R, j) = At(h, Q, j)
      BY <1>1, <1>2 DEF LatestRdb
    <2>2. LatestRdb(h, Q, j)
      BY <1>1, <1>2, <2>1 DEF LatestRdb, Commands
    <2>3. Place(h, R, j, Len(R)) = Place(h, Q, j, Len(Q)) + 1
      <3> DEFINE k == Len(At(h, Q, j).data)
      <3>1. k \in Nat
        BY <2>1, <2>2, SnapshotType DEF LatestRdb
      <3> HIDE DEF k
      <3>2. k + (Len(R) - j) = (k + (Len(Q) - j)) + 1
        BY <1>1, <2>1, <3>1
      <3> QED
        BY <2>1, <3>2 DEF Place, k
    <2> QED
      BY <2>1, <2>2, <2>3
  <1>3. FedBy(m, h, Q) => FedBy(m, h, R)
    BY <1>2 DEF FedBy
  <1>4. ASSUME NEW D \in Seq(Write), NEW w \in Write, UpToDate(D, h, Q)
        PROVE  UpToDate(Append(D, w), h, R)
    <2>1. Len(Append(D, w)) = Len(D) + 1
      BY DEF Write
    <2> QED
      BY <1>2, <1>4, <2>1 DEF UpToDate
  <1> QED
    BY <1>3, <1>4 DEF R

\* A replica is answered with a snapshot.
LEMMA FedSnapshot ==
    ASSUME NEW h, NEW Q \in Seq(Task), NEW t \in Task, t.type = "rdb"
    PROVE  /\ FedBy(t.from, h, Append(Q, t))
           /\ UpToDate(t.data, h, Append(Q, t))
  <1> DEFINE R == Append(Q, t)
  <1>1. /\ Len(Q) \in Nat /\ Len(R) = Len(Q) + 1 /\ R[Len(Q) + 1] = t
        /\ At(h, R, Len(Q) + 1) = t
    BY AppendAt
  <1> HIDE DEF R
  <1>2. ASSUME NEW j \in 0..Len(R), LatestRdb(h, R, j)
        PROVE  j = Len(R) /\ At(h, R, j) = t
    BY <1>1, <1>2 DEF LatestRdb, Commands
  <1>3. Len(t.data) \in Nat
    BY DEF Task
  <1>4. \A j \in 0..Len(R) : LatestRdb(h, R, j) =>
            Place(h, R, j, Len(R)) = Len(t.data)
    <2> DEFINE k == Len(t.data)
               n == Len(R)
    <2>1. k \in Nat /\ n \in Nat
      BY <1>1, <1>3
    <2> HIDE DEF k, n
    <2>2. k + (n - n) = k
      BY <2>1
    <2> QED
      BY <1>2, <2>2 DEF Place, k, n
  <1> QED
    BY <1>2, <1>4 DEF FedBy, UpToDate, R

\* A fed replica applies the first task.
LEMMA FedRun ==
    ASSUME NEW m, NEW h \in Snap, NEW Q \in Seq(Task), Q # <<>>,
           NEW g, RunsTo(h, Q, g),
           g.from = (IF Q[1].type = "rdb" THEN Q[1].from ELSE h.from)
    PROVE  /\ FedBy(m, h, Q) => FedBy(m, g, Tail(Q))
           /\ \A D : UpToDate(D, h, Q) => UpToDate(D, g, Tail(Q))
  <1> DEFINE T == Tail(Q)
  <1>1. /\ Len(Q) \in Nat /\ Len(Q) >= 1 /\ Len(T) = Len(Q) - 1
        /\ Q[1] \in Task
    BY TailAt
  <1> HIDE DEF T
  <1>2. ASSUME NEW j \in 0..Len(T), LatestRdb(g, T, j)
        PROVE  /\ Before(Q, j) \in 0..Len(Q) /\ LatestRdb(h, Q, Before(Q, j))
               /\ At(g, T, j).from = At(h, Q, Before(Q, j)).from
               /\ Place(g, T, j, Len(T)) = Place(h, Q, Before(Q, j), Len(Q))
    <2> DEFINE b == Before(Q, j)
    <2>1. /\ j \in 0..(Len(Q) - 1) /\ At(g, T, j).type = "rdb"
          /\ Len(T) \in j..(Len(Q) - 1) /\ Len(T) + 1 = Len(Q)
      BY <1>1, <1>2 DEF LatestRdb
    <2>2. /\ b \in 0..Len(Q) /\ At(h, Q, b).type = "rdb"
          /\ j # 0 => At(g, T, j).from = At(h, Q, b).from
          /\ \A i \in j..(Len(Q) - 1) :
                 /\ Place(g, T, j, i) = Place(h, Q, b, i + 1)
                 /\ Commands(T, j, i) => Commands(Q, b, i + 1)
      BY <2>1, RunAt DEF T
    <2>3. j = 0 => At(g, T, j).from = At(h, Q, b).from
      BY <1>1 DEF At, Before, Task
    <2>4. /\ Place(g, T, j, Len(T)) = Place(h, Q, b, Len(Q))
          /\ Commands(Q, b, Len(Q))
      BY <1>2, <2>1, <2>2, Zenon DEF LatestRdb
    <2> QED
      BY <2>2, <2>3, <2>4 DEF LatestRdb
  <1> QED
    BY <1>2 DEF FedBy, UpToDate, T

\* The queue seen as posted tasks and tasks still in the stream.
LEMMA QueueType ==
    ASSUME NEW p \in Seq(Task), NEW f \in Seq(Task)
    PROVE  /\ p \o f \in Seq(Task)
           /\ p \o <<>> = p
           /\ Len(p) <= Len(p \o f) /\ \A i \in 1..Len(p) : (p \o f)[i] = p[i]
  BY ConcatProperties, ConcatEmptySeq, LenProperties

\* A task enters the stream.
LEMMA QueueAppend ==
    ASSUME NEW p \in Seq(Task), NEW f \in Seq(Task), NEW t \in Task
    PROVE  p \o Append(f, t) = Append(p \o f, t)
  OBVIOUS

\* The thread posts the first task of the stream.
LEMMA QueuePost ==
    ASSUME NEW p \in Seq(Task), NEW f \in Seq(Task), f # <<>>
    PROVE  Append(p, Head(f)) \o Tail(f) = p \o f
  OBVIOUS

\* The event loop takes the first posted task.
LEMMA QueueRun ==
    ASSUME NEW p \in Seq(Task), NEW f \in Seq(Task), p # <<>>
    PROVE  /\ Tail(p) \o f = Tail(p \o f)
           /\ (p \o f)[1] = Head(p)
           /\ p \o f # <<>>
  OBVIOUS

-----------------------------------------------------------------------------
(***************************************************************************)
(* The invariant.                                                          *)
(***************************************************************************)
Pending(s) == posted[s] \o feed[s]

\* Without a master the keyspace is the server's own.
Source(s) == IF role[s] = None THEN None ELSE shows[s]

Shown(s) == [type |-> "rdb", from |-> Source(s), data |-> data[s]]

Pristine ==
    \A x \in Server \ demoted : role[x] = None /\ posted[x] = <<>>

Links ==
    /\ \A s, m \in Server :
           s \in fed[m] => role[s] = m /\ thread[s] \in {"waiting", "connected"}
    /\ \A s \in Server : feed[s] # <<>> => \E m \in Server : s \in fed[m]

Tasks ==
    /\ \A s \in Server : \A x \in Server \ demoted :
           Good(x, data[x], Shown(s), Pending(s))
    /\ \A m \in Server : \A s \in fed[m] : FedBy(m, Shown(s), Pending(s))
    /\ \A m \in Server \ demoted : \A s \in fed[m] :
           UpToDate(data[m], Shown(s), Pending(s))

IInv == TypeOK /\ Unlinked /\ Pristine /\ Links /\ Tasks

-----------------------------------------------------------------------------
(***************************************************************************)
(* The invariant is inductive: one lemma for each kind of step.            *)
(***************************************************************************)
LEMMA PristineLinksInductive ==
    ASSUME TypeOK, Unlinked, Pristine, Links, [Next]_vars
    PROVE  Pristine' /\ Links'
  <1>1. CASE UNCHANGED vars
    BY <1>1 DEF Pristine, Links, vars, roleVars, linkVars
  <1>2. ASSUME NEW s \in Server, ClientWrite(s)
        PROVE  Pristine' /\ Links'
    <2>1. \A r \in Server : feed'[r] # <<>> => \E m \in Server : r \in fed[m]
      BY <1>2 DEF ClientWrite, Links, TypeOK
    <2> QED
      BY <1>2, <2>1 DEF ClientWrite, Pristine, Links, roleVars
  <1>3. ASSUME NEW s \in Server, NEW m \in Server \cup {None}, Replicaof(s, m)
        PROVE  Pristine' /\ Links'
    BY <1>3 DEF Replicaof, Pristine, Links, linkVars
  <1>4. ASSUME NEW s \in Server, JoinReturns(s)
        PROVE  Pristine' /\ Links'
    <2>1. Pristine'
      BY <1>4 DEF JoinReturns, Pristine, TypeOK
    <2>2. \A m \in Server : s \notin fed[m]
      BY <1>4 DEF JoinReturns, MayReturn, Links
    <2>3. \A r \in Server \ {s} : role'[r] = role[r] /\ thread'[r] = thread[r]
      BY <1>4 DEF JoinReturns, TypeOK
    <2>4. UNCHANGED <<feed, fed>>
      BY <1>4 DEF JoinReturns
    <2> QED
      BY <2>1, <2>2, <2>3, <2>4 DEF Links
  <1>5. ASSUME NEW m \in Server, NEW s \in Server, Answer(m, s)
        PROVE  Pristine' /\ Links'
    <2>1. UNCHANGED <<role, thread, posted, demoted>>
      BY <1>5 DEF Answer, roleVars
    <2>2. \A r \in Server \ {s} : feed'[r] = feed[r]
      BY <1>5 DEF Answer, TypeOK
    <2>3. /\ s \in fed'[m] /\ role[s] = m /\ thread[s] = "waiting"
          /\ \A x, r \in Server : r \in fed'[x] => r \in fed[x] \/ (r = s /\ x = m)
          /\ \A x, r \in Server : r \in fed[x] => r \in fed'[x]
      BY <1>5 DEF Answer, TypeOK
    <2> QED
      BY <2>1, <2>2, <2>3 DEF Pristine, Links
  <1>6. ASSUME NEW s \in Server, RunPosted(s)
        PROVE  Pristine' /\ Links'
    BY <1>6 DEF RunPosted, Pristine, Links, TypeOK, roleVars, linkVars
  <1>7. ASSUME NEW s \in Server, Thread(s) \/ LinkBreaks(s)
        PROVE  Pristine' /\ Links'
    <2>1. /\ role[s] # None /\ UNCHANGED <<role, demoted>>
          /\ \A x \in Server \ {s} : thread'[x] = thread[x] /\ posted'[x] = posted[x]
                                                           /\ feed'[x] = feed[x]
      BY <1>7, Zenon, Zenon DEF Thread, Connect, ReadSnapshot, ReadStream, Streams, ThreadEnds,
                  LinkBreaks, Post, Disconnected, TypeOK, roleVars, Unlinked
    <2>2. Pristine'
      BY <2>1 DEF Pristine
    <2>3. CASE ThreadEnds(s) \/ LinkBreaks(s)
      <3>1. /\ feed'[s] = <<>>
            /\ \A m \in Server : fed'[m] = fed[m] \ {s}
        BY <2>3, Zenon DEF ThreadEnds, LinkBreaks, Disconnected, TypeOK
      <3> QED
        BY <2>1, <2>2, <3>1 DEF Links
    <2>4. CASE Connect(s) \/ ReadSnapshot(s) \/ ReadStream(s)
      <3>1. fed' = fed /\ (feed'[s] # <<>> => feed[s] # <<>>)
        BY <2>4 DEF Connect, ReadSnapshot, ReadStream, Post, TypeOK
      <3>2. (\E m \in Server : s \in fed[m]) => thread'[s] \in {"waiting", "connected"}
        BY <2>4 DEF Connect, ReadSnapshot, ReadStream, Post, Links, TypeOK
      <3> QED
        BY <2>1, <2>2, <3>1, <3>2 DEF Links
    <2> QED
      BY <1>7, <2>3, <2>4 DEF Thread
  <1> QED
    BY <1>1, <1>2, <1>3, <1>4, <1>5, <1>6, <1>7 DEF Next, EventLoop

\* The types of a server's queue and keyspace.
LEMMA QueueTypes ==
    ASSUME TypeOK, NEW s \in Server
    PROVE  /\ Shown(s) \in Snap /\ Pending(s) \in Seq(Task)
           /\ data[s] \in Seq(Write)
           /\ posted[s] \in Seq(Task) /\ feed[s] \in Seq(Task)
  <1>1. posted[s] \in Seq(Task) /\ feed[s] \in Seq(Task) /\ data[s] \in Seq(Write)
    BY DEF TypeOK
  <1>2. Pending(s) \in Seq(Task)
    BY <1>1, QueueType DEF Pending
  <1>3. Shown(s) \in Snap
    BY <1>1 DEF Shown, Snap, Source, TypeOK
  <1> QED
    BY <1>1, <1>2, <1>3

\* Nothing that Tasks looks at changes, except that s may no longer be fed, have
\* lost what was not posted, or no longer count as showing anybody's data.
LEMMA TasksShrink ==
    ASSUME TypeOK, Tasks, NEW s \in Server,
           data' = data, demoted \subseteq demoted',
           \A r \in Server \ {s} : Shown(r)' = Shown(r) /\ Pending(r)' = Pending(r),
           Shown(s)' = Shown(s) \/ Shown(s)'.from = None,
           Pending(s)' = Pending(s) \/ Pending(s)' = posted[s],
           \A m \in Server : fed'[m] \subseteq fed[m] \ {s}
    PROVE  Tasks'
  <1>1. ASSUME NEW r \in Server, NEW x \in Server \ demoted'
        PROVE  Good(x, data'[x], Shown(r)', Pending(r)')
    <2>1. x \in Server \ demoted /\ Good(x, data[x], Shown(r), Pending(r))
      BY DEF Tasks
    <2>2. CASE r # s
      BY <2>1, <2>2
    <2>3. CASE r = s
      <3>1. Good(x, data[x], Shown(s), Pending(s)')
        <4>1. /\ posted[s] \in Seq(Task) /\ Len(posted[s]) <= Len(Pending(s))
              /\ \A i \in 1..Len(posted[s]) : posted[s][i] = Pending(s)[i]
          <5> DEFINE p == posted[s]
                     f == feed[s]
          <5>1. p \in Seq(Task) /\ f \in Seq(Task)
            BY QueueTypes
          <5> HIDE DEF p, f
          <5>2. Len(p) <= Len(p \o f) /\ \A i \in 1..Len(p) : p[i] = (p \o f)[i]
            BY <5>1, QueueType
          <5> QED
            BY <5>1, <5>2, Zenon DEF Pending, p, f
        <4>2. Good(x, data[x], Shown(s), posted[s])
          BY <2>1, <2>3, <4>1, QueueTypes, GoodCut, Zenon
        <4> QED
          BY <2>1, <2>3, <4>2
      <3>2. Pending(s)' \in Seq(Task)
        BY QueueTypes
      <3>3. CASE Shown(s)' = Shown(s)
        BY <2>3, <3>1, <3>3
      <3>4. CASE Shown(s)'.from = None
        <4>1. Shown(s)'.from # x
          BY <3>4
        <4>2. Good(x, data[x], Shown(s)', Pending(s)')
          BY <2>1, <3>1, <3>2, <4>1, QueueTypes, GoodForget
        <4> QED
          BY <2>3, <4>2
      <3> QED
        BY <3>3, <3>4
    <2> QED
      BY <2>2, <2>3
  <1>2. ASSUME NEW m \in Server, NEW r \in fed'[m]
        PROVE  /\ r \in fed[m] /\ r \in Server
               /\ Shown(r)' = Shown(r) /\ Pending(r)' = Pending(r)
    BY DEF TypeOK
  <1>3. \A m \in Server : \A r \in fed'[m] : FedBy(m, Shown(r)', Pending(r)')
    BY <1>2 DEF Tasks
  <1>4. \A m \in Server \ demoted' : \A r \in fed'[m] :
            UpToDate(data'[m], Shown(r)', Pending(r)')
    BY <1>2 DEF Tasks
  <1> QED
    BY <1>1, <1>3, <1>4 DEF Tasks

\* Nothing that Tasks looks at changes: a task has only been handed on.
LEMMA TasksKeep ==
    ASSUME Tasks, data' = data, demoted' = demoted, fed' = fed,
           \A r \in Server : Shown(r)' = Shown(r) /\ Pending(r)' = Pending(r),
           TypeOK
    PROVE  Tasks'
  <1>1. \A m \in Server : fed[m] \subseteq Server
    BY Zenon, Zenon DEF TypeOK
  <1> QED
    BY <1>1 DEF Tasks

\* The master answers PSYNC: a snapshot of all its writes enters the stream.
LEMMA TasksAnswer ==
    ASSUME TypeOK, Links, Tasks, NEW m \in Server, NEW s \in Server, Answer(m, s)
    PROVE  Tasks'
  <1> DEFINE t == [type |-> "rdb", from |-> m, data |-> data[m]]
             p == posted[s]
  <1>1. /\ UNCHANGED <<role, shows, data, demoted, posted>>
        /\ \A r \in Server \ {s} : feed'[r] = feed[r]
        /\ feed'[s] = <<t>>
        /\ role[s] = m
        /\ \A x, r \in Server : r \in fed'[x] => r \in fed[x] \/ (r = s /\ x = m)
    BY DEF Answer, TypeOK, roleVars
  <1>2. \A x \in Server : s \notin fed[x]
    BY DEF Answer, Links
  <1>3. feed[s] = <<>>
    BY <1>2, Zenon, Zenon DEF Links
  <1>4. t \in Task /\ p \in Seq(Task) /\ data[m] \in Seq(Write)
    BY QueueTypes DEF Task
  <1>5. Pending(s) = p /\ Pending(s)' = Append(p, t)
    <2>1. p \o <<>> = p /\ p \o <<t>> = Append(p, t)
      <3> HIDE DEF p, t
      <3> QED
        BY <1>4
    <2> QED
      BY <1>1, <1>3, <2>1 DEF Pending
  <1>6. /\ \A r \in Server : Shown(r)' = Shown(r)
        /\ \A r \in Server \ {s} : Pending(r)' = Pending(r)
    BY <1>1, Zenon DEF Shown, Source, Pending
  <1>7. ASSUME NEW r \in Server, NEW x \in Server \ demoted'
        PROVE  Good(x, data'[x], Shown(r)', Pending(r)')
    <2>1. x \in Server \ demoted /\ Good(x, data[x], Shown(r), Pending(r))
      BY <1>1 DEF Tasks
    <2>2. CASE r # s
      BY <1>1, <1>6, <2>1, <2>2
    <2>3. CASE r = s
      <3>1. t.type = "rdb" /\ t.from = m /\ t.data = data[m]
        OBVIOUS
      <3>2. t.from = x => Begins(t.data, data[x])
        BY <1>4, <3>1 DEF Begins
      <3>3. Good(x, data[x], Shown(s), Append(p, t))
        <4> HIDE DEF t, p
        <4> QED
          BY <1>4, <1>5, <2>1, <2>3, <3>1, <3>2, QueueTypes, GoodSnapshot
      <3> QED
        BY <1>1, <1>5, <1>6, <2>3, <3>3, Zenon
    <2> QED
      BY <2>2, <2>3, Zenon
  <1>8. /\ FedBy(m, Shown(s)', Pending(s)')
        /\ UpToDate(data[m], Shown(s)', Pending(s)')
    <2>1. t.type = "rdb" /\ t.from = m /\ t.data = data[m]
      OBVIOUS
    <2> HIDE DEF t, p
    <2> QED
      BY <1>4, <1>5, <2>1, FedSnapshot, Zenon
  <1>9. ASSUME NEW x \in Server, NEW r \in fed'[x]
        PROVE  /\ FedBy(x, Shown(r)', Pending(r)')
               /\ x \notin demoted' => UpToDate(data'[x], Shown(r)', Pending(r)')
    <2>1. r \in Server
      BY NextTypeOK, Zenon DEF Next, EventLoop, TypeOK
    <2>2. CASE r \in fed[x]
      <3>1. r # s
        BY <1>2, <2>2
      <3> QED
        BY <1>1, <1>6, <2>1, <2>2, <3>1 DEF Tasks
    <2>3. CASE r = s /\ x = m
      BY <1>1, <1>8, <2>3
    <2> QED
      BY <1>1, <2>1, <2>2, <2>3
  <1> QED
    BY <1>7, <1>9 DEF Tasks

\* The event loop runs the first posted task.
LEMMA TasksRun ==
    ASSUME TypeOK, Pristine, Links, Tasks, NEW s \in Server, RunPosted(s)
    PROVE  Tasks'
  <1> DEFINE Q == Pending(s)
             task == Head(posted[s])
             g == Shown(s)'
  <1>1. /\ UNCHANGED <<role, demoted, fed, feed>>
        /\ \A r \in Server \ {s} :
               data'[r] = data[r] /\ shows'[r] = shows[r] /\ posted'[r] = posted[r]
        /\ posted[s] # <<>> /\ posted'[s] = Tail(posted[s])
        /\ data'[s] = Applied(data[s], task)
        /\ shows'[s] = IF task.type = "rdb" THEN task.from ELSE shows[s]
    BY Zenon DEF RunPosted, TypeOK, roleVars, linkVars
  <1>2. Q # <<>> /\ Q \in Seq(Task) /\ Q[1] = task /\ Pending(s)' = Tail(Q)
    <2> DEFINE p == posted[s]
               f == feed[s]
    <2>1. p \in Seq(Task) /\ f \in Seq(Task) /\ p # <<>>
      BY <1>1, QueueTypes
    <2> HIDE DEF p, f
    <2>2. Tail(p) \o f = Tail(p \o f) /\ (p \o f)[1] = Head(p) /\ p \o f # <<>>
      BY <2>1, QueueRun, Zenon
    <2> QED
      BY <1>1, <2>2, QueueTypes, ZenonT(30) DEF Pending, p, f
  <1>3. \A r \in Server \ {s} : Shown(r)' = Shown(r) /\ Pending(r)' = Pending(r)
    BY <1>1, Zenon DEF Shown, Source, Pending
  <1>4. TypeOK'
    BY NextTypeOK DEF Next, EventLoop
  <1>5. g \in Snap
    BY <1>1, <1>4, Zenon, Zenon DEF Shown, Snap, Source, TypeOK
  <1>6. /\ g.data = Applied(Shown(s).data, Q[1])
        /\ role[s] # None =>
               g.from = (IF Q[1].type = "rdb" THEN Q[1].from ELSE Shown(s).from)
        /\ role[s] = None => g.from = None
    BY <1>1, <1>2, Zenon DEF Shown, Source
  <1>7. RunsTo(Shown(s), Q, g)
    BY <1>5, <1>6 DEF RunsTo
  <1> HIDE DEF Q, g
  <1>8. ASSUME NEW r \in Server, NEW x \in Server \ demoted'
        PROVE  Good(x, data'[x], Shown(r)', Pending(r)')
    <2>1. x # s
      BY <1>1, Zenon DEF Pristine
    <2>2. data'[x] = data[x] /\ Good(x, data[x], Shown(r), Pending(r))
      BY <1>1, <2>1 DEF Tasks
    <2>3. CASE r # s
      BY <1>3, <2>2, <2>3
    <2>4. CASE r = s
      <3>1. Good(x, data[x], Shown(s), Q)
        BY <2>2, <2>4 DEF Q
      <3>2. Good(x, data[x], g, Tail(Q))
        BY <1>2, <1>7, <3>1, QueueTypes, GoodRun
      <3> QED
        BY <1>2, <2>2, <2>4, <3>2, Zenon DEF g
    <2> QED
      BY <2>3, <2>4
  <1>9. ASSUME NEW x \in Server, NEW r \in fed'[x]
        PROVE  /\ FedBy(x, Shown(r)', Pending(r)')
               /\ x \notin demoted' => UpToDate(data'[x], Shown(r)', Pending(r)')
    <2>1. r \in Server /\ r \in fed[x]
      BY <1>1, Zenon DEF TypeOK
    <2>2. x \notin demoted' => x # s /\ data'[x] = data[x]
      BY <1>1, Zenon, Zenon DEF Pristine
    <2>3. CASE r # s
      BY <1>1, <1>3, <2>1, <2>2, <2>3, Zenon DEF Tasks
    <2>4. CASE r = s
      <3>1. role[s] # None
        BY <2>1, <2>4 DEF Links
      <3>2. FedBy(x, Shown(s), Q) /\ (x \notin demoted => UpToDate(data[x], Shown(s), Q))
        BY <2>1, <2>4 DEF Tasks, Q
      <3>3. /\ FedBy(x, g, Tail(Q))
            /\ x \notin demoted => UpToDate(data[x], g, Tail(Q))
        BY <1>2, <1>6, <1>7, <3>1, <3>2, QueueTypes, FedRun, ZenonT(30)
      <3> QED
        BY <1>1, <1>2, <2>2, <2>4, <3>3, Zenon DEF g
    <2> QED
      BY <2>3, <2>4
  <1> QED
    BY <1>8, <1>9 DEF Tasks

\* A client writes on m: the write enters the stream of every replica m feeds.
LEMMA TasksWrite ==
    ASSUME TypeOK, Links, Tasks, NEW m \in Server, ClientWrite(m)
    PROVE  Tasks'
  <1> DEFINE w == [from |-> m, n |-> writes + 1]
             t == [type |-> "cmd", write |-> w]
  <1>1. /\ role[m] = None
        /\ UNCHANGED <<role, shows, demoted, posted, fed>>
        /\ data'[m] = Append(data[m], w)
        /\ \A r \in Server \ {m} : data'[r] = data[r]
        /\ \A r \in Server : feed'[r] = IF r \in fed[m] THEN Append(feed[r], t)
                                                        ELSE feed[r]
    BY Zenon DEF ClientWrite, MayWrite, TypeOK, roleVars
  <1>2. w \in Write /\ t \in Task /\ t.type = "cmd" /\ t.write = w
    BY DEF ClientWrite, Write, Task, TypeOK
  <1> HIDE DEF w, t
  <1>3. ASSUME NEW x \in Server, NEW r \in fed[x]
        PROVE  r \in Server /\ r # m /\ (x # m => r \notin fed[m])
    BY <1>1 DEF Links, TypeOK
  <1>4. /\ \A r \in Server \ {m} : Shown(r)' = Shown(r)
        /\ Shown(m)'.from = None
    BY <1>1 DEF Shown, Source
  <1>5. ASSUME NEW r \in Server
        PROVE  Pending(r)' = IF r \in fed[m] THEN Append(Pending(r), t) ELSE Pending(r)
    <2> DEFINE p == posted[r]
               f == feed[r]
    <2>1. p \in Seq(Task) /\ f \in Seq(Task)
      BY QueueTypes
    <2> HIDE DEF p, f
    <2>2. p \o Append(f, t) = Append(p \o f, t)
      BY <1>2, <2>1, QueueAppend
    <2> QED
      BY <1>1, <2>2, Zenon DEF Pending, p, f
  <1>6. ASSUME NEW D \in Seq(Write)
        PROVE  /\ Append(D, w) \in Seq(Write) /\ Len(D) \in Nat
               /\ Len(Append(D, w)) = Len(D) + 1
               /\ Append(D, w)[Len(D) + 1] = w
    BY <1>2
  <1>7. ASSUME NEW r \in Server, NEW x \in Server \ demoted'
        PROVE  Good(x, data'[x], Shown(r)', Pending(r)')
    <2> DEFINE D == data[x]
               E == data'[x]
    <2>1. /\ D \in Seq(Write) /\ Shown(r) \in Snap /\ Pending(r) \in Seq(Task)
          /\ Good(x, D, Shown(r), Pending(r))
      BY <1>1, QueueTypes DEF Tasks
    <2>2. E = IF x = m THEN Append(D, w) ELSE D
      BY <1>1, Zenon
    <2>3. E \in Seq(Write)
      BY <1>6, <2>1, <2>2
    <2>4. Good(x, E, Shown(r), Pending(r))
      BY <1>2, <2>1, <2>2, GoodGrow
    <2> HIDE DEF D, E
    <2>5. CASE r = m
      <3>1. r \notin fed[m] /\ Shown(r)'.from # x
        BY <1>3, <1>4, <2>5
      <3>2. Good(x, E, Shown(r)', Pending(r))
        BY <2>1, <2>3, <2>4, <3>1, GoodForget
      <3> QED
        BY <1>5, <3>1, <3>2 DEF E
    <2>6. CASE r # m /\ r \notin fed[m]
      BY <1>4, <1>5, <2>4, <2>6 DEF E
    <2>7. CASE r # m /\ r \in fed[m]
      <3>1. ASSUME NEW j \in 0..Len(Pending(r)), LatestRdb(Shown(r), Pending(r), j),
                   At(Shown(r), Pending(r), j).from = x
            PROVE  LET n == Place(Shown(r), Pending(r), j, Len(Pending(r)))
                   IN  n + 1 <= Len(E) /\ t.write = E[n + 1]
        <4>1. x = m
          BY <2>7, <3>1, Zenon DEF Tasks, FedBy
        <4>2. Place(Shown(r), Pending(r), j, Len(Pending(r))) = Len(D)
          BY <1>1, <2>7, <3>1, <4>1, Zenon DEF Tasks, UpToDate, D
        <4> QED
          BY <1>2, <1>6, <2>1, <2>2, <4>1, <4>2
      <3>2. Good(x, E, Shown(r), Append(Pending(r), t))
        BY <1>2, <2>1, <2>3, <2>4, <3>1, GoodCommand, ZenonT(30)
      <3> QED
        BY <1>4, <1>5, <2>7, <3>2, Zenon DEF E
    <2> QED
      BY <2>5, <2>6, <2>7
  <1>8. ASSUME NEW x \in Server, NEW r \in fed'[x]
        PROVE  /\ FedBy(x, Shown(r)', Pending(r)')
               /\ x \notin demoted' => UpToDate(data'[x], Shown(r)', Pending(r)')
    <2>1. r \in Server /\ r \in fed[x] /\ r # m /\ (x # m => r \notin fed[m])
      BY <1>1, <1>3, Zenon
    <2>2. /\ Shown(r)' = Shown(r) /\ Shown(r) \in Snap /\ Pending(r) \in Seq(Task)
          /\ FedBy(x, Shown(r), Pending(r))
          /\ x \notin demoted => UpToDate(data[x], Shown(r), Pending(r))
      BY <1>4, <2>1, QueueTypes, Zenon DEF Tasks
    <2>3. CASE x = m
      <3>1. FedBy(x, Shown(r), Append(Pending(r), t))
        BY <1>2, <2>2, FedCommand
      <3>2. x \notin demoted =>
                UpToDate(Append(data[x], w), Shown(r), Append(Pending(r), t))
        BY <1>2, <2>2, FedCommand, QueueTypes, Zenon
      <3> QED
        BY <1>1, <1>5, <2>1, <2>2, <2>3, <3>1, <3>2, Zenon
    <2>4. CASE x # m
      BY <1>1, <1>5, <2>1, <2>2, <2>4
    <2> QED
      BY <2>3, <2>4, Zenon
  <1> QED
    BY <1>7, <1>8 DEF Tasks

\* All the steps together.
LEMMA IInvInductive ==
    ASSUME IInv, [Next]_vars
    PROVE  IInv'
  <1> USE DEF IInv
  <1>1. TypeOK' /\ Unlinked' /\ Pristine' /\ Links'
    BY NextTypeOK, UnlinkedInductive, PristineLinksInductive
  <1>2. CASE UNCHANGED vars
    <2>1. UNCHANGED <<data, demoted, fed>>
      BY <1>2 DEF vars, roleVars, linkVars
    <2>2. \A r \in Server : Shown(r)' = Shown(r) /\ Pending(r)' = Pending(r)
      BY <1>2 DEF Shown, Source, Pending, vars, roleVars, linkVars
    <2> QED
      BY <1>1, <2>1, <2>2, TasksKeep
  <1>3. ASSUME NEW s \in Server, NEW m \in Server \cup {None}, Replicaof(s, m)
        PROVE  Tasks'
    <2>1. UNCHANGED <<data, demoted, fed>>
      BY <1>3 DEF Replicaof, linkVars
    <2>2. \A r \in Server : Shown(r)' = Shown(r) /\ Pending(r)' = Pending(r)
      BY <1>3 DEF Replicaof, Shown, Source, Pending, linkVars
    <2> QED
      BY <2>1, <2>2, TasksKeep
  <1>4. ASSUME NEW s \in Server, JoinReturns(s)
        PROVE  Tasks'
    <2>1. data' = data /\ demoted \subseteq demoted' /\ UNCHANGED <<fed, posted, feed>>
      BY <1>4 DEF JoinReturns
    <2>2. \A m \in Server : s \notin fed[m]
      BY <1>4 DEF JoinReturns, MayReturn, Links
    <2>3. \A r \in Server \ {s} : role'[r] = role[r] /\ shows'[r] = shows[r]
      BY <1>4 DEF JoinReturns, TypeOK
    <2>4. shows'[s] = None
      BY <1>4 DEF JoinReturns, TypeOK
    <2>5. /\ \A r \in Server \ {s} : Shown(r)' = Shown(r)
          /\ \A r \in Server : Pending(r)' = Pending(r)
          /\ Shown(s)'.from = None
      BY <2>1, <2>3, <2>4 DEF Shown, Source, Pending
    <2> QED
      BY <2>1, <2>2, <2>5, TasksShrink
  <1>5. ASSUME NEW s \in Server, Connect(s) \/ ReadSnapshot(s) \/ ReadStream(s)
        PROVE  Tasks'
    <2>1. UNCHANGED <<role, shows, data, demoted, fed>>
      BY <1>5 DEF Connect, ReadSnapshot, ReadStream, Post, roleVars
    <2>2. ASSUME NEW r \in Server
          PROVE  Pending(r)' = Pending(r)
      <3>1. CASE UNCHANGED <<posted, feed>>
        BY <3>1 DEF Pending
      <3>2. CASE Post(s) /\ r # s
        BY <3>2 DEF Post, Pending, TypeOK
      <3>3. CASE Post(s) /\ r = s
        <4> DEFINE p == posted[s]
                   f == feed[s]
        <4>1. p \in Seq(Task) /\ f \in Seq(Task) /\ f # <<>>
          BY <3>3, QueueTypes DEF Post
        <4>2. posted'[s] = Append(p, Head(f)) /\ feed'[s] = Tail(f)
          BY <3>3 DEF Post, ToPost, TypeOK
        <4> HIDE DEF p, f
        <4>3. Append(p, Head(f)) \o Tail(f) = p \o f
          BY <4>1, QueuePost, Zenon
        <4> QED
          BY <3>3, <4>2, <4>3, Zenon DEF Pending, p, f
      <3> QED
        BY <1>5, <3>1, <3>2, <3>3 DEF Connect, ReadSnapshot, ReadStream
    <2>3. \A r \in Server : Shown(r)' = Shown(r)
      BY <2>1 DEF Shown, Source
    <2> QED
      BY <2>1, <2>2, <2>3, TasksKeep
  <1>6. ASSUME NEW s \in Server, ThreadEnds(s) \/ LinkBreaks(s)
        PROVE  Tasks'
    <2>1. /\ UNCHANGED <<role, shows, data, demoted, posted>>
          /\ feed' = [feed EXCEPT ![s] = <<>>]
          /\ fed' = [m \in Server |-> fed[m] \ {s}]
      BY <1>6 DEF ThreadEnds, LinkBreaks, Disconnected, roleVars
    <2>2. \A r \in Server : Shown(r)' = Shown(r)
      BY <2>1 DEF Shown, Source
    <2>3. \A r \in Server \ {s} : Pending(r)' = Pending(r)
      BY <2>1 DEF Pending, TypeOK
    <2>4. Pending(s)' = posted[s]
      <3>1. posted[s] \in Seq(Task)
        BY QueueTypes
      <3>2. posted[s] \o <<>> = posted[s]
        BY <3>1, ConcatEmptySeq
      <3>3. posted'[s] = posted[s] /\ feed'[s] = <<>>
        BY <2>1, Zenon, Zenon DEF TypeOK
      <3> QED
        BY <3>2, <3>3 DEF Pending
    <2>5. \A m \in Server : fed'[m] \subseteq fed[m] \ {s}
      BY <2>1
    <2> QED
      BY <2>1, <2>2, <2>3, <2>4, <2>5, TasksShrink
  <1>7. Next => Tasks'
    BY <1>3, <1>4, <1>5, <1>6, TasksWrite, TasksAnswer, TasksRun, Zenon, Zenon DEF Next, EventLoop, Thread
  <1> QED
    BY <1>1, <1>2, <1>7

\* Nobody has a master at first.
LEMMA InitIInv == Init => IInv
  <1> SUFFICES ASSUME Init PROVE IInv
    OBVIOUS
  <1>1. TypeOK
    BY InitTypeOK
  <1>2. Unlinked /\ Pristine /\ Links
    BY Zenon, Zenon DEF Init, Unlinked, Pristine, Links
  <1>3. ASSUME NEW s \in Server, NEW x \in Server
        PROVE  Good(x, data[x], Shown(s), Pending(s))
    <2>1. Shown(s).from = None /\ x # None
      BY DEF Init, Shown, Source
    <2>2. Pending(s) = <<>>
      <3>1. posted[s] = <<>> /\ feed[s] = <<>>
        BY DEF Init
      <3> QED
        BY <3>1 DEF Pending
    <2>3. \A j \in 0..Len(Pending(s)) : j = 0
      BY <2>2
    <2> QED
      BY <2>1, <2>3 DEF Good, From, At
  <1>4. \A m \in Server : fed[m] = {}
    BY DEF Init
  <1> QED
    BY <1>1, <1>2, <1>3, <1>4 DEF IInv, Tasks

\* Begins is what FollowsMaster says, without SubSeq.
LEMMA BeginsIsPrefix ==
    ASSUME NEW S, NEW d \in Seq(S), NEW D \in Seq(S), Begins(d, D)
    PROVE  IsPrefix(d, D)
  <1>1. Len(d) \in Nat /\ Len(D) \in Nat /\ Len(d) <= Len(D)
    BY DEF Begins
  <1>2. \A i \in 1..Len(d) : D[i] \in S
    BY <1>1
  <1>3. /\ SubSeq(D, 1, Len(d)) \in Seq(S) /\ Len(SubSeq(D, 1, Len(d))) = Len(d)
        /\ \A i \in 1..Len(d) : SubSeq(D, 1, Len(d))[i] = D[i]
    BY <1>1
  <1>4. SubSeq(D, 1, Len(d)) = d
    BY <1>1, <1>3, SeqEqual DEF Begins
  <1>5. SubSeq(d, 1, Len(d)) = d
    BY SubSeqFull
  <1> QED
    BY <1>1, <1>4, <1>5 DEF IsPrefix

(***************************************************************************)
(* A replica that has loaded its master's snapshot shows a prefix of the   *)
(* master's writes, whatever roles it had before, however often its links  *)
(* broke, and whichever tasks of old links were still posted when it took  *)
(* its role (replica_thread's posts, dispatch's READONLY, propagate).      *)
(***************************************************************************)
THEOREM AlwaysFollowsMaster == Spec => []FollowsMaster
  <1>1. IInv => FollowsMaster
    <2> SUFFICES ASSUME IInv, NEW s \in Server, role[s] # None,
                        shows[s] = role[s], role[s] \notin demoted
                 PROVE  IsPrefix(data[s], data[role[s]])
      BY DEF FollowsMaster
    <2> DEFINE x == role[s]
    <2>1. x \in Server \ demoted /\ data[s] \in Seq(Write) /\ data[x] \in Seq(Write)
      BY DEF IInv, TypeOK
    <2>2. Good(x, data[x], Shown(s), Pending(s))
      BY <2>1 DEF IInv, Tasks
    <2>3. /\ At(Shown(s), Pending(s), 0).data = data[s]
          /\ From(x, Shown(s), Pending(s), 0)
      BY DEF From, At, Shown, Source
    <2>4. 0 \in 0..Len(Pending(s))
      BY QueueTypes DEF IInv
    <2>5. Begins(data[s], data[x])
      BY <2>2, <2>3, <2>4 DEF Good
    <2> QED
      BY <2>1, <2>5, BeginsIsPrefix
  <1> QED
    BY <1>1, InitIInv, IInvInductive, PTL DEF Spec
=============================================================================
