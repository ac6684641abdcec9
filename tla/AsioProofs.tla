----------------------------- MODULE AsioProofs -----------------------------
(***************************************************************************)
(* The Buffer that connections read into and write from, the invariant of  *)
(* both backends, what executing requests does to it, and the steps of the *)
(* clients and of the asio backend.                                        *)
(*                                                                         *)
(* The invariant says of each connection where its bytes are: every unit a *)
(* client has sent is in the socket, in scratch_, in the input buffer or   *)
(* executed (UnitsOK), and what was queued for it continues, from out_ to  *)
(* pending_, exactly where the network ends (QueueOK).  It says of the     *)
(* server that the gauge counts the open connections and that a link is    *)
(* fed only behind its PSYNC (ServerOK), and of the sweep of the poll      *)
(* backend that it only touches open connections (SweepOK).  A handler     *)
(* runs many requests in one step, so the parts about the server's state   *)
(* are predicates of a state w, which hold between two requests as well.   *)
(***************************************************************************)
EXTENDS Backends, Buffer, Induction, FiniteSetTheorems

-----------------------------------------------------------------------------
(***************************************************************************)
(* The Buffer, for every kind of byte, every threshold and every buffer a  *)
(* sequence of its operations can leave behind: each operation maps        *)
(* BufferOf(B) to itself, and on the readable bytes it is an operation of  *)
(* a queue.                                                                *)
(***************************************************************************)
\* What two sequences make behind each other.
LEMMA Concatenation ==
    ASSUME NEW B, NEW s \in Seq(B), NEW x \in Seq(B)
    PROVE  /\ s \o x \in Seq(B)
           /\ Len(s \o x) = Len(s) + Len(x)
           /\ \A i \in 1..(Len(s) + Len(x)) :
                  (s \o x)[i] = IF i <= Len(s) THEN s[i] ELSE x[i - Len(s)]
  OBVIOUS

\* Sequences with the same elements are the same.
LEMMA SameSequence ==
    ASSUME NEW B, NEW s \in Seq(B), NEW t \in Seq(B), Len(s) = Len(t),
           \A i \in 1..Len(s) : s[i] = t[i]
    PROVE  s = t
  OBVIOUS

\* What a suffix of a sequence is: its length and its elements.
LEMMA Suffix ==
    ASSUME NEW B, NEW s \in Seq(B), NEW p \in Nat, NEW n \in Nat,
           p <= n, n = Len(s)
    PROVE  /\ SubSeq(s, p + 1, n) \in Seq(B)
           /\ Len(SubSeq(s, p + 1, n)) = n - p
           /\ \A i \in 1..(n - p) : SubSeq(s, p + 1, n)[i] = s[p + i]
  <1> DEFINE m == p + 1
  <1>1. m \in Int /\ n \in Int /\ m - 1 = p
    OBVIOUS
  <1>2. \A i \in m..n : s[i] \in B
    OBVIOUS
  <1> HIDE DEF m
  <1>3. /\ SubSeq(s, m, n) \in Seq(B)
        /\ Len(SubSeq(s, m, n)) = IF m <= n THEN n - m + 1 ELSE 0
        /\ \A i \in 1..(n - m + 1) : SubSeq(s, m, n)[i] = s[m + i - 1]
    BY <1>1, <1>2
  <1>4. Len(SubSeq(s, m, n)) = n - p
    BY <1>1, <1>3
  <1>5. ASSUME NEW i \in 1..(n - p)
        PROVE  SubSeq(s, m, n)[i] = s[p + i]
    <2>1. i \in 1..(n - m + 1) /\ m + i - 1 = p + i
      BY <1>1
    <2>2. SubSeq(s, m, n)[i] = s[m + i - 1]
      BY <1>3, <2>1
    <2> QED
      BY <2>1, <2>2
  <1>6. \A i \in 1..(n - p) : SubSeq(s, m, n)[i] = s[p + i]
    BY <1>5, Zenon
  <1>7. /\ SubSeq(s, m, n) \in Seq(B)
        /\ Len(SubSeq(s, m, n)) = n - p
        /\ \A i \in 1..(n - p) : SubSeq(s, m, n)[i] = s[p + i]
    BY <1>3, <1>4, <1>6
  <1> QED
    BY <1>7 DEF m

\* What readable() returns: the bytes behind the read position.
LEMMA ReadableBytes ==
    ASSUME NEW B, NEW b \in BufferOf(B)
    PROVE  /\ readable(b) \in Seq(B)
           /\ Len(readable(b)) = size(b)
           /\ size(b) \in Nat
           /\ \A i \in 1..size(b) : readable(b)[i] = b.data[b.read_pos + i]
  <1>1. /\ b.data \in Seq(B)
        /\ b.read_pos \in Nat
        /\ b.read_pos <= Len(b.data)
        /\ Len(b.data) \in Nat
    BY DEF BufferOf
  <1>2. size(b) \in Nat
    BY <1>1 DEF size
  <1> DEFINE s == b.data
             p == b.read_pos
             n == Len(b.data)
  <1>3. s \in Seq(B) /\ p \in Nat /\ n \in Nat /\ p <= n /\ n = Len(s)
    BY <1>1
  <1>4. readable(b) = SubSeq(s, p + 1, n) /\ size(b) = n - p
    BY DEF readable, size
  <1> HIDE DEF s, p, n
  <1>5. /\ SubSeq(s, p + 1, n) \in Seq(B)
        /\ Len(SubSeq(s, p + 1, n)) = n - p
        /\ \A i \in 1..(n - p) : SubSeq(s, p + 1, n)[i] = s[p + i]
    BY <1>3, Suffix
  <1>6. /\ readable(b) \in Seq(B)
        /\ Len(readable(b)) = size(b)
        /\ \A i \in 1..size(b) : readable(b)[i] = s[p + i]
    BY <1>4, <1>5
  <1> QED
    BY <1>2, <1>6 DEF s, p

\* reclaim() moves bytes and changes none that is readable.
LEMMA ReclaimKeeps ==
    ASSUME NEW B, NEW b \in BufferOf(B)
    PROVE  /\ reclaim(b) \in BufferOf(B)
           /\ readable(reclaim(b)) = readable(b)
           /\ reclaim(b).read_pos < kReclaimThreshold
  <1>1. CASE b.read_pos = 0 \/ MayWait(b)
    <2>1. reclaim(b) = b
      BY <1>1 DEF reclaim
    <2>2. b.read_pos < kReclaimThreshold
      <3>1. CASE b.read_pos = 0
        BY <3>1, BufferAssumption
      <3>2. CASE MayWait(b)
        BY <3>2 DEF MayWait
      <3> QED
        BY <1>1, <3>1, <3>2
    <2> QED
      BY <2>1, <2>2
  <1>2. CASE ~(b.read_pos = 0 \/ MayWait(b))
    <2>1. reclaim(b) = [data |-> readable(b), read_pos |-> 0]
      BY <1>2 DEF reclaim
    <2>2. readable(b) \in Seq(B) /\ Len(readable(b)) \in Nat
      BY ReadableBytes
    <2>3. reclaim(b) \in BufferOf(B)
      BY <2>1, <2>2 DEF BufferOf
    <2>4. readable(reclaim(b)) = SubSeq(readable(b), 1, Len(readable(b)))
      <3> DEFINE unread == readable(b)
      <3>1. readable([data |-> unread, read_pos |-> 0])
                = SubSeq(unread, 0 + 1, Len(unread))
        <4> HIDE DEF unread
        <4> QED
          BY DEF readable
      <3> QED
        BY <2>1, <3>1
    <2>5. readable(reclaim(b)) = readable(b)
      BY <2>2, <2>4
    <2> QED
      BY <2>1, <2>3, <2>5, BufferAssumption
  <1> QED
    BY <1>1, <1>2

\* Appending to a sequence appends to each of its suffixes.
LEMMA SuffixOfConcat ==
    ASSUME NEW B, NEW s \in Seq(B), NEW x \in Seq(B),
           NEW p \in Nat, p <= Len(s)
    PROVE  SubSeq(s \o x, p + 1, Len(s \o x)) = SubSeq(s, p + 1, Len(s)) \o x
  <1> DEFINE t == s \o x
             n == Len(s)
             k == Len(x)
             left == SubSeq(t, p + 1, n + k)
             rest == SubSeq(s, p + 1, n)
             right == rest \o x
  <1>1. n \in Nat /\ k \in Nat
    OBVIOUS
  <1>2. /\ t \in Seq(B) /\ Len(t) = n + k
        /\ \A i \in 1..(n + k) : t[i] = IF i <= n THEN s[i] ELSE x[i - n]
    OBVIOUS
  <1>3. p <= n /\ p <= n + k /\ n + k \in Nat
    BY <1>1
  <1> HIDE DEF t, n, k
  <1>4. /\ left \in Seq(B)
        /\ Len(left) = (n + k) - p
        /\ \A i \in 1..((n + k) - p) : left[i] = t[p + i]
    <2> DEFINE end == n + k
    <2>1. t \in Seq(B) /\ end \in Nat /\ p <= end /\ end = Len(t)
      BY <1>2, <1>3
    <2> HIDE DEF end
    <2>2. /\ SubSeq(t, p + 1, end) \in Seq(B)
          /\ Len(SubSeq(t, p + 1, end)) = end - p
          /\ \A i \in 1..(end - p) : SubSeq(t, p + 1, end)[i] = t[p + i]
      BY <2>1, Suffix
    <2> QED
      BY <2>2 DEF end
  <1>5. /\ rest \in Seq(B)
        /\ Len(rest) = n - p
        /\ \A i \in 1..(n - p) : rest[i] = s[p + i]
    <2>1. n = Len(s)
      BY DEF n
    <2> QED
      BY <1>1, <1>3, <2>1, Suffix
  <1> HIDE DEF left, rest
  <1>7. /\ right \in Seq(B)
        /\ Len(right) = Len(rest) + k
        /\ \A i \in 1..(Len(rest) + k) :
               right[i] = IF i <= Len(rest) THEN rest[i] ELSE x[i - Len(rest)]
    BY <1>5, Concatenation, Zenon DEF k
  <1> HIDE DEF right
  <1>8. Len(rest) = n - p /\ Len(left) = n - p + k /\ Len(right) = n - p + k
    BY <1>1, <1>3, <1>4, <1>5, <1>7
  <1>9. ASSUME NEW i \in 1..(n - p + k)
        PROVE  left[i] = right[i]
    <2>1. left[i] = t[p + i] /\ p + i \in 1..(n + k) /\ i \in Int
      BY <1>1, <1>3, <1>4
    <2>2. CASE i <= n - p
      <3>1. t[p + i] = s[p + i]
        BY <1>1, <1>2, <2>1, <2>2
      <3>2. right[i] = rest[i]
        BY <1>1, <1>3, <1>7, <1>8, <2>2
      <3>3. rest[i] = s[p + i]
        BY <1>1, <1>3, <1>5, <2>2
      <3> QED
        BY <2>1, <3>1, <3>2, <3>3
    <2>3. CASE ~(i <= n - p)
      <3>1. t[p + i] = x[p + i - n]
        BY <1>1, <1>2, <2>1, <2>3
      <3>2. right[i] = x[i - (n - p)]
        BY <1>1, <1>3, <1>7, <1>8, <2>3
      <3>3. p + i - n = i - (n - p)
        BY <1>1, <2>1
      <3> QED
        BY <2>1, <3>1, <3>2, <3>3
    <2> QED
      BY <2>2, <2>3
  <1>10. left = right
    BY <1>4, <1>7, <1>8, <1>9
  <1> QED
    BY <1>2, <1>10, Zenon DEF left, right, rest, t, n, k

(***************************************************************************)
(* Buffer::append adds its bytes behind the readable ones and loses none,  *)
(* whether or not it reclaims, and afterwards the buffer holds fewer       *)
(* consumed bytes than the threshold, unless nothing was appended.         *)
(***************************************************************************)
THEOREM AppendIsEnqueue ==
    ASSUME NEW B, NEW b \in BufferOf(B), NEW x \in Seq(B)
    PROVE  /\ append(b, x) \in BufferOf(B)
           /\ readable(append(b, x)) = readable(b) \o x
           /\ x # <<>> => Len(append(b, x).data)
                              < size(b) + Len(x) + kReclaimThreshold
  <1>1. CASE x = <<>>
    <2>1. append(b, x) = b
      BY <1>1 DEF append
    <2>2. readable(b) \o x = readable(b)
      BY <1>1, ReadableBytes
    <2> QED
      BY <1>1, <2>1, <2>2
  <1>2. CASE x # <<>>
    <2> DEFINE r == reclaim(b)
               a == append(b, x)
    <2>1. /\ r \in BufferOf(B)
          /\ readable(r) = readable(b)
          /\ r.read_pos < kReclaimThreshold
      BY ReclaimKeeps
    <2>2. /\ r.data \in Seq(B) /\ r.read_pos \in Nat
          /\ r.read_pos <= Len(r.data) /\ Len(r.data) \in Nat /\ Len(x) \in Nat
      BY <2>1 DEF BufferOf
    <2>3. a.data = r.data \o x /\ a.read_pos = r.read_pos
          /\ a = [data |-> r.data \o x, read_pos |-> r.read_pos]
      BY <1>2, <2>1, Zenon DEF append, BufferOf
    <2>4. /\ r.data \o x \in Seq(B)
          /\ Len(r.data \o x) = Len(r.data) + Len(x)
          /\ \A i \in 1..(Len(r.data) + Len(x)) :
                 (r.data \o x)[i] = IF i <= Len(r.data) THEN r.data[i]
                                    ELSE x[i - Len(r.data)]
      BY <2>2
    <2>5. a \in BufferOf(B)
      BY <2>2, <2>3, <2>4 DEF BufferOf
    <2>6. size(r) = size(b)
      BY <2>1, ReadableBytes
    <2>7. size(a) = size(b) + Len(x)
      BY <2>2, <2>3, <2>4, <2>6 DEF size
    <2> HIDE DEF a, r
    <2>8. readable(a) = readable(b) \o x
      <3>1. readable(a) = SubSeq(r.data \o x, r.read_pos + 1, Len(r.data \o x))
        BY <2>3 DEF readable
      <3>2. readable(r) = SubSeq(r.data, r.read_pos + 1, Len(r.data))
        BY DEF readable
      <3> DEFINE d == r.data
                 p == r.read_pos
      <3>3. d \in Seq(B) /\ p \in Nat /\ p <= Len(d)
        BY <2>2
      <3>4. /\ readable(a) = SubSeq(d \o x, p + 1, Len(d \o x))
            /\ readable(b) = SubSeq(d, p + 1, Len(d))
        BY <2>1, <3>1, <3>2
      <3> HIDE DEF d, p
      <3>5. SubSeq(d \o x, p + 1, Len(d \o x)) = SubSeq(d, p + 1, Len(d)) \o x
        BY <3>3, SuffixOfConcat, Zenon
      <3> QED
        BY <3>4, <3>5, Zenon
    <2>9. Len(a.data) < size(b) + Len(x) + kReclaimThreshold
      BY <2>1, <2>2, <2>3, <2>4, <2>6, BufferAssumption DEF size
    <2> QED
      BY <2>5, <2>8, <2>9 DEF a
  <1> QED
    BY <1>1, <1>2

(***************************************************************************)
(* Buffer::consume takes the first n readable bytes away, all of them if   *)
(* there are fewer, and leaves the others as they were.                    *)
(***************************************************************************)
THEOREM ConsumeIsDequeue ==
    ASSUME NEW B, NEW b \in BufferOf(B), NEW n \in Nat
    PROVE  /\ consume(b, n) \in BufferOf(B)
           /\ readable(consume(b, n)) = SubSeq(readable(b), n + 1, size(b))
  <1> DEFINE pos == b.read_pos + (IF n > size(b) THEN size(b) ELSE n)
             c == consume(b, n)
  <1>1. /\ b.data \in Seq(B) /\ b.read_pos \in Nat /\ Len(b.data) \in Nat
        /\ b.read_pos <= Len(b.data)
        /\ b = [data |-> b.data, read_pos |-> b.read_pos]
    BY DEF BufferOf
  <1>2. /\ readable(b) \in Seq(B) /\ Len(readable(b)) = size(b)
        /\ size(b) \in Nat
        /\ \A i \in 1..size(b) : readable(b)[i] = b.data[b.read_pos + i]
    BY ReadableBytes
  <1>3. pos \in Nat /\ pos <= Len(b.data)
    BY <1>1, <1>2 DEF size
  <1>4. CASE pos = Len(b.data)
    <2>1. c = [data |-> <<>>, read_pos |-> 0]
      BY <1>4 DEF consume, EmptyBuffer
    <2>2. <<>> \in Seq(B) /\ Len(<<>>) = 0
      OBVIOUS
    <2>3. c \in BufferOf(B)
      BY <2>1, <2>2 DEF BufferOf
    <2>4. readable(c) = <<>>
      BY <2>1, <2>2 DEF readable
    <2>5. size(b) < n + 1
      BY <1>1, <1>2, <1>4 DEF size
    <2>6. SubSeq(readable(b), n + 1, size(b)) = <<>>
      BY <1>2, <2>5
    <2> QED
      BY <2>3, <2>4, <2>6, Zenon
  <1>5. CASE pos # Len(b.data)
    <2>1. n <= size(b) /\ pos = b.read_pos + n
      BY <1>1, <1>2, <1>5 DEF size
    <2>2. c = [data |-> b.data, read_pos |-> pos]
      BY <1>1, <1>5 DEF consume
    <2>3. c \in BufferOf(B)
      BY <1>1, <1>3, <2>2 DEF BufferOf
    <2>4. size(c) = size(b) - n
      BY <1>1, <2>1, <2>2 DEF size
    <2>5. /\ readable(c) \in Seq(B) /\ Len(readable(c)) = size(b) - n
          /\ \A i \in 1..(size(b) - n) : readable(c)[i] = b.data[pos + i]
      BY <2>2, <2>3, <2>4, ReadableBytes
    <2>6. /\ SubSeq(readable(b), n + 1, size(b)) \in Seq(B)
          /\ Len(SubSeq(readable(b), n + 1, size(b))) = size(b) - n
          /\ \A i \in 1..(size(b) - n) :
                 SubSeq(readable(b), n + 1, size(b))[i] = readable(b)[n + i]
      BY <1>2, <2>1, Suffix
    <2>7. ASSUME NEW i \in 1..(size(b) - n)
          PROVE  readable(c)[i] = SubSeq(readable(b), n + 1, size(b))[i]
      <3>1. readable(b)[n + i] = b.data[b.read_pos + (n + i)]
        BY <1>2, <2>1
      <3>2. pos + i = b.read_pos + (n + i)
        BY <1>1, <2>1
      <3> QED
        BY <2>5, <2>6, <3>1, <3>2
    <2>8. readable(c) = SubSeq(readable(b), n + 1, size(b))
      BY <2>5, <2>6, <2>7, SameSequence
    <2> QED
      BY <2>3, <2>8
  <1> QED
    BY <1>4, <1>5

-----------------------------------------------------------------------------
(***************************************************************************)
(* The invariant.                                                          *)
(***************************************************************************)
\* The states of the server, between two requests of one handler too.
World == [link : [Conn -> LinkType], fed : SUBSET Conn, active : Int]

OpenIn(w) == {c \in Conn : w.link[c].state = "open"}

\* How much of what was queued for c has left the server.
Delivered(c) == Len(got[c]) + Len(net[c])

\* Behind b numbers that have left the server, what is left of out when n of it
\* is written and then pending hold the next ones, up to the last one made.
Counts(out, pending, n, made, b) ==
    /\ n <= Len(out)
    /\ made = b + (Len(out) - n) + Len(pending)
    /\ \A i \in (n + 1)..Len(out) : out[i] = b + (i - n)
    /\ \A i \in 1..Len(pending) : pending[i] = b + (Len(out) - n) + i

Continues(k, b) == Counts(k.out, k.pending, k.written, k.made, b)

\* Only asio's sessions have a write in flight and something behind it, and
\* without one nothing is left in out.
Settled(k) ==
    /\ ~k.writing => k.written = 0
    /\ backend = "asio" /\ ~k.writing => k.out = <<>>

QueueOK(w, c) ==
    /\ backend = "poll" => ~w.link[c].writing /\ w.link[c].pending = <<>>
    /\ w.link[c].state # "closed" =>
           /\ Settled(w.link[c])
           /\ peer[c] # "reset" => Continues(w.link[c], Delivered(c))

\* The output limit.
Bounded(w, c) ==
    w.link[c].state = "open" /\ (backend = "asio" \/ c \notin w.fed \cup dead) =>
        Queued(w.link[c]) <= MaxOut

Resynced(k, c) == \E i \in 1..k.done : Script[c][i] = "psync"

ServerOK(w) ==
    /\ w \in World
    /\ w.active = Cardinality(OpenIn(w))
    /\ \A c \in w.fed : w.link[c].state # "backlog" /\ Resynced(w.link[c], c)
    /\ \A c \in Conn : QueueOK(w, c)

UnitsOK(c) ==
    /\ sent[c] <= 2 * Len(Script[c])
    /\ sent[c] = rcv[c] + readn[c] + world.link[c].in + 2 * world.link[c].done
    /\ world.link[c].in <= 1 \/ (backend = "poll" /\ world.link[c].in >= ReadChunk)

\* What the client has received, and what is on its way to it.
ArrivedOK(c) ==
    /\ Delivered(c) <= world.link[c].made /\ Len(net[c]) <= SendCap
    /\ \A i \in 1..Len(got[c]) : got[c][i] = i
    /\ \A i \in 1..Len(net[c]) : net[c][i] = Len(got[c]) + i
    /\ peer[c] = "reset" => net[c] = <<>>

\* A connection that is not accepted yet has nothing queued and no operation
\* outstanding, and a read that has found the end of the stream has found
\* everything before it.
SessionOK(c) ==
    /\ world.link[c].state = "backlog" =>
           /\ readop[c] = "none" /\ ~world.link[c].writing
           /\ world.link[c].out = <<>> /\ world.link[c].pending = <<>>
    /\ readop[c] # "done" => readn[c] = 0
    /\ readop[c] = "eof" => peer[c] # "open" /\ rcv[c] = 0
    /\ backend = "poll" => readop[c] = "none"

SweepOK(c) ==
    /\ revents[c] # {} => Open(c)
    /\ c \in dead => Open(c)
    /\ backend = "asio" => revents[c] = {} /\ c \notin dead

\* Once the end of the stream has closed a connection nothing runs on it.
EndedOK(c) ==
    world.link[c].why = "eof" =>
        /\ peer[c] # "open"
        /\ backend = "asio" => Closed(c) /\ readop[c] = "none"
        /\ backend = "poll" => revents[c] = {} /\ (c \in dead \/ Closed(c))
        /\ \/ world.link[c].done = sent[c] \div 2
           \/ backend = "poll" /\ world.link[c].in >= ReadChunk

ConnOK(c) ==
    /\ UnitsOK(c) /\ ArrivedOK(c) /\ SessionOK(c) /\ SweepOK(c) /\ EndedOK(c)
    /\ Bounded(world, c)

IInv == TypeOK /\ ServerOK(world) /\ \A c \in Conn : ConnOK(c)

-----------------------------------------------------------------------------
(***************************************************************************)
(* The member functions of the links, field by field.                      *)
(***************************************************************************)
\* w and v have the same connections but for c, and are the same otherwise.
OnlyLink(w, v, c) ==
    /\ v \in World
    /\ \A q \in Conn \ {c} : v.link[q] = w.link[q]

\* The type of a connection's state, one field at a time.
LEMMA LinkFields ==
    ASSUME NEW w \in World, NEW c \in Conn
    PROVE  /\ w.link \in [Conn -> LinkType] /\ w.link[c] \in LinkType
           /\ w.fed \subseteq Conn /\ w.active \in Int
           /\ w.link[c].in \in Nat /\ w.link[c].done \in Nat
           /\ w.link[c].made \in Nat /\ w.link[c].written \in Nat
           /\ w.link[c].out \in Seq(Nat) /\ w.link[c].pending \in Seq(Nat)
           /\ w.link[c].state \in {"backlog", "open", "closed"}
           /\ w.link[c].why \in {"none", "eof", "error", "overflow"}
  <1>1. w.link \in [Conn -> LinkType] /\ w.fed \subseteq Conn /\ w.active \in Int
    BY DEF World
  <1>2. w.link[c] \in LinkType
    BY <1>1
  <1> QED
    BY <1>1, <1>2 DEF LinkType

\* The state of the server with k for c's connection.
Put(w, c, k, f, a) == [link |-> [w.link EXCEPT ![c] = k], fed |-> f, active |-> a]

\* Replacing c's link changes no other connection.
LEMMA PutFields ==
    ASSUME NEW w \in World, NEW c \in Conn, NEW k \in LinkType,
           NEW f \in SUBSET Conn, NEW a \in Int, NEW v, v = Put(w, c, k, f, a)
    PROVE  /\ OnlyLink(w, v, c) /\ v.fed = f /\ v.active = a
           /\ v.link[c] = k
  <1>1. w.link \in [Conn -> LinkType]
    BY LinkFields
  <1>2. v.link = [w.link EXCEPT ![c] = k] /\ v.fed = f /\ v.active = a
    BY DEF Put
  <1>3. v.link \in [Conn -> LinkType]
    BY <1>1, <1>2
  <1>4. v \in World
    BY <1>3 DEF Put, World
  <1> QED
    BY <1>1, <1>2, <1>4 DEF OnlyLink

\* What AsioReply does: one more piece of output is numbered, behind pending.
Replies(w, v, c) ==
    /\ OnlyLink(w, v, c) /\ v.fed = w.fed /\ v.active = w.active
    /\ v.link[c].made = w.link[c].made + 1
    /\ v.link[c].pending = Append(w.link[c].pending, w.link[c].made + 1)
    /\ v.link[c].state = w.link[c].state /\ v.link[c].why = w.link[c].why
    /\ v.link[c].in = w.link[c].in /\ v.link[c].done = w.link[c].done
    /\ v.link[c].out = w.link[c].out /\ v.link[c].written = w.link[c].written
    /\ v.link[c].writing = w.link[c].writing

\* AsioReply does what Replies says.
LEMMA AsioReplyFields ==
    ASSUME NEW w \in World, NEW c \in Conn, NEW v, v = AsioReply(w, c)
    PROVE  Replies(w, v, c)
  <1> DEFINE k == [w.link[c] EXCEPT !.made = @ + 1,
                                    !.pending = Append(@, w.link[c].made + 1)]
  <1>1. w.link[c] \in LinkType /\ w.link[c].made + 1 \in Nat
        /\ Append(w.link[c].pending, w.link[c].made + 1) \in Seq(Nat)
    BY LinkFields
  <1>2. k \in LinkType
    BY <1>1, Zenon DEF LinkType
  <1>3. v = Put(w, c, k, w.fed, w.active)
    BY Zenon DEF AsioReply, World, Put
  <1>4. /\ k.made = w.link[c].made + 1
        /\ k.pending = Append(w.link[c].pending, w.link[c].made + 1)
        /\ k.state = w.link[c].state /\ k.why = w.link[c].why
        /\ k.in = w.link[c].in /\ k.done = w.link[c].done
        /\ k.out = w.link[c].out /\ k.written = w.link[c].written
        /\ k.writing = w.link[c].writing
    BY <1>1, Zenon DEF LinkType
  <1>5. w.fed \in SUBSET Conn /\ w.active \in Int
    BY LinkFields
  <1>6. OnlyLink(w, v, c) /\ v.fed = w.fed /\ v.active = w.active /\ v.link[c] = k
    <2> HIDE DEF k
    <2> QED
      BY <1>2, <1>3, <1>5, PutFields
  <1> QED
    BY <1>4, <1>6 DEF Replies

\* What PollSend does: one more piece of output is numbered, behind out.
PollSends(w, v, c) ==
    /\ OnlyLink(w, v, c) /\ v.fed = w.fed /\ v.active = w.active
    /\ v.link[c].made = w.link[c].made + 1
    /\ v.link[c].out = Append(w.link[c].out, w.link[c].made + 1)
    /\ v.link[c].state = w.link[c].state /\ v.link[c].why = w.link[c].why
    /\ v.link[c].in = w.link[c].in /\ v.link[c].done = w.link[c].done
    /\ v.link[c].pending = w.link[c].pending
    /\ v.link[c].written = w.link[c].written
    /\ v.link[c].writing = w.link[c].writing

\* PollSend does what PollSends says.
LEMMA PollSendFields ==
    ASSUME NEW w \in World, NEW c \in Conn, NEW v, v = PollSend(w, c)
    PROVE  PollSends(w, v, c)
  <1> DEFINE k == [w.link[c] EXCEPT !.made = @ + 1,
                                    !.out = Append(@, w.link[c].made + 1)]
  <1>1. w.link[c] \in LinkType /\ w.link[c].made + 1 \in Nat
        /\ Append(w.link[c].out, w.link[c].made + 1) \in Seq(Nat)
    BY LinkFields
  <1>2. k \in LinkType
    BY <1>1, Zenon DEF LinkType
  <1>3. v = Put(w, c, k, w.fed, w.active)
    BY Zenon DEF PollSend, World, Put
  <1>4. /\ k.made = w.link[c].made + 1
        /\ k.out = Append(w.link[c].out, w.link[c].made + 1)
        /\ k.state = w.link[c].state /\ k.why = w.link[c].why
        /\ k.in = w.link[c].in /\ k.done = w.link[c].done
        /\ k.pending = w.link[c].pending /\ k.written = w.link[c].written
        /\ k.writing = w.link[c].writing
    BY <1>1, Zenon DEF LinkType
  <1>5. w.fed \in SUBSET Conn /\ w.active \in Int
    BY LinkFields
  <1>6. OnlyLink(w, v, c) /\ v.fed = w.fed /\ v.active = w.active /\ v.link[c] = k
    <2> HIDE DEF k
    <2> QED
      BY <1>2, <1>3, <1>5, PutFields
  <1> QED
    BY <1>4, <1>6 DEF PollSends

\* What Flush does: it writes everything queued unless a write is in flight.
Flushes(w, v, c) ==
    /\ OnlyLink(w, v, c) /\ v.fed = w.fed /\ v.active = w.active
    /\ w.link[c].writing => v = w
    /\ ~w.link[c].writing =>
           /\ v.link[c].out = w.link[c].out \o w.link[c].pending
           /\ v.link[c].pending = <<>>
           /\ v.link[c].writing = (v.link[c].out # <<>>)
           /\ v.link[c].written = 0
    /\ v.link[c].state = w.link[c].state /\ v.link[c].why = w.link[c].why
    /\ v.link[c].in = w.link[c].in /\ v.link[c].done = w.link[c].done
    /\ v.link[c].made = w.link[c].made

\* Flush does what Flushes says.
LEMMA FlushFields ==
    ASSUME NEW w \in World, NEW c \in Conn, NEW v, v = Flush(w, c)
    PROVE  Flushes(w, v, c)
  <1>1. CASE w.link[c].writing
    <2>1. v = w
      BY <1>1 DEF Flush
    <2> QED
      BY <1>1, <2>1 DEF OnlyLink, Flushes
  <1>2. CASE ~w.link[c].writing
    <2> DEFINE o == w.link[c].out \o w.link[c].pending
               k == [w.link[c] EXCEPT !.out = o, !.pending = <<>>,
                                      !.writing = (o # <<>>), !.written = 0]
    <2>1. w.link[c] \in LinkType /\ o \in Seq(Nat) /\ <<>> \in Seq(Nat)
      BY LinkFields
    <2>2. v = Put(w, c, k, w.fed, w.active)
      BY <1>2, Zenon DEF Flush, World, Put
    <2> HIDE DEF o
    <2>3. k \in LinkType
      BY <2>1, Zenon DEF LinkType
    <2>4. /\ k.out = o /\ k.pending = <<>> /\ k.writing = (o # <<>>) /\ k.written = 0
          /\ k.state = w.link[c].state /\ k.why = w.link[c].why
          /\ k.in = w.link[c].in /\ k.done = w.link[c].done
          /\ k.made = w.link[c].made
      BY <2>1 DEF LinkType
    <2>5. w.fed \in SUBSET Conn /\ w.active \in Int
      BY LinkFields
    <2> HIDE DEF k
    <2>6. OnlyLink(w, v, c) /\ v.fed = w.fed /\ v.active = w.active /\ v.link[c] = k
      BY <2>2, <2>3, <2>5, PutFields
    <2> QED
      BY <1>2, <2>4, <2>6, Zenon DEF o, Flushes
  <1> QED
    BY <1>1, <1>2

\* What DoClose does: it closes a connection that is not closed, and books it.
Closes(w, v, c, why) ==
    /\ OnlyLink(w, v, c)
    /\ w.link[c].state = "closed" => v = w
    /\ w.link[c].state # "closed" =>
           /\ v.link[c].why = why
           /\ v.fed = w.fed \ {c} /\ v.active = w.active - 1
    /\ v.link[c].state = "closed"
    /\ v.link[c].in = w.link[c].in /\ v.link[c].done = w.link[c].done
    /\ v.link[c].made = w.link[c].made
    /\ v.link[c].out = w.link[c].out /\ v.link[c].pending = w.link[c].pending
    /\ v.link[c].written = w.link[c].written
    /\ v.link[c].writing = w.link[c].writing

\* DoClose does what Closes says.
LEMMA DoCloseFields ==
    ASSUME NEW w \in World, NEW c \in Conn,
           NEW why \in {"eof", "error", "overflow"}, NEW v, v = DoClose(w, c, why)
    PROVE  Closes(w, v, c, why)
  <1>1. CASE w.link[c].state = "closed"
    <2>1. v = w
      BY <1>1 DEF DoClose
    <2> QED
      BY <1>1, <2>1 DEF OnlyLink, Closes
  <1>2. CASE w.link[c].state # "closed"
    <2> DEFINE k == [w.link[c] EXCEPT !.state = "closed", !.why = why]
               f == w.fed \ {c}
    <2>1. w.link[c] \in LinkType /\ f \in SUBSET Conn /\ w.active - 1 \in Int
      BY LinkFields
    <2>2. v = Put(w, c, k, f, w.active - 1)
      BY <1>2, Zenon DEF DoClose, OnDisconnect, World, Put
    <2>3. k \in LinkType
      BY <2>1, Zenon DEF LinkType
    <2>4. /\ k.out = w.link[c].out /\ k.pending = w.link[c].pending
          /\ k.writing = w.link[c].writing /\ k.written = w.link[c].written
          /\ k.state = "closed" /\ k.why = why
          /\ k.in = w.link[c].in /\ k.done = w.link[c].done
          /\ k.made = w.link[c].made
      BY <2>1 DEF LinkType
    <2> HIDE DEF k, f
    <2>5. OnlyLink(w, v, c) /\ v.fed = f /\ v.active = w.active - 1 /\ v.link[c] = k
      BY <2>1, <2>2, <2>3, PutFields
    <2> QED
      BY <1>2, <2>4, <2>5 DEF f, Closes
  <1> QED
    BY <1>1, <1>2

-----------------------------------------------------------------------------
(***************************************************************************)
(* What the handler's output does to one connection.                       *)
(***************************************************************************)
\* How a connection's state changes while requests are executed: output is
\* added, never into the write in flight, and only asio closes it.
Follows(k, l) ==
    /\ l.made >= k.made
    /\ k.writing => l.writing /\ l.out = k.out /\ l.written = k.written
    /\ l.state = k.state \/ (backend = "asio" /\ k.state = "open" /\ l.state = "closed")
    /\ l.why = "eof" => k.why = "eof"

\* Closing is booked.
Booked(w, v, c) ==
    \/ v.link[c].state = w.link[c].state /\ v.fed = w.fed /\ v.active = w.active
    \/ /\ w.link[c].state = "open" /\ v.link[c].state = "closed"
       /\ v.fed = w.fed \ {c} /\ v.active = w.active - 1

Touches(w, v, c) ==
    /\ OnlyLink(w, v, c)
    /\ Follows(w.link[c], v.link[c])
    /\ v.link[c].in = w.link[c].in /\ v.link[c].done = w.link[c].done
    /\ QueueOK(w, c) => QueueOK(v, c)
    /\ Booked(w, v, c)

\* A sequence that counts on from a number still does with one more.
LEMMA AppendCounts ==
    ASSUME NEW s \in Seq(Nat), NEW n \in Nat, NEW b \in Int, NEW x \in Nat,
           n <= Len(s), x = b + Len(s) + 1, NEW r, r = Append(s, x),
           \A i \in (n + 1)..Len(s) : s[i] = b + i
    PROVE  Len(r) = Len(s) + 1 /\ \A i \in (n + 1)..Len(r) : r[i] = b + i
  <1>1. /\ Len(r) = Len(s) + 1 /\ r[Len(s) + 1] = x
        /\ \A i \in 1..Len(s) : r[i] = s[i]
    OBVIOUS
  <1>2. Len(s) \in Nat
    OBVIOUS
  <1>3. ASSUME NEW i \in (n + 1)..Len(r) PROVE r[i] = b + i
    <2>1. i = Len(s) + 1 \/ (i \in 1..Len(s) /\ i \in (n + 1)..Len(s))
      BY <1>1, <1>2
    <2> QED
      BY <1>1, <2>1
  <1> QED
    BY <1>1, <1>3

\* One more number behind the others continues them.
LEMMA AppendPending ==
    ASSUME NEW o \in Seq(Nat), NEW p \in Seq(Nat), NEW n \in Nat, NEW m \in Nat,
           NEW b \in Nat, Counts(o, p, n, m, b)
    PROVE  Counts(o, Append(p, m + 1), n, m + 1, b)
  <1> DEFINE d == b + (Len(o) - n)
             r == Append(p, m + 1)
  <1>1. Len(o) \in Nat /\ Len(p) \in Nat
    OBVIOUS
  <1>2. d \in Int /\ m + 1 = d + Len(p) + 1 /\ n <= Len(o)
        /\ \A i \in (n + 1)..Len(o) : o[i] = b + (i - n)
    BY <1>1 DEF Counts
  <1>3. \A i \in (0 + 1)..Len(p) : p[i] = d + i
    BY <1>1 DEF Counts
  <1> HIDE DEF d
  <1>4. Len(r) = Len(p) + 1 /\ \A i \in (0 + 1)..Len(r) : r[i] = d + i
    BY <1>1, <1>2, <1>3, AppendCounts
  <1> HIDE DEF r
  <1>5. m + 1 = d + Len(r) /\ \A i \in 1..Len(r) : r[i] = d + i
    BY <1>1, <1>2, <1>4
  <1> QED
    BY <1>2, <1>5 DEF Counts, d, r

\* One more number behind the others in out continues them.
LEMMA AppendOut ==
    ASSUME NEW o \in Seq(Nat), NEW n \in Nat, NEW m \in Nat,
           NEW b \in Nat, Counts(o, <<>>, n, m, b)
    PROVE  Counts(Append(o, m + 1), <<>>, n, m + 1, b)
  <1> DEFINE r == Append(o, m + 1)
             d == b - n
  <1>1. Len(o) \in Nat /\ Len(<<>>) = 0
    OBVIOUS
  <1>2. d \in Int /\ m + 1 = d + Len(o) + 1 /\ n <= Len(o)
    BY <1>1 DEF Counts
  <1>3. \A i \in (n + 1)..Len(o) : o[i] = d + i
    BY <1>1 DEF Counts
  <1> HIDE DEF d
  <1>4. Len(r) = Len(o) + 1 /\ \A i \in (n + 1)..Len(r) : r[i] = d + i
    BY <1>1, <1>2, <1>3, AppendCounts
  <1> HIDE DEF r
  <1>5. m + 1 = b + (Len(r) - n) + 0 /\ n <= Len(r)
    BY <1>1, <1>2, <1>4 DEF d
  <1>6. \A i \in (n + 1)..Len(r) : r[i] = b + (i - n)
    BY <1>1, <1>4 DEF d
  <1> QED
    BY <1>1, <1>5, <1>6 DEF Counts, r

\* Moving pending to an empty out loses nothing.
LEMMA MovePending ==
    ASSUME NEW p \in Seq(Nat), NEW m \in Nat, NEW b \in Nat,
           Counts(<<>>, p, 0, m, b)
    PROVE  Counts(<<>> \o p, <<>>, 0, m, b)
  <1>1. <<>> \o p = p /\ Len(<<>>) = 0
    OBVIOUS
  <1> QED
    BY <1>1 DEF Counts

\* The number of what has left the server.
LEMMA DeliveredType ==
    ASSUME ConnectionTypeOK, NEW c \in Conn
    PROVE  Delivered(c) \in Nat
  BY DEF ConnectionTypeOK, Delivered

\* AsioReply adds to c's queue and continues its numbers.
LEMMA AsioReplyTouches ==
    ASSUME ConnectionTypeOK, backend = "asio", NEW w \in World, NEW c \in Conn,
           NEW v, v = AsioReply(w, c)
    PROVE  Touches(w, v, c) /\ v.link[c].state = w.link[c].state
  <1> DEFINE k == w.link[c]
             l == v.link[c]
  <1>1. /\ OnlyLink(w, v, c) /\ v.fed = w.fed /\ v.active = w.active
        /\ l.made = k.made + 1 /\ l.pending = Append(k.pending, k.made + 1)
        /\ l.state = k.state /\ l.why = k.why /\ l.in = k.in /\ l.done = k.done
        /\ l.out = k.out /\ l.written = k.written /\ l.writing = k.writing
    <2>1. Replies(w, v, c)
      BY AsioReplyFields
    <2> QED
      BY <2>1 DEF Replies
  <1>2. /\ k.made \in Nat /\ k.written \in Nat
        /\ k.out \in Seq(Nat) /\ k.pending \in Seq(Nat)
    BY LinkFields
  <1>3. Delivered(c) \in Nat
    BY DeliveredType
  <1> HIDE DEF k, l
  <1>4. l.made >= k.made
    BY <1>1, <1>2
  <1>5. Continues(k, Delivered(c)) => Continues(l, Delivered(c))
    BY <1>1, <1>2, <1>3, AppendPending DEF Continues
  <1>6. Settled(k) => Settled(l)
    BY <1>1, Zenon DEF Settled
  <1> QED
    BY <1>1, <1>4, <1>5, <1>6, Zenon DEF Touches, Follows, Booked, QueueOK, k, l

\* PollSend (Conn::send) adds to c's queue and continues its numbers.
LEMMA PollSendTouches ==
    ASSUME ConnectionTypeOK, backend = "poll", NEW w \in World, NEW c \in Conn,
           QueueOK(w, c),
           NEW v, v = PollSend(w, c)
    PROVE  Touches(w, v, c) /\ v.link[c].state = w.link[c].state
  <1> DEFINE k == w.link[c]
             l == v.link[c]
  <1>1. /\ OnlyLink(w, v, c) /\ v.fed = w.fed /\ v.active = w.active
        /\ l.made = k.made + 1 /\ l.out = Append(k.out, k.made + 1)
        /\ l.state = k.state /\ l.why = k.why /\ l.in = k.in /\ l.done = k.done
        /\ l.pending = k.pending /\ l.written = k.written /\ l.writing = k.writing
    <2>1. PollSends(w, v, c)
      BY PollSendFields
    <2> QED
      BY <2>1 DEF PollSends
  <1>2. /\ k.made \in Nat /\ k.written \in Nat
        /\ k.out \in Seq(Nat) /\ k.pending \in Seq(Nat)
    BY LinkFields
  <1>3. Delivered(c) \in Nat
    BY DeliveredType
  <1>7. k.pending = <<>> /\ ~k.writing
    BY DEF QueueOK
  <1> HIDE DEF k, l
  <1>4. l.made >= k.made
    BY <1>1, <1>2
  <1>5. Continues(k, Delivered(c)) => Continues(l, Delivered(c))
    BY <1>1, <1>2, <1>3, <1>7, AppendOut DEF Continues
  <1>8. backend # "asio"
    OBVIOUS
  <1>6. Settled(k) => Settled(l)
    BY <1>1, <1>8, Zenon DEF Settled
  <1> QED
    BY <1>1, <1>4, <1>5, <1>6, <1>7, Zenon
    DEF Touches, Follows, Booked, QueueOK, k, l

\* Session::flush moves the queue into the write and loses nothing of it.
LEMMA FlushTouches ==
    ASSUME ConnectionTypeOK, backend = "asio", NEW w \in World, NEW c \in Conn,
           NEW v, v = Flush(w, c)
    PROVE  /\ Touches(w, v, c) /\ v.link[c].state = w.link[c].state
           /\ Queued(v.link[c]) = Queued(w.link[c])
           /\ v.link[c].made = w.link[c].made
  <1> DEFINE k == w.link[c]
             l == v.link[c]
  <1>1. /\ OnlyLink(w, v, c) /\ v.fed = w.fed /\ v.active = w.active
        /\ k.writing => l = k
        /\ ~k.writing => /\ l.out = k.out \o k.pending /\ l.pending = <<>>
                         /\ l.writing = (l.out # <<>>) /\ l.written = 0
        /\ l.state = k.state /\ l.why = k.why /\ l.in = k.in /\ l.done = k.done
        /\ l.made = k.made
    <2>1. Flushes(w, v, c)
      BY FlushFields
    <2> QED
      BY <2>1, Zenon DEF Flushes
  <1>2. /\ k.made \in Nat /\ k.written \in Nat
        /\ k.out \in Seq(Nat) /\ k.pending \in Seq(Nat)
    BY LinkFields
  <1>3. Delivered(c) \in Nat
    BY DeliveredType
  <1> HIDE DEF k, l
  <1>4. l.made >= k.made
    BY <1>1, <1>2
  <1>5. ~k.writing /\ Settled(k) => (Continues(k, Delivered(c)) => Continues(l, Delivered(c)))
    <2> SUFFICES ASSUME ~k.writing, Settled(k), Continues(k, Delivered(c))
                 PROVE  Continues(l, Delivered(c))
      OBVIOUS
    <2>1. k.out = <<>> /\ k.written = 0
      BY DEF Settled
    <2>2. l.out = k.out \o k.pending /\ l.pending = <<>> /\ l.written = 0 /\ l.made = k.made
      BY <1>1, Zenon
    <2> QED
      BY <1>2, <1>3, <2>1, <2>2, MovePending DEF Continues
  <1>6. ~k.writing => Settled(l)
    BY <1>1, Zenon DEF Settled
  <1>7. Queued(l) = Queued(k)
    <2>1. CASE k.writing
      BY <1>1, <2>1
    <2>2. CASE ~k.writing
      <3>1. l.out = k.out \o k.pending /\ l.pending = <<>>
        BY <1>1, <2>2, Zenon
      <3> QED
        BY <1>2, <3>1 DEF Queued
    <2> QED
      BY <2>1, <2>2
  <1>8. QueueOK(w, c) => QueueOK(v, c)
    BY <1>1, <1>5, <1>6 DEF QueueOK, k, l
  <1> QED
    BY <1>1, <1>4, <1>7, <1>8, Zenon DEF Touches, Follows, Booked, k, l

\* do_close on an open connection books the closing, and leaves the queue.
LEMMA DoCloseTouches ==
    ASSUME ConnectionTypeOK, backend = "asio", NEW w \in World, NEW c \in Conn,
           w.link[c].state # "backlog",
           NEW v, v = DoClose(w, c, "overflow")
    PROVE  Touches(w, v, c) /\ v.link[c].state = "closed"
  <1> DEFINE k == w.link[c]
             l == v.link[c]
  <1>1. /\ OnlyLink(w, v, c)
        /\ k.state = "closed" => v = w
        /\ k.state # "closed" =>
               l.why = "overflow" /\ v.fed = w.fed \ {c} /\ v.active = w.active - 1
        /\ l.state = "closed" /\ l.in = k.in /\ l.done = k.done
        /\ l.made = k.made /\ l.out = k.out /\ l.written = k.written
        /\ l.writing = k.writing
    <2>1. PICK why : why = "overflow" /\ why \in {"eof", "error", "overflow"}
      OBVIOUS
    <2>2. v = DoClose(w, c, why)
      BY <2>1
    <2>3. Closes(w, v, c, why)
      BY <2>1, <2>2, DoCloseFields
    <2> QED
      BY <2>1, <2>3 DEF Closes
  <1>2. k.made \in Nat /\ k.state \in {"open", "closed"}
    BY LinkFields
  <1>3. l.made >= k.made
    BY <1>1, <1>2
  <1>4. k.state = "closed" => l.why = k.why
    BY <1>1
  <1>10. backend # "poll"
    OBVIOUS
  <1>5. QueueOK(v, c)
    BY <1>1, <1>10 DEF QueueOK
  <1> HIDE DEF k, l
  <1>6. "overflow" # "eof"
    OBVIOUS
  <1>7. k.state = "open" \/ (k.state = "closed" /\ v = w)
    BY <1>1, <1>2
  <1>8. Booked(w, v, c)
    BY <1>1, <1>7 DEF Booked, k, l
  <1>9. Follows(k, l)
    BY <1>1, <1>2, <1>3, <1>4, <1>6, Zenon DEF Follows
  <1> QED
    BY <1>1, <1>5, <1>8, <1>9 DEF Touches, k, l

\* Two changes of one connection behind each other are one.
LEMMA TouchesTwice ==
    ASSUME NEW u \in World, NEW w, NEW v, NEW c \in Conn,
           Touches(u, w, c), Touches(w, v, c)
    PROVE  Touches(u, v, c)
  <1>1. OnlyLink(u, v, c)
    BY DEF Touches, OnlyLink
  <1>2. w \in World /\ v \in World
    BY DEF Touches, OnlyLink
  <1>3. v.link[c].made >= u.link[c].made
    <2>1. w.link[c].made >= u.link[c].made /\ v.link[c].made >= w.link[c].made
      BY DEF Touches, Follows
    <2>2. u.link[c].made \in Nat /\ w.link[c].made \in Nat /\ v.link[c].made \in Nat
      BY <1>2, LinkFields, Zenon
    <2> QED
      BY <2>1, <2>2
  <1>4. /\ v.link[c].in = u.link[c].in
        /\ u.link[c].writing =>
               /\ v.link[c].writing /\ v.link[c].out = u.link[c].out
               /\ v.link[c].written = u.link[c].written
        /\ v.link[c].why = "eof" => u.link[c].why = "eof"
        /\ v.link[c].done = u.link[c].done
        /\ QueueOK(u, c) => QueueOK(v, c)
    BY Zenon DEF Touches, Follows
  <1>5. \/ v.link[c].state = u.link[c].state
        \/ backend = "asio" /\ u.link[c].state = "open" /\ v.link[c].state = "closed"
    BY DEF Touches, Follows
  <1>6. Booked(u, v, c)
    BY DEF Touches, Booked
  <1> QED
    BY <1>1, <1>3, <1>4, <1>5, <1>6, Zenon DEF Touches, Follows

\* What is queued can be counted.
LEMMA QueuedType ==
    ASSUME NEW w \in World, NEW c \in Conn
    PROVE  Queued(w.link[c]) \in Nat
  <1>1. w.link[c].out \in Seq(Nat) /\ w.link[c].pending \in Seq(Nat)
    BY LinkFields
  <1>2. Len(w.link[c].out) \in Nat /\ Len(w.link[c].pending) \in Nat
    BY <1>1
  <1>3. PICK m \in Nat, n \in Nat :
            m = Len(w.link[c].out) /\ n = Len(w.link[c].pending)
    BY <1>2
  <1>4. m + n \in Nat
    OBVIOUS
  <1> QED
    BY <1>3, <1>4, Zenon DEF Queued

\* Send adds to c's queue; the asio backend closes c when the limit is exceeded.
LEMMA SendTouches ==
    ASSUME ConnectionTypeOK, backend \in {"asio", "poll"}, NEW w \in World,
           NEW c \in Conn, QueueOK(w, c), w.link[c].state # "backlog",
           NEW v, v = Send(w, c)
    PROVE  /\ Touches(w, v, c)
           /\ backend = "asio" /\ v.link[c].state = "open" => Queued(v.link[c]) <= MaxOut
           /\ backend = "poll" => v.link[c].state = w.link[c].state
  <1>1. CASE backend = "poll"
    <2>1. v = PollSend(w, c)
      BY <1>1 DEF Send
    <2>2. Touches(w, v, c) /\ v.link[c].state = w.link[c].state
      BY <1>1, <2>1, PollSendTouches, Zenon
    <2> QED
      BY <1>1, <2>2
  <1>2. CASE backend = "asio"
    <2> DEFINE p == AsioReply(w, c)
    <2>1. v = IF w.link[c].state = "closed" THEN w
              ELSE IF Queued(p.link[c]) > MaxOut THEN DoClose(p, c, "overflow")
              ELSE Flush(p, c)
      BY <1>2 DEF Send, AsioSend
    <2>2. Touches(w, p, c) /\ p.link[c].state = w.link[c].state
      BY <1>2, AsioReplyTouches
    <2> HIDE DEF p
    <2>3. p \in World
      BY <2>2 DEF Touches, OnlyLink
    <2>4. CASE w.link[c].state = "closed"
      <3>1. v = w
        BY <2>1, <2>4
      <3>2. w.link[c].made >= w.link[c].made
        BY LinkFields
      <3>3. Touches(w, w, c)
        BY <3>2 DEF Touches, OnlyLink, Follows, Booked
      <3> QED
        BY <1>2, <2>4, <3>1, <3>3
    <2>5. CASE w.link[c].state # "closed" /\ Queued(p.link[c]) > MaxOut
      <3>1. v = DoClose(p, c, "overflow")
        BY <2>1, <2>5
      <3>2. Touches(p, v, c) /\ v.link[c].state = "closed"
        BY <1>2, <2>2, <2>3, <3>1, DoCloseTouches, Zenon
      <3>3. Touches(w, v, c)
        BY <2>2, <3>2, TouchesTwice
      <3> QED
        BY <1>2, <3>2, <3>3
    <2>6. CASE w.link[c].state # "closed" /\ ~(Queued(p.link[c]) > MaxOut)
      <3>1. v = Flush(p, c)
        BY <2>1, <2>6
      <3>2. Touches(p, v, c) /\ Queued(v.link[c]) = Queued(p.link[c])
        BY <1>2, <2>2, <2>3, <3>1, FlushTouches, Zenon
      <3>3. Touches(w, v, c)
        BY <2>2, <3>2, TouchesTwice
      <3>4. Queued(p.link[c]) \in Nat
        BY <2>3, QueuedType
      <3>5. Queued(v.link[c]) <= MaxOut
        BY <2>6, <3>2, <3>4, ConnectionAssumption
      <3> QED
        BY <1>2, <3>3, <3>5
    <2> QED
      BY <2>4, <2>5, <2>6, Zenon
  <1> QED
    BY <1>1, <1>2

\* Reply appends the answer to a request to c's own queue.
LEMMA ReplyTouches ==
    ASSUME ConnectionTypeOK, backend \in {"asio", "poll"}, NEW w \in World,
           NEW c \in Conn, QueueOK(w, c), NEW v, v = Reply(w, c)
    PROVE  Touches(w, v, c) /\ v.link[c].state = w.link[c].state
  <1>1. CASE backend = "poll"
    <2>1. v = PollSend(w, c)
      BY <1>1 DEF Reply
    <2> QED
      BY <1>1, <2>1, PollSendTouches
  <1>2. CASE backend = "asio"
    <2>1. v = AsioReply(w, c)
      BY <1>2 DEF Reply
    <2> QED
      BY <1>2, <2>1, AsioReplyTouches
  <1> QED
    BY <1>1, <1>2

\* The open connections can be counted.
LEMMA OpenFinite ==
    ASSUME NEW w
    PROVE  IsFiniteSet(OpenIn(w)) /\ Cardinality(OpenIn(w)) \in Nat
  <1>1. OpenIn(w) \subseteq Conn /\ IsFiniteSet(Conn)
    BY ConnectionAssumption DEF OpenIn
  <1>2. IsFiniteSet(OpenIn(w))
    BY <1>1, FS_Subset, Zenon
  <1> QED
    BY <1>2, FS_CardinalityType

\* The server's state stays in order when one connection changes and its closing
\* is booked.
LEMMA BookedServer ==
    ASSUME NEW w, ServerOK(w), NEW c \in Conn, NEW v, OnlyLink(w, v, c),
           Booked(w, v, c), v.link[c].done = w.link[c].done, QueueOK(v, c)
    PROVE  ServerOK(v)
  <1>1. w \in World /\ v \in World /\ w.active = Cardinality(OpenIn(w)) /\ w.active \in Int
    BY LinkFields, Zenon DEF ServerOK, OnlyLink
  <1>2. v.active = Cardinality(OpenIn(v))
    <2>1. CASE v.link[c].state = w.link[c].state /\ v.fed = w.fed /\ v.active = w.active
      <3>1. OpenIn(v) = OpenIn(w)
        BY <2>1 DEF OpenIn, OnlyLink
      <3> QED
        BY <1>1, <2>1, <3>1, Zenon
    <2>2. CASE /\ w.link[c].state = "open" /\ v.link[c].state = "closed"
               /\ v.fed = w.fed \ {c} /\ v.active = w.active - 1
      <3>1. OpenIn(v) = OpenIn(w) \ {c} /\ c \in OpenIn(w)
        BY <2>2 DEF OpenIn, OnlyLink
      <3>2. Cardinality(OpenIn(w) \ {c}) = Cardinality(OpenIn(w)) - 1
        BY <3>1, OpenFinite, FS_RemoveElement, Zenon
      <3> QED
        BY <1>1, <2>2, <3>1, <3>2, Zenon
    <2> QED
      BY <2>1, <2>2 DEF Booked
  <1>3. ASSUME NEW q \in v.fed
        PROVE  v.link[q].state # "backlog" /\ Resynced(v.link[q], q)
    <2>1. q \in w.fed /\ q \in Conn
      BY <1>1, LinkFields DEF Booked
    <2>2. w.link[q].state # "backlog" /\ Resynced(w.link[q], q)
      BY <2>1 DEF ServerOK
    <2>3. CASE q = c
      <3>1. v.link[q].state # "backlog" /\ v.link[q].done = w.link[q].done
        BY <2>2, <2>3 DEF Booked
      <3> QED
        BY <2>2, <3>1 DEF Resynced
    <2>4. CASE q # c
      BY <2>1, <2>2, <2>4 DEF OnlyLink
    <2> QED
      BY <2>3, <2>4
  <1>4. ASSUME NEW q \in Conn
        PROVE  QueueOK(v, q)
    <2>1. QueueOK(w, q)
      BY DEF ServerOK
    <2>2. CASE q # c
      <3>1. v.link[q] = w.link[q]
        BY <2>2 DEF OnlyLink
      <3> QED
        BY <2>1, <3>1 DEF QueueOK
    <2> QED
      BY <2>2
  <1> QED
    BY <1>1, <1>2, <1>3, <1>4, Zenon DEF ServerOK

\* In particular the server's state stays in order when c's link is touched.
LEMMA TouchesServer ==
    ASSUME NEW w, ServerOK(w), NEW c \in Conn, NEW v, Touches(w, v, c)
    PROVE  ServerOK(v)
  <1>1. QueueOK(v, c)
    BY DEF ServerOK, Touches
  <1> QED
    BY <1>1, BookedServer, Zenon DEF Touches

-----------------------------------------------------------------------------
(***************************************************************************)
(* What executing requests of c does to the server's state: a link that    *)
(* has asked for a resync is never registered again, and no connection but *)
(* c can be left over its limit.                                           *)
(***************************************************************************)
ServesOne(w, v, c, q) ==
    /\ Follows(w.link[q], v.link[q])
    /\ v.link[q].done >= w.link[q].done
    /\ w.link[q].state = "backlog" => v.link[q] = w.link[q]
    /\ Resynced(w.link[q], q) /\ q \in v.fed =>
           q \in w.fed /\ v.link[q].state = w.link[q].state
    /\ q # c => /\ v.link[q].in = w.link[q].in /\ v.link[q].done = w.link[q].done
                /\ Bounded(w, q) => Bounded(v, q)

Serves(w, v, c) == \A q \in Conn : ServesOne(w, v, c, q)

\* Executing requests may leave a connection alone.
LEMMA ServesSame ==
    ASSUME NEW w \in World, NEW v, NEW c, NEW q \in Conn,
           v.link[q] = w.link[q], q \in v.fed <=> q \in w.fed
    PROVE  ServesOne(w, v, c, q)
  <1>1. w.link[q].made >= w.link[q].made /\ w.link[q].done >= w.link[q].done
    BY LinkFields
  <1>2. Follows(w.link[q], v.link[q]) /\ v.link[q].done >= w.link[q].done
    BY <1>1 DEF Follows
  <1>3. Bounded(w, q) => Bounded(v, q)
    BY DEF Bounded
  <1> QED
    BY <1>2, <1>3 DEF ServesOne

\* A link that has asked for a resync stays one.
LEMMA ResyncedStays ==
    ASSUME NEW k, NEW l, NEW q, k.done \in Nat, l.done \in Nat, l.done >= k.done,
           Resynced(k, q)
    PROVE  Resynced(l, q)
  <1>1. PICK i \in 1..k.done : Script[q][i] = "psync"
    BY DEF Resynced
  <1>2. i \in 1..l.done
    OBVIOUS
  <1> QED
    BY <1>1, <1>2 DEF Resynced

\* What two requests do behind each other is what requests do.
LEMMA ServesTwice ==
    ASSUME NEW u \in World, NEW w \in World, NEW v \in World, NEW c \in Conn,
           Serves(u, w, c), Serves(w, v, c)
    PROVE  Serves(u, v, c)
  <1> SUFFICES ASSUME NEW q \in Conn PROVE ServesOne(u, v, c, q)
    BY DEF Serves
  <1>1. ServesOne(u, w, c, q) /\ ServesOne(w, v, c, q)
    BY DEF Serves
  <1>2. /\ u.link[q].made \in Nat /\ w.link[q].made \in Nat /\ v.link[q].made \in Nat
        /\ u.link[q].done \in Nat /\ w.link[q].done \in Nat /\ v.link[q].done \in Nat
    BY LinkFields, Zenon
  <1>3. /\ w.link[q].made >= u.link[q].made /\ v.link[q].made >= w.link[q].made
        /\ w.link[q].done >= u.link[q].done /\ v.link[q].done >= w.link[q].done
    BY <1>1, Zenon DEF ServesOne, Follows
  <1>4. v.link[q].made >= u.link[q].made /\ v.link[q].done >= u.link[q].done
    BY <1>2, <1>3
  <1>5. /\ u.link[q].writing =>
               /\ v.link[q].writing /\ v.link[q].out = u.link[q].out
               /\ v.link[q].written = u.link[q].written
        /\ v.link[q].why = "eof" => u.link[q].why = "eof"
    BY <1>1, Zenon DEF ServesOne, Follows
  <1>6. \/ v.link[q].state = u.link[q].state
        \/ backend = "asio" /\ u.link[q].state = "open" /\ v.link[q].state = "closed"
    BY <1>1 DEF ServesOne, Follows
  <1>7. Follows(u.link[q], v.link[q])
    BY <1>4, <1>5, <1>6, Zenon DEF Follows
  <1>8. u.link[q].state = "backlog" => v.link[q] = u.link[q]
    BY <1>1, Zenon DEF ServesOne
  <1>9. Resynced(u.link[q], q) /\ q \in v.fed =>
            q \in u.fed /\ v.link[q].state = u.link[q].state
    <2>1. Resynced(u.link[q], q) => Resynced(w.link[q], q)
      BY <1>2, <1>3, ResyncedStays, Zenon
    <2> QED
      BY <1>1, <2>1, Zenon DEF ServesOne
  <1>10. q # c => /\ v.link[q].in = u.link[q].in /\ v.link[q].done = u.link[q].done
                  /\ Bounded(u, q) => Bounded(v, q)
    BY <1>1 DEF ServesOne
  <1> QED
    BY <1>4, <1>7, <1>8, <1>9, <1>10, Zenon DEF ServesOne

\* A change of c's own link is something c's requests do.
LEMMA TouchesServes ==
    ASSUME NEW w \in World, NEW v, NEW c \in Conn, w.link[c].state # "backlog",
           Touches(w, v, c)
    PROVE  Serves(w, v, c)
  <1> SUFFICES ASSUME NEW q \in Conn PROVE ServesOne(w, v, c, q)
    BY DEF Serves
  <1>1. CASE q # c
    <2>1. v.link[q] = w.link[q]
      BY <1>1 DEF Touches, OnlyLink
    <2>2. q \in v.fed <=> q \in w.fed
      BY <1>1 DEF Touches, Booked
    <2> QED
      BY <2>1, <2>2, ServesSame, Zenon
  <1>2. CASE q = c
    <2>1. v.link[c].done >= w.link[c].done
      <3>1. v.link[c].done = w.link[c].done
        BY DEF Touches
      <3> QED
        BY <3>1, LinkFields
    <2>2. c \in v.fed => c \in w.fed /\ v.link[c].state = w.link[c].state
      BY DEF Touches, Booked
    <2>3. Follows(w.link[c], v.link[c])
      BY Zenon DEF Touches
    <2> QED
      BY <1>2, <2>1, <2>2, <2>3, Zenon DEF ServesOne
  <1> QED
    BY <1>1, <1>2

\* Propagate feeds every link, and closes those that exceed the limit.
LEMMA PropagateServes ==
    ASSUME ConnectionTypeOK, backend \in {"asio", "poll"}, NEW w, ServerOK(w),
           NEW c \in Conn, NEW v, v = Propagate(w)
    PROVE  /\ ServerOK(v) /\ Serves(w, v, c)
           /\ \A q \in Conn : /\ v.link[q].in = w.link[q].in
                             /\ v.link[q].done = w.link[q].done
  <1> DEFINE S(r) == Send(w, r)
             lost == {r \in w.fed : S(r).link[r].state # w.link[r].state}
  <1>1. /\ w \in World /\ w.link \in [Conn -> LinkType] /\ w.fed \subseteq Conn
        /\ w.active \in Int
    <2>1. w \in World
      BY Zenon DEF ServerOK
    <2> QED
      BY <2>1 DEF World
  <1>2. ASSUME NEW r \in w.fed
        PROVE  /\ Touches(w, S(r), r) /\ w.link[r].state # "backlog" /\ r \in Conn
               /\ backend = "asio" /\ S(r).link[r].state = "open" =>
                      Queued(S(r).link[r]) <= MaxOut
               /\ backend = "poll" => S(r).link[r].state = w.link[r].state
    <2>1. r \in Conn /\ QueueOK(w, r) /\ w.link[r].state # "backlog"
      BY <1>1 DEF ServerOK
    <2> QED
      BY <1>1, <2>1, SendTouches, Zenon
  <1>3. /\ v.link = [q \in Conn |-> IF q \in w.fed THEN S(q).link[q] ELSE w.link[q]]
        /\ v.fed = w.fed \ lost
        /\ v.active = w.active - Cardinality(lost)
        /\ v = [link |-> v.link, fed |-> v.fed, active |-> v.active]
    <2> DEFINE pushed == [r \in w.fed |-> S(r).link[r]]
               gone == {r \in w.fed : pushed[r].state # w.link[r].state}
    <2>1. gone = lost
      OBVIOUS
    <2>2. v = [w EXCEPT
                  !.link = [q \in Conn |-> IF q \in w.fed THEN pushed[q] ELSE w.link[q]],
                  !.fed = w.fed \ gone, !.active = w.active - Cardinality(gone)]
      BY DEF Propagate, OnDisconnect
    <2>3. [q \in Conn |-> IF q \in w.fed THEN pushed[q] ELSE w.link[q]]
          = [q \in Conn |-> IF q \in w.fed THEN S(q).link[q] ELSE w.link[q]]
      OBVIOUS
    <2> HIDE DEF gone, pushed, lost, S
    <2> QED
      BY <1>1, <2>1, <2>2, <2>3, Zenon DEF World
  <1> HIDE DEF S
  <1>4. ASSUME NEW r \in w.fed PROVE S(r).link[r] \in LinkType
    <2>1. S(r) \in World /\ r \in Conn
      BY <1>2 DEF Touches, OnlyLink
    <2> QED
      BY <2>1, LinkFields
  <1>5. lost \subseteq w.fed
    OBVIOUS
  <1>6. lost \subseteq OpenIn(w) /\ OpenIn(v) = OpenIn(w) \ lost
    <2>1. ASSUME NEW r \in lost
          PROVE  w.link[r].state = "open" /\ S(r).link[r].state = "closed"
      BY <1>2 DEF Touches, Booked
    <2>2. ASSUME NEW r \in Conn
          PROVE  r \in OpenIn(v) <=> r \in OpenIn(w) \ lost
      <3>1. CASE r \in w.fed
        <4>1. v.link[r] = S(r).link[r]
          BY <1>3, <3>1
        <4>2. r \in lost => v.link[r].state = "closed"
          BY <2>1, <4>1
        <4>3. r \notin lost => v.link[r].state = w.link[r].state
          BY <3>1, <4>1
        <4> QED
          BY <4>2, <4>3 DEF OpenIn
      <3>2. CASE r \notin w.fed
        BY <1>3, <3>2 DEF OpenIn
      <3> QED
        BY <3>1, <3>2, Zenon
    <2>3. lost \subseteq OpenIn(w)
      BY <1>1, <2>1 DEF OpenIn
    <2> QED
      BY <2>2, <2>3 DEF OpenIn
  <1> HIDE DEF lost
  <1>7. v.active = Cardinality(OpenIn(v))
    <2>1. OpenIn(w) \cap lost = lost
      BY <1>6
    <2>2. Cardinality(OpenIn(w) \ lost) = Cardinality(OpenIn(w)) - Cardinality(lost)
      BY <2>1, OpenFinite, FS_Difference, Zenon
    <2>3. w.active = Cardinality(OpenIn(w))
      BY DEF ServerOK
    <2> QED
      BY <1>3, <1>6, <2>2, <2>3
  <1>8. v \in World
    <2>1. v.link \in [Conn -> LinkType]
      BY <1>1, <1>3, <1>4
    <2>2. v.fed \in SUBSET Conn
      BY <1>1, <1>3
    <2>3. v.active \in Int
      BY <1>7, OpenFinite
    <2> QED
      BY <1>3, <2>1, <2>2, <2>3 DEF World
  <1>9. ASSUME NEW q \in Conn
        PROVE  /\ QueueOK(v, q) /\ ServesOne(w, v, c, q)
               /\ v.link[q].in = w.link[q].in /\ v.link[q].done = w.link[q].done
               /\ q \in v.fed => q \in w.fed /\ v.link[q].state = w.link[q].state
    <2>1. QueueOK(w, q)
      BY Zenon DEF ServerOK
    <2>2. CASE q \notin w.fed
      <3>1. v.link[q] = w.link[q] /\ q \notin v.fed
        BY <1>3, <2>2
      <3>2. ServesOne(w, v, c, q)
        BY <1>1, <2>2, <3>1, ServesSame, Zenon
      <3>3. QueueOK(v, q)
        BY <2>1, <3>1, Zenon DEF QueueOK
      <3> QED
        BY <3>1, <3>2, <3>3
    <2>3. CASE q \in w.fed
      <3>1. v.link[q] = S(q).link[q]
        BY <1>3, <2>3
      <3>2. Touches(w, S(q), q)
        BY <1>2, <2>3
      <3>3. QueueOK(S(q), q)
        BY <2>1, <3>2, Zenon DEF Touches
      <3>4. QueueOK(v, q)
        BY <3>1, <3>3, Zenon DEF QueueOK
      <3>5. /\ Follows(w.link[q], v.link[q])
            /\ v.link[q].in = w.link[q].in /\ v.link[q].done = w.link[q].done
        BY <3>1, <3>2, Zenon DEF Touches
      <3>6. v.link[q].done >= w.link[q].done
        BY <1>1, <3>5, LinkFields
      <3>7. w.link[q].state # "backlog"
        BY <1>2, <2>3, Zenon
      <3>8. q \in v.fed => v.link[q].state = w.link[q].state
        BY <1>3, <2>3, <3>1 DEF lost
      <3>9. Bounded(v, q)
        <4>1. CASE backend = "asio"
          BY <1>2, <2>3, <3>1, <4>1, Zenon DEF Bounded
        <4>2. CASE backend = "poll"
          <5>1. q \in v.fed
            BY <1>2, <1>3, <2>3, <4>2 DEF lost
          <5> QED
            BY <4>2, <5>1 DEF Bounded
        <4> QED
          BY <4>1, <4>2
      <3> QED
        BY <2>3, <3>4, <3>5, <3>6, <3>7, <3>8, <3>9, Zenon DEF ServesOne
    <2> QED
      BY <2>2, <2>3
  <1>10. ASSUME NEW q \in v.fed
         PROVE  v.link[q].state # "backlog" /\ Resynced(v.link[q], q)
    <2>1. q \in Conn /\ q \in w.fed
      BY <1>1, <1>3
    <2>2. w.link[q].state # "backlog" /\ Resynced(w.link[q], q)
      BY <2>1, Zenon DEF ServerOK
    <2> QED
      BY <1>9, <2>1, <2>2 DEF Resynced
  <1> QED
    BY <1>7, <1>8, <1>9, <1>10 DEF ServerOK, Serves

\* Request: one more request of c is executed.
LEMMA RequestServes ==
    ASSUME ConnectionTypeOK, backend \in {"asio", "poll"}, NEW w, ServerOK(w),
           NEW c \in Conn, w.link[c].state # "backlog",
           w.link[c].done < Len(Script[c]), NEW v, v = Request(w, c)
    PROVE  /\ ServerOK(v) /\ Serves(w, v, c)
           /\ v.link[c].in = w.link[c].in /\ v.link[c].done = w.link[c].done + 1
  <1> DEFINE k == [w.link[c] EXCEPT !.done = @ + 1]
             d == [w EXCEPT !.link[c].done = @ + 1]
  <1>1. /\ w \in World /\ w.link[c] \in LinkType /\ w.fed \in SUBSET Conn
        /\ w.active \in Int /\ w.link[c].done \in Nat /\ w.link[c].made \in Nat
    <2>1. w \in World
      BY DEF ServerOK
    <2> QED
      BY <2>1, LinkFields
  <1>2. k \in LinkType
    <2>1. w.link[c].done + 1 \in Nat
      BY <1>1
    <2> QED
      BY <1>1, <2>1, Zenon DEF LinkType
  <1>3. d = Put(w, c, k, w.fed, w.active)
    BY <1>1 DEF World, Put
  <1>4. /\ k.done = w.link[c].done + 1
        /\ k.made = w.link[c].made /\ k.out = w.link[c].out
        /\ k.pending = w.link[c].pending /\ k.written = w.link[c].written
        /\ k.writing = w.link[c].writing /\ k.state = w.link[c].state
        /\ k.why = w.link[c].why /\ k.in = w.link[c].in
    BY <1>1 DEF LinkType
  <1>5. v = IF Script[c][d.link[c].done] = "psync"
            THEN [Send(Send(d, c), c) EXCEPT !.fed = @ \cup {c}]
            ELSE Propagate(Reply(d, c))
    BY DEF Request
  <1> HIDE DEF k, d
  <1>6. OnlyLink(w, d, c) /\ d.fed = w.fed /\ d.active = w.active /\ d.link[c] = k
    BY <1>1, <1>2, <1>3, PutFields
  <1>7. d \in World /\ \A q \in Conn \ {c} : d.link[q] = w.link[q]
    BY <1>6, Zenon DEF OnlyLink
  <1>8. k.done >= w.link[c].done /\ k.done \in Nat /\ k.made >= w.link[c].made
    BY <1>1, <1>4
  <1>9. Serves(w, d, c)
    <2> SUFFICES ASSUME NEW q \in Conn PROVE ServesOne(w, d, c, q)
      BY Zenon DEF Serves
    <2>1. CASE q = c
      <3>1. Follows(w.link[c], k)
        BY <1>4, <1>8, Zenon DEF Follows
      <3> QED
        BY <1>4, <1>6, <1>8, <2>1, <3>1, Zenon DEF ServesOne
    <2>2. CASE q # c
      BY <1>1, <1>6, <1>7, <2>2, ServesSame
    <2> QED
      BY <2>1, <2>2, Zenon
  <1>10. ServerOK(d)
    <2>1. OpenIn(d) = OpenIn(w)
      BY <1>4, <1>6, <1>7 DEF OpenIn
    <2>2. ASSUME NEW q \in d.fed
          PROVE  d.link[q].state # "backlog" /\ Resynced(d.link[q], q)
      <3>1. q \in Conn /\ w.link[q].state # "backlog" /\ Resynced(w.link[q], q)
        BY <1>1, <1>6, Zenon DEF ServerOK
      <3>2. CASE q = c
        BY <1>1, <1>4, <1>6, <1>8, <3>1, <3>2, ResyncedStays, Zenon
      <3>3. CASE q # c
        BY <1>7, <3>1, <3>3
      <3> QED
        BY <3>2, <3>3, Zenon
    <2>3. ASSUME NEW q \in Conn PROVE QueueOK(d, q)
      <3>1. QueueOK(w, q)
        BY Zenon DEF ServerOK
      <3>2. CASE q = c
        BY <1>4, <1>6, <3>1, <3>2, Zenon DEF QueueOK, Settled, Continues
      <3>3. CASE q # c
        <4>1. d.link[q] = w.link[q]
          BY <1>7, <3>3
        <4> QED
          BY <3>1, <4>1 DEF QueueOK
      <3> QED
        BY <3>2, <3>3, Zenon
    <2>4. d.active = Cardinality(OpenIn(d))
      BY <1>6, <2>1, Zenon DEF ServerOK
    <2> QED
      BY <1>7, <2>2, <2>3, <2>4, Zenon DEF ServerOK
  <1>11. QueueOK(d, c) /\ d.link[c].state # "backlog"
    BY <1>4, <1>6, <1>10, Zenon DEF ServerOK
  <1>12. CASE Script[c][d.link[c].done] # "psync"
    <2> DEFINE a == Reply(d, c)
    <2>1. v = Propagate(a)
      BY <1>5, <1>12, Zenon
    <2>2. Touches(d, a, c)
      BY <1>7, <1>11, ReplyTouches, Zenon
    <2> HIDE DEF a
    <2>3. ServerOK(a) /\ Serves(d, a, c)
      BY <1>7, <1>10, <1>11, <2>2, TouchesServer, TouchesServes, Zenon
    <2>4. ServerOK(v) /\ Serves(a, v, c)
          /\ v.link[c].in = a.link[c].in /\ v.link[c].done = a.link[c].done
      BY <2>1, <2>3, PropagateServes, Zenon
    <2>5. a \in World /\ v \in World
      BY <2>3, <2>4, Zenon DEF ServerOK
    <2>6. Serves(w, a, c)
      BY <1>1, <1>7, <1>9, <2>3, <2>5, ServesTwice, Zenon
    <2>7. Serves(w, v, c)
      BY <1>1, <2>4, <2>5, <2>6, ServesTwice, Zenon
    <2>8. v.link[c].in = w.link[c].in /\ v.link[c].done = w.link[c].done + 1
      BY <1>4, <1>6, <2>2, <2>4, Zenon DEF Touches
    <2> QED
      BY <2>4, <2>7, <2>8
  <1>13. CASE Script[c][d.link[c].done] = "psync"
    <2> DEFINE a == Send(d, c)
               s == Send(a, c)
    <2>1. v = [s EXCEPT !.fed = s.fed \cup {c}]
      BY <1>5, <1>13, Zenon
    <2>2. Touches(d, a, c)
      BY <1>7, <1>11, SendTouches, Zenon
    <2> HIDE DEF a
    <2>3. ServerOK(a) /\ a \in World /\ QueueOK(a, c)
      BY <1>10, <2>2, TouchesServer, Zenon DEF ServerOK
    <2>4. a.link[c].state # "backlog"
      BY <1>11, <2>2 DEF Touches, Booked
    <2>5. Touches(a, s, c)
      BY <2>3, <2>4, SendTouches, Zenon
    <2> HIDE DEF s
    <2>6. Touches(d, s, c)
      BY <1>7, <2>2, <2>5, TouchesTwice, Zenon
    <2>7. ServerOK(s) /\ Serves(d, s, c)
      BY <1>7, <1>10, <1>11, <2>6, TouchesServer, TouchesServes
    <2>8. s \in World /\ s.link \in [Conn -> LinkType] /\ s.fed \subseteq Conn
      <3>1. s \in World
        BY <2>7, Zenon DEF ServerOK
      <3> QED
        BY <3>1 DEF World
    <2>9. Serves(w, s, c)
      BY <1>1, <1>7, <1>9, <2>7, <2>8, ServesTwice, Zenon
    <2>10. /\ v.link = s.link /\ v.fed = s.fed \cup {c} /\ v.active = s.active
           /\ v \in World
      BY <2>1, <2>8 DEF World
    <2>11. /\ s.link[c].in = w.link[c].in /\ s.link[c].done = w.link[c].done + 1
           /\ s.link[c].state # "backlog"
      BY <1>4, <1>6, <1>11, <2>6 DEF Touches, Booked
    <2>12. Resynced(s.link[c], c) /\ ~Resynced(w.link[c], c)
      <3> DEFINE n == w.link[c].done
      <3>1. Script[c][n + 1] = "psync" /\ n \in Nat /\ n < Len(Script[c])
        BY <1>1, <1>4, <1>6, <1>13
      <3> HIDE DEF n
      <3>2. Script[c] \in Seq({"write", "psync"})
        BY ConnectionAssumption, Zenon
      <3>3. n + 1 \in DOMAIN Script[c]
        BY <3>1, <3>2
      <3>4. ASSUME NEW i \in 1..n, Script[c][i] = "psync" PROVE FALSE
        <4>1. i \in DOMAIN Script[c] /\ i # n + 1
          BY <3>1, <3>2
        <4> QED
          BY <3>1, <3>3, <3>4, <4>1, ConnectionAssumption, Zenon
      <3>5. n + 1 \in 1..(n + 1)
        BY <3>1
      <3> QED
        BY <2>11, <3>1, <3>4, <3>5, Zenon DEF Resynced, n
    <2>13. ServerOK(v)
      <3>1. OpenIn(v) = OpenIn(s)
        BY <2>10, Zenon DEF OpenIn
      <3>2. v.active = Cardinality(OpenIn(v))
        BY <2>7, <2>10, <3>1, Zenon DEF ServerOK
      <3>3. ASSUME NEW q \in Conn PROVE QueueOK(v, q)
        BY <2>7, <2>10, Zenon DEF QueueOK, ServerOK
      <3>4. ASSUME NEW q \in v.fed
            PROVE  v.link[q].state # "backlog" /\ Resynced(v.link[q], q)
        <4>1. q \in s.fed \/ q = c
          BY <2>10
        <4> QED
          BY <2>7, <2>10, <2>11, <2>12, <4>1, Zenon DEF ServerOK
      <3> QED
        BY <2>10, <3>2, <3>3, <3>4, Zenon DEF ServerOK
    <2>14. Serves(w, v, c)
      <3> SUFFICES ASSUME NEW q \in Conn PROVE ServesOne(w, v, c, q)
        BY DEF Serves
      <3>1. ServesOne(w, s, c, q)
        BY <2>9, Zenon DEF Serves
      <3>2. CASE q = c
        BY <2>10, <2>12, <3>1, <3>2, Zenon DEF ServesOne
      <3>3. CASE q # c
        <4>1. q \in v.fed <=> q \in s.fed
          BY <2>10, <3>3
        <4>2. Bounded(s, q) => Bounded(v, q)
          BY <2>10, <4>1 DEF Bounded
        <4> QED
          BY <2>10, <3>1, <4>1, <4>2, Zenon DEF ServesOne
      <3> QED
        BY <3>2, <3>3, Zenon
    <2> QED
      BY <2>10, <2>11, <2>13, <2>14, Zenon
  <1> QED
    BY <1>12, <1>13, Zenon

\* Another input for c.
SetIn(w, c, j) == [w EXCEPT !.link[c].in = j]

\* The input of c changes alone.
LEMMA InFields ==
    ASSUME NEW u \in World, NEW c \in Conn, NEW j \in Nat, NEW w,
           w = SetIn(u, c, j)
    PROVE  /\ OnlyLink(u, w, c) /\ w.fed = u.fed /\ w.active = u.active
           /\ w.link[c].in = j /\ w.link[c].done = u.link[c].done
           /\ w.link[c].made = u.link[c].made /\ w.link[c].out = u.link[c].out
           /\ w.link[c].pending = u.link[c].pending
           /\ w.link[c].written = u.link[c].written
           /\ w.link[c].writing = u.link[c].writing
           /\ w.link[c].state = u.link[c].state /\ w.link[c].why = u.link[c].why
  <1> DEFINE k == [u.link[c] EXCEPT !.in = j]
  <1>1. u.link[c] \in LinkType /\ u.fed \in SUBSET Conn /\ u.active \in Int
    BY LinkFields
  <1>2. w = Put(u, c, k, u.fed, u.active)
    BY DEF SetIn, World, Put
  <1>3. k \in LinkType
    BY <1>1, Zenon DEF LinkType
  <1>4. /\ k.in = j /\ k.done = u.link[c].done
        /\ k.made = u.link[c].made /\ k.out = u.link[c].out
        /\ k.pending = u.link[c].pending /\ k.written = u.link[c].written
        /\ k.writing = u.link[c].writing /\ k.state = u.link[c].state
        /\ k.why = u.link[c].why
    BY <1>1 DEF LinkType
  <1>5. OnlyLink(u, w, c) /\ w.fed = u.fed /\ w.active = u.active /\ w.link[c] = k
    <2> HIDE DEF k
    <2> QED
      BY <1>1, <1>2, <1>3, PutFields
  <1> QED
    BY <1>4, <1>5, Zenon

\* Of two changes of the input only the last one counts.
LEMMA InTwice ==
    ASSUME NEW u \in World, NEW c \in Conn, NEW j \in Nat, NEW i \in Nat, NEW w,
           w = SetIn(u, c, j)
    PROVE  SetIn(w, c, i) = SetIn(u, c, i)
  <1>1. u.link[c] \in LinkType /\ u.link \in [Conn -> LinkType]
    BY LinkFields
  <1>2. \A x \in World : SetIn(x, c, i)
                         = Put(x, c, [x.link[c] EXCEPT !.in = i], x.fed, x.active)
    BY DEF SetIn, World, Put
  <1>3. /\ w \in World /\ w.fed = u.fed /\ w.active = u.active
        /\ w.link[c] = [u.link[c] EXCEPT !.in = j]
        /\ w.link = [u.link EXCEPT ![c] = [u.link[c] EXCEPT !.in = j]]
    <2>1. /\ w.link = [u.link EXCEPT ![c] = [u.link[c] EXCEPT !.in = j]]
          /\ w.link[c] = [u.link[c] EXCEPT !.in = j]
      BY <1>1 DEF SetIn, World
    <2>2. w \in World /\ w.fed = u.fed /\ w.active = u.active
      BY InFields DEF OnlyLink
    <2> QED
      BY <2>1, <2>2
  <1>4. [w.link[c] EXCEPT !.in = i] = [u.link[c] EXCEPT !.in = i]
    BY <1>1, <1>3, Zenon DEF LinkType
  <1>5. PICK k : k = [u.link[c] EXCEPT !.in = i]
    BY Zenon
  <1>6. [w.link EXCEPT ![c] = k] = [u.link EXCEPT ![c] = k]
    BY <1>1, <1>3
  <1>7. SetIn(w, c, i) = Put(w, c, k, w.fed, w.active)
        /\ SetIn(u, c, i) = Put(u, c, k, u.fed, u.active)
    BY <1>2, <1>3, <1>4, <1>5, Zenon
  <1> QED
    BY <1>3, <1>6, <1>7 DEF Put

\* OnData: all complete requests of c's input are executed, on a server whose
\* state is u but for the input of c.
LEMMA OnDataServes ==
    ASSUME ConnectionTypeOK, backend \in {"asio", "poll"}, NEW u, ServerOK(u),
           NEW c \in Conn, u.link[c].state # "backlog", NEW j \in Nat,
           u.link[c].done + (j \div 2) <= Len(Script[c]),
           NEW w, w = SetIn(u, c, j), NEW v, v = OnData(w, c)
    PROVE  /\ ServerOK(v) /\ Serves(u, v, c)
           /\ v.link[c].in = j % 2 /\ v.link[c].done = u.link[c].done + (j \div 2)
  <1> DEFINE N == j \div 2
             m == Len(Script[c])
             z == u.link[c].done
             start == SetIn(w, c, w.link[c].in % 2)
             k == start.link[c]
             V == {x \in World : /\ ServerOK(x) /\ Serves(u, x, c)
                                 /\ x.link[c].state # "backlog"
                                 /\ x.link[c].in = j % 2}
             step(x) == IF x.link[c].done < m THEN Request(x, c) ELSE x
             F == [i \in 1..N |-> [x \in V |-> step(x)]]
             Loop(g) == [i \in 0..N |-> IF i = 0 THEN start ELSE Request(g[i - 1], c)]
             served == CHOOSE g : g = Loop(g)
  <1>1. /\ u \in World /\ u.link[c] \in LinkType /\ u.fed \in SUBSET Conn
        /\ u.active \in Int /\ z \in Nat /\ u.link[c].made \in Nat
        /\ u.link \in [Conn -> LinkType]
    <2>1. u \in World
      BY DEF ServerOK
    <2> QED
      BY <2>1, LinkFields
  <1>2. N \in Nat /\ j % 2 \in Nat /\ m \in Nat /\ z + N <= m
    <2>1. Script[c] \in Seq({"write", "psync"})
      BY ConnectionAssumption, Zenon
    <2> QED
      BY <2>1
  <1>3. w.link[c].in = j /\ start = SetIn(u, c, j % 2)
    <2>1. w.link[c].in = j
      BY <1>1, InFields
    <2> QED
      BY <1>1, <1>2, <2>1, InTwice
  <1>4. v = served[N]
    BY <1>3, Zenon DEF OnData, SetIn
  <1>5. /\ OnlyLink(u, start, c) /\ start.fed = u.fed /\ start.active = u.active
        /\ start.link[c] = k /\ k.in = j % 2 /\ k.done = z
        /\ k.made = u.link[c].made /\ k.out = u.link[c].out
        /\ k.pending = u.link[c].pending /\ k.written = u.link[c].written
        /\ k.writing = u.link[c].writing /\ k.state = u.link[c].state
        /\ k.why = u.link[c].why
    <2> HIDE DEF start
    <2> QED
      BY <1>1, <1>2, <1>3, InFields DEF z
  <1> HIDE DEF N, m, k, start, z
  <1>6. start \in V /\ start.link[c].done = z
    <2>1. OnlyLink(u, start, c) /\ start.fed = u.fed /\ start.active = u.active
          /\ start.link[c] = k
      BY <1>5, Zenon
    <2>2. start \in World /\ \A q \in Conn \ {c} : start.link[q] = u.link[q]
      BY <2>1, Zenon DEF OnlyLink
    <2>4. Serves(u, start, c)
      <3> SUFFICES ASSUME NEW q \in Conn PROVE ServesOne(u, start, c, q)
        BY Zenon DEF Serves
      <3>1. CASE q = c
        <4>1. k.done >= u.link[c].done /\ k.made >= u.link[c].made
          BY <1>1, <1>5 DEF z
        <4>2. Follows(u.link[c], k)
          BY <1>5, <4>1, Zenon DEF Follows
        <4> QED
          BY <1>5, <2>1, <3>1, <4>1, <4>2, Zenon DEF ServesOne
      <3>2. CASE q # c
        BY <1>1, <2>1, <2>2, <3>2, ServesSame
      <3> QED
        BY <3>1, <3>2, Zenon
    <2>5. ServerOK(start)
      <3>1. OpenIn(start) = OpenIn(u)
        BY <1>5, <2>1, <2>2 DEF OpenIn
      <3>2. ASSUME NEW q \in start.fed
            PROVE  start.link[q].state # "backlog" /\ Resynced(start.link[q], q)
        <4>1. q \in Conn /\ u.link[q].state # "backlog" /\ Resynced(u.link[q], q)
          BY <1>1, <2>1, Zenon DEF ServerOK
        <4>2. CASE q = c
          BY <1>5, <2>1, <4>1, <4>2, Zenon DEF Resynced, z
        <4>3. CASE q # c
          BY <2>2, <4>1, <4>3
        <4> QED
          BY <4>2, <4>3, Zenon
      <3>3. ASSUME NEW q \in Conn PROVE QueueOK(start, q)
        <4>1. QueueOK(u, q)
          BY Zenon DEF ServerOK
        <4>2. CASE q = c
          BY <1>5, <2>1, <4>1, <4>2, Zenon DEF QueueOK, Settled, Continues
        <4>3. CASE q # c
          <5>1. start.link[q] = u.link[q]
            BY <2>2, <4>3
          <5> QED
            BY <4>1, <5>1, Zenon DEF QueueOK
        <4> QED
          BY <4>2, <4>3, Zenon
      <3>4. start.active = Cardinality(OpenIn(start))
        BY <2>1, <3>1, Zenon DEF ServerOK
      <3> QED
        BY <2>2, <3>2, <3>3, <3>4, Zenon DEF ServerOK
    <2> QED
      BY <1>5, <2>1, <2>2, <2>4, <2>5, Zenon
  <1>7. ASSUME NEW x \in V, x.link[c].done < m
        PROVE  Request(x, c) \in V /\ Request(x, c).link[c].done = x.link[c].done + 1
    <2> DEFINE y == Request(x, c)
    <2>1. /\ ServerOK(y) /\ Serves(x, y, c)
          /\ y.link[c].in = x.link[c].in /\ y.link[c].done = x.link[c].done + 1
      BY <1>7, RequestServes, Zenon DEF m
    <2> HIDE DEF y
    <2>2. y \in World
      BY <2>1, Zenon DEF ServerOK
    <2>3. Serves(u, y, c)
      BY <1>1, <2>1, <2>2, ServesTwice, Zenon
    <2>4. y.link[c].state # "backlog"
      <3>1. Follows(x.link[c], y.link[c]) /\ x.link[c].state # "backlog"
        BY <2>1, Zenon DEF Serves, ServesOne
      <3> QED
        BY <3>1 DEF Follows
    <2> QED
      BY <2>1, <2>2, <2>3, <2>4, Zenon DEF y
  <1>8. F \in [1..N -> [V -> V]]
    <2>1. ASSUME NEW x \in V PROVE step(x) \in V
      BY <1>7, Zenon
    <2> HIDE DEF V, step
    <2> QED
      BY <2>1
  <1>9. PICK f : IsRun(f, N, V, start, F)
    <2> HIDE DEF F, V
    <2> QED
      BY <1>2, <1>6, <1>8, RunExists
  <1> DEFINE At(g, i) == g[i] \in V /\ g[i].link[c].done = z + i
  <1>10. ASSUME NEW i \in 0..(N - 1), NEW x, x \in V, x.link[c].done = z + i
         PROVE  x.link[c].done < m /\ (z + i) + 1 = z + (i + 1)
    <2>1. z \in Nat
      BY <1>1
    <2> QED
      BY <1>2, <1>10, <2>1
  <1>11. f = Loop(f)
    <2>1. f \in [0..N -> V] /\ f[0] = start /\ \A i \in 1..N : f[i] = F[i][f[i - 1]]
      <3> HIDE DEF F, V
      <3> QED
        BY <1>9 DEF IsRun
    <2>2. ASSUME NEW i \in 0..(N - 1), At(f, i)
          PROVE  f[i + 1] = Request(f[i], c) /\ At(f, i + 1)
      <3>1. i + 1 \in 1..N /\ (i + 1) - 1 = i
        BY <1>2
      <3>2. f[i + 1] = step(f[i])
        <4>1. f[i + 1] = F[i + 1][f[i]]
          BY <2>1, <3>1, Zenon
        <4> HIDE DEF V, step
        <4> QED
          BY <2>2, <3>1, <4>1 DEF At
      <3>3. f[i].link[c].done < m
        BY <1>10, <2>2, Zenon
      <3>4. f[i + 1] = Request(f[i], c)
        BY <3>2, <3>3, Zenon
      <3> QED
        BY <1>7, <1>10, <2>2, <3>3, <3>4, Zenon
    <2> DEFINE S == {i \in 0..N : At(f, i)}
    <2>3. 0 \in S
      <3>1. 0 \in 0..N /\ z + 0 = z
        BY <1>1, <1>2
      <3> QED
        BY <1>6, <2>1, <3>1, Zenon
    <2>4. \A i \in 0..(N - 1) : i \in S => i + 1 \in S
      <3>1. \A i \in 0..(N - 1) : i + 1 \in 0..N
        BY <1>2
      <3> QED
        BY <2>2, <3>1, Zenon
    <2> HIDE DEF S
    <2>5. \A i \in 0..N : i \in S
      BY <1>2, <2>3, <2>4, BoundedInduction
    <2>6. ASSUME NEW i \in 0..N
          PROVE  f[i] = Loop(f)[i]
      <3>1. CASE i = 0
        BY <2>1, <3>1
      <3>2. CASE i # 0
        <4>1. i - 1 \in 0..(N - 1) /\ (i - 1) + 1 = i /\ i - 1 \in 0..N
          BY <1>2, <3>2
        <4>2. At(f, i - 1)
          BY <2>5, <4>1, Zenon DEF S
        <4>3. f[i] = Request(f[i - 1], c)
          BY <2>2, <4>1, <4>2, Zenon
        <4> QED
          BY <3>2, <4>3
      <3> QED
        BY <3>1, <3>2
    <2> HIDE DEF V
    <2> QED
      BY <2>1, <2>6
  <1>12. served = Loop(served)
    <2> HIDE DEF Loop
    <2> QED
      BY <1>11
  <1> HIDE DEF served
  <1>13. /\ served[0] = start
         /\ \A i \in 0..(N - 1) : served[i + 1] = Request(served[i], c)
    <2>1. \A i \in 0..N : served[i] = Loop(served)[i]
      BY <1>12, Zenon
    <2>2. served[0] = start
      BY <1>2, <2>1
    <2>3. ASSUME NEW i \in 0..(N - 1)
          PROVE  served[i + 1] = Request(served[i], c)
      <3>1. i + 1 \in 0..N /\ i + 1 # 0 /\ (i + 1) - 1 = i
        <4>1. PICK n \in Nat : n = N
          BY <1>2
        <4> QED
          BY <4>1
      <3>2. Loop(served)[i + 1] = Request(served[(i + 1) - 1], c)
        BY <3>1
      <3> QED
        BY <2>1, <3>1, <3>2
    <2> QED
      BY <2>2, <2>3, Zenon
  <1> DEFINE S == {i \in 0..N : At(served, i)}
  <1>14. 0 \in S
    <2>1. 0 \in 0..N /\ z + 0 = z
      BY <1>1, <1>2
    <2> QED
      BY <1>6, <1>13, <2>1, Zenon
  <1>15. ASSUME NEW i \in 0..(N - 1), i \in S
         PROVE  i + 1 \in S
    <2>1. i + 1 \in 0..N
      BY <1>2
    <2>2. At(served, i) /\ served[i + 1] = Request(served[i], c)
      BY <1>13, <1>15, Zenon
    <2>3. served[i].link[c].done < m /\ (z + i) + 1 = z + (i + 1)
      BY <1>10, <2>2, Zenon
    <2> QED
      BY <1>7, <2>1, <2>2, <2>3, Zenon
  <1> HIDE DEF S
  <1>16. N \in S
    <2>1. \A i \in 0..N : i \in S
      BY <1>2, <1>14, <1>15, BoundedInduction
    <2> QED
      BY <1>2, <2>1
  <1> QED
    BY <1>4, <1>16 DEF S, N, z

-----------------------------------------------------------------------------
(***************************************************************************)
(* Steps.  What a step leaves of a connection it is not about, and of the  *)
(* server's state when only the clients or the event loop move.            *)
(***************************************************************************)
\* The types, one connection at a time.
LEMMA ConnTypes ==
    ASSUME TypeOK, NEW q \in Conn
    PROVE  /\ sent[q] \in Nat /\ rcv[q] \in Nat /\ readn[q] \in Nat
           /\ peer[q] \in {"open", "fin", "reset"}
           /\ got[q] \in Seq(Nat) /\ net[q] \in Seq(Nat)
           /\ readop[q] \in {"none", "armed", "done", "eof", "error"}
           /\ revents[q] \subseteq {"in", "out", "hup"}
           /\ world \in World
  <1>1. ReadChunk \in Nat
    BY ConnectionAssumption
  <1>2. world \in World
    BY DEF TypeOK, ConnectionTypeOK, World
  <1> QED
    BY <1>1, <1>2 DEF TypeOK, ConnectionTypeOK, AsioTypeOK, PollTypeOK

\* The gauge is a natural number.
LEMMA ServerType ==
    ASSUME NEW w, ServerOK(w)
    PROVE  w \in [link : [Conn -> LinkType], fed : SUBSET Conn, active : Nat]
  <1>1. w \in World /\ w.active \in Nat
    BY OpenFinite, Zenon DEF ServerOK
  <1> QED
    BY <1>1 DEF World

SameSocket(q) ==
    /\ sent'[q] = sent[q] /\ peer'[q] = peer[q] /\ got'[q] = got[q]
    /\ rcv'[q] = rcv[q] /\ net'[q] = net[q]
    /\ readop'[q] = readop[q] /\ readn'[q] = readn[q]
    /\ revents'[q] = revents[q] /\ (q \in dead' <=> q \in dead)

\* A connection on which no request is executed stays in order.
LEMMA OtherConn ==
    ASSUME NEW q \in Conn, ConnOK(q), TypeOK, backend' = backend, SameSocket(q),
           world' \in World, Follows(world.link[q], world'.link[q]),
           world'.link[q].in = world.link[q].in,
           world'.link[q].done = world.link[q].done,
           world.link[q].state = "backlog" => world'.link[q] = world.link[q],
           Bounded(world, q) => Bounded(world', q)
    PROVE  ConnOK(q)'
  <1> DEFINE k == world.link[q]
             l == world'.link[q]
  <1>1. /\ l.made >= k.made /\ l.in = k.in /\ l.done = k.done
        /\ l.state = k.state
           \/ (backend = "asio" /\ k.state = "open" /\ l.state = "closed")
        /\ l.why = "eof" => k.why = "eof"
        /\ k.state = "backlog" => l = k
    BY Zenon DEF Follows
  <1>2. /\ sent'[q] = sent[q] /\ peer'[q] = peer[q] /\ got'[q] = got[q]
        /\ rcv'[q] = rcv[q] /\ net'[q] = net[q]
        /\ readop'[q] = readop[q] /\ readn'[q] = readn[q]
        /\ revents'[q] = revents[q] /\ (q \in dead' <=> q \in dead)
    BY Zenon DEF SameSocket
  <1>3. UnitsOK(q)'
    BY <1>1, <1>2, Zenon DEF ConnOK, UnitsOK
  <1>4. ArrivedOK(q)'
    <2>1. Delivered(q) <= k.made /\ Delivered(q)' = Delivered(q)
      BY <1>2, Zenon DEF ConnOK, ArrivedOK, Delivered
    <2>2. Delivered(q) \in Nat /\ k.made \in Nat /\ l.made \in Nat
      BY DeliveredType, ConnTypes, LinkFields DEF TypeOK
    <2>3. Delivered(q)' <= l.made
      BY <1>1, <2>1, <2>2
    <2> QED
      BY <1>2, <2>3, Zenon DEF ConnOK, ArrivedOK
  <1>5. SessionOK(q)'
    <2>1. l.state = "backlog" => k.state = "backlog"
      BY <1>1
    <2> QED
      BY <1>1, <1>2, <2>1, Zenon DEF ConnOK, SessionOK
  <1>6. SweepOK(q)'
    <2>1. backend = "poll" => l.state = k.state
      BY <1>1
    <2>2. backend \in {"asio", "poll"}
      BY DEF TypeOK
    <2>3. Open(q)' <=> l.state = "open"
      BY DEF Open
    <2> HIDE DEF l
    <2> QED
      BY <1>2, <2>1, <2>2, <2>3 DEF ConnOK, SweepOK, Open
  <1>7. EndedOK(q)'
    <2>1. k.state = "closed" => l.state = "closed"
      BY <1>1
    <2> QED
      BY <1>1, <1>2, <2>1, Zenon DEF ConnOK, EndedOK, Closed
  <1>8. Bounded(world, q)'
    <2>1. Bounded(world', q)
      BY DEF ConnOK
    <2> QED
      BY <1>2, <2>1 DEF Bounded
  <1> QED
    BY <1>3, <1>4, <1>5, <1>6, <1>7, <1>8, Zenon DEF ConnOK

\* What no step does to a connection: it takes nothing back, does not change
\* out while a write is in flight, and does not feed a link it has closed.
Steady(w, v, q) ==
    /\ v.link[q].made >= w.link[q].made
    /\ w.link[q].writing /\ w.link[q].written < Len(w.link[q].out)
           /\ v.link[q].writing => v.link[q].out = w.link[q].out
    /\ q \in w.fed /\ w.link[q].state = "open" /\ v.link[q].state = "closed" =>
           q \notin v.fed

\* A connection that stays as it is is steady.
LEMMA SteadySame ==
    ASSUME NEW w \in World, NEW v, NEW q \in Conn, v.link[q] = w.link[q]
    PROVE  Steady(w, v, q)
  <1>1. w.link[q].made \in Nat
    BY LinkFields
  <1>2. w.link[q].made >= w.link[q].made
    BY <1>1
  <1>3. "open" # "closed"
    OBVIOUS
  <1> QED
    BY <1>2, <1>3, Zenon DEF Steady

\* Executing requests, whoever has sent them, is steady for every connection.
LEMMA ServesSteady ==
    ASSUME NEW w, ServerOK(w), NEW v, NEW c \in Conn, NEW q \in Conn,
           ServesOne(w, v, c, q)
    PROVE  Steady(w, v, q)
  <1>1. /\ Follows(w.link[q], v.link[q])
        /\ Resynced(w.link[q], q) /\ q \in v.fed =>
               q \in w.fed /\ v.link[q].state = w.link[q].state
    BY Zenon DEF ServesOne
  <1>2. q \in w.fed => Resynced(w.link[q], q)
    BY DEF ServerOK
  <1>3. "open" # "closed"
    OBVIOUS
  <1> QED
    BY <1>1, <1>2, <1>3, Zenon DEF Steady, Follows

\* A connection that a step is not about stays in order.
LEMMA SameConn ==
    ASSUME NEW q \in Conn, ConnOK(q), TypeOK, backend' = backend, SameSocket(q),
           world' \in World, world'.link[q] = world.link[q],
           q \in world'.fed <=> q \in world.fed
    PROVE  ConnOK(q)'
  <1>1. world \in World
    BY ConnTypes
  <1>2. ServesOne(world, world', NoConn, q)
    BY <1>1, ServesSame
  <1>3. Follows(world.link[q], world'.link[q])
    BY <1>2, Zenon DEF ServesOne
  <1>4. Bounded(world, q) => Bounded(world', q)
    BY Zenon DEF Bounded
  <1> QED
    BY <1>3, <1>4, OtherConn, Zenon

\* The queues, when nothing leaves the server.
LEMMA SameQueues ==
    ASSUME ServerOK(world'), backend' = backend, peer' = peer, got' = got, net' = net
    PROVE  ServerOK(world)'
  BY Zenon DEF ServerOK, QueueOK, Settled, Continues, Delivered, Counts, World,
               OpenIn, Resynced

-----------------------------------------------------------------------------
(***************************************************************************)
(* The initial states, and the steps of the clients.                       *)
(***************************************************************************)
\* The invariant holds when the server starts.
LEMMA InitOK ==
    Init => IInv
  <1> SUFFICES ASSUME Init PROVE IInv
    OBVIOUS
  <1>1. NewLink \in LinkType
    BY DEF NewLink, LinkType
  <1>2. /\ \A c \in Conn : world.link[c] = NewLink
        /\ world.link = [c \in Conn |-> NewLink]
        /\ world.fed = {} /\ world.active = 0
        /\ world = [link |-> [c \in Conn |-> NewLink], fed |-> {}, active |-> 0]
    BY DEF Init, ConnectionInit
  <1>3. NewLink.state = "backlog" /\ NewLink.why = "none" /\ NewLink.in = 0
        /\ NewLink.out = <<>> /\ NewLink.pending = <<>> /\ ~NewLink.writing
        /\ NewLink.written = 0 /\ NewLink.done = 0 /\ NewLink.made = 0
    BY DEF NewLink
  <1>4. world \in [link : [Conn -> LinkType], fed : SUBSET Conn, active : Nat]
    BY <1>1, <1>2
  <1>5. ConnectionTypeOK
    BY <1>4 DEF Init, ConnectionInit, ConnectionTypeOK
  <1>6. TypeOK
    <2>1. AsioTypeOK
      <3>1. 0 \in 0..ReadChunk
        BY ConnectionAssumption
      <3> QED
        BY <3>1 DEF Init, AsioInit, AsioTypeOK
    <2>2. PollTypeOK
      <3>1. revents \in [Conn -> SUBSET {"in", "out", "hup"}] /\ dead \subseteq Conn
        BY DEF Init, PollInit
      <3>2. accepting \in BOOLEAN /\ cursor \in Conn \cup {NoConn}
        BY Zenon DEF Init, PollInit
      <3> QED
        BY <3>1, <3>2 DEF PollTypeOK
    <2> QED
      BY <1>5, <2>1, <2>2 DEF TypeOK, Init
  <1>7. ASSUME NEW c \in Conn
        PROVE  /\ sent[c] = 0 /\ rcv[c] = 0 /\ readn[c] = 0 /\ readop[c] = "none"
               /\ got[c] = <<>> /\ net[c] = <<>> /\ revents[c] = {} /\ c \notin dead
               /\ peer[c] = "open"
    BY DEF Init, ConnectionInit, AsioInit, PollInit
  <1>8. Len(<<>>) = 0
    OBVIOUS
  <1>9. ASSUME NEW c \in Conn PROVE QueueOK(world, c)
    <2>1. Delivered(c) = 0
      <3>1. Len(got[c]) = 0 /\ Len(net[c]) = 0
        BY <1>7, <1>8
      <3>2. 0 + 0 = 0
        OBVIOUS
      <3> QED
        BY <3>1, <3>2 DEF Delivered
    <2>2. Continues(NewLink, 0)
      BY <1>3, <1>8 DEF Continues, Counts
    <2> QED
      BY <1>2, <1>3, <2>1, <2>2 DEF QueueOK, Settled
  <1>10. OpenIn(world) = {}
    BY <1>2, <1>3 DEF OpenIn
  <1>11. ServerOK(world)
    <2>1. world \in World
      BY <1>4 DEF World
    <2> QED
      BY <1>2, <1>9, <1>10, <2>1, FS_EmptySet DEF ServerOK
  <1>12. ASSUME NEW c \in Conn PROVE ConnOK(c)
    <2>1. Script[c] \in Seq({"write", "psync"})
      BY ConnectionAssumption
    <2>2. Len(Script[c]) \in Nat
      BY <2>1
    <2>3. UnitsOK(c)
      BY <1>2, <1>3, <1>7, <2>2 DEF UnitsOK
    <2>4. ArrivedOK(c)
      <3>1. Len(got[c]) = 0 /\ Len(net[c]) = 0 /\ world.link[c].made = 0
        BY <1>2, <1>3, <1>7, <1>8, Zenon
      <3>2. 0 + 0 <= 0 /\ 1..0 = {} /\ "open" # "reset" /\ 0 <= SendCap
        BY ConnectionAssumption
      <3> QED
        BY <1>7, <3>1, <3>2, Zenon DEF ArrivedOK, Delivered
    <2>5. SessionOK(c)
      <3>1. "none" # "done" /\ "none" # "eof"
        OBVIOUS
      <3> QED
        BY <1>2, <1>3, <1>7, <3>1, Zenon DEF SessionOK
    <2>6. SweepOK(c)
      BY <1>7 DEF SweepOK
    <2>7. EndedOK(c) /\ Bounded(world, c)
      BY <1>2, <1>3 DEF EndedOK, Bounded
    <2> QED
      BY <2>3, <2>4, <2>5, <2>6, <2>7 DEF ConnOK
  <1> QED
    BY <1>6, <1>11, <1>12 DEF IInv

\* A client that sends half a request: it is in the socket then.
LEMMA ClientSendsOK ==
    ASSUME IInv, NEW c \in Conn, ClientSends(c), UNCHANGED <<backend, asioVars, pollVars>>
    PROVE  IInv'
  <1>1. /\ peer[c] = "open" /\ sent[c] < 2 * Len(Script[c])
        /\ sent' = [sent EXCEPT ![c] = @ + 1] /\ rcv' = [rcv EXCEPT ![c] = @ + 1]
        /\ peer' = peer /\ got' = got /\ net' = net /\ world' = world
        /\ backend' = backend /\ readop' = readop /\ readn' = readn
        /\ revents' = revents /\ accepting' = accepting /\ cursor' = cursor
        /\ dead' = dead
    BY DEF ClientSends, asioVars, pollVars
  <1>2. TypeOK /\ ServerOK(world) /\ \A q \in Conn : ConnOK(q)
    BY Zenon DEF IInv
  <1>3. world' \in World
    BY <1>1, <1>2, ConnTypes
  <1>4. /\ sent[c] \in Nat /\ rcv[c] \in Nat /\ sent \in [Conn -> Nat]
        /\ rcv \in [Conn -> Nat]
    BY <1>2 DEF TypeOK, ConnectionTypeOK
  <1>5. TypeOK'
    <2>1. sent' \in [Conn -> Nat] /\ rcv' \in [Conn -> Nat]
      BY <1>1, <1>4
    <2> QED
      BY <1>1, <1>2, <2>1, Zenon
      DEF TypeOK, ConnectionTypeOK, AsioTypeOK, PollTypeOK
  <1>6. ServerOK(world)'
    BY <1>1, <1>2, SameQueues, Zenon
  <1>7. ASSUME NEW q \in Conn PROVE ConnOK(q)'
    <2>1. CASE q # c
      <3>1. SameSocket(q)
        BY <1>1, <1>4, <2>1 DEF SameSocket
      <3> QED
        BY <1>1, <1>2, <1>3, <3>1, SameConn, Zenon
    <2>2. CASE q = c
      <3>1. ConnOK(c)
        BY <1>2
      <3>2. sent'[c] = sent[c] + 1 /\ rcv'[c] = rcv[c] + 1
        BY <1>1, <1>4
      <3>3. UnitsOK(c)'
        <4>1. Script[c] \in Seq({"write", "psync"})
          BY ConnectionAssumption, Zenon
        <4>2. /\ Len(Script[c]) \in Nat /\ readn[c] \in Nat
              /\ world.link[c].in \in Nat /\ world.link[c].done \in Nat
          BY <1>2, <4>1, ConnTypes, LinkFields
        <4>3. sent'[c] <= 2 * Len(Script[c])
          BY <1>1, <1>4, <3>2, <4>2
        <4>4. sent'[c] = rcv'[c] + readn[c] + world.link[c].in + 2 * world.link[c].done
          <5>1. PICK s \in Nat, r \in Nat, n \in Nat, i \in Nat, d \in Nat :
                    /\ s = sent[c] /\ r = rcv[c] /\ n = readn[c]
                    /\ i = world.link[c].in /\ d = world.link[c].done
            BY <1>4, <4>2, Zenon
          <5>2. s = r + n + i + 2 * d
            BY <3>1, <5>1 DEF ConnOK, UnitsOK
          <5>3. s + 1 = (r + 1) + n + i + 2 * d
            BY <5>2
          <5> QED
            BY <3>2, <5>1, <5>3, Zenon
        <4> QED
          BY <1>1, <3>1, <4>3, <4>4, Zenon DEF ConnOK, UnitsOK
      <3>4. ArrivedOK(c)'
        BY <1>1, <3>1, Zenon DEF ConnOK, ArrivedOK, Delivered
      <3>5. SessionOK(c)'
        BY <1>1, <3>1, Zenon DEF ConnOK, SessionOK
      <3>6. SweepOK(c)'
        BY <1>1, <3>1, Zenon DEF ConnOK, SweepOK, Open
      <3>7. EndedOK(c)'
        BY <1>1, <3>1, Zenon DEF ConnOK, EndedOK
      <3>8. Bounded(world, c)'
        BY <1>1, <3>1, Zenon DEF ConnOK, Bounded
      <3> QED
        BY <2>2, <3>3, <3>4, <3>5, <3>6, <3>7, <3>8, Zenon DEF ConnOK
    <2> QED
      BY <2>1, <2>2, Zenon
  <1> QED
    BY <1>5, <1>6, <1>7, Zenon DEF IInv

\* The queues, when a client moves.
LEMMA ClientQueues ==
    ASSUME ServerOK(world), world' = world, backend' = backend,
           \A q \in Conn : peer'[q] # "reset" =>
                               peer[q] # "reset" /\ Delivered(q)' = Delivered(q)
    PROVE  ServerOK(world)'
  <1>1. ASSUME NEW q \in Conn PROVE QueueOK(world, q)'
    <2>1. QueueOK(world, q)
      BY Zenon DEF ServerOK
    <2> QED
      BY <2>1, Zenon DEF QueueOK, Settled
  <1> QED
    BY <1>1, Zenon DEF ServerOK, OpenIn, Resynced, World

\* A client that ends its side.
LEMMA ClientEndsOK ==
    ASSUME IInv, NEW c \in Conn, ClientEnds(c), UNCHANGED <<backend, asioVars, pollVars>>
    PROVE  IInv'
  <1>1. /\ peer[c] = "open" /\ peer' = [peer EXCEPT ![c] = "fin"]
        /\ sent' = sent /\ got' = got /\ rcv' = rcv /\ net' = net /\ world' = world
        /\ backend' = backend /\ readop' = readop /\ readn' = readn
        /\ revents' = revents /\ accepting' = accepting /\ cursor' = cursor
        /\ dead' = dead
    BY DEF ClientEnds, asioVars, pollVars
  <1>2. TypeOK /\ ServerOK(world) /\ \A q \in Conn : ConnOK(q)
    BY DEF IInv
  <1>3. world' \in World
    BY <1>1, <1>2, ConnTypes
  <1>4. peer \in [Conn -> {"open", "fin", "reset"}]
    BY <1>2 DEF TypeOK, ConnectionTypeOK
  <1>5. TypeOK'
    <2>1. peer' \in [Conn -> {"open", "fin", "reset"}]
      BY <1>1, <1>4
    <2> QED
      BY <1>1, <1>2, <2>1, Zenon
      DEF TypeOK, ConnectionTypeOK, AsioTypeOK, PollTypeOK
  <1>6. ServerOK(world)'
    <2>1. ASSUME NEW q \in Conn, peer'[q] # "reset" PROVE peer[q] # "reset"
      BY <1>1, <1>4, <2>1
    <2>2. \A q \in Conn : Delivered(q)' = Delivered(q)
      BY <1>1, Zenon DEF Delivered
    <2> QED
      BY <1>1, <1>2, <2>1, <2>2, ClientQueues, Zenon
  <1>7. ASSUME NEW q \in Conn PROVE ConnOK(q)'
    <2>1. CASE q # c
      <3>1. SameSocket(q)
        BY <1>1, <1>4, <2>1 DEF SameSocket
      <3> QED
        BY <1>1, <1>2, <1>3, <3>1, SameConn, Zenon
    <2>2. CASE q = c
      <3>1. ConnOK(c)
        BY <1>2
      <3>2. peer'[c] = "fin" /\ peer'[c] # "open" /\ peer'[c] # "reset"
        BY <1>1, <1>4
      <3>3. UnitsOK(c)' /\ ArrivedOK(c)'
        BY <1>1, <3>1, <3>2, Zenon DEF ConnOK, UnitsOK, ArrivedOK, Delivered
      <3>4. SessionOK(c)' /\ SweepOK(c)'
        BY <1>1, <3>1, <3>2 DEF ConnOK, SessionOK, SweepOK, Open
      <3>5. EndedOK(c)' /\ Bounded(world, c)'
        BY <1>1, <3>1, <3>2, Zenon DEF ConnOK, EndedOK, Bounded
      <3> QED
        BY <2>2, <3>3, <3>4, <3>5, Zenon DEF ConnOK
    <2> QED
      BY <2>1, <2>2
  <1> QED
    BY <1>5, <1>6, <1>7 DEF IInv

\* A client that resets the connection: what was on its way is lost.
LEMMA ClientResetsOK ==
    ASSUME IInv, NEW c \in Conn, ClientResets(c),
           UNCHANGED <<backend, asioVars, pollVars>>
    PROVE  IInv'
  <1>1. /\ peer' = [peer EXCEPT ![c] = "reset"] /\ net' = [net EXCEPT ![c] = <<>>]
        /\ sent' = sent /\ got' = got /\ rcv' = rcv /\ world' = world
        /\ backend' = backend /\ readop' = readop /\ readn' = readn
        /\ revents' = revents /\ accepting' = accepting /\ cursor' = cursor
        /\ dead' = dead
    BY DEF ClientResets, asioVars, pollVars
  <1>2. TypeOK /\ ServerOK(world) /\ \A q \in Conn : ConnOK(q)
    BY DEF IInv
  <1>3. world' \in World
    BY <1>1, <1>2, ConnTypes
  <1>4. peer \in [Conn -> {"open", "fin", "reset"}] /\ net \in [Conn -> Seq(Nat)]
    BY <1>2 DEF TypeOK, ConnectionTypeOK
  <1>5. TypeOK'
    <2>1. peer' \in [Conn -> {"open", "fin", "reset"}] /\ net' \in [Conn -> Seq(Nat)]
      BY <1>1, <1>4
    <2> QED
      BY <1>1, <1>2, <2>1, Zenon
      DEF TypeOK, ConnectionTypeOK, AsioTypeOK, PollTypeOK
  <1>8. ASSUME NEW q \in Conn, q # c PROVE peer'[q] = peer[q] /\ net'[q] = net[q]
    BY <1>1, <1>4, <1>8
  <1>9. peer'[c] = "reset" /\ net'[c] = <<>> /\ peer'[c] # "open"
    BY <1>1, <1>4
  <1>6. ServerOK(world)'
    <2>1. ASSUME NEW q \in Conn, peer'[q] # "reset"
          PROVE  peer[q] # "reset" /\ Delivered(q)' = Delivered(q)
      BY <1>1, <1>8, <1>9, <2>1, Zenon DEF Delivered
    <2> QED
      BY <1>1, <1>2, <2>1, ClientQueues, Zenon
  <1>7. ASSUME NEW q \in Conn PROVE ConnOK(q)'
    <2>1. CASE q # c
      <3>1. SameSocket(q)
        BY <1>1, <1>8, <2>1 DEF SameSocket
      <3> QED
        BY <1>1, <1>2, <1>3, <3>1, SameConn
    <2>2. CASE q = c
      <3>1. ConnOK(c)
        BY <1>2
      <3>2. UnitsOK(c)'
        BY <1>1, <3>1, Zenon DEF ConnOK, UnitsOK
      <3>3. ArrivedOK(c)'
        <4>1. PICK m \in Nat, g \in Nat, n \in Nat :
                  m = world.link[c].made /\ g = Len(got[c]) /\ n = Len(net[c])
          <5>1. Len(got[c]) \in Nat /\ Len(net[c]) \in Nat
            BY <1>2, ConnTypes
          <5>2. world.link[c].made \in Nat
            BY <1>2, ConnTypes, LinkFields
          <5> QED
            BY <5>1, <5>2, Zenon
        <4>2. g + n <= m
          BY <3>1, <4>1, Zenon DEF ConnOK, ArrivedOK, Delivered
        <4>3. g + 0 <= m /\ Len(<<>>) = 0 /\ 1..0 = {} /\ 0 <= SendCap
          BY <4>2, ConnectionAssumption
        <4>4. Delivered(c)' <= world'.link[c].made
          BY <1>1, <1>9, <4>1, <4>3, Zenon DEF Delivered
        <4> QED
          BY <1>1, <1>9, <3>1, <4>3, <4>4, Zenon DEF ConnOK, ArrivedOK
      <3>4. SessionOK(c)' /\ SweepOK(c)'
        BY <1>1, <1>9, <3>1 DEF ConnOK, SessionOK, SweepOK, Open
      <3>5. EndedOK(c)' /\ Bounded(world, c)'
        BY <1>1, <1>9, <3>1, Zenon DEF ConnOK, EndedOK, Bounded, Closed
      <3> QED
        BY <2>2, <3>2, <3>3, <3>4, <3>5, Zenon DEF ConnOK
    <2> QED
      BY <2>1, <2>2
  <1> QED
    BY <1>5, <1>6, <1>7 DEF IInv

\* Moving the head of a sequence that counts on to the end of the one before it.
LEMMA MoveHead ==
    ASSUME NEW g \in Seq(Nat), NEW n \in Seq(Nat), n # <<>>,
           \A i \in 1..Len(g) : g[i] = i, \A i \in 1..Len(n) : n[i] = Len(g) + i,
           NEW h, h = Append(g, Head(n)), NEW t, t = Tail(n)
    PROVE  /\ h \in Seq(Nat) /\ t \in Seq(Nat)
           /\ Len(h) = Len(g) + 1 /\ Len(h) + Len(t) = Len(g) + Len(n)
           /\ h = Append(g, Len(g) + 1)
           /\ \A i \in 1..Len(h) : h[i] = i
           /\ \A i \in 1..Len(t) : t[i] = Len(h) + i
  <1>1. Len(n) \in Nat /\ Len(n) > 0 /\ Len(g) \in Nat
    OBVIOUS
  <1>2. Head(n) = Len(g) + 1
    BY <1>1
  <1>3. Len(h) = Len(g) + 1 /\ h \in Seq(Nat) /\ \A i \in 1..Len(h) : h[i] = i
    BY <1>1, <1>2
  <1>4. t \in Seq(Nat) /\ Len(t) = Len(n) - 1 /\ \A i \in 1..Len(t) : t[i] = n[i + 1]
    BY <1>1
  <1>5. ASSUME NEW i \in 1..Len(t) PROVE t[i] = Len(h) + i
    BY <1>1, <1>3, <1>4
  <1> QED
    BY <1>1, <1>2, <1>3, <1>4, <1>5

\* A client that reads takes the next piece of what is on its way.
LEMMA ClientReadsOK ==
    ASSUME IInv, NEW c \in Conn, ClientReads(c),
           UNCHANGED <<backend, asioVars, pollVars>>
    PROVE  IInv'
  <1>1. /\ peer[c] # "reset" /\ net[c] # <<>>
        /\ got' = [got EXCEPT ![c] = Append(@, Head(net[c]))]
        /\ net' = [net EXCEPT ![c] = Tail(@)]
        /\ sent' = sent /\ peer' = peer /\ rcv' = rcv /\ world' = world
        /\ backend' = backend /\ readop' = readop /\ readn' = readn
        /\ revents' = revents /\ accepting' = accepting /\ cursor' = cursor
        /\ dead' = dead
    BY DEF ClientReads, asioVars, pollVars
  <1>2. TypeOK /\ ServerOK(world) /\ \A q \in Conn : ConnOK(q)
    BY DEF IInv
  <1>3. world' \in World
    BY <1>1, <1>2, ConnTypes
  <1>4. got \in [Conn -> Seq(Nat)] /\ net \in [Conn -> Seq(Nat)]
    BY <1>2 DEF TypeOK, ConnectionTypeOK
  <1>8. ASSUME NEW q \in Conn, q # c PROVE got'[q] = got[q] /\ net'[q] = net[q]
    BY <1>1, <1>4, <1>8
  <1>9. got'[c] = Append(got[c], Head(net[c])) /\ net'[c] = Tail(net[c])
    BY <1>1, <1>4
  <1>10. /\ got'[c] \in Seq(Nat) /\ net'[c] \in Seq(Nat)
         /\ Len(got'[c]) = Len(got[c]) + 1
         /\ Len(got'[c]) + Len(net'[c]) = Len(got[c]) + Len(net[c])
         /\ \A i \in 1..Len(got'[c]) : got'[c][i] = i
         /\ \A i \in 1..Len(net'[c]) : net'[c][i] = Len(got'[c]) + i
    <2>1. got[c] \in Seq(Nat) /\ net[c] \in Seq(Nat)
      BY <1>4
    <2>2. /\ \A i \in 1..Len(got[c]) : got[c][i] = i
          /\ \A i \in 1..Len(net[c]) : net[c][i] = Len(got[c]) + i
      BY <1>2 DEF ConnOK, ArrivedOK
    <2>3. PICK g \in Seq(Nat), n \in Seq(Nat) : g = got[c] /\ n = net[c]
      BY <2>1
    <2>4. PICK h, t : h = got'[c] /\ t = net'[c]
      OBVIOUS
    <2>5. n # <<>> /\ h = Append(g, Head(n)) /\ t = Tail(n)
      BY <1>1, <1>9, <2>3, <2>4, Zenon
    <2>6. /\ \A i \in 1..Len(g) : g[i] = i
          /\ \A i \in 1..Len(n) : n[i] = Len(g) + i
      BY <2>2, <2>3, Zenon
    <2>7. /\ h \in Seq(Nat) /\ t \in Seq(Nat) /\ Len(h) = Len(g) + 1
          /\ Len(h) + Len(t) = Len(g) + Len(n)
          /\ \A i \in 1..Len(h) : h[i] = i
          /\ \A i \in 1..Len(t) : t[i] = Len(h) + i
      BY <2>5, <2>6, MoveHead
    <2> QED
      BY <2>3, <2>4, <2>7, Zenon
  <1>5. TypeOK'
    <2>1. got' \in [Conn -> Seq(Nat)] /\ net' \in [Conn -> Seq(Nat)]
      <3>1. Append(got[c], Head(net[c])) \in Seq(Nat) /\ Tail(net[c]) \in Seq(Nat)
        BY <1>9, <1>10, Zenon
      <3> QED
        BY <1>1, <1>4, <3>1
    <2> QED
      BY <1>1, <1>2, <2>1, Zenon
      DEF TypeOK, ConnectionTypeOK, AsioTypeOK, PollTypeOK
  <1>6. ServerOK(world)'
    <2>1. ASSUME NEW q \in Conn PROVE Delivered(q)' = Delivered(q)
      BY <1>8, <1>10, Zenon DEF Delivered
    <2> QED
      BY <1>1, <1>2, <2>1, ClientQueues, Zenon
  <1>7. ASSUME NEW q \in Conn PROVE ConnOK(q)'
    <2>1. CASE q # c
      <3>1. SameSocket(q)
        BY <1>1, <1>8, <2>1 DEF SameSocket
      <3> QED
        BY <1>1, <1>2, <1>3, <3>1, SameConn
    <2>2. CASE q = c
      <3>1. ConnOK(c)
        BY <1>2
      <3>2. UnitsOK(c)'
        BY <1>1, <3>1, Zenon DEF ConnOK, UnitsOK
      <3>3. Len(net'[c]) <= SendCap
        <4>1. PICK g \in Nat, n \in Nat, h \in Nat, t \in Nat :
                  /\ g = Len(got[c]) /\ n = Len(net[c])
                  /\ h = Len(got'[c]) /\ t = Len(net'[c])
          BY <1>2, <1>5, ConnTypes DEF TypeOK, ConnectionTypeOK
        <4>2. h = g + 1 /\ h + t = g + n /\ n <= SendCap
          BY <1>10, <3>1, <4>1, Zenon DEF ConnOK, ArrivedOK
        <4>3. t <= SendCap
          BY <4>2, ConnectionAssumption
        <4> QED
          BY <4>1, <4>3, Zenon
      <3>6. ArrivedOK(c)'
        BY <1>1, <1>10, <3>1, <3>3, Zenon DEF ConnOK, ArrivedOK, Delivered
      <3>4. SessionOK(c)' /\ SweepOK(c)'
        BY <1>1, <3>1, Zenon DEF ConnOK, SessionOK, SweepOK, Open
      <3>5. EndedOK(c)' /\ Bounded(world, c)'
        BY <1>1, <3>1, Zenon DEF ConnOK, EndedOK, Bounded, Closed
      <3> QED
        BY <2>2, <3>2, <3>4, <3>5, <3>6, Zenon DEF ConnOK
    <2> QED
      BY <2>1, <2>2
  <1> QED
    BY <1>5, <1>6, <1>7 DEF IInv

-----------------------------------------------------------------------------
(***************************************************************************)
(* The steps of the asio backend.                                          *)
(***************************************************************************)
\* A connection in another state.
InState(k, s) == [k EXCEPT !.state = s]

\* Nothing else of it changes.
LEMMA InStateFields ==
    ASSUME NEW k \in LinkType, NEW s \in {"backlog", "open", "closed"}
    PROVE  /\ InState(k, s) \in LinkType
           /\ InState(k, s).state = s /\ InState(k, s).why = k.why
           /\ InState(k, s).in = k.in /\ InState(k, s).done = k.done
           /\ InState(k, s).out = k.out /\ InState(k, s).pending = k.pending
           /\ InState(k, s).written = k.written /\ InState(k, s).writing = k.writing
           /\ InState(k, s).made = k.made
  <1>1. InState(k, s) \in LinkType
    BY Zenon DEF InState, LinkType
  <1> QED
    BY <1>1 DEF InState, LinkType

\* Start opens a connection and counts it.
LEMMA StartFields ==
    ASSUME NEW w \in World, NEW c \in Conn, NEW v, v = Start(w, c)
    PROVE  /\ OnlyLink(w, v, c) /\ v.fed = w.fed /\ v.active = w.active + 1
           /\ v.link[c].state = "open" /\ v.link[c].why = w.link[c].why
           /\ v.link[c].in = w.link[c].in /\ v.link[c].done = w.link[c].done
           /\ v.link[c].out = w.link[c].out /\ v.link[c].pending = w.link[c].pending
           /\ v.link[c].written = w.link[c].written
           /\ v.link[c].writing = w.link[c].writing
           /\ v.link[c].made = w.link[c].made
  <1> DEFINE k == InState(w.link[c], "open")
  <1>1. w.link[c] \in LinkType
    BY LinkFields
  <1>2. w.fed \in SUBSET Conn /\ w.active + 1 \in Int
    BY LinkFields
  <1>4. /\ k \in LinkType
        /\ k.state = "open" /\ k.why = w.link[c].why
        /\ k.in = w.link[c].in /\ k.done = w.link[c].done
        /\ k.out = w.link[c].out /\ k.pending = w.link[c].pending
        /\ k.written = w.link[c].written /\ k.writing = w.link[c].writing
        /\ k.made = w.link[c].made
    BY <1>1, InStateFields
  <1>5. v = Put(w, c, k, w.fed, w.active + 1)
    <2> DEFINE s == "open"
    <2>1. v = [w EXCEPT !.link[c].state = s, !.active = @ + 1]
      BY DEF Start
    <2>2. k = InState(w.link[c], s)
      OBVIOUS
    <2> HIDE DEF s, k
    <2> QED
      BY <2>1, <2>2, Zenon DEF World, Put, InState
  <1> HIDE DEF k
  <1>6. OnlyLink(w, v, c) /\ v.fed = w.fed /\ v.active = w.active + 1 /\ v.link[c] = k
    BY <1>2, <1>4, <1>5, PutFields
  <1> QED
    BY <1>4, <1>6

\* One more open connection is one more in the gauge.
LEMMA OneMoreOpen ==
    ASSUME NEW w \in World, NEW v, NEW c \in Conn, OnlyLink(w, v, c),
           w.link[c].state # "open", v.link[c].state = "open"
    PROVE  Cardinality(OpenIn(v)) = Cardinality(OpenIn(w)) + 1
  <1>1. OpenIn(v) = OpenIn(w) \cup {c} /\ c \notin OpenIn(w)
    BY DEF OpenIn, OnlyLink
  <1>2. IsFiniteSet(OpenIn(w))
    BY OpenFinite, Zenon
  <1>3. Cardinality(OpenIn(w) \cup {c})
            = IF c \in OpenIn(w) THEN Cardinality(OpenIn(w)) ELSE Cardinality(OpenIn(w)) + 1
    BY <1>2, FS_AddElement, Zenon
  <1> QED
    BY <1>1, <1>3, Zenon

\* An accepted connection keeps the server's part of the invariant.
LEMMA StartServer ==
    ASSUME NEW w, ServerOK(w), NEW c \in Conn, w.link[c].state = "backlog",
           NEW v, v = Start(w, c)
    PROVE  ServerOK(v)
  <1> DEFINE k == v.link[c]
  <1>1. w \in World
    BY DEF ServerOK
  <1>2. w.fed \in SUBSET Conn
    BY <1>1, LinkFields
  <1>4. /\ OnlyLink(w, v, c) /\ v.fed = w.fed /\ v.active = w.active + 1
        /\ k.state = "open" /\ k.why = w.link[c].why
        /\ k.in = w.link[c].in /\ k.done = w.link[c].done
        /\ k.out = w.link[c].out /\ k.pending = w.link[c].pending
        /\ k.written = w.link[c].written /\ k.writing = w.link[c].writing
        /\ k.made = w.link[c].made
    BY <1>1, StartFields
  <1>6. OnlyLink(w, v, c) /\ v.fed = w.fed /\ v.active = w.active + 1 /\ v.link[c] = k
    BY <1>4, Zenon
  <1> HIDE DEF k
  <1>7. v \in World /\ \A q \in Conn : q # c => v.link[q] = w.link[q]
    BY <1>6 DEF OnlyLink
  <1>8. v.active = Cardinality(OpenIn(v))
    <2>1. "backlog" # "open"
      OBVIOUS
    <2>2. Cardinality(OpenIn(v)) = Cardinality(OpenIn(w)) + 1
      BY <1>1, <1>4, <1>6, <2>1, OneMoreOpen, Zenon
    <2> QED
      BY <1>6, <2>2, Zenon DEF ServerOK
  <1>9. ASSUME NEW q \in v.fed
        PROVE  v.link[q].state # "backlog" /\ Resynced(v.link[q], q)
    <2>1. q \in Conn /\ w.link[q].state # "backlog" /\ Resynced(w.link[q], q)
      BY <1>2, <1>6, Zenon DEF ServerOK
    <2>2. q # c
      BY <2>1, Zenon
    <2> QED
      BY <1>7, <2>1, <2>2
  <1>10. ASSUME NEW q \in Conn PROVE QueueOK(v, q)
    <2>1. QueueOK(w, q)
      BY Zenon DEF ServerOK
    <2>2. CASE q = c
      <3>1. "backlog" # "closed"
        OBVIOUS
      <3> QED
        BY <1>4, <1>6, <2>1, <2>2, <3>1, Zenon DEF QueueOK, Settled, Continues
    <2>3. CASE q # c
      <3>1. v.link[q] = w.link[q]
        BY <1>7, <2>3
      <3> QED
        BY <2>1, <3>1, Zenon DEF QueueOK
    <2> QED
      BY <2>2, <2>3, Zenon
  <1>11. ServerOK(v)
    BY <1>7, <1>8, <1>9, <1>10, Zenon DEF ServerOK
  <1> QED
    BY <1>11

\* AsioServer::accept opens the connection, counts it and reads.
LEMMA AcceptOK ==
    ASSUME IInv, backend = "asio", NEW c \in Conn, Accept(c),
           UNCHANGED <<backend, pollVars>>
    PROVE  IInv' /\ \A q \in Conn : Steady(world, world', q)
  <1>1. /\ world.link[c].state = "backlog" /\ world' = Start(world, c)
        /\ readop' = [readop EXCEPT ![c] = "armed"]
        /\ sent' = sent /\ peer' = peer /\ got' = got /\ rcv' = rcv /\ net' = net
        /\ readn' = readn /\ backend' = backend
        /\ revents' = revents /\ accepting' = accepting /\ cursor' = cursor
        /\ dead' = dead
    BY DEF Accept, clientVars, pollVars
  <1>2. TypeOK /\ ServerOK(world) /\ \A q \in Conn : ConnOK(q)
    BY Zenon DEF IInv
  <1> DEFINE k == world'.link[c]
  <1>4. /\ OnlyLink(world, world', c) /\ world'.fed = world.fed /\ ServerOK(world')
        /\ k.state = "open" /\ k.why = world.link[c].why
        /\ k.in = world.link[c].in /\ k.done = world.link[c].done
        /\ k.out = world.link[c].out /\ k.pending = world.link[c].pending
        /\ k.made = world.link[c].made
    <2>1. world \in World
      BY <1>2 DEF ServerOK
    <2>2. ServerOK(world')
      BY <1>1, <1>2, StartServer
    <2> QED
      BY <1>1, <2>1, <2>2, StartFields
  <1>6. world'.link[c] = k /\ world'.fed = world.fed
    BY <1>4, Zenon
  <1> HIDE DEF k
  <1>7. /\ world' \in World
        /\ \A q \in Conn : q # c => world'.link[q] = world.link[q]
    BY <1>4 DEF OnlyLink
  <1>8. ConnOK(c)
    BY <1>2
  <1>9. ServerOK(world')
    BY <1>4, Zenon
  <1>10. ServerOK(world)'
    BY <1>1, <1>9, SameQueues, Zenon
  <1>11. readop \in [Conn -> {"none", "armed", "done", "eof", "error"}]
    BY <1>2 DEF TypeOK, AsioTypeOK
  <1>12. TypeOK'
    <2>1. readop' \in [Conn -> {"none", "armed", "done", "eof", "error"}]
      BY <1>1, <1>11
    <2>2. world' \in [link : [Conn -> LinkType], fed : SUBSET Conn, active : Nat]
      BY <1>9, ServerType
    <2> QED
      BY <1>1, <1>2, <2>1, <2>2, Zenon
      DEF TypeOK, ConnectionTypeOK, AsioTypeOK, PollTypeOK
  <1>13. ASSUME NEW q \in Conn PROVE ConnOK(q)'
    <2>1. CASE q # c
      <3>1. SameSocket(q)
        BY <1>1, <1>11, <2>1 DEF SameSocket
      <3> QED
        BY <1>1, <1>2, <1>6, <1>7, <2>1, <3>1, SameConn, Zenon
    <2>2. CASE q = c
      <3>1. readop'[c] = "armed" /\ readop'[c] # "done" /\ readop'[c] # "eof"
        BY <1>1, <1>11
      <3>2. UnitsOK(c)'
        BY <1>1, <1>4, <1>6, <1>8, Zenon DEF ConnOK, UnitsOK
      <3>3. ArrivedOK(c)'
        BY <1>1, <1>4, <1>6, <1>8, Zenon DEF ConnOK, ArrivedOK, Delivered
      <3>4. SessionOK(c)'
        <4>1. "open" # "backlog" /\ "none" # "done" /\ backend # "poll"
          OBVIOUS
        <4> QED
          BY <1>1, <1>4, <1>6, <1>8, <3>1, <4>1, Zenon DEF ConnOK, SessionOK
      <3>5. SweepOK(c)'
        BY <1>1, <1>8, Zenon DEF ConnOK, SweepOK
      <3>6. EndedOK(c)'
        <4>1. "backlog" # "closed"
          OBVIOUS
        <4> QED
          BY <1>1, <1>4, <1>6, <1>8, <4>1, Zenon DEF ConnOK, EndedOK, Closed
      <3>7. Bounded(world, c)'
        <4>1. k.out = <<>> /\ k.pending = <<>>
          BY <1>1, <1>4, <1>8, Zenon DEF ConnOK, SessionOK
        <4>2. Len(<<>>) + Len(<<>>) <= MaxOut
          BY ConnectionAssumption
        <4>3. Queued(k) <= MaxOut
          BY <4>1, <4>2, Zenon DEF Queued
        <4> QED
          BY <1>6, <4>3, Zenon DEF Bounded
      <3> QED
        BY <2>2, <3>2, <3>3, <3>4, <3>5, <3>6, <3>7, Zenon DEF ConnOK
    <2> QED
      BY <2>1, <2>2, Zenon
  <1>14. ASSUME NEW q \in Conn PROVE Steady(world, world', q)
    <2>1. CASE q # c
      BY <1>2, <1>7, <2>1, ConnTypes, SteadySame
    <2>2. CASE q = c
      <3>1. "open" # "backlog" /\ ~world.link[c].writing
        BY <1>1, <1>8 DEF ConnOK, SessionOK
      <3>2. k.made \in Nat /\ k.made >= world.link[c].made
        BY <1>2, <1>4, ConnTypes, LinkFields
      <3> QED
        BY <1>1, <1>6, <2>2, <3>1, <3>2, Zenon DEF Steady
    <2> QED
      BY <2>1, <2>2, Zenon
  <1> QED
    BY <1>10, <1>12, <1>13, <1>14, Zenon DEF IInv

\* One read brings all there is, up to a chunk.
LEMMA ReadSizeIs ==
    ASSUME TypeOK, NEW c \in Conn, NEW n, n = ReadSize(c)
    PROVE  /\ n \in Nat /\ n <= rcv[c] /\ n <= ReadChunk
           /\ n = rcv[c] \/ n = ReadChunk
           /\ n = 0 => rcv[c] = 0
           /\ rcv[c] - n \in Nat
  <1>1. PICK r \in Nat, h \in Nat : r = rcv[c] /\ h = ReadChunk /\ h # 0
    BY ConnTypes, ConnectionAssumption
  <1>2. n = Min({r, h})
    BY <1>1 DEF ReadSize
  <1>3. \E x \in {r, h} : \A y \in {r, h} : x <= y
    <2>1. r <= h \/ h <= r
      OBVIOUS
    <2> QED
      BY <2>1
  <1>4. n \in {r, h} /\ \A y \in {r, h} : n <= y
    BY <1>2, <1>3, Zenon DEF Min
  <1>5. /\ n \in Nat /\ n <= r /\ n <= h
        /\ n = r \/ n = h
        /\ n = 0 => r = 0
        /\ r - n \in Nat
    BY <1>1, <1>4
  <1> QED
    BY <1>1, <1>5

\* The reactor takes what has arrived into scratch_, or finds the end or an error.
LEMMA ReadCompletesOK ==
    ASSUME IInv, backend = "asio", NEW c \in Conn, ReadCompletes(c),
           UNCHANGED <<backend, pollVars>>
    PROVE  IInv' /\ \A q \in Conn : Steady(world, world', q)
  <1>1. /\ readop[c] = "armed" /\ (Closed(c) \/ ReadSize(c) > 0 \/ peer[c] # "open")
        /\ sent' = sent /\ peer' = peer /\ got' = got /\ net' = net /\ world' = world
        /\ backend' = backend
        /\ revents' = revents /\ accepting' = accepting /\ cursor' = cursor
        /\ dead' = dead
    BY DEF ReadCompletes, clientVars, pollVars
  <1>2. TypeOK /\ ServerOK(world) /\ \A q \in Conn : ConnOK(q)
    BY DEF IInv
  <1>3. /\ readop \in [Conn -> {"none", "armed", "done", "eof", "error"}]
        /\ readn \in [Conn -> 0..ReadChunk] /\ rcv \in [Conn -> Nat]
    BY <1>2 DEF TypeOK, AsioTypeOK, ConnectionTypeOK
  <1>4. PICK n : n = ReadSize(c)
    OBVIOUS
  <1>5. /\ n \in Nat /\ n <= rcv[c] /\ n <= ReadChunk
        /\ n = 0 => rcv[c] = 0
        /\ rcv[c] - n \in Nat
    BY <1>2, <1>4, ReadSizeIs
  <1>6. \/ /\ readop' = [readop EXCEPT ![c] = "done"]
           /\ readn' = [readn EXCEPT ![c] = n] /\ rcv' = [rcv EXCEPT ![c] = @ - n]
        \/ /\ readop' = [readop EXCEPT ![c] = "eof"]
           /\ peer[c] = "fin" /\ n = 0 /\ readn' = readn /\ rcv' = rcv
        \/ /\ readop' = [readop EXCEPT ![c] = "error"]
           /\ readn' = readn /\ rcv' = rcv
    <2>1. CASE Closed(c)
      BY <1>4, <2>1 DEF ReadCompletes
    <2>2. CASE ~Closed(c) /\ n > 0
      BY <1>4, <2>2 DEF ReadCompletes
    <2>3. CASE ~Closed(c) /\ ~(n > 0)
      <3>1. n = 0
        BY <1>5, <2>3
      <3> QED
        BY <1>4, <2>3, <3>1, Zenon DEF ReadCompletes
    <2> QED
      BY <2>1, <2>2, <2>3, Zenon
  <1>7. TypeOK'
    <2>1. 0 <= n /\ n \in 0..ReadChunk
      BY <1>5, ConnectionAssumption
    <2>2. /\ readop' \in [Conn -> {"none", "armed", "done", "eof", "error"}]
          /\ readn' \in [Conn -> 0..ReadChunk] /\ rcv' \in [Conn -> Nat]
      BY <1>3, <1>5, <1>6, <2>1
    <2> QED
      BY <1>1, <1>2, <2>2, Zenon
      DEF TypeOK, ConnectionTypeOK, AsioTypeOK, PollTypeOK
  <1>8. ServerOK(world)'
    BY <1>1, <1>2, SameQueues, Zenon
  <1>9. ASSUME NEW q \in Conn PROVE ConnOK(q)'
    <2>1. CASE q # c
      <3>1. SameSocket(q)
        BY <1>1, <1>3, <1>6, <2>1 DEF SameSocket
      <3>2. world' \in World
        BY <1>1, <1>2, ConnTypes
      <3> QED
        BY <1>1, <1>2, <3>1, <3>2, SameConn, Zenon
    <2>2. CASE q = c
      <3>1. ConnOK(c)
        BY <1>2
      <3>2. readn[c] = 0 /\ world.link[c].state # "backlog"
        <4>1. "armed" # "done" /\ "armed" # "none"
          OBVIOUS
        <4> QED
          BY <1>1, <3>1, <4>1, Zenon DEF ConnOK, SessionOK
      <3>3. rcv'[c] + readn'[c] = rcv[c] + readn[c] /\ rcv'[c] \in Nat /\ readn'[c] \in Nat
        BY <1>3, <1>5, <1>6, <3>2
      <3>4. UnitsOK(c)'
        <4>1. PICK s \in Nat, r \in Nat, m \in Nat, x \in Nat, y \in Nat, i \in Nat, d \in Nat :
                  /\ s = sent[c] /\ r = rcv[c] /\ m = readn[c]
                  /\ x = rcv'[c] /\ y = readn'[c]
                  /\ i = world.link[c].in /\ d = world.link[c].done
          <5>1. /\ sent[c] \in Nat /\ rcv[c] \in Nat /\ readn[c] \in Nat
                /\ world.link[c].in \in Nat /\ world.link[c].done \in Nat
            BY <1>2, ConnTypes, LinkFields
          <5> QED
            BY <3>3, <5>1, Zenon
        <4>2. s = r + m + i + 2 * d /\ x + y = r + m
          BY <3>1, <3>3, <4>1, Zenon DEF ConnOK, UnitsOK
        <4>3. s = x + y + i + 2 * d
          BY <4>2
        <4> QED
          BY <1>1, <3>1, <4>1, <4>3, Zenon DEF ConnOK, UnitsOK
      <3>5. SessionOK(c)'
        <4>1. readop'[c] # "done" => readn'[c] = 0
          BY <1>3, <1>6, <3>2
        <4>2. readop'[c] = "eof" => peer[c] # "open" /\ rcv'[c] = 0
          BY <1>3, <1>5, <1>6
        <4>3. backend # "poll"
          OBVIOUS
        <4> QED
          BY <1>1, <3>1, <3>2, <4>1, <4>2, <4>3, Zenon DEF ConnOK, SessionOK
      <3>6. ArrivedOK(c)' /\ SweepOK(c)'
        BY <1>1, <3>1, Zenon DEF ConnOK, ArrivedOK, Delivered, SweepOK, Open
      <3>7. EndedOK(c)'
        <4>1. "armed" # "none"
          OBVIOUS
        <4> QED
          BY <1>1, <3>1, <4>1, Zenon DEF ConnOK, EndedOK
      <3>8. Bounded(world, c)'
        BY <1>1, <3>1, Zenon DEF ConnOK, Bounded
      <3> QED
        BY <2>2, <3>4, <3>5, <3>6, <3>7, <3>8, Zenon DEF ConnOK
    <2> QED
      BY <2>1, <2>2
  <1>10. ASSUME NEW q \in Conn PROVE Steady(world, world', q)
    BY <1>1, <1>2, ConnTypes, SteadySame
  <1> QED
    BY <1>7, <1>8, <1>9, <1>10, Zenon DEF IInv

\* The handler of a read that failed or found the end of the stream.
LEMMA ReadFailedOK ==
    ASSUME IInv, backend = "asio", NEW c \in Conn, ReadFailed(c),
           UNCHANGED <<backend, pollVars>>
    PROVE  IInv' /\ \A q \in Conn : Steady(world, world', q)
  <1>1. /\ readop[c] \in {"eof", "error"} /\ world' = DoClose(world, c, readop[c])
        /\ readop' = [readop EXCEPT ![c] = "none"]
        /\ sent' = sent /\ peer' = peer /\ got' = got /\ rcv' = rcv /\ net' = net
        /\ readn' = readn /\ backend' = backend
        /\ revents' = revents /\ accepting' = accepting /\ cursor' = cursor
        /\ dead' = dead
    BY DEF ReadFailed, clientVars, pollVars
  <1>2. /\ TypeOK /\ ServerOK(world) /\ ConnOK(c) /\ \A q \in Conn : ConnOK(q)
        /\ world \in World
    BY Zenon DEF IInv, ServerOK
  <1>3. PICK why \in {"eof", "error", "overflow"} : why = readop[c]
    BY <1>1
  <1> DEFINE k == world.link[c]
             l == world'.link[c]
  <1>4. k.state # "backlog" /\ readn[c] = 0
    <2>1. readop[c] # "none" /\ readop[c] # "done"
      BY <1>1
    <2> QED
      BY <1>2, <2>1, Zenon DEF ConnOK, SessionOK
  <1>5. /\ OnlyLink(world, world', c) /\ l.state = "closed"
        /\ k.state = "closed" => world' = world
        /\ k.state # "closed" =>
               /\ l.why = why /\ world'.fed = world.fed \ {c}
               /\ world'.active = world.active - 1
        /\ l.in = k.in /\ l.done = k.done /\ l.made = k.made
        /\ l.out = k.out /\ l.writing = k.writing
    <2>1. PICK v : v = world'
      OBVIOUS
    <2>2. v = DoClose(world, c, why)
      BY <1>1, <1>3, <2>1, Zenon
    <2>3. Closes(world, v, c, why)
      BY <1>2, <2>2, DoCloseFields, Zenon
    <2> QED
      BY <2>1, <2>3, Zenon DEF Closes
  <1>6. Booked(world, world', c)
    <2>1. k.state \in {"open", "closed"}
      BY <1>2, <1>4, LinkFields
    <2>2. "open" # "closed"
      OBVIOUS
    <2>3. CASE k.state = "closed"
      BY <1>5, <2>3, Zenon DEF Booked
    <2>4. CASE k.state = "open"
      BY <1>5, <2>2, <2>4, Zenon DEF Booked
    <2> QED
      BY <2>1, <2>3, <2>4
  <1>7. ServerOK(world')
    <2>1. QueueOK(world', c)
      <3>1. backend # "poll"
        OBVIOUS
      <3> QED
        BY <1>5, <3>1, Zenon DEF QueueOK
    <2> QED
      BY <1>2, <1>5, <1>6, <2>1, BookedServer
  <1>8. ServerOK(world)'
    BY <1>1, <1>7, SameQueues, Zenon
  <1>9. readop \in [Conn -> {"none", "armed", "done", "eof", "error"}]
    BY <1>2 DEF TypeOK, AsioTypeOK
  <1>10. TypeOK'
    <2>1. readop' \in [Conn -> {"none", "armed", "done", "eof", "error"}]
      BY <1>1, <1>9
    <2>2. world' \in [link : [Conn -> LinkType], fed : SUBSET Conn, active : Nat]
      BY <1>7, ServerType, Zenon
    <2> QED
      BY <1>1, <1>2, <2>1, <2>2, Zenon
      DEF TypeOK, ConnectionTypeOK, AsioTypeOK, PollTypeOK
  <1>11. /\ world' \in World
         /\ \A q \in Conn : q # c => /\ world'.link[q] = world.link[q]
                                     /\ q \in world'.fed <=> q \in world.fed
    BY <1>5, <1>6 DEF OnlyLink, Booked
  <1>12. ConnOK(c)'
    <2>1. readop'[c] = "none" /\ readop'[c] # "done" /\ readop'[c] # "eof"
      BY <1>1, <1>9
    <2>2. UnitsOK(c)'
      BY <1>1, <1>2, <1>5, Zenon DEF ConnOK, UnitsOK
    <2>3. ArrivedOK(c)'
      BY <1>1, <1>2, <1>5, Zenon DEF ConnOK, ArrivedOK, Delivered
    <2>4. "closed" # "backlog" /\ backend # "poll" /\ "closed" # "open"
      OBVIOUS
    <2>5. SessionOK(c)'
      BY <1>1, <1>4, <1>5, <2>1, <2>4, Zenon DEF SessionOK
    <2>6. SweepOK(c)'
      BY <1>1, <1>2, Zenon DEF ConnOK, SweepOK
    <2>7. EndedOK(c)'
      <3>1. CASE l.why # "eof"
        BY <3>1, Zenon DEF EndedOK
      <3>2. CASE l.why = "eof"
        <4>1. k.state # "closed"
          <5>1. readop[c] # "none"
            BY <1>1
          <5> QED
            BY <1>2, <1>5, <3>2, <5>1, Zenon DEF ConnOK, EndedOK
        <4>2. readop[c] = "eof"
          BY <1>3, <1>5, <3>2, <4>1, Zenon
        <4>3. peer[c] # "open" /\ rcv[c] = 0
          BY <1>2, <4>2, Zenon DEF ConnOK, SessionOK
        <4>4. PICK s \in Nat, i \in Nat, d \in Nat :
                  s = sent[c] /\ i = k.in /\ d = k.done
          BY <1>2, ConnTypes, LinkFields, Zenon
        <4>5. s = 0 + 0 + i + 2 * d /\ i <= 1
          BY <1>2, <1>4, <2>4, <4>3, <4>4, Zenon DEF ConnOK, UnitsOK
        <4>6. d = s \div 2
          BY <4>5
        <4> QED
          BY <1>1, <1>5, <2>1, <2>4, <4>3, <4>4, <4>6, Zenon DEF EndedOK, Closed
      <3> QED
        BY <3>1, <3>2
    <2>8. Bounded(world, c)'
      BY <1>5, <2>4, Zenon DEF Bounded
    <2> QED
      BY <2>2, <2>3, <2>5, <2>6, <2>7, <2>8, Zenon DEF ConnOK
  <1>13. ASSUME NEW q \in Conn PROVE ConnOK(q)' /\ Steady(world, world', q)
    <2>1. CASE q # c
      <3>1. SameSocket(q)
        BY <1>1, <1>9, <2>1 DEF SameSocket
      <3>2. ConnOK(q)'
        BY <1>1, <1>2, <1>11, <2>1, <3>1, SameConn, Zenon
      <3> QED
        BY <1>2, <1>11, <2>1, <3>2, SteadySame, Zenon
    <2>2. CASE q = c
      <3>1. k.made \in Nat /\ l.made >= k.made
        BY <1>2, <1>5, LinkFields
      <3>2. "open" # "closed"
        OBVIOUS
      <3>3. world'.fed = world.fed \ {c} => c \notin world'.fed
        OBVIOUS
      <3> QED
        BY <1>5, <1>12, <2>2, <3>1, <3>2, <3>3, Zenon DEF Steady
    <2> QED
      BY <2>1, <2>2
  <1> QED
    BY <1>8, <1>10, <1>13, Zenon DEF IInv

\* The handler executes what a read has brought, and then closes or flushes.
LEMMA ReadHandlerServes ==
    ASSUME TypeOK, ServerOK(world), backend = "asio", NEW c \in Conn,
           world.link[c].state # "backlog", NEW j \in Nat,
           world.link[c].done + (j \div 2) <= Len(Script[c]),
           NEW v, v = OnData(SetIn(world, c, j), c),
           NEW u, u = IF Queued(v.link[c]) > MaxOut
                      THEN DoClose(v, c, "overflow") ELSE Flush(v, c)
    PROVE  /\ ServerOK(u) /\ Serves(world, u, c)
           /\ u.link[c].in = j % 2
           /\ u.link[c].done = world.link[c].done + (j \div 2)
           /\ u.link[c].state # "backlog" /\ Bounded(u, c)
  <1>1. ConnectionTypeOK /\ backend \in {"asio", "poll"} /\ world \in World
    BY ConnTypes DEF TypeOK
  <1>2. /\ ServerOK(v) /\ Serves(world, v, c)
        /\ v.link[c].in = j % 2
        /\ v.link[c].done = world.link[c].done + (j \div 2)
    <2>1. PICK x : x = world
      BY Zenon
    <2>2. PICK y : y = SetIn(x, c, j)
      BY Zenon
    <2>3. v = OnData(y, c)
      BY <2>1, <2>2, Zenon
    <2>4. ServerOK(x) /\ x.link[c].state # "backlog"
      BY <2>1, Zenon
    <2>5. x.link[c].done + (j \div 2) <= Len(Script[c])
      BY <2>1, Zenon
    <2>6. /\ ServerOK(v) /\ Serves(x, v, c)
          /\ v.link[c].in = j % 2 /\ v.link[c].done = x.link[c].done + (j \div 2)
      BY <1>1, <2>2, <2>3, <2>4, <2>5, OnDataServes
    <2> QED
      BY <2>1, <2>6, Zenon
  <1>3. v \in World
    BY <1>2, Zenon DEF ServerOK
  <1>4. v.link[c].state # "backlog"
    <2>1. Follows(world.link[c], v.link[c])
      BY <1>2, Zenon DEF Serves, ServesOne
    <2> QED
      BY <2>1 DEF Follows
  <1>5. CASE Queued(v.link[c]) > MaxOut
    <2>1. u = DoClose(v, c, "overflow")
      BY <1>5, Zenon
    <2>2. Touches(v, u, c) /\ u.link[c].state = "closed"
      BY <1>1, <1>3, <1>4, <2>1, DoCloseTouches
    <2>3. ServerOK(u) /\ Serves(v, u, c)
      BY <1>2, <1>3, <1>4, <2>2, TouchesServer, TouchesServes
    <2>4. u \in World
      BY <2>3, Zenon DEF ServerOK
    <2>5. Serves(world, u, c)
      BY <1>1, <1>2, <1>3, <2>3, <2>4, ServesTwice, Zenon
    <2>6. "closed" # "open" /\ "closed" # "backlog"
      OBVIOUS
    <2>7. Bounded(u, c)
      BY <2>2, <2>6, Zenon DEF Bounded
    <2> QED
      BY <1>2, <2>2, <2>3, <2>5, <2>6, <2>7, Zenon DEF Touches
  <1>6. CASE ~(Queued(v.link[c]) > MaxOut)
    <2>1. u = Flush(v, c)
      BY <1>6, Zenon
    <2>2. /\ Touches(v, u, c) /\ u.link[c].state = v.link[c].state
          /\ Queued(u.link[c]) = Queued(v.link[c])
      BY <1>1, <1>3, <2>1, FlushTouches
    <2>3. ServerOK(u) /\ Serves(v, u, c)
      BY <1>2, <1>3, <1>4, <2>2, TouchesServer, TouchesServes
    <2>4. u \in World
      BY <2>3 DEF ServerOK
    <2>5. Serves(world, u, c)
      BY <1>1, <1>2, <1>3, <2>3, <2>4, ServesTwice
    <2>6. PICK n \in Nat : n = Queued(v.link[c])
      BY <1>3, QueuedType
    <2>7. n <= MaxOut
      <3>1. ~(n > MaxOut)
        BY <1>6, <2>6, Zenon
      <3> QED
        BY <3>1, ConnectionAssumption
    <2>8. Bounded(u, c)
      BY <2>2, <2>6, <2>7, Zenon DEF Bounded
    <2> QED
      BY <1>2, <1>4, <2>2, <2>3, <2>5, <2>8, Zenon DEF Touches
  <1> QED
    BY <1>5, <1>6

\* What is left of m units of input once all complete requests are executed.
LEMMA Halves ==
    ASSUME NEW s \in Nat, NEW r \in Nat, NEW j \in Nat, NEW d \in Nat, NEW n \in Nat,
           s <= 2 * n, s = r + j + 2 * d
    PROVE  /\ d + (j \div 2) <= n
           /\ s = r + 0 + (j % 2) + 2 * (d + (j \div 2))
           /\ j % 2 <= 1
  <1>1. PICK h \in Nat, t \in Nat : h = j \div 2 /\ t = j % 2
    OBVIOUS
  <1>2. j = 2 * h + t /\ t <= 1
    BY <1>1
  <1>3. d + h <= n /\ s = r + 0 + t + 2 * (d + h)
    BY <1>2
  <1> QED
    BY <1>1, <1>2, <1>3, Zenon

\* The handler of a read that brought data executes it, and flushes or closes.
LEMMA ReadHandlerOK ==
    ASSUME IInv, backend = "asio", NEW c \in Conn, ReadHandler(c),
           UNCHANGED <<backend, pollVars>>
    PROVE  IInv' /\ \A q \in Conn : Steady(world, world', q)
  <1>1. /\ readop[c] = "done" /\ readn' = [readn EXCEPT ![c] = 0]
        /\ sent' = sent /\ peer' = peer /\ got' = got /\ rcv' = rcv /\ net' = net
        /\ backend' = backend
        /\ revents' = revents /\ accepting' = accepting /\ cursor' = cursor
        /\ dead' = dead
    BY DEF ReadHandler, clientVars, pollVars
  <1>2. /\ TypeOK /\ ServerOK(world) /\ ConnOK(c) /\ \A q \in Conn : ConnOK(q)
        /\ world \in World
    BY DEF IInv, ServerOK
  <1> DEFINE k == world.link[c]
             l == world'.link[c]
  <1>3. k.state # "backlog"
    <2>1. "done" # "none"
      OBVIOUS
    <2> QED
      BY <1>1, <1>2, <2>1, Zenon DEF ConnOK, SessionOK
  <1>4. PICK s \in Nat, r \in Nat, m \in Nat, i \in Nat, d \in Nat, n \in Nat, j \in Nat :
            /\ s = sent[c] /\ r = rcv[c] /\ m = readn[c] /\ i = k.in /\ d = k.done
            /\ n = Len(Script[c]) /\ j = i + m
    <2>1. /\ sent[c] \in Nat /\ rcv[c] \in Nat /\ readn[c] \in Nat
          /\ k.in \in Nat /\ k.done \in Nat
      BY <1>2, ConnTypes, LinkFields
    <2>2. Len(Script[c]) \in Nat
      BY ConnectionAssumption
    <2>3. k.in + readn[c] \in Nat
      BY <2>1
    <2> QED
      BY <2>1, <2>2, <2>3, Zenon
  <1>5. s <= 2 * n /\ s = r + m + i + 2 * d
    BY <1>2, <1>4, Zenon DEF ConnOK, UnitsOK
  <1>6. /\ d + (j \div 2) <= n /\ s = r + 0 + (j % 2) + 2 * (d + (j \div 2))
        /\ j % 2 <= 1
    <2>1. j = i + m
      BY <1>4, Zenon
    <2>2. s = r + j + 2 * d
      BY <1>5, <2>1
    <2> QED
      BY <1>5, <2>2, Halves
  <1>7. PICK v : v = OnData(SetIn(world, c, j), c)
    OBVIOUS
  <1>8. /\ world' = IF Queued(v.link[c]) > MaxOut
                    THEN DoClose(v, c, "overflow") ELSE Flush(v, c)
        /\ readop' = [readop EXCEPT ![c] = NextRead(Queued(v.link[c]) > MaxOut)]
    <2>1. v = OnData([world EXCEPT !.link[c].in = @ + readn[c]], c)
      BY <1>4, <1>7, Zenon DEF SetIn
    <2> QED
      BY <2>1 DEF ReadHandler
  <1>9. /\ ServerOK(world') /\ Serves(world, world', c)
        /\ l.in = j % 2 /\ l.done = k.done + (j \div 2)
        /\ l.state # "backlog" /\ Bounded(world', c)
    <2>1. PICK u : u = world'
      BY Zenon
    <2>2. u = IF Queued(v.link[c]) > MaxOut
              THEN DoClose(v, c, "overflow") ELSE Flush(v, c)
      BY <1>8, <2>1, Zenon
    <2>3. world.link[c].done + (j \div 2) <= Len(Script[c])
      BY <1>4, <1>6, Zenon
    <2>4. /\ ServerOK(u) /\ Serves(world, u, c)
          /\ u.link[c].in = j % 2
          /\ u.link[c].done = world.link[c].done + (j \div 2)
          /\ u.link[c].state # "backlog" /\ Bounded(u, c)
      BY <1>2, <1>3, <1>7, <2>2, <2>3, ReadHandlerServes
    <2> QED
      BY <2>1, <2>4, Zenon
  <1>10. ServerOK(world)' /\ world' \in World
    BY <1>1, <1>9, SameQueues, Zenon DEF ServerOK
  <1>11. /\ readop \in [Conn -> {"none", "armed", "done", "eof", "error"}]
         /\ readn \in [Conn -> 0..ReadChunk] /\ 0 \in 0..ReadChunk
    BY <1>2, ConnectionAssumption DEF TypeOK, AsioTypeOK
  <1>12. /\ readop' \in [Conn -> {"none", "armed", "done", "eof", "error"}]
         /\ readn' \in [Conn -> 0..ReadChunk]
         /\ readop'[c] \in {"none", "armed"} /\ readn'[c] = 0
         /\ \A q \in Conn : q # c => readop'[q] = readop[q] /\ readn'[q] = readn[q]
    <2>1. PICK o \in {"none", "armed"} : readop' = [readop EXCEPT ![c] = o]
      <3>1. NextRead(Queued(v.link[c]) > MaxOut) \in {"none", "armed"}
        BY DEF NextRead
      <3> QED
        BY <1>8, <3>1, Zenon
    <2> QED
      BY <1>1, <1>11, <2>1
  <1>13. TypeOK'
    <2>1. world' \in [link : [Conn -> LinkType], fed : SUBSET Conn, active : Nat]
      BY <1>9, ServerType, Zenon
    <2> QED
      BY <1>1, <1>2, <1>12, <2>1, Zenon
      DEF TypeOK, ConnectionTypeOK, AsioTypeOK, PollTypeOK
  <1>14. Follows(k, l)
    BY <1>9, Zenon DEF Serves, ServesOne
  <1>15. ConnOK(c)'
    <2>1. backend # "poll" /\ "done" # "none"
      OBVIOUS
    <2>2. UnitsOK(c)'
      BY <1>1, <1>4, <1>5, <1>6, <1>9, <1>12, Zenon DEF UnitsOK
    <2>3. ArrivedOK(c)'
      <3>1. Delivered(c) <= k.made /\ Delivered(c)' = Delivered(c)
        BY <1>1, <1>2, Zenon DEF ConnOK, ArrivedOK, Delivered
      <3>2. Delivered(c) \in Nat /\ k.made \in Nat /\ l.made \in Nat /\ l.made >= k.made
        BY <1>2, <1>10, <1>14, DeliveredType, LinkFields DEF TypeOK, Follows
      <3>3. Delivered(c)' <= l.made
        BY <3>1, <3>2
      <3> QED
        BY <1>1, <1>2, <3>3, Zenon DEF ConnOK, ArrivedOK
    <2>4. SessionOK(c)'
      <3>1. readop'[c] # "eof"
        BY <1>12
      <3> QED
        BY <1>1, <1>9, <1>12, <2>1, <3>1, Zenon DEF SessionOK
    <2>5. SweepOK(c)'
      BY <1>1, <1>2, Zenon DEF ConnOK, SweepOK
    <2>6. EndedOK(c)'
      BY <1>1, <1>2, <1>14, <2>1, Zenon DEF ConnOK, EndedOK, Follows
    <2>7. Bounded(world, c)'
      BY <1>1, <1>9, Zenon DEF Bounded
    <2> QED
      BY <2>2, <2>3, <2>4, <2>5, <2>6, <2>7, Zenon DEF ConnOK
  <1>16. ASSUME NEW q \in Conn, q # c PROVE ConnOK(q)'
    <2>1. SameSocket(q)
      BY <1>1, <1>12, <1>16, Zenon DEF SameSocket
    <2>2. ServesOne(world, world', c, q)
      BY <1>9, Zenon DEF Serves
    <2> QED
      BY <1>1, <1>2, <1>10, <1>16, <2>1, <2>2, OtherConn, Zenon DEF ServesOne
  <1>17. ASSUME NEW q \in Conn PROVE ConnOK(q)' /\ Steady(world, world', q)
    <2>1. Steady(world, world', q)
      BY <1>2, <1>9, ServesSteady, Zenon DEF Serves
    <2> QED
      BY <1>15, <1>16, <2>1, Zenon
  <1> QED
    BY <1>10, <1>13, <1>17, Zenon DEF IInv

\* Another out for c.
SetOut(w, c, o) == [w EXCEPT !.link[c].out = o]

SetsOut(u, w, c, o) ==
    /\ OnlyLink(u, w, c) /\ w.fed = u.fed /\ w.active = u.active
    /\ w.link[c].in = u.link[c].in /\ w.link[c].done = u.link[c].done
    /\ w.link[c].made = u.link[c].made /\ w.link[c].out = o
    /\ w.link[c].pending = u.link[c].pending /\ w.link[c].written = u.link[c].written
    /\ w.link[c].writing = u.link[c].writing /\ w.link[c].state = u.link[c].state
    /\ w.link[c].why = u.link[c].why

\* Of c's link only out changes.
LEMMA SetOutFields ==
    ASSUME NEW u \in World, NEW c \in Conn, NEW o \in Seq(Nat), NEW w,
           w = SetOut(u, c, o)
    PROVE  SetsOut(u, w, c, o)
  <1> DEFINE k == [u.link[c] EXCEPT !.out = o]
  <1>1. u.link[c] \in LinkType
    BY LinkFields
  <1>2. u.fed \in SUBSET Conn /\ u.active \in Int
    BY LinkFields
  <1>3. w = Put(u, c, k, u.fed, u.active)
    BY Zenon DEF SetOut, World, Put
  <1>4. k \in LinkType
    BY <1>1, Zenon DEF LinkType
  <1>5. /\ k.in = u.link[c].in /\ k.done = u.link[c].done
        /\ k.made = u.link[c].made /\ k.out = o
        /\ k.pending = u.link[c].pending /\ k.written = u.link[c].written
        /\ k.writing = u.link[c].writing /\ k.state = u.link[c].state
        /\ k.why = u.link[c].why
    BY <1>1 DEF LinkType
  <1> HIDE DEF k
  <1>6. OnlyLink(u, w, c) /\ w.fed = u.fed /\ w.active = u.active /\ w.link[c] = k
    BY <1>2, <1>3, <1>4, PutFields
  <1> QED
    BY <1>5, <1>6, Zenon DEF SetsOut

\* Another progress of the write of c.
SetWritten(w, c, n) == [w EXCEPT !.link[c].written = n]

SetsWritten(u, w, c, n) ==
    /\ OnlyLink(u, w, c) /\ w.fed = u.fed /\ w.active = u.active
    /\ w.link[c].in = u.link[c].in /\ w.link[c].done = u.link[c].done
    /\ w.link[c].made = u.link[c].made /\ w.link[c].out = u.link[c].out
    /\ w.link[c].pending = u.link[c].pending /\ w.link[c].written = n
    /\ w.link[c].writing = u.link[c].writing /\ w.link[c].state = u.link[c].state
    /\ w.link[c].why = u.link[c].why

\* Of c's link only the progress of the write changes.
LEMMA SetWrittenFields ==
    ASSUME NEW u \in World, NEW c \in Conn, NEW n \in Nat, NEW w,
           w = SetWritten(u, c, n)
    PROVE  SetsWritten(u, w, c, n)
  <1> DEFINE k == [u.link[c] EXCEPT !.written = n]
  <1>1. u.link[c] \in LinkType
    BY LinkFields
  <1>2. u.fed \in SUBSET Conn /\ u.active \in Int
    BY LinkFields
  <1>3. w = Put(u, c, k, u.fed, u.active)
    BY DEF SetWritten, World, Put
  <1>4. k \in LinkType
    BY <1>1, Zenon DEF LinkType
  <1>5. /\ k.in = u.link[c].in /\ k.done = u.link[c].done
        /\ k.made = u.link[c].made /\ k.out = u.link[c].out
        /\ k.pending = u.link[c].pending /\ k.written = n
        /\ k.writing = u.link[c].writing /\ k.state = u.link[c].state
        /\ k.why = u.link[c].why
    BY <1>1 DEF LinkType
  <1> HIDE DEF k
  <1>6. OnlyLink(u, w, c) /\ w.fed = u.fed /\ w.active = u.active /\ w.link[c] = k
    BY <1>2, <1>3, <1>4, PutFields
  <1> QED
    BY <1>5, <1>6, Zenon DEF SetsWritten

\* The write of c starts or is over.
SetWriting(w, c, b) == [w EXCEPT !.link[c].writing = b]

SetsWriting(u, w, c, b) ==
    /\ OnlyLink(u, w, c) /\ w.fed = u.fed /\ w.active = u.active
    /\ w.link[c].in = u.link[c].in /\ w.link[c].done = u.link[c].done
    /\ w.link[c].made = u.link[c].made /\ w.link[c].out = u.link[c].out
    /\ w.link[c].pending = u.link[c].pending /\ w.link[c].written = u.link[c].written
    /\ w.link[c].writing = b /\ w.link[c].state = u.link[c].state
    /\ w.link[c].why = u.link[c].why

\* Of c's link only the flag of the write in flight changes.
LEMMA SetWritingFields ==
    ASSUME NEW u \in World, NEW c \in Conn, NEW b \in BOOLEAN, NEW w,
           w = SetWriting(u, c, b)
    PROVE  SetsWriting(u, w, c, b)
  <1> DEFINE k == [u.link[c] EXCEPT !.writing = b]
  <1>1. u.link[c] \in LinkType
    BY LinkFields
  <1>2. u.fed \in SUBSET Conn /\ u.active \in Int
    BY LinkFields
  <1>3. w = Put(u, c, k, u.fed, u.active)
    BY DEF SetWriting, World, Put
  <1>4. k \in LinkType
    BY <1>1, Zenon DEF LinkType
  <1>5. /\ k.in = u.link[c].in /\ k.done = u.link[c].done
        /\ k.made = u.link[c].made /\ k.out = u.link[c].out
        /\ k.pending = u.link[c].pending /\ k.written = u.link[c].written
        /\ k.writing = b /\ k.state = u.link[c].state
        /\ k.why = u.link[c].why
    BY <1>1 DEF LinkType
  <1> HIDE DEF k
  <1>6. OnlyLink(u, w, c) /\ w.fed = u.fed /\ w.active = u.active /\ w.link[c] = k
    BY <1>2, <1>3, <1>4, PutFields
  <1> QED
    BY <1>5, <1>6 DEF SetsWriting

\* Another reason why c closes.
SetWhy(w, c, y) == [w EXCEPT !.link[c].why = y]

SetsWhy(u, w, c, y) ==
    /\ OnlyLink(u, w, c) /\ w.fed = u.fed /\ w.active = u.active
    /\ w.link[c].in = u.link[c].in /\ w.link[c].done = u.link[c].done
    /\ w.link[c].made = u.link[c].made /\ w.link[c].out = u.link[c].out
    /\ w.link[c].pending = u.link[c].pending /\ w.link[c].written = u.link[c].written
    /\ w.link[c].writing = u.link[c].writing /\ w.link[c].state = u.link[c].state
    /\ w.link[c].why = y

\* A connection whose output moves on, and that may close without its having
\* found the end of the stream.
LEMMA OutputConn ==
    ASSUME NEW c \in Conn, ConnOK(c), TypeOK, backend' = backend,
           sent'[c] = sent[c], peer'[c] = peer[c], rcv'[c] = rcv[c],
           readop'[c] = readop[c], readn'[c] = readn[c],
           revents'[c] = revents[c], c \in dead' <=> c \in dead,
           NEW k, k = world.link[c], NEW l, l = world'.link[c],
           l.in = k.in, l.done = k.done, l.why = "eof" => k.why = "eof",
           l.state = k.state \/ (backend = "asio" /\ l.state = "closed"),
           k.state # "backlog", ArrivedOK(c)', Bounded(world, c)'
    PROVE  ConnOK(c)'
  <1>1. backend \in {"asio", "poll"}
    BY DEF TypeOK
  <1>2. UnitsOK(c)'
    BY Zenon DEF ConnOK, UnitsOK
  <1>3. SessionOK(c)'
    <2>1. l.state # "backlog"
      OBVIOUS
    <2> QED
      BY <2>1, Zenon DEF ConnOK, SessionOK
  <1>4. SweepOK(c)'
    <2>1. backend = "poll" => l.state = k.state
      OBVIOUS
    <2>2. Open(c)' <=> l.state = "open"
      BY DEF Open
    <2>3. Open(c) <=> k.state = "open"
      BY DEF Open
    <2> QED
      BY <1>1, <2>1, <2>2, <2>3 DEF ConnOK, SweepOK
  <1>5. EndedOK(c)'
    <2>1. k.state = "closed" => l.state = "closed"
      OBVIOUS
    <2> QED
      BY <2>1, Zenon DEF ConnOK, EndedOK, Closed
  <1> QED
    BY <1>2, <1>3, <1>4, <1>5, Zenon DEF ConnOK

\* The next piece of out leaves the server.
LEMMA TakeOne ==
    ASSUME NEW o \in Seq(Nat), NEW p \in Seq(Nat), NEW n \in Nat, NEW m \in Nat,
           NEW b \in Nat, Counts(o, p, n, m, b), n < Len(o)
    PROVE  o[n + 1] = b + 1 /\ b + 1 <= m /\ Counts(o, p, n + 1, m, b + 1)
  <1>1. /\ m = b + (Len(o) - n) + Len(p)
        /\ \A i \in (n + 1)..Len(o) : o[i] = b + (i - n)
        /\ \A i \in 1..Len(p) : p[i] = b + (Len(o) - n) + i
    BY DEF Counts
  <1>2. PICK x \in Nat, y \in Nat : x = Len(o) /\ y = Len(p)
    OBVIOUS
  <1>3. o[n + 1] = b + 1
    <2>1. n + 1 \in (n + 1)..Len(o) /\ b + ((n + 1) - n) = b + 1
      BY <1>2
    <2> QED
      BY <1>1, <2>1
  <1>4. n + 1 <= x /\ m = (b + 1) + (x - (n + 1)) + y /\ b + 1 <= m
    BY <1>1, <1>2
  <1>5. ASSUME NEW i \in ((n + 1) + 1)..x PROVE o[i] = (b + 1) + (i - (n + 1))
    <2>1. i \in (n + 1)..Len(o) /\ (b + 1) + (i - (n + 1)) = b + (i - n)
      BY <1>2, <1>5
    <2> QED
      BY <1>1, <2>1
  <1>6. ASSUME NEW i \in 1..y PROVE p[i] = (b + 1) + (x - (n + 1)) + i
    <2>1. p[i] = b + (x - n) + i
      BY <1>1, <1>2, <1>6
    <2> QED
      BY <1>2, <2>1
  <1>7. Counts(o, p, n + 1, m, b + 1)
    BY <1>2, <1>4, <1>5, <1>6, Zenon DEF Counts
  <1> QED
    BY <1>3, <1>4, <1>7, Zenon

\* One more piece arrives behind what is on its way.
LEMMA AppendOne ==
    ASSUME NEW g \in Nat, NEW n \in Seq(Nat), NEW b \in Nat, b = g + Len(n),
           \A i \in 1..Len(n) : n[i] = g + i
    PROVE  /\ Len(Append(n, b + 1)) = Len(n) + 1
           /\ \A i \in 1..Len(Append(n, b + 1)) : Append(n, b + 1)[i] = g + i
  <1>1. Len(Append(n, b + 1)) = Len(n) + 1
    OBVIOUS
  <1>2. ASSUME NEW i \in 1..(Len(n) + 1) PROVE Append(n, b + 1)[i] = g + i
    <2>1. CASE i <= Len(n)
      BY <1>2, <2>1
    <2>2. CASE i = Len(n) + 1
      BY <2>2
    <2> QED
      BY <1>2, <2>1, <2>2
  <1> QED
    BY <1>1, <1>2

\* Output that leaves the server does not change the server otherwise.
LEMMA WrittenServer ==
    ASSUME NEW w, ServerOK(w), NEW c \in Conn, OnlyLink(w, world', c),
           world'.fed = w.fed, world'.active = w.active,
           world'.link[c].state = w.link[c].state,
           world'.link[c].done = w.link[c].done,
           backend' = backend, peer' = peer, got' = got,
           \A q \in Conn : q # c => net'[q] = net[q], QueueOK(world, c)'
    PROVE  ServerOK(world)'
  <1>1. /\ world' \in World
        /\ \A q \in Conn : q # c => world'.link[q] = w.link[q]
    BY DEF OnlyLink
  <1>2. \A q \in Conn : /\ world'.link[q].state = w.link[q].state
                        /\ world'.link[q].done = w.link[q].done
    BY <1>1, Zenon
  <1>3. OpenIn(world') = OpenIn(w)
    BY <1>2 DEF OpenIn
  <1>4. w.fed \subseteq Conn
    BY LinkFields DEF ServerOK
  <1>5. \A q \in world'.fed :
            world'.link[q].state # "backlog" /\ Resynced(world'.link[q], q)
    BY <1>2, <1>4, Zenon DEF ServerOK, Resynced
  <1>6. ASSUME NEW q \in Conn PROVE QueueOK(world, q)'
    <2>1. CASE q # c
      <3>1. world'.link[q] = w.link[q] /\ net'[q] = net[q]
        BY <1>1, <2>1, Zenon
      <3>2. QueueOK(w, q)
        BY Zenon DEF ServerOK
      <3> QED
        BY <3>1, <3>2, Zenon DEF QueueOK, Settled, Delivered
    <2> QED
      BY <2>1, Zenon
  <1>7. world'.active = Cardinality(OpenIn(world'))
    BY <1>3, Zenon DEF ServerOK
  <1> QED
    BY <1>1, <1>5, <1>6, <1>7, Zenon DEF ServerOK, OpenIn, Resynced

\* The kernel takes a piece of the write in flight.
LEMMA WriteSomeOK ==
    ASSUME IInv, backend = "asio", NEW c \in Conn, WriteSome(c),
           UNCHANGED <<backend, pollVars>>
    PROVE  IInv' /\ \A q \in Conn : Steady(world, world', q)
  <1> DEFINE k == world.link[c]
             l == world'.link[c]
  <1>1. /\ k.state = "open" /\ k.writing /\ k.written < Len(k.out)
        /\ peer[c] # "reset"
        /\ net' = [net EXCEPT ![c] = Append(@, k.out[k.written + 1])]
        /\ world' = SetWritten(world, c, k.written + 1)
        /\ sent' = sent /\ peer' = peer /\ got' = got /\ rcv' = rcv
        /\ readop' = readop /\ readn' = readn /\ backend' = backend
        /\ revents' = revents /\ accepting' = accepting /\ cursor' = cursor
        /\ dead' = dead
    BY Zenon DEF WriteSome, SetWritten, Open, clientVars, pollVars, asioVars
  <1>2. /\ TypeOK /\ ServerOK(world) /\ ConnOK(c) /\ \A q \in Conn : ConnOK(q)
        /\ world \in World
    BY DEF IInv, ServerOK
  <1>3. PICK o \in Seq(Nat), p \in Seq(Nat), n \in Nat, m \in Nat, b \in Nat :
            o = k.out /\ p = k.pending /\ n = k.written /\ m = k.made
            /\ b = Delivered(c)
    <2>1. /\ k.out \in Seq(Nat) /\ k.pending \in Seq(Nat) /\ k.written \in Nat
          /\ k.made \in Nat
      BY <1>2, LinkFields
    <2>2. Delivered(c) \in Nat
      BY <1>2, DeliveredType DEF TypeOK
    <2> QED
      BY <2>1, <2>2, Zenon
  <1>4. o[n + 1] = b + 1 /\ b + 1 <= m /\ Counts(o, p, n + 1, m, b + 1)
    <2>1. Counts(o, p, n, m, b) /\ n < Len(o)
      <3>1. "open" # "closed"
        OBVIOUS
      <3> QED
        BY <1>1, <1>2, <1>3, <3>1, Zenon DEF ServerOK, QueueOK, Continues
    <2> QED
      BY <2>1, TakeOne
  <1>5. /\ OnlyLink(world, world', c) /\ world'.fed = world.fed
        /\ world'.active = world.active
        /\ l.in = k.in /\ l.done = k.done /\ l.made = k.made /\ l.out = k.out
        /\ l.pending = k.pending /\ l.written = n + 1 /\ l.writing = k.writing
        /\ l.state = k.state /\ l.why = k.why
    <2>1. PICK v : v = world'
      BY Zenon
    <2>2. v = SetWritten(world, c, n + 1) /\ n + 1 \in Nat
      BY <1>1, <1>3, <2>1
    <2>3. SetsWritten(world, v, c, n + 1)
      BY <1>2, <2>2, SetWrittenFields
    <2> QED
      BY <1>2, <2>1, <2>3, Zenon DEF SetsWritten
  <1>6. /\ net' = [net EXCEPT ![c] = Append(@, b + 1)]
        /\ net \in [Conn -> Seq(Nat)] /\ got[c] \in Seq(Nat)
    <2>1. k.out[k.written + 1] = b + 1
      BY <1>3, <1>4, Zenon
    <2> QED
      BY <1>1, <1>2, <2>1, ConnTypes DEF TypeOK, ConnectionTypeOK
  <1>7. /\ net' \in [Conn -> Seq(Nat)] /\ net'[c] = Append(net[c], b + 1)
        /\ \A q \in Conn : q # c => net'[q] = net[q]
    BY <1>6
  <1>8. PICK g \in Nat, x \in Seq(Nat) : g = Len(got[c]) /\ x = net[c]
    BY <1>6
  <1>9. b = g + Len(x) /\ net'[c] = Append(x, b + 1)
    BY <1>3, <1>7, <1>8, Zenon DEF Delivered
  <1>10. /\ Len(net'[c]) = Len(x) + 1
         /\ \A i \in 1..Len(net'[c]) : net'[c][i] = g + i
    <2>1. \A i \in 1..Len(x) : x[i] = g + i
      BY <1>2, <1>8, Zenon DEF ConnOK, ArrivedOK
    <2>2. b = g + Len(x)
      BY <1>9, Zenon
    <2>3. /\ Len(Append(x, b + 1)) = Len(x) + 1
          /\ \A i \in 1..Len(Append(x, b + 1)) : Append(x, b + 1)[i] = g + i
      BY <2>1, <2>2, AppendOne, Zenon
    <2> QED
      BY <1>9, <2>3, Zenon
  <1>11. Delivered(c)' = b + 1
    <2>1. g + (Len(x) + 1) = b + 1
      BY <1>9
    <2> QED
      BY <1>1, <1>8, <1>10, <2>1, Zenon DEF Delivered
  <1>12. ArrivedOK(c)'
    <2>1. Delivered(c)' <= l.made
      BY <1>3, <1>4, <1>5, <1>11, Zenon
    <2>2. Len(net'[c]) <= SendCap
      <3>1. Len(x) < SendCap
        BY <1>8, Zenon DEF WriteSome
      <3>2. Len(x) + 1 <= SendCap
        BY <3>1, ConnectionAssumption
      <3> QED
        BY <1>10, <3>2, Zenon
    <2> QED
      BY <1>1, <1>2, <1>8, <1>10, <2>1, <2>2, Zenon DEF ConnOK, ArrivedOK
  <1>13. QueueOK(world, c)'
    <2>1. backend # "poll"
      OBVIOUS
    <2>2. Continues(l, b + 1)
      BY <1>3, <1>4, <1>5, Zenon DEF Continues
    <2> QED
      BY <1>1, <1>5, <1>11, <2>1, <2>2, Zenon DEF QueueOK, Settled, Continues
  <1>14. ServerOK(world)'
    BY <1>1, <1>2, <1>5, <1>7, <1>13, WrittenServer, Zenon
  <1>15. TypeOK'
    <2>1. ServerOK(world)' => world' \in World /\ world'.active = Cardinality(OpenIn(world'))
      BY DEF ServerOK, OpenIn
    <2>2. world' \in [link : [Conn -> LinkType], fed : SUBSET Conn, active : Nat]
      <3>1. world' \in World /\ world'.active \in Nat
        BY <1>14, <2>1, OpenFinite
      <3> QED
        BY <3>1 DEF World
    <2> QED
      BY <1>1, <1>2, <1>7, <2>2, Zenon
      DEF TypeOK, ConnectionTypeOK, AsioTypeOK, PollTypeOK
  <1>16. ConnOK(c)'
    <2>1. Bounded(world, c)'
      BY <1>1, <1>2, <1>5, Zenon DEF ConnOK, Bounded, Queued
    <2>2. k.state # "backlog"
      BY <1>1
    <2> QED
      BY <1>1, <1>2, <1>5, <1>12, <2>1, <2>2, OutputConn, Zenon
  <1>17. ASSUME NEW q \in Conn PROVE ConnOK(q)' /\ Steady(world, world', q)
    <2>1. CASE q # c
      <3>1. SameSocket(q)
        BY <1>1, <1>7, <2>1, Zenon DEF SameSocket
      <3>2. world' \in World /\ world'.link[q] = world.link[q]
        BY <1>5, <2>1 DEF OnlyLink
      <3>3. ConnOK(q)'
        BY <1>1, <1>2, <1>5, <3>1, <3>2, SameConn, Zenon
      <3> QED
        BY <1>2, <3>2, <3>3, SteadySame, Zenon
    <2>2. CASE q = c
      <3>1. m >= m /\ "open" # "closed"
        OBVIOUS
      <3>2. Steady(world, world', c)
        BY <1>1, <1>3, <1>5, <3>1, Zenon DEF Steady
      <3> QED
        BY <1>16, <2>2, <3>2, Zenon
    <2> QED
      BY <2>1, <2>2, Zenon
  <1> QED
    BY <1>14, <1>15, <1>17, Zenon DEF IInv

\* A write that is complete: out is consumed, and what piled up is next.
Consumes(w, v, c) ==
    /\ OnlyLink(w, v, c) /\ v.fed = w.fed /\ v.active = w.active
    /\ v.link[c].out = <<>> \o w.link[c].pending /\ v.link[c].pending = <<>>
    /\ v.link[c].writing = (v.link[c].out # <<>>) /\ v.link[c].written = 0
    /\ v.link[c].in = w.link[c].in /\ v.link[c].done = w.link[c].done
    /\ v.link[c].made = w.link[c].made
    /\ v.link[c].state = w.link[c].state /\ v.link[c].why = w.link[c].why

\* The handler of a complete write does what Consumes says.
LEMMA AfterWriteFields ==
    ASSUME NEW w \in World, NEW c \in Conn, NEW u, u = SetWriting(w, c, FALSE),
           NEW v, v = AfterWrite(u, c)
    PROVE  Consumes(w, v, c)
  <1>1. FALSE \in BOOLEAN /\ <<>> \in Seq(Nat)
    OBVIOUS
  <1>2. SetsWriting(w, u, c, FALSE)
    BY <1>1, SetWritingFields, Zenon
  <1>3. PICK x : x = SetOut(u, c, <<>>)
    BY Zenon
  <1>4. u \in World
    BY <1>2, Zenon DEF SetsWriting, OnlyLink
  <1>5. SetsOut(u, x, c, <<>>)
    BY <1>1, <1>3, <1>4, SetOutFields, Zenon
  <1>6. v = Flush(x, c) /\ x \in World /\ ~x.link[c].writing
    BY <1>2, <1>3, <1>5, Zenon DEF AfterWrite, SetOut, SetsOut, SetsWriting, OnlyLink
  <1>7. Flushes(x, v, c)
    BY <1>6, FlushFields, Zenon
  <1>8. OnlyLink(w, v, c)
    BY <1>2, <1>5, <1>7, Zenon DEF SetsOut, SetsWriting, Flushes, OnlyLink
  <1> QED
    BY <1>2, <1>5, <1>6, <1>7, <1>8, Zenon
    DEF Consumes, SetsOut, SetsWriting, Flushes

\* A write that failed, or whose session has been closed.
FailsWrite(w, v, c) ==
    /\ OnlyLink(w, v, c) /\ v.link[c].state = "closed"
    /\ w.link[c].state = "closed" =>
           /\ v.fed = w.fed /\ v.active = w.active
           /\ v.link[c].why = w.link[c].why
    /\ w.link[c].state # "closed" =>
           /\ v.fed = w.fed \ {c} /\ v.active = w.active - 1
           /\ v.link[c].why = "error"
    /\ v.link[c].writing = FALSE
    /\ v.link[c].in = w.link[c].in /\ v.link[c].done = w.link[c].done
    /\ v.link[c].made = w.link[c].made

\* The handler of a failed write does what FailsWrite says.
LEMMA WriteErrorFields ==
    ASSUME NEW w \in World, NEW c \in Conn, NEW u, u = SetWriting(w, c, FALSE),
           NEW v, v = DoClose(u, c, "error")
    PROVE  FailsWrite(w, v, c)
  <1>1. FALSE \in BOOLEAN
    OBVIOUS
  <1>2. SetsWriting(w, u, c, FALSE)
    BY <1>1, SetWritingFields, Zenon
  <1>3. PICK why \in {"eof", "error", "overflow"} : why = "error"
    OBVIOUS
  <1>4. u \in World /\ v = DoClose(u, c, why)
    BY <1>2, <1>3, Zenon DEF SetsWriting, OnlyLink
  <1>5. Closes(u, v, c, why)
    BY <1>4, DoCloseFields, Zenon
  <1>6. OnlyLink(w, v, c)
    BY <1>2, <1>5, Zenon DEF SetsWriting, Closes, OnlyLink
  <1> QED
    BY <1>2, <1>3, <1>5, <1>6, Zenon DEF FailsWrite, SetsWriting, Closes

\* Without the write that is complete, the rest of the output goes on from there.
LEMMA WrittenAll ==
    ASSUME NEW o \in Seq(Nat), NEW p \in Seq(Nat), NEW m \in Nat, NEW b \in Nat,
           Counts(o, p, Len(o), m, b)
    PROVE  Counts(<<>>, p, 0, m, b)
  <1>1. PICK x \in Nat : x = Len(o)
    OBVIOUS
  <1>2. /\ m = b + (x - x) + Len(p)
        /\ \A i \in 1..Len(p) : p[i] = b + (x - x) + i
    BY <1>1 DEF Counts
  <1>3. x - x = 0 - 0 /\ 0 <= 0 /\ Len(<<>>) = 0
    OBVIOUS
  <1>4. \A i \in (0 + 1)..0 : <<>>[i] = b + (i - 0)
    OBVIOUS
  <1> QED
    BY <1>2, <1>3, <1>4 DEF Counts

\* A step that changes one connection of the asio backend and no socket.
LEMMA AsioOutput ==
    ASSUME IInv, backend = "asio", NEW c \in Conn,
           backend' = backend, sent' = sent, peer' = peer, got' = got, rcv' = rcv,
           net' = net, readop' = readop, readn' = readn, revents' = revents,
           accepting' = accepting, cursor' = cursor, dead' = dead,
           OnlyLink(world, world', c), Booked(world, world', c), QueueOK(world', c),
           NEW k, k = world.link[c], NEW l, l = world'.link[c],
           l.in = k.in, l.done = k.done, l.made = k.made,
           l.why = "eof" => k.why = "eof", k.state # "backlog",
           k.state = "closed" => l.state = "closed",
           Bounded(world', c), Steady(world, world', c)
    PROVE  IInv' /\ \A q \in Conn : Steady(world, world', q)
  <1>1. /\ TypeOK /\ ServerOK(world) /\ ConnOK(c) /\ \A q \in Conn : ConnOK(q)
        /\ world \in World
    BY Zenon DEF IInv, ServerOK
  <1>2. ServerOK(world')
    BY <1>1, BookedServer
  <1>3. ServerOK(world)'
    BY <1>2, SameQueues, Zenon
  <1>4. TypeOK'
    <2>1. world' \in [link : [Conn -> LinkType], fed : SUBSET Conn, active : Nat]
      BY <1>2, ServerType, Zenon
    <2> QED
      BY <1>1, <2>1, Zenon DEF TypeOK, ConnectionTypeOK, AsioTypeOK, PollTypeOK
  <1>5. ConnOK(c)'
    <2>1. ArrivedOK(c)'
      BY <1>1, Zenon DEF ConnOK, ArrivedOK, Delivered
    <2>2. Bounded(world, c)'
      BY Zenon DEF Bounded
    <2>3. l.state = k.state \/ l.state = "closed"
      BY Zenon DEF Booked
    <2>4. \A q \in Conn : q \in dead' <=> q \in dead
      BY Zenon
    <2> QED
      BY <1>1, <2>1, <2>2, <2>3, <2>4, OutputConn
  <1>6. ASSUME NEW q \in Conn, q # c PROVE ConnOK(q)' /\ Steady(world, world', q)
    <2>1. SameSocket(q)
      BY Zenon DEF SameSocket
    <2>2. world' \in World /\ world'.link[q] = world.link[q]
      BY <1>6 DEF OnlyLink
    <2>3. q \in world'.fed <=> q \in world.fed
      BY <1>6 DEF Booked
    <2>4. ConnOK(q)'
      BY <1>1, <2>1, <2>2, <2>3, SameConn, Zenon
    <2> QED
      BY <1>1, <2>2, <2>4, SteadySame, Zenon
  <1> QED
    BY <1>3, <1>4, <1>5, <1>6, Zenon DEF IInv

\* The completion handler of async_write goes on with what is pending, or closes.
LEMMA WriteHandlerOK ==
    ASSUME IInv, backend = "asio", NEW c \in Conn, WriteHandler(c),
           UNCHANGED <<backend, pollVars>>
    PROVE  IInv' /\ \A q \in Conn : Steady(world, world', q)
  <1> DEFINE k == world.link[c]
             l == world'.link[c]
  <1>1. /\ k.writing
        /\ \/ k.written = Len(k.out) /\ world' = AfterWrite(SetWriting(world, c, FALSE), c)
           \/ world' = DoClose(SetWriting(world, c, FALSE), c, "error")
        /\ sent' = sent /\ peer' = peer /\ got' = got /\ rcv' = rcv /\ net' = net
        /\ readop' = readop /\ readn' = readn /\ backend' = backend
        /\ revents' = revents /\ accepting' = accepting /\ cursor' = cursor
        /\ dead' = dead
    BY DEF WriteHandler, SetWriting, clientVars, pollVars, asioVars
  <1>2. /\ TypeOK /\ ServerOK(world) /\ ConnOK(c) /\ world \in World /\ QueueOK(world, c)
    BY Zenon DEF IInv, ServerOK
  <1>3. k.state # "backlog"
    BY <1>1, <1>2, Zenon DEF ConnOK, SessionOK
  <1>4. PICK o \in Seq(Nat), p \in Seq(Nat), m \in Nat, b \in Nat :
            o = k.out /\ p = k.pending /\ m = k.made /\ b = Delivered(c)
    <2>1. k.out \in Seq(Nat) /\ k.pending \in Seq(Nat) /\ k.made \in Nat
      BY <1>2, LinkFields
    <2>2. Delivered(c) \in Nat
      BY <1>2, DeliveredType DEF TypeOK
    <2> QED
      BY <2>1, <2>2, Zenon
  <1>5. PICK u : u = SetWriting(world, c, FALSE)
    BY Zenon
  <1>6. PICK v : v = world'
    OBVIOUS
  <1>7. "open" # "closed" /\ backend # "poll" /\ m >= m
    OBVIOUS
  <1>8. CASE k.written = Len(k.out) /\ world' = AfterWrite(SetWriting(world, c, FALSE), c)
    <2>1. /\ OnlyLink(world, v, c) /\ v.fed = world.fed /\ v.active = world.active
          /\ v.link[c].out = <<>> \o p /\ v.link[c].pending = <<>>
          /\ v.link[c].writing = (v.link[c].out # <<>>) /\ v.link[c].written = 0
          /\ v.link[c].in = k.in /\ v.link[c].done = k.done /\ v.link[c].made = k.made
          /\ v.link[c].state = k.state /\ v.link[c].why = k.why
      <3>1. v = AfterWrite(u, c)
        BY <1>5, <1>6, <1>8, Zenon
      <3>2. Consumes(world, v, c)
        BY <1>2, <1>5, <3>1, AfterWriteFields, Zenon
      <3> QED
        BY <1>4, <3>2, Zenon DEF Consumes
    <2>2. ASSUME k.state # "closed", peer[c] # "reset"
          PROVE  Continues(v.link[c], Delivered(c))
      <3>1. Counts(o, p, Len(o), m, b)
        BY <1>2, <1>4, <1>8, <2>2, Zenon DEF QueueOK, Continues
      <3>2. Counts(<<>>, p, 0, m, b)
        BY <3>1, WrittenAll
      <3>3. Counts(<<>> \o p, <<>>, 0, m, b)
        BY <3>2, MovePending
      <3> QED
        BY <1>4, <2>1, <3>3, Zenon DEF Continues
    <2>3. QueueOK(v, c)
      BY <1>7, <2>1, <2>2, Zenon DEF QueueOK, Settled
    <2>4. Bounded(v, c)
      <3>1. Len(<<>> \o p) + Len(<<>>) <= Len(o) + Len(p)
        OBVIOUS
      <3>2. /\ Len(o) + Len(p) \in Nat /\ Len(<<>> \o p) + Len(<<>>) \in Nat
            /\ MaxOut \in Nat
        BY ConnectionAssumption
      <3>3. Len(o) + Len(p) <= MaxOut => Len(<<>> \o p) + Len(<<>>) <= MaxOut
        BY <3>1, <3>2
      <3> QED
        BY <1>2, <1>4, <1>7, <2>1, <3>3, Zenon DEF ConnOK, Bounded, Queued
    <2>5. Steady(world, v, c)
      <3>1. ~(Len(o) < Len(o))
        OBVIOUS
      <3> QED
        BY <1>4, <1>7, <1>8, <2>1, <3>1, Zenon DEF Steady
    <2>6. Booked(world, v, c)
      BY <2>1, Zenon DEF Booked
    <2> QED
      BY <1>1, <1>3, <1>6, <2>1, <2>3, <2>4, <2>5, <2>6, AsioOutput, Zenon
  <1>9. CASE world' = DoClose(SetWriting(world, c, FALSE), c, "error")
    <2>1. /\ OnlyLink(world, v, c) /\ v.link[c].state = "closed"
          /\ k.state = "closed" =>
                 v.fed = world.fed /\ v.active = world.active /\ v.link[c].why = k.why
          /\ k.state # "closed" =>
                 /\ v.fed = world.fed \ {c} /\ v.active = world.active - 1
                 /\ v.link[c].why = "error"
          /\ v.link[c].writing = FALSE
          /\ v.link[c].in = k.in /\ v.link[c].done = k.done /\ v.link[c].made = k.made
      <3>1. v = DoClose(u, c, "error")
        BY <1>5, <1>6, <1>9, Zenon
      <3>2. FailsWrite(world, v, c)
        BY <1>2, <1>5, <3>1, WriteErrorFields, Zenon
      <3> QED
        BY <3>2, Zenon DEF FailsWrite
    <2>2. QueueOK(v, c)
      BY <1>7, <2>1, Zenon DEF QueueOK
    <2>3. Bounded(v, c)
      BY <1>7, <2>1, Zenon DEF Bounded
    <2>4. Steady(world, v, c)
      <3>1. v.fed = world.fed \ {c} => c \notin v.fed
        OBVIOUS
      <3> QED
        BY <1>4, <1>7, <2>1, <3>1, Zenon DEF Steady
    <2>5. Booked(world, v, c)
      <3>1. k.state = "open" \/ k.state = "closed"
        BY <1>2, <1>3, LinkFields
      <3> QED
        BY <1>7, <2>1, <3>1, Zenon DEF Booked
    <2>6. v.link[c].why = "eof" => k.why = "eof"
      <3>1. "error" # "eof"
        OBVIOUS
      <3> QED
        BY <2>1, <3>1, Zenon
    <2> QED
      BY <1>1, <1>3, <1>6, <2>1, <2>2, <2>3, <2>4, <2>5, <2>6, AsioOutput, Zenon
  <1> QED
    BY <1>1, <1>8, <1>9, Zenon
=============================================================================
