-------------------------------- MODULE Aof --------------------------------
(***************************************************************************)
(* The append-only file (aof.cpp) with the calls persistence.cpp makes of  *)
(* it: append on every write, flush and rewrite in cron, close at          *)
(* shutdown, replay and open at boot.  Bytes pass through four places: the *)
(* buffer_ of Aof, the buffer of the FILE*, the page cache (what a reader  *)
(* of the file sees, lost with the power only) and the medium.             *)
(*                                                                         *)
(* Writes are numbered in the order they are acknowledged and a keyspace   *)
(* is the sequence of the writes it reflects.  An encoded command is two   *)
(* halves, so that a file can end, and two files can meet, inside one.     *)
(***************************************************************************)
EXTENDS Integers, Sequences

CONSTANTS
    Policies,          \* the fsync policies the server may be started with
    RewriteThreshold,  \* config_.aof_rewrite_threshold; 0 disables
    MaxWrites,         \* bound: writes acknowledged
    MaxTroubles        \* bound: short writes, failed rewrites, kills, power
                       \* failures and orderly shutdowns, all together

ASSUME AofAssumption ==
    /\ Policies \subseteq {"always", "everysec", "no"}
    /\ RewriteThreshold \in Nat
    /\ MaxWrites \in Nat
    /\ MaxTroubles \in Nat

VARIABLES
    policy,     \* policy_
    mode,       \* "up", "down", or "refused" when replay reports corruption
    mem,        \* the keyspace; while down, the one that was lost
    handle,     \* file_ is not null
    buffer,     \* buffer_
    stdio,      \* what fwrite has taken and not handed to the kernel
    exists,     \* whether the AOF's name leads to a file
    os,         \* that file, as a reader sees it
    medium,     \* how much of it survives a power failure for certain
    temp,       \* the file a rewrite is building
    rewriting,  \* the next step of rewrite, "no" outside of it
    commands,   \* commands_written_
    due,        \* a second has passed since last_fsync_ms_
    acked,      \* history: writes acknowledged so far
    durable,    \* history: the keyspace at the last fsync of the file
    rewritten,  \* history: some rewrite has replaced the file
    reopens,    \* history: the failures that left file_ null
    cuts,       \* history: the short writes that ended inside a command
    failures, crashes, shutdowns

fileVars == <<handle, buffer, stdio, exists, os, medium, temp>>
histVars == <<reopens, cuts, failures, crashes, shutdowns>>
vars == <<policy, mode, mem, fileVars, rewriting, commands, due, acked, durable,
          rewritten, histVars>>

Half == [n : Nat, part : {1, 2}]

\* Aof::encode, the two halves of a command.
encode(n) == <<[n |-> n, part |-> 1], [n |-> n, part |-> 2]>>

\* What a file of the commands of s holds.
Encoded(s) == [i \in 1..(2 * Len(s)) |-> encode(s[(i + 1) \div 2])[((i - 1) % 2) + 1]]

TypeOK ==
    /\ policy \in Policies
    /\ mode \in {"up", "down", "refused"}
    /\ mem \in Seq(Nat)
    /\ handle \in BOOLEAN
    /\ {buffer, stdio, os, temp} \subseteq Seq(Half)
    /\ exists \in BOOLEAN
    /\ medium \in 0..Len(os)
    /\ rewriting \in {"no", "temp", "close", "remove", "rename"}
    /\ commands \in Nat
    /\ due \in BOOLEAN
    /\ acked \in Nat
    /\ durable \in Seq(Nat)
    /\ rewritten \in BOOLEAN
    /\ {reopens, cuts, failures, crashes, shutdowns} \subseteq Nat

Init ==
    /\ policy \in Policies
    /\ mode = "up"
    /\ mem = << >>
    /\ handle = TRUE
    /\ buffer = << >>
    /\ stdio = << >>
    /\ exists = TRUE
    /\ os = << >>
    /\ medium = 0
    /\ temp = << >>
    /\ rewriting = "no"
    /\ commands = 0
    /\ due = TRUE
    /\ acked = 0
    /\ durable = << >>
    /\ rewritten = FALSE
    /\ reopens = 0
    /\ cuts = 0
    /\ failures = 0
    /\ crashes = 0
    /\ shutdowns = 0

\* Bound: one more trouble is allowed.
MayFail == failures + crashes + shutdowns < MaxTroubles

LoopFree == mode = "up" /\ rewriting = "no"

\* A write is executed, buffered if there is a file, and answered.
append ==
    /\ LoopFree
    /\ acked < MaxWrites
    /\ acked' = acked + 1
    /\ mem' = Append(mem, acked + 1)
    /\ IF handle
       THEN buffer' = buffer \o encode(acked + 1) /\ commands' = commands + 1
       ELSE UNCHANGED <<buffer, commands>>
    /\ UNCHANGED <<rewritten, policy, mode, handle, stdio, exists, os, medium, temp, rewriting, due,
                   durable, histVars>>

\* A second passes.
Second ==
    /\ mode = "up"
    /\ ~due
    /\ due' = TRUE
    /\ UNCHANGED <<rewritten, policy, mode, mem, fileVars, rewriting, commands, acked, durable,
                   histVars>>


(***************************************************************************)
(* flush                                                                   *)
(***************************************************************************)
\* Bug: new bytes overtake the ones stdio still holds.
MutUnwrittenSwapped == buffer \o stdio

Unwritten == stdio \o buffer

\* k halves of what is unwritten reach the kernel, the rest stays in stdio.
Push(k) ==
    /\ os' = os \o SubSeq(Unwritten, 1, k)
    /\ stdio' = SubSeq(Unwritten, k + 1, Len(Unwritten))
    /\ buffer' = << >>

\* fsync_handle: everything reaches the medium.
FsyncHandle ==
    /\ Push(Len(Unwritten))
    /\ medium' = Len(os')
    /\ durable' = mem

\* close(): what is buffered is written and synced.  (rewrite opens the file
\* again only if it was open, so the handle stays what it was.)
close ==
    IF handle THEN FsyncHandle ELSE UNCHANGED <<buffer, stdio, os, medium, durable>>

\* Bug: the second that everysec waits for never counts as over.
MutFlushNeverDue ==
    /\ Push(Len(Unwritten))
    /\ IF policy = "always"
       THEN medium' = Len(os') /\ durable' = mem
       ELSE UNCHANGED <<medium, durable>>
    /\ UNCHANGED <<due, failures, cuts>>

\* Bug: fflush where the policy asks for fsync.
MutFlushForgetsFsync ==
    /\ Push(Len(Unwritten))
    /\ due' = FALSE
    /\ durable' = IF policy = "no" THEN durable ELSE mem
    /\ UNCHANGED <<medium, failures, cuts>>

\* Under "everysec" between two syncs fwrite alone decides how much leaves its
\* buffer, and nothing does unless something is written.
flush ==
    \/ /\ ~handle
       /\ UNCHANGED <<buffer, stdio, os, medium, due, durable, failures, cuts>>
    \/ /\ handle
       /\ policy = "always" \/ (policy = "everysec" /\ due)
       /\ FsyncHandle
       /\ due' = FALSE
       /\ UNCHANGED <<failures, cuts>>
    \/ /\ handle
       /\ policy = "everysec" /\ ~due
       /\ \E k \in 0..Len(Unwritten) : (buffer = << >> => k = 0) /\ Push(k)
       /\ UNCHANGED <<medium, due, durable, failures, cuts>>
    \/ /\ handle
       /\ policy = "no"
       /\ Push(Len(Unwritten))
       /\ UNCHANGED <<medium, due, durable, failures, cuts>>

\* fwrite writes a part of the buffer only: flush returns with buffer_ as it was.
ShortWrite ==
    /\ handle
    /\ MayFail
    /\ failures' = failures + 1
    /\ \E k \in 0..(Len(buffer) - 1) :
          os' = os \o stdio \o SubSeq(buffer, 1, k) /\ cuts' = cuts + (k % 2)
    /\ stdio' = << >>
    /\ UNCHANGED <<buffer, medium, due, durable>>

\* The part of Persistence::cron that is about the AOF.
cron ==
    /\ LoopFree
    /\ flush \/ ShortWrite
    /\ rewriting' = IF RewriteThreshold > 0 /\ commands > RewriteThreshold
                    THEN "temp" ELSE "no"
    /\ UNCHANGED <<rewritten, policy, mode, mem, handle, exists, temp, commands, acked, reopens,
                   crashes, shutdowns>>

(***************************************************************************)
(* rewrite, on the event loop, one step for each system call a crash can   *)
(* come between.                                                           *)
(***************************************************************************)
rewrite_aof ==
    /\ LoopFree
    /\ rewriting' = "temp"
    /\ UNCHANGED <<rewritten, policy, mode, mem, fileVars, commands, due, acked, durable, histVars>>

RewriteTemp ==
    /\ mode = "up" /\ rewriting = "temp"
    /\ temp' = Encoded(mem)
    /\ rewriting' = "close"
    /\ UNCHANGED <<rewritten, policy, mode, mem, handle, buffer, stdio, exists, os, medium,
                   commands, due, acked, durable, histVars>>

\* The temp file cannot be opened or written: nothing else has changed yet.
RewriteTempFails ==
    /\ mode = "up" /\ rewriting = "temp"
    /\ MayFail
    /\ failures' = failures + 1
    /\ rewriting' = "no"
    /\ UNCHANGED <<rewritten, cuts, policy, mode, mem, fileVars, commands, due, acked, durable, reopens,
                   crashes, shutdowns>>

RewriteClose ==
    /\ mode = "up" /\ rewriting = "close"
    /\ close
    /\ rewriting' = "remove"
    /\ UNCHANGED <<rewritten, policy, mode, mem, handle, exists, temp, commands, due, acked, histVars>>

RewriteRemove ==
    /\ mode = "up" /\ rewriting = "remove"
    /\ exists' = FALSE
    /\ rewritten' = TRUE
    /\ os' = << >>
    /\ medium' = 0
    /\ rewriting' = "rename"
    /\ UNCHANGED <<policy, mode, mem, handle, buffer, stdio, temp, commands, due, acked, durable,
                   histVars>>

\* Bug: the temp file is opened without truncating what an earlier rewrite left.
MutReopenTwice(contents) ==
    /\ os' = contents \o contents
    /\ UNCHANGED <<handle, reopens, failures>>

\* The name leads to a file with these contents, which is opened if the old
\* one was.  open() may fail: file_ is null from then on.
Reopen(contents) ==
    /\ os' = contents
    /\ \/ UNCHANGED <<handle, reopens, failures>>
       \/ handle /\ MayFail /\ handle' = FALSE
          /\ reopens' = reopens + 1 /\ failures' = failures + 1

\* The new file takes the name; it has never been synced.
RewriteRename ==
    /\ mode = "up" /\ rewriting = "rename"
    /\ exists' = TRUE
    /\ Reopen(temp)
    /\ temp' = << >>
    /\ commands' = Len(mem)
    /\ rewriting' = "no"
    /\ UNCHANGED <<rewritten, cuts, policy, mode, mem, buffer, stdio, medium, due, acked, durable,
                   crashes, shutdowns>>

\* The new file is removed and the name opened again, on an empty file; when
\* there was no file to open, or it cannot be opened, the name stays away.
RewriteRenameFails ==
    /\ mode = "up" /\ rewriting = "rename"
    /\ MayFail
    /\ failures' = failures + 1
    /\ handle' \in {handle, FALSE}
    /\ exists' = handle'
    /\ temp' = << >>
    /\ rewriting' = "no"
    /\ UNCHANGED <<rewritten, cuts, policy, mode, mem, buffer, stdio, os, medium, commands, due, acked,
                   durable, reopens, crashes, shutdowns>>

(***************************************************************************)
(* Going down and coming back.                                             *)
(***************************************************************************)
\* Bug: close() syncs and closes without writing buffer_ first.
MutShutdownDropsBuffer ==
    /\ LoopFree
    /\ MayFail
    /\ shutdowns' = shutdowns + 1
    /\ os' = os \o stdio
    /\ stdio' = << >> /\ buffer' = << >>
    /\ medium' = Len(os')
    /\ durable' = mem
    /\ mode' = "down"
    /\ UNCHANGED <<rewritten, cuts, policy, mem, handle, exists, temp, rewriting, commands, due, acked,
                   reopens, failures, crashes>>

\* Persistence::shutdown and the close() of the file behind it.
shutdown ==
    /\ LoopFree
    /\ MayFail
    /\ shutdowns' = shutdowns + 1
    /\ close
    /\ mode' = "down"
    /\ UNCHANGED <<rewritten, cuts, policy, mem, handle, exists, temp, rewriting, commands, due, acked,
                   reopens, failures, crashes>>

Crash ==
    /\ mode = "up"
    /\ MayFail
    /\ crashes' = crashes + 1
    /\ mode' = "down"
    /\ buffer' = << >>
    /\ stdio' = << >>
    /\ temp' = << >>
    /\ rewriting' = "no"
    /\ UNCHANGED <<rewritten, cuts, policy, mem, handle, exists, commands, due, acked, durable, reopens,
                   failures, shutdowns>>

Kill ==
    /\ Crash
    /\ UNCHANGED <<os, medium>>

PowerFailure ==
    /\ Crash
    /\ \E k \in medium..Len(os) : os' = SubSeq(os, 1, k) /\ medium' = k

\* parse_request succeeds on the i-th pair of halves and on all before it.
Whole(i) ==
    \A j \in 1..i : os[2 * j - 1].part = 1 /\ os[2 * j] = [os[2 * j - 1] EXCEPT !.part = 2]

WholeCommands == CHOOSE i \in 0..(Len(os) \div 2) :
    Whole(i) /\ \A j \in 0..(Len(os) \div 2) : Whole(j) => j <= i

Replayed == [i \in 1..WholeCommands |-> os[2 * i].n]

\* Half a command with more bytes behind it, which parse_request rejects
\* unless the bulk length it holds swallows all that follows: then it is
\* incomplete, like the half command a crash leaves at the end.
Malformed == Len(os) > 2 * WholeCommands + 1

load ==
    /\ mode = "down"
    /\ handle' = TRUE
    /\ exists' = TRUE
    /\ commands' = 0
    /\ due' = TRUE
    /\ \/ /\ mode' = "up"
          /\ mem' = Replayed
       \/ /\ Malformed
          /\ mode' = "refused"
          /\ UNCHANGED mem
    /\ UNCHANGED <<rewritten, policy, buffer, stdio, os, medium, temp, rewriting, acked, durable,
                   histVars>>

Next ==
    \/ append \/ Second \/ cron
    \/ rewrite_aof \/ RewriteTemp \/ RewriteTempFails \/ RewriteClose \/ RewriteRemove
    \/ RewriteRename \/ RewriteRenameFails
    \/ shutdown \/ Kill \/ PowerFailure \/ load

Spec == Init /\ [][Next]_vars


\* Cron runs every 100 ms, seconds pass, and a rewrite runs to its end.
FairSpec ==
    /\ Spec
    /\ WF_vars(cron)
    /\ WF_vars(Second)
    /\ WF_vars(RewriteTemp)
    /\ WF_vars(RewriteClose)
    /\ WF_vars(RewriteRemove)
    /\ WF_vars(RewriteRename)

(***************************************************************************)
(* Properties.                                                             *)
(***************************************************************************)

\* s is how t begins.
IsPrefix(s, t) == Len(s) <= Len(t) /\ \A i \in DOMAIN s : s[i] = t[i]

\* The first boot after a kill or a power failure brings back a prefix of the
\* keyspace that went down, and at least what the last fsync covered, wherever
\* the crash fell and however much of the buffers had reached the kernel.  (A
\* later boot may find the torn tail of the first in the middle of the file; a
\* rewrite replaces the file by one that is not synced.)
RecoversSynced ==
    [][/\ mode = "down" /\ mode' = "up"
       /\ crashes + shutdowns = 1 /\ failures = 0 /\ ~rewritten
       => IsPrefix(durable, mem') /\ IsPrefix(mem', mem)]_vars

\* A boot after orderly shutdowns brings back everything that went down, what
\* was still in buffer_ included, rewrites or not.  A rewrite that cannot open
\* its new file again leaves the server without an AOF, and nothing says so to
\* a client; a boot then still brings back a prefix of what went down: the tail
\* is lost, and nothing that was written later is kept without it.
RecoversAll ==
    [][mode = "down" /\ mode' = "up" /\ crashes = 0 =>
          /\ failures = 0 => mem' = mem
          /\ failures = reopens => IsPrefix(mem', mem)]_vars

\* "The AOF is simply the stream of write commands": the file and what is on
\* its way to it are the encoding of the keyspace, no half missing or twice,
\* before, between and after rewrites (as long as no write has been cut off).
FileIsStream ==
    LoopFree /\ crashes = 0 /\ failures = 0 => os \o stdio \o buffer = Encoded(mem)

\* Short writes that leave a prefix of the buffer twice in the file, however
\* many, and renames that fail, do not make a boot apply an older write over a
\* newer one: a write replayed ahead of an earlier one is replayed again behind
\* it.  (A short write that ends inside a command ends the replay there; behind
\* an earlier short write it leaves the order broken.)
ReplayedInOrder ==
    crashes = 0 /\ (cuts = 0 \/ failures = 1) =>
        \A i, j \in DOMAIN mem :
            i < j /\ mem[i] > mem[j] => \E k \in DOMAIN mem : k > j /\ mem[k] = mem[i]

\* A torn tail "is expected after a crash, not corruption": a file that only
\* this server and its crashes have touched is never refused.
NeverRefused == failures = 0 => mode # "refused"

\* Every write is synced in the end under always and everysec, whatever
\* rewrites happen between, unless the server fails or crashes first.
EventuallySynced ==
    \A n \in 1..MaxWrites :
        (acked >= n /\ policy # "no") ~> (Len(durable) >= n \/ failures + crashes > 0)
=============================================================================
