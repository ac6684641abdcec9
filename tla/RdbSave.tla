------------------------------ MODULE RdbSave ------------------------------
(***************************************************************************)
(* Snapshots: SAVE, BGSAVE and the schedule in cron (persistence.cpp), the *)
(* temp-file protocol of rdb_save_file and the load at boot (rdb.cpp),     *)
(* with a process that can be killed and a machine that can lose power     *)
(* between any two system calls.                                           *)
(*                                                                         *)
(* The keyspace is the number of writes it reflects.  A file holds the two *)
(* halves of a serialized keyspace; it parses when both halves are there   *)
(* and of one keyspace, since the CRC rejects every other mixture.  Two    *)
(* threads write files: the event loop, for SAVE, and the saver, for       *)
(* BGSAVE.  Both use the same temp name, which only depends on the pid.    *)
(***************************************************************************)
EXTENDS Integers, FiniteSets

CONSTANTS
    SaveChanges,   \* config_.save_changes
    MaxWrites,     \* bound: writes in the keyspace
    MaxTroubles    \* bound: file operations that fail, kills, power failures
                   \* and SAVEs during a background save, all together

ASSUME RdbSaveAssumption ==
    /\ SaveChanges \in Nat \ {0}
    /\ MaxWrites \in Nat
    /\ MaxTroubles \in Nat

VARIABLES
    mode,      \* "up", "down" after a crash, "refused" when load() fails
    written,   \* the keyspace in memory
    dirty,     \* dirty_
    due,       \* save_seconds have passed since last_save_ms_
    saving,    \* saving_
    joinable,  \* saver_.joinable()
    failed,    \* background_failed_
    job,       \* where each thread is in rdb_save_file, and with what
    path,      \* the inode the snapshot's name points to
    temp,      \* the inode the temp name points to
    file,      \* contents of the inodes
    synced,    \* the inodes whose contents are on the medium
    saved,     \* history: the keyspace of the last save that succeeded
    overlaps,  \* history: SAVEs that began while a background save was running
    failures,  \* history: operations that have failed
    crashes    \* history: crashes so far

processVars == <<mode, written, dirty, due, saving, joinable, failed>>
diskVars == <<path, temp, file, synced>>
histVars == <<failures, crashes, overlaps>>
vars == <<processVars, job, diskVars, saved, histVars>>

Thread == {"loop", "saver"}

\* Two names and two open handles reach at most four inodes.
Inode == 1..4

NoInode == 0

Nothing == -1

Half == {Nothing} \cup Nat

Empty == [first |-> Nothing, second |-> Nothing]

Step == {"idle", "open", "write first", "write second", "fsync", "remove", "rename"}

Idle == [at |-> "idle", n |-> 0, inode |-> NoInode]

TypeOK ==
    /\ mode \in {"up", "down", "refused"}
    /\ written \in Nat
    /\ dirty \in Nat
    /\ {due, saving, joinable, failed} \subseteq BOOLEAN
    /\ job \in [Thread -> [at : Step, n : Nat, inode : Inode \cup {NoInode}]]
    /\ {path, temp} \subseteq Inode \cup {NoInode}
    /\ file \in [Inode -> [first : Half, second : Half]]
    /\ synced \in SUBSET Inode
    /\ saved \in Nat
    /\ overlaps \in Nat
    /\ failures \in Nat
    /\ crashes \in Nat

Init ==
    /\ mode = "up"
    /\ written = 0
    /\ dirty = 0
    /\ due = FALSE
    /\ saving = FALSE
    /\ joinable = FALSE
    /\ failed = FALSE
    /\ job = [t \in Thread |-> Idle]
    /\ path = NoInode
    /\ temp = NoInode
    /\ file = [i \in Inode |-> Empty]
    /\ synced = {}
    /\ saved = 0
    /\ overlaps = 0
    /\ failures = 0
    /\ crashes = 0

\* rdb_parse accepts the payload.
Parses(f) == f.first # Nothing /\ f.first = f.second

\* Bound: one more trouble is allowed.
MayFail == failures + crashes + overlaps < MaxTroubles

(***************************************************************************)
(* The event loop, between two commands.                                   *)
(***************************************************************************)
LoopFree == mode = "up" /\ job["loop"] = Idle

Starting(n) == [at |-> "open", n |-> n, inode |-> NoInode]

on_write ==
    /\ LoopFree
    /\ written < MaxWrites
    /\ written' = written + 1
    /\ dirty' = dirty + 1
    /\ UNCHANGED <<mode, due, saving, joinable, failed, job, diskVars, saved,
                   histVars>>

\* SAVE starts to write on the event loop, which serves nobody until it ends.
save ==
    /\ LoopFree
    /\ job' = [job EXCEPT !["loop"] = Starting(written)]
    /\ saving => MayFail
    /\ overlaps' = IF saving THEN overlaps + 1 ELSE overlaps
    /\ UNCHANGED <<processVars, diskVars, saved, failures, crashes>>

\* A saver that has finished but is not joined yet is joined here, and what
\* background_failed_ said of it is forgotten.
background_save ==
    /\ ~saving
    /\ job' = [job EXCEPT !["saver"] = Starting(written)]
    /\ saving' = TRUE
    /\ joinable' = TRUE
    /\ failed' = FALSE
    /\ dirty' = 0

BgSave ==
    /\ LoopFree
    /\ background_save
    /\ UNCHANGED <<mode, written, due, diskVars, saved, histVars>>

\* save_seconds pass.
Elapse ==
    /\ mode = "up"
    /\ ~due
    /\ due' = TRUE
    /\ UNCHANGED <<mode, written, dirty, saving, joinable, failed, job, diskVars,
                   saved, histVars>>

\* Reap a finished saver, then start a scheduled save when one is due.  A saver
\* that ends between the two looks at saving_ is not reaped.
cron ==
    /\ LoopFree
    /\ \E reap \in {FALSE, ~saving /\ joinable} :
        LET stillDue == due /\ ~(reap /\ ~failed)
        IN  /\ IF ~saving /\ dirty >= SaveChanges /\ stillDue
               THEN background_save
               ELSE /\ joinable' = (joinable /\ ~reap)
                    /\ UNCHANGED <<job, saving, failed, dirty>>
            /\ due' = stillDue
    /\ UNCHANGED <<mode, written, diskVars, saved, histVars>>

(***************************************************************************)
(* rdb_save_file, one system call at a time, in either thread.             *)
(***************************************************************************)
At(t, step) == mode = "up" /\ job[t].at = step

GoTo(t, step) == job' = [job EXCEPT ![t].at = step]

\* Bug: dirty_ is reset when the background save ends, not when it begins.
MutReturnResetsDirty(t, ok) ==
    /\ job' = [job EXCEPT ![t] = Idle]
    /\ saved' = IF ok THEN job[t].n ELSE saved
    /\ dirty' = IF ok THEN 0 ELSE dirty
    /\ IF t = "loop"
       THEN due' = (due /\ ~ok) /\ UNCHANGED <<saving, failed>>
       ELSE saving' = FALSE /\ failed' = (failed \/ ~ok) /\ UNCHANGED due
    /\ UNCHANGED <<mode, written, joinable, crashes, overlaps>>

\* Bug: the saver never clears saving_.
MutReturnLeavesSaving(t, ok) ==
    /\ job' = [job EXCEPT ![t] = Idle]
    /\ saved' = IF ok THEN job[t].n ELSE saved
    /\ IF t = "loop"
       THEN /\ dirty' = IF ok THEN 0 ELSE dirty
            /\ due' = (due /\ ~ok)
            /\ UNCHANGED <<saving, failed>>
       ELSE /\ failed' = (failed \/ ~ok)
            /\ UNCHANGED <<saving, dirty, due>>
    /\ UNCHANGED <<mode, written, joinable, crashes, overlaps>>

\* The thread returns from rdb_save_file, and its caller does its accounting.
Return(t, ok) ==
    /\ job' = [job EXCEPT ![t] = Idle]
    /\ saved' = IF ok THEN job[t].n ELSE saved
    /\ IF t = "loop"
       THEN /\ dirty' = IF ok THEN 0 ELSE dirty
            /\ due' = (due /\ ~ok)
            /\ UNCHANGED <<saving, failed>>
       ELSE /\ saving' = FALSE
            /\ failed' = (failed \/ ~ok)
            /\ UNCHANGED <<dirty, due>>
    /\ UNCHANGED <<mode, written, joinable, crashes, overlaps>>

InUse == {path, temp} \cup {job[t].inode : t \in Thread}

\* Open the temp file and truncate it: the inode the name already points to,
\* or a new one.
Open(t) ==
    /\ At(t, "open")
    /\ LET i == IF temp # NoInode THEN temp ELSE CHOOSE j \in Inode : j \notin InUse
       IN  /\ temp' = i
           /\ file' = [file EXCEPT ![i] = Empty]
           /\ synced' = synced \ {i}
           /\ job' = [job EXCEPT ![t].at = "write first", ![t].inode = i]
    /\ UNCHANGED <<processVars, path, saved, histVars>>

OpenFails(t) ==
    /\ At(t, "open")
    /\ MayFail
    /\ failures' = failures + 1
    /\ Return(t, FALSE)
    /\ UNCHANGED diskVars

WriteFirst(t) ==
    /\ At(t, "write first")
    /\ file' = [file EXCEPT ![job[t].inode].first = job[t].n]
    /\ synced' = synced \ {job[t].inode}
    /\ GoTo(t, "write second")
    /\ UNCHANGED <<processVars, path, temp, saved, histVars>>

WriteSecond(t) ==
    /\ At(t, "write second")
    /\ file' = [file EXCEPT ![job[t].inode].second = job[t].n]
    /\ synced' = synced \ {job[t].inode}
    /\ GoTo(t, "fsync")
    /\ UNCHANGED <<processVars, path, temp, saved, histVars>>

\* A short write: the temp file is removed and the error returned.
WriteFails(t) ==
    /\ At(t, "write first") \/ At(t, "write second")
    /\ MayFail
    /\ failures' = failures + 1
    /\ temp' = NoInode
    /\ Return(t, FALSE)
    /\ UNCHANGED <<path, file, synced>>

\* Bug: no fsync ahead of the rename.
MutFsyncSkipped(t) ==
    /\ At(t, "fsync")
    /\ UNCHANGED synced
    /\ GoTo(t, "remove")
    /\ UNCHANGED <<processVars, path, temp, file, saved, histVars>>

\* The temp file is reopened by name; when the name is gone nothing is synced
\* and the code goes on.
Fsync(t) ==
    /\ At(t, "fsync")
    /\ synced' = IF temp # NoInode THEN synced \cup {temp} ELSE synced
    /\ GoTo(t, "remove")
    /\ UNCHANGED <<processVars, path, temp, file, saved, histVars>>

Remove(t) ==
    /\ At(t, "remove")
    /\ path' = NoInode
    /\ GoTo(t, "rename")
    /\ UNCHANGED <<processVars, temp, file, synced, saved, histVars>>

Rename(t) ==
    /\ At(t, "rename")
    /\ temp # NoInode
    /\ path' = temp
    /\ temp' = NoInode
    /\ Return(t, TRUE)
    /\ UNCHANGED <<file, synced, failures>>

\* rename() fails: the other thread has taken the temp name away, or the
\* file system refuses.  The temp file is removed, the old snapshot is gone.
RenameFails(t) ==
    /\ At(t, "rename")
    /\ \/ temp = NoInode /\ UNCHANGED failures
       \/ temp # NoInode /\ MayFail /\ failures' = failures + 1
    /\ temp' = NoInode
    /\ Return(t, FALSE)
    /\ UNCHANGED <<path, file, synced>>

(***************************************************************************)
(* Crashes and boot.                                                       *)
(***************************************************************************)

\* The process dies; its temp file stays under a name no later pid uses, and
\* the snapshot is the only file that matters from here on.
Crash(snapshot) ==
    /\ mode = "up"
    /\ MayFail
    /\ crashes' = crashes + 1
    /\ mode' = "down"
    /\ job' = [t \in Thread |-> Idle]
    /\ temp' = NoInode
    /\ file' = [i \in Inode |-> IF i = path THEN snapshot ELSE Empty]
    /\ UNCHANGED <<written, dirty, due, saving, joinable, failed, path, saved, failures,
                   overlaps>>

Snapshot == IF path = NoInode THEN Empty ELSE file[path]

\* An orderly shutdown joins the saver and saves nothing: for the files it is
\* a kill between two commands.
Kill ==
    /\ Crash(Snapshot)
    /\ synced' = synced \cap {path}

\* Names survive in the order they were changed; of an inode that was never
\* synced any part may be missing.
PowerFailure ==
    /\ \E lost \in SUBSET {"first", "second"} :
        /\ path \in synced => lost = {}
        /\ Crash([h \in {"first", "second"} |->
                      IF h \in lost THEN Nothing ELSE Snapshot[h]])
    /\ synced' = Inode \cap {path}

\* rdb_load_file: a missing or an empty file is a fresh server.
Fresh == Snapshot = Empty

\* A file that does not parse is refused.
Boot ==
    /\ mode = "down"
    /\ IF Fresh
       THEN mode' = "up" /\ written' = 0
       ELSE IF Parses(file[path])
            THEN mode' = "up" /\ written' = file[path].first
            ELSE mode' = "refused" /\ UNCHANGED written
    /\ dirty' = 0
    /\ due' = FALSE
    /\ saving' = FALSE
    /\ joinable' = FALSE
    /\ failed' = FALSE
    /\ UNCHANGED <<job, diskVars, saved, histVars>>

Saving(t) ==
    \/ Open(t) \/ WriteFirst(t) \/ WriteSecond(t) \/ Fsync(t) \/ Remove(t)
    \/ Rename(t) \/ RenameFails(t)

Next ==
    \/ on_write \/ save \/ BgSave \/ Elapse \/ cron
    \/ \E t \in Thread : Saving(t) \/ OpenFails(t) \/ WriteFails(t)
    \/ Kill \/ PowerFailure \/ Boot

Spec == Init /\ [][Next]_vars

\* Cron runs every 100 ms, time passes, and both threads are scheduled.
FairSpec ==
    /\ Spec
    /\ WF_vars(cron)
    /\ WF_vars(Elapse)
    /\ \A t \in Thread : WF_vars(Saving(t))


(***************************************************************************)
(* Properties.                                                             *)
(***************************************************************************)

\* Whatever is killed or loses power, and wherever, the snapshot's name never
\* leads to a file that is empty, truncated or mixed, nor to any but the last
\* one that was renamed into place: a boot is never refused, and loads what the
\* last successful save saved.  (While no SAVE has run beside a BGSAVE: they
\* share the temp file, see RestartableWhenIdle.)
SnapshotIntact ==
    overlaps = 0 /\ path # NoInode =>
        Parses(file[path]) /\ file[path].first = saved

\* "Write atomically": the snapshot that is there once every save has ended
\* does not make the next boot fail, although SAVE and BGSAVE overlap.
RestartableWhenIdle ==
    mode = "up" /\ (\A t \in Thread : job[t] = Idle) => Fresh \/ Parses(file[path])

\* "A crash mid-save cannot destroy the previous good snapshot."
CrashKeepsSnapshot == mode = "down" /\ saved > 0 => path # NoInode

NoTrouble == failures + crashes + overlaps = 0

\* dirty_ counts the "writes since the last successful save", the ones made
\* while a background save was writing included, when no save is running and
\* none has failed (a failed BGSAVE has reset it already).
DirtyCountsUnsaved ==
    NoTrouble /\ ~saving /\ job["loop"] = Idle => dirty = written - saved

OnDisk(n) == path # NoInode /\ file[path].first >= n

\* The schedule: once save_changes writes are unsaved, the keyspace they made
\* reaches the disk although nobody sends SAVE or BGSAVE, unless a save fails
\* or the server goes down first.
ScheduledSave ==
    \A n \in 1..MaxWrites :
        (written = n /\ dirty >= SaveChanges) ~> (OnDisk(n) \/ ~NoTrouble)

\* A background save ends on every path, the ones on which an operation fails
\* or the other thread has taken its temp file away included, so that BGSAVE
\* and the schedule are not refused for ever.
SavingEnds == (mode = "up" /\ saving) ~> (mode # "up" \/ ~saving)
=============================================================================
