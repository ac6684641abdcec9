--------------------------- MODULE RdbSaveProofs ---------------------------
(***************************************************************************)
(* Proofs about RdbSave, for any schedule and any number of writes,        *)
(* failures, crashes and overlapping saves.                                *)
(*                                                                         *)
(* As long as no SAVE has run beside a BGSAVE one thread at a time is      *)
(* inside rdb_save_file, so the temp file is its own: Files follows it     *)
(* from one system call to the next, up to the rename that puts a complete *)
(* and synced file in place.  As long as nothing has failed either, dirty_ *)
(* counts from the keyspace that the running background save has taken or, *)
(* when none runs, from the last one saved (Counts).                       *)
(***************************************************************************)
EXTENDS RdbSave, TLAPS

USE RdbSaveAssumption

Job == [at : Step, n : Nat, inode : Inode \cup {NoInode}]

Contents == [first : Half, second : Half]

Flags == {due, saving, joinable, failed} \subseteq BOOLEAN

\* TypeOK but for the Boolean variables.
Values ==
    /\ mode \in {"up", "down", "refused"}
    /\ written \in Nat
    /\ dirty \in Nat
    /\ job \in [Thread -> Job]
    /\ path \in Inode \cup {NoInode}
    /\ temp \in Inode \cup {NoInode}
    /\ file \in [Inode -> Contents]
    /\ synced \in SUBSET Inode
    /\ saved \in Nat
    /\ overlaps \in Nat
    /\ failures \in Nat
    /\ crashes \in Nat

LEMMA TypeParts == TypeOK <=> Flags /\ Values
  <1>1. {path, temp} \subseteq Inode \cup {NoInode} <=>
            path \in Inode \cup {NoInode} /\ temp \in Inode \cup {NoInode}
    OBVIOUS
  <1> QED
    BY <1>1, Zenon DEF TypeOK, Flags, Values, Job, Contents

\* cron starts a background save or leaves the saver alone.
LEMMA CronCases ==
    ASSUME cron, Flags
    PROVE  /\ LoopFree
           /\ UNCHANGED <<mode, written, diskVars, saved, histVars>>
           /\ {due', joinable'} \subseteq BOOLEAN
           /\ background_save \/ UNCHANGED <<job, saving, failed, dirty>>
  <1>1. PICK reap \in {FALSE, ~saving /\ joinable} :
            LET stillDue == due /\ ~(reap /\ ~failed)
            IN  /\ IF ~saving /\ dirty >= SaveChanges /\ stillDue
                   THEN background_save
                   ELSE /\ joinable' = (joinable /\ ~reap)
                        /\ UNCHANGED <<job, saving, failed, dirty>>
                /\ due' = stillDue
    BY Zenon DEF cron
  <1>2. due' \in BOOLEAN
    BY <1>1, Zenon
  <1>3. joinable' \in BOOLEAN /\ (background_save \/ UNCHANGED <<job, saving, failed, dirty>>)
    BY <1>1, Zenon DEF background_save
  <1> QED
    BY <1>2, <1>3, Zenon DEF cron

LEMMA FlagsStep ==
    ASSUME Flags, Next
    PROVE  Flags'
  <1> USE DEF Flags
  <1>1. ASSUME on_write \/ save \/ BgSave \/ Elapse
        PROVE  Flags'
    BY <1>1, Zenon DEF on_write, save, BgSave, background_save, Elapse, processVars
  <1>2. ASSUME cron
        PROVE  Flags'
    BY <1>2, CronCases, Zenon DEF background_save
  <1>3. ASSUME NEW t \in Thread, NEW ok \in BOOLEAN, Return(t, ok)
        PROVE  Flags'
    BY <1>3, Zenon DEF Return
  <1>4. ASSUME NEW t \in Thread, Saving(t) \/ OpenFails(t) \/ WriteFails(t)
        PROVE  Flags'
    <2>1. ASSUME Open(t) \/ WriteFirst(t) \/ WriteSecond(t) \/ Fsync(t) \/ Remove(t)
          PROVE  Flags'
      BY <2>1, Zenon DEF Open, WriteFirst, WriteSecond, Fsync, Remove, processVars
    <2>2. ASSUME Rename(t) \/ RenameFails(t) \/ OpenFails(t) \/ WriteFails(t)
          PROVE  Flags'
      BY <1>3, <2>2, Zenon DEF Rename, RenameFails, OpenFails, WriteFails
    <2> QED
      BY <1>4, <2>1, <2>2, Zenon DEF Saving
  <1>5. ASSUME Kill \/ PowerFailure
        PROVE  Flags'
    BY <1>5, Zenon DEF Kill, PowerFailure, Crash
  <1>6. ASSUME Boot
        PROVE  Flags'
    BY <1>6, Zenon DEF Boot
  <1> QED
    BY <1>1, <1>2, <1>4, <1>5, <1>6, Zenon DEF Next

\* The thread t goes on with the job j, the other stays where it is.
Moves(t, j) ==
    /\ job' \in [Thread -> Job]
    /\ job'[t] = j
    /\ \A u \in Thread : u # t => job'[u] = job[u]

\* It goes on with its own job at a step, with an inode.
GoesOn(t, step, i) ==
    Moves(t, job'[t]) /\ job'[t].at = step /\ job'[t].n = job[t].n /\ job'[t].inode = i

LEMMA JobMoves ==
    ASSUME Values, NEW t \in Thread, NEW step \in Step, GoTo(t, step)
    PROVE  GoesOn(t, step, job[t].inode)
  <1>1. job[t] \in Job
    BY DEF Values
  <1>2. /\ job'[t].at = step /\ job'[t].n = job[t].n /\ job'[t].inode = job[t].inode
        /\ job'[t] \in Job /\ \A u \in Thread : u # t => job'[u] = job[u]
        /\ job' \in [Thread -> Job]
    BY <1>1 DEF Job, Values, GoTo
  <1> QED
    BY <1>2 DEF Moves, GoesOn

\* Open always finds an inode: four are never all in use.
LEMMA OpenFinds ==
    ASSUME Values, NEW t \in Thread, Open(t)
    PROVE  \E i \in Inode :
              /\ temp # NoInode => i = temp
              /\ temp = NoInode => i \notin InUse
              /\ temp' = i
              /\ file' = [file EXCEPT ![i] = Empty]
              /\ synced' = synced \ {i}
              /\ GoesOn(t, "write first", i)
              /\ UNCHANGED <<processVars, path, saved, histVars>>
  <1> DEFINE free == CHOOSE j \in Inode : j \notin InUse
             i == IF temp # NoInode THEN temp ELSE free
  <1>1. temp = NoInode => \E j \in Inode : j \notin InUse
    <2> SUFFICES ASSUME temp = NoInode
                 PROVE  \E j \in Inode : j \notin InUse
      OBVIOUS
    <2>1. InUse = {path, NoInode, job["loop"].inode, job["saver"].inode}
      BY DEF InUse, Thread
    <2>2. \A a, b, c : \E j \in {1, 2, 3, 4} : j # a /\ j # b /\ j # c
      OBVIOUS
    <2>3. PICK j \in {1, 2, 3, 4} : j # path /\ j # job["loop"].inode /\ j # job["saver"].inode
      BY <2>2
    <2> QED
      BY <2>1, <2>3 DEF Inode, NoInode
  <1>2. i \in Inode /\ (temp # NoInode => i = temp) /\ (temp = NoInode => i \notin InUse)
    BY <1>1 DEF Values
  <1>3. /\ temp' = i
        /\ file' = [file EXCEPT ![i] = Empty]
        /\ synced' = synced \ {i}
        /\ job' = [job EXCEPT ![t].at = "write first", ![t].inode = i]
        /\ UNCHANGED <<processVars, path, saved, histVars>>
    BY Zenon DEF Open
  <1> HIDE DEF i
  <1>4. GoesOn(t, "write first", i)
    <2>1. job[t] \in Job /\ "write first" \in Step
      BY DEF Values, Step
    <2>2. /\ job'[t].at = "write first" /\ job'[t].n = job[t].n /\ job'[t].inode = i
          /\ job'[t] \in Job /\ \A u \in Thread : u # t => job'[u] = job[u]
          /\ job' \in [Thread -> Job]
      BY <1>2, <1>3, <2>1, Zenon DEF Job, Values
    <2> QED
      BY <2>2, Zenon DEF Moves, GoesOn
  <1> QED
    BY <1>2, <1>3, <1>4, Zenon
\* A thread that takes up a job, or returns.
LEMMA JobSet ==
    ASSUME Values, NEW t \in Thread, NEW j \in Job, job' = [job EXCEPT ![t] = j]
    PROVE  Moves(t, j)
  BY DEF Moves, Values

LEMMA JobTypes ==
    /\ Idle \in Job
    /\ \A n \in Nat : Starting(n) \in Job
    /\ {"write first", "write second", "fsync", "remove", "rename"} \subseteq Step
    /\ Empty \in Contents
    /\ "loop" \in Thread /\ "saver" \in Thread
  BY DEF Idle, Starting, Job, Step, NoInode, Empty, Contents, Half, Thread

\* What the boot finds behind the name after a crash.
LEMMA CrashFile ==
    ASSUME Values, Kill \/ PowerFailure
    PROVE  \E s \in Contents :
              /\ Crash(s)
              /\ path # NoInode /\ path \in synced => s = file[path]
  <1>1. Snapshot \in Contents /\ (path # NoInode => Snapshot = file[path])
    BY JobTypes, Zenon DEF Values, Snapshot
  <1>2. CASE Kill
    BY <1>1, <1>2 DEF Kill
  <1>3. CASE PowerFailure
    <2>1. PICK lost \in SUBSET {"first", "second"} :
              /\ path \in synced => lost = {}
              /\ Crash([h \in {"first", "second"} |->
                            IF h \in lost THEN Nothing ELSE Snapshot[h]])
      BY <1>3 DEF PowerFailure
    <2> DEFINE s == [h \in {"first", "second"} |->
                            IF h \in lost THEN Nothing ELSE Snapshot[h]]
    <2>2. s \in Contents
      BY <1>1 DEF Contents, Half
    <2>3. lost = {} => s = Snapshot
      BY <1>1 DEF Contents
    <2> QED
      BY <1>1, <1>3, <2>1, <2>2, <2>3
  <1> QED
    BY <1>2, <1>3
\* rdb_save_file returns, whatever it has done to the files.
LEMMA ReturnValues ==
    ASSUME Values, NEW t \in Thread, NEW ok \in BOOLEAN, Return(t, ok)
    PROVE  /\ mode' = mode /\ written' = written /\ crashes' = crashes /\ overlaps' = overlaps
           /\ Moves(t, Idle)
           /\ dirty' \in Nat /\ saved' \in Nat
  <1>1. job[t] \in Job /\ job[t].n \in Nat
    BY DEF Values, Job
  <1>2. Moves(t, Idle)
    BY JobSet, JobTypes, Zenon DEF Return
  <1>3. saved' \in {saved, job[t].n} /\ dirty' \in {dirty, 0}
    BY Zenon DEF Return
  <1> QED
    BY <1>1, <1>2, <1>3 DEF Return, Values

LEMMA ValuesStep ==
    ASSUME Flags, Values, Next
    PROVE  Values'
  <1>1. CASE on_write \/ Elapse
    BY <1>1 DEF on_write, Elapse, Values, diskVars, histVars
  <1>2. CASE save
    <2>1. Moves("loop", Starting(written)) /\ overlaps' \in {overlaps, overlaps + 1}
      BY <1>2, JobSet, JobTypes, Zenon DEF save, Values
    <2> QED
      BY <1>2, <2>1 DEF save, Values, Moves, processVars, diskVars
  <1>3. ASSUME background_save
        PROVE  job' \in [Thread -> Job] /\ dirty' = 0
    <2>1. job' = [job EXCEPT !["saver"] = Starting(written)] /\ dirty' = 0
      BY <1>3, Zenon DEF background_save
    <2>2. "saver" \in Thread /\ Starting(written) \in Job
      BY JobTypes, Zenon DEF Values
    <2> QED
      BY <2>1, <2>2 DEF Values
  <1>4. CASE BgSave
    <2>1. UNCHANGED <<mode, written, diskVars, saved, histVars>> /\ background_save
      BY <1>4, Zenon DEF BgSave
    <2> QED
      BY <1>3, <2>1 DEF Values, diskVars, histVars
  <1>5. CASE cron
    <2>1. UNCHANGED <<mode, written, diskVars, saved, histVars>>
      BY <1>5, CronCases
    <2>2. background_save \/ UNCHANGED <<job, dirty>>
      BY <1>5, CronCases, Zenon
    <2>3. job' \in [Thread -> Job] /\ dirty' \in Nat
      BY <1>3, <2>2 DEF Values
    <2> QED
      BY <2>1, <2>3 DEF Values, diskVars, histVars
  <1>6. ASSUME NEW t \in Thread, Saving(t) \/ OpenFails(t) \/ WriteFails(t)
        PROVE  Values'
    <2>1. CASE Open(t)
      <3>1. PICK i \in Inode :
              /\ temp' = i /\ file' = [file EXCEPT ![i] = Empty] /\ synced' = synced \ {i}
              /\ GoesOn(t, "write first", i)
              /\ UNCHANGED <<processVars, path, saved, histVars>>
        BY <2>1, OpenFinds, Zenon
      <3>2. Empty \in Contents
        BY JobTypes, Zenon
      <3>3. job' \in [Thread -> Job]
        BY <3>1, Zenon DEF GoesOn, Moves
      <3>4. file' \in [Inode -> Contents] /\ synced' \in SUBSET Inode
        BY <3>1, <3>2, Zenon DEF Values
      <3> QED
        BY <3>1, <3>3, <3>4, Zenon DEF Values, processVars, histVars
    <2>2. CASE WriteFirst(t) \/ WriteSecond(t)
      <3>1. job' \in [Thread -> Job]
        BY <2>2, JobMoves, JobTypes, Zenon DEF WriteFirst, WriteSecond, GoesOn, Moves
      <3>2. job[t].n \in Half
        BY DEF Values, Job, Half
      <3>3. file' \in [Inode -> Contents]
        <4> DEFINE i == job[t].inode
        <4>1. \/ file' = [file EXCEPT ![i].first = job[t].n]
              \/ file' = [file EXCEPT ![i].second = job[t].n]
          BY <2>2, Zenon DEF WriteFirst, WriteSecond
        <4>2. file \in [Inode -> Contents]
          BY DEF Values
        <4> HIDE DEF i
        <4> QED
          BY <3>2, <4>1, <4>2 DEF Contents
      <3>4. /\ UNCHANGED <<processVars, path, temp, saved, histVars>>
            /\ synced' \subseteq synced
        BY <2>2, Zenon DEF WriteFirst, WriteSecond
      <3> QED
        BY <3>1, <3>3, <3>4 DEF Values, processVars, histVars
    <2>3. CASE Fsync(t) \/ Remove(t)
      <3>1. job' \in [Thread -> Job]
        BY <2>3, JobMoves, JobTypes, Zenon DEF Fsync, Remove, GoesOn, Moves
      <3>2. /\ UNCHANGED <<processVars, temp, file, saved, histVars>>
            /\ path' \in {path, NoInode} /\ synced' \subseteq Inode
        BY <2>3 DEF Fsync, Remove, Values
      <3> QED
        BY <3>1, <3>2 DEF Values, processVars, histVars
    <2>4. CASE Rename(t) \/ RenameFails(t) \/ OpenFails(t) \/ WriteFails(t)
      <3>1. PICK ok \in BOOLEAN : Return(t, ok)
        BY <2>4, Zenon DEF Rename, RenameFails, OpenFails, WriteFails
      <3>2. /\ mode' = mode /\ written' = written /\ crashes' = crashes /\ overlaps' = overlaps
            /\ job' \in [Thread -> Job] /\ dirty' \in Nat /\ saved' \in Nat
        BY <3>1, ReturnValues DEF Moves
      <3>3. /\ UNCHANGED <<file, synced>>
            /\ path' \in {path, temp} /\ temp' \in {temp, NoInode}
            /\ failures' \in {failures, failures + 1}
        BY <2>4, Zenon DEF Rename, RenameFails, OpenFails, WriteFails, diskVars
      <3>4. failures' \in Nat /\ path' \in Inode \cup {NoInode} /\ temp' \in Inode \cup {NoInode}
        BY <3>3 DEF Values
      <3> QED
        BY <3>2, <3>3, <3>4 DEF Values
    <2> QED
      BY <1>6, <2>1, <2>2, <2>3, <2>4 DEF Saving
  <1>7. CASE Kill \/ PowerFailure
    <2>1. PICK s \in Contents : Crash(s)
      BY <1>7, CrashFile
    <2>2. synced' \subseteq Inode
      BY <1>7 DEF Kill, PowerFailure, Values
    <2>3. /\ crashes' = crashes + 1 /\ mode' = "down" /\ job' = [t \in Thread |-> Idle]
          /\ temp' = NoInode /\ file' = [i \in Inode |-> IF i = path THEN s ELSE Empty]
          /\ UNCHANGED <<written, dirty, path, saved, failures, overlaps>>
      BY <2>1 DEF Crash
    <2>4. job' \in [Thread -> Job]
      BY <2>3, JobTypes, Zenon
    <2>5. Empty \in Contents
      BY JobTypes, Zenon
    <2>6. file' \in [Inode -> Contents] /\ crashes' \in Nat
      BY <2>3, <2>5 DEF Values
    <2> QED
      BY <2>2, <2>3, <2>4, <2>6 DEF Values
  <1>8. CASE Boot
    <2>1. UNCHANGED <<job, diskVars, saved, histVars>> /\ dirty' = 0
      BY <1>8 DEF Boot
    <2>2. mode' \in {"up", "refused"} /\ written' \in Nat
      <3>1. CASE Fresh
        <4>1. mode' = "up" /\ written' = 0
          BY <1>8, <3>1, Zenon DEF Boot
        <4> QED
          BY <4>1
      <3>2. CASE ~Fresh /\ Parses(file[path])
        <4>1. path \in Inode
          BY <3>2 DEF Fresh, Snapshot, Values
        <4>2. file[path].first \in Nat
          BY <3>2, <4>1 DEF Parses, Values, Contents, Half
        <4> QED
          BY <1>8, <3>2, <4>2 DEF Boot
      <3>3. CASE ~Fresh /\ ~Parses(file[path])
        BY <1>8, <3>3 DEF Boot, Values
      <3> QED
        BY <3>1, <3>2, <3>3
    <2> QED
      BY <2>1, <2>2 DEF Values, diskVars, histVars
  <1> QED
    BY <1>1, <1>2, <1>4, <1>5, <1>6, <1>7, <1>8 DEF Next

\* Every variable keeps its type, whatever fails, crashes or overlaps.
THEOREM TypeCorrect == Spec => []TypeOK
  <1>1. Init => Flags
    BY Zenon DEF Init, Flags
  <1>2. Init => Values
    <2> SUFFICES ASSUME Init
                 PROVE  Values
      OBVIOUS
    <2>1. job \in [Thread -> Job] /\ file \in [Inode -> Contents]
      BY JobTypes, Zenon DEF Init
    <2>2. /\ mode = "up" /\ written = 0 /\ dirty = 0 /\ path = NoInode /\ temp = NoInode
          /\ synced = {} /\ saved = 0 /\ overlaps = 0 /\ failures = 0 /\ crashes = 0
      BY Zenon DEF Init
    <2> QED
      BY <2>1, <2>2 DEF Values
  <1>3. ASSUME Flags, Values, [Next]_vars
        PROVE  Flags' /\ Values'
    <2>1. CASE UNCHANGED vars
      <3>1. Flags'
        BY <1>3, <2>1, Zenon DEF vars, processVars, Flags
      <3>2. Values'
        BY <1>3, <2>1 DEF vars, processVars, diskVars, histVars, Values
      <3> QED
        BY <3>1, <3>2
    <2> QED
      BY <1>3, <2>1, FlagsStep, ValuesStep
  <1>4. Flags /\ Values => TypeOK
    BY TypeParts
  <1> QED
    BY <1>1, <1>2, <1>3, <1>4, PTL DEF Spec
-----------------------------------------------------------------------------
(***************************************************************************)
(* The inductive invariant.                                                *)
(***************************************************************************)
Active(t) == job[t].at # "idle"

\* Only a running process saves, and saving_ says whether its saver does.
Busy ==
    /\ \A t \in Thread : ~Active(t) => job[t] = Idle
    /\ mode # "up" => \A t \in Thread : ~Active(t)
    /\ mode = "up" => (saving <=> Active("saver"))

\* The thread t has written as much of its temp file as its step says.
JobOK(t) ==
    /\ job[t].at \notin {"idle", "open"} => temp # NoInode /\ job[t].inode = temp
    /\ job[t].at \in {"write second", "fsync", "remove", "rename"} =>
           file[temp].first = job[t].n
    /\ job[t].at \in {"fsync", "remove", "rename"} => file[temp].second = job[t].n
    /\ job[t].at \in {"remove", "rename"} => temp \in synced
    /\ job[t].at = "rename" => path = NoInode

\* One thread saves at a time, the temp file is its own, and the snapshot is
\* complete, on the medium, and what the last successful save saved.
Files ==
    /\ ~(Active("loop") /\ Active("saver"))
    /\ \A t \in Thread : JobOK(t)
    /\ (\A t \in Thread : job[t].at \in {"idle", "open"}) => temp = NoInode
    /\ path # NoInode => Parses(file[path]) /\ file[path].first = saved /\ path \in synced
    /\ temp # NoInode => temp # path

\* dirty_ counts from the keyspace the saver has taken or, without one, from
\* the last one saved; SAVE blocks the loop, so that nothing is written under it.
Counts ==
    /\ mode = "up"
    /\ Active("saver") => dirty = written - job["saver"].n
    /\ ~Active("saver") => dirty = written - saved
    /\ Active("loop") => job["loop"].n = written

IInv ==
    /\ Flags
    /\ Values
    /\ Busy
    /\ overlaps = 0 => Files
    /\ NoTrouble => Counts

-----------------------------------------------------------------------------
(***************************************************************************)
(* Busy.                                                                   *)
(***************************************************************************)

\* A thread inside rdb_save_file goes on in it.
LEMMA BusyMoves ==
    ASSUME Busy, NEW t \in Thread, mode = "up", Active(t), NEW step, step # "idle", NEW i,
           GoesOn(t, step, i), UNCHANGED <<mode, saving>>
    PROVE  Busy'
  <1>1. \A u \in Thread : Active(u)' <=> Active(u)
    BY DEF GoesOn, Moves, Active
  <1>2. \A u \in Thread : ~Active(u)' => job'[u] = Idle
    BY <1>1 DEF GoesOn, Moves, Active, Busy
  <1>3. saving' <=> Active("saver")'
    BY <1>1, JobTypes, Zenon DEF Busy
  <1> QED
    BY <1>2, <1>3, Zenon DEF Busy

LEMMA BusyReturn ==
    ASSUME Values, Busy, NEW t \in Thread, mode = "up", NEW ok \in BOOLEAN, Return(t, ok)
    PROVE  Busy'
  <1>1. Moves(t, Idle) /\ mode' = mode
    BY ReturnValues
  <1>2. ~Active(t)' /\ job'[t] = Idle /\ \A u \in Thread : u # t => job'[u] = job[u]
    BY <1>1 DEF Moves, Active, Idle
  <1>3. \A u \in Thread : ~Active(u)' => job'[u] = Idle
    BY <1>2 DEF Active, Busy
  <1>4. saving' <=> Active("saver")'
    <2>1. CASE t = "loop"
      <3>1. Active("saver")' <=> Active("saver")
        BY <1>2, <2>1 DEF Active, Thread
      <3>2. saving' = saving
        BY <2>1, Zenon DEF Return
      <3> QED
        BY <3>1, <3>2, Zenon DEF Busy
    <2>2. CASE t = "saver"
      <3>1. t # "loop"
        BY <2>2
      <3>2. saving' = FALSE
        BY <3>1, Zenon DEF Return
      <3> QED
        BY <1>2, <2>2, <3>2, Zenon
    <2> QED
      BY <2>1, <2>2 DEF Thread
  <1> QED
    BY <1>1, <1>3, <1>4, Zenon DEF Busy

\* What the event loop starts.
LEMMA BusyStarts ==
    ASSUME Values, Busy, LoopFree, mode' = mode,
           \/ job' = [job EXCEPT !["loop"] = Starting(written)] /\ saving' = saving
           \/ background_save
    PROVE  Busy'
  <1>1. Starting(written) \in Job /\ Starting(written).at # "idle"
    BY JobTypes, Zenon DEF Values, Starting
  <1>2. CASE job' = [job EXCEPT !["loop"] = Starting(written)] /\ saving' = saving
    <2>1. Moves("loop", Starting(written))
      BY <1>1, <1>2, JobSet, JobTypes, Zenon
    <2>2. \A u \in Thread : ~Active(u)' => job'[u] = Idle
      BY <1>1, <2>1 DEF Moves, Active, Busy
    <2>3. Active("saver")' <=> Active("saver")
      BY <2>1 DEF Moves, Active, Thread
    <2>4. mode = "up"
      BY DEF LoopFree
    <2>5. saving' <=> Active("saver")'
      BY <1>2, <2>3, <2>4, Zenon DEF Busy
    <2> QED
      BY <2>2, <2>4, <2>5, Zenon DEF Busy
  <1>3. CASE background_save
    <2>1. job' = [job EXCEPT !["saver"] = Starting(written)] /\ saving' = TRUE
      BY <1>3, Zenon DEF background_save
    <2>2. Moves("saver", Starting(written))
      BY <1>1, <2>1, JobSet, JobTypes, Zenon
    <2>3. \A u \in Thread : ~Active(u)' => job'[u] = Idle
      BY <1>1, <2>2 DEF Moves, Active, Busy
    <2>4. Active("saver")' /\ mode = "up"
      BY <1>1, <2>2 DEF Moves, Active, LoopFree
    <2> QED
      BY <2>1, <2>3, <2>4, Zenon DEF Busy
  <1> QED
    BY <1>2, <1>3

LEMMA BusyStep ==
    ASSUME Flags, Values, Busy, Next
    PROVE  Busy'
  <1>1. ASSUME UNCHANGED <<mode, job, saving>>
        PROVE  Busy'
    BY <1>1, Zenon DEF Busy, Active
  <1>2. CASE on_write \/ Elapse
    BY <1>1, <1>2, Zenon DEF on_write, Elapse
  <1>3. CASE save
    BY <1>3, BusyStarts, Zenon DEF save, processVars
  <1>4. CASE BgSave
    BY <1>4, BusyStarts, Zenon DEF BgSave
  <1>5. CASE cron
    <2>1. LoopFree /\ mode' = mode /\ (background_save \/ UNCHANGED <<job, saving>>)
      BY <1>5, CronCases, Zenon
    <2> QED
      BY <1>1, <2>1, BusyStarts, Zenon
  <1>6. ASSUME NEW t \in Thread, Saving(t) \/ OpenFails(t) \/ WriteFails(t)
        PROVE  Busy'
    <2>1. CASE Open(t) \/ WriteFirst(t) \/ WriteSecond(t) \/ Fsync(t) \/ Remove(t)
      <3>1. mode = "up" /\ Active(t)
        BY <2>1, Zenon DEF Open, WriteFirst, WriteSecond, Fsync, Remove, At, Active
      <3>2. UNCHANGED <<mode, saving>>
        BY <2>1, Zenon DEF Open, WriteFirst, WriteSecond, Fsync, Remove, processVars
      <3>3. ASSUME NEW step \in Step, step # "idle", GoTo(t, step)
            PROVE  Busy'
        BY <3>1, <3>2, <3>3, JobMoves, BusyMoves
      <3>4. ASSUME Open(t)
            PROVE  Busy'
        <4>1. PICK i \in Inode : GoesOn(t, "write first", i)
          BY <3>4, OpenFinds, Zenon
        <4> QED
          BY <3>1, <3>2, <4>1, BusyMoves, Zenon
      <3> QED
        BY <2>1, <3>3, <3>4, JobTypes, Zenon DEF WriteFirst, WriteSecond, Fsync, Remove
    <2>2. CASE Rename(t) \/ RenameFails(t) \/ OpenFails(t) \/ WriteFails(t)
      <3>1. PICK ok \in BOOLEAN : Return(t, ok)
        BY <2>2, Zenon DEF Rename, RenameFails, OpenFails, WriteFails
      <3>2. mode = "up"
        BY <2>2, Zenon DEF Rename, RenameFails, OpenFails, WriteFails, At
      <3> QED
        BY <3>1, <3>2, BusyReturn
    <2> QED
      BY <1>6, <2>1, <2>2 DEF Saving
  <1>7. CASE Kill \/ PowerFailure
    <2>1. PICK s \in Contents : Crash(s)
      BY <1>7, CrashFile
    <2>2. mode' = "down" /\ \A t \in Thread : job'[t] = Idle /\ ~Active(t)'
      BY <2>1 DEF Crash, Active, Idle
    <2> QED
      BY <2>2, Zenon DEF Busy
  <1>8. CASE Boot
    <2>1. mode = "down" /\ job' = job /\ saving' = FALSE
      BY <1>8, Zenon DEF Boot
    <2>2. \A t \in Thread : job'[t] = Idle /\ ~Active(t)'
      BY <2>1 DEF Busy, Active
    <2> QED
      BY <2>1, <2>2, JobTypes, Zenon DEF Busy
  <1> QED
    BY <1>2, <1>3, <1>4, <1>5, <1>6, <1>7, <1>8 DEF Next
-----------------------------------------------------------------------------
(***************************************************************************)
(* Files.                                                                  *)
(***************************************************************************)

\* The other thread does not save.
LEMMA Alone ==
    ASSUME Files, NEW t \in Thread, Active(t), NEW u \in Thread, u # t
    PROVE  job[u].at = "idle"
  BY DEF Files, Active, Thread

\* Files after a step of t, when only t is active.
LEMMA FilesOf ==
    ASSUME NEW t \in Thread, \A u \in Thread : u # t => job'[u].at = "idle",
           JobOK(t)',
           job'[t].at \in {"idle", "open"} => temp' = NoInode,
           path' # NoInode =>
               Parses(file'[path']) /\ file'[path'].first = saved' /\ path' \in synced',
           temp' # NoInode => temp' # path'
    PROVE  Files'
  <1>1. \A u \in Thread : JobOK(u)'
    BY Zenon DEF JobOK
  <1>2. ~(Active("loop")' /\ Active("saver")')
    BY DEF Active, Thread
  <1> QED
    BY <1>1, <1>2 DEF Files

\* The event loop starts a save while no other is running.
LEMMA FilesStart ==
    ASSUME Files, NEW t \in Thread, NEW n, \A u \in Thread : ~Active(u),
           Moves(t, Starting(n)), UNCHANGED <<diskVars, saved>>
    PROVE  Files'
  <1>1. job'[t].at = "open" /\ \A u \in Thread : u # t => job'[u].at = "idle"
    BY DEF Moves, Starting, Active
  <1>2. temp = NoInode
    BY DEF Files, Active
  <1>3. JobOK(t)'
    BY <1>1 DEF JobOK
  <1> QED
    BY <1>1, <1>2, <1>3, FilesOf DEF Files, diskVars

\* The temp file is opened and truncated.
LEMMA FilesOpen ==
    ASSUME Values, Files, NEW t \in Thread, Open(t)
    PROVE  Files'
  <1>1. PICK i \in Inode :
            /\ temp # NoInode => i = temp
            /\ temp = NoInode => i \notin InUse
            /\ temp' = i
            /\ file' = [file EXCEPT ![i] = Empty]
            /\ synced' = synced \ {i}
            /\ GoesOn(t, "write first", i)
            /\ UNCHANGED <<processVars, path, saved, histVars>>
    BY OpenFinds, Zenon
  <1>2. job[t].at = "open" /\ Active(t)
    BY Zenon DEF Open, At, Active
  <1>3. \A u \in Thread : u # t => job[u].at = "idle" /\ job'[u].at = "idle"
    BY <1>1, <1>2, Alone, Zenon DEF GoesOn, Moves
  <1>4. temp = NoInode
    BY <1>2, <1>3 DEF Files
  <1>5. i # path /\ i # NoInode
    BY <1>1, <1>4, Zenon DEF InUse, Inode, NoInode
  <1>6. job'[t].at = "write first" /\ job'[t].inode = i
    BY <1>1, Zenon DEF GoesOn
  <1>7. JobOK(t)'
    BY <1>1, <1>5, <1>6, Zenon DEF JobOK
  <1>8. path' # NoInode =>
            Parses(file'[path']) /\ file'[path'].first = saved' /\ path' \in synced'
    BY <1>1, <1>5, Zenon DEF Files, Values
  <1> QED
    BY <1>1, <1>3, <1>5, <1>6, <1>7, <1>8, FilesOf, Zenon

\* A half is written to it.
LEMMA FilesWrite ==
    ASSUME Values, Files, NEW t \in Thread, WriteFirst(t) \/ WriteSecond(t)
    PROVE  Files'
  <1>1. /\ job[t].at \in {"write first", "write second"} /\ Active(t)
        /\ UNCHANGED <<path, temp, saved>> /\ synced' = synced \ {job[t].inode}
    BY Zenon DEF WriteFirst, WriteSecond, At, Active
  <1>2. temp # NoInode /\ job[t].inode = temp /\ temp # path /\ temp \in Inode
    BY <1>1, Zenon DEF Files, JobOK, Values
  <1>3. \A u \in Thread : u # t => job[u].at = "idle"
    BY <1>1, Alone, Zenon
  <1>4. \A i \in Inode : i # temp => file'[i] = file[i]
    BY <1>2, Zenon DEF WriteFirst, WriteSecond, Values
  <1>5. file[temp] \in Contents
    BY <1>2 DEF Values
  <1>6. path' # NoInode =>
            Parses(file'[path']) /\ file'[path'].first = saved' /\ path' \in synced'
    BY <1>1, <1>2, <1>4, Zenon DEF Files, Values
  <1>7. CASE WriteFirst(t)
    <2>1. GoesOn(t, "write second", job[t].inode)
      BY <1>7, JobMoves, JobTypes, Zenon DEF WriteFirst
    <2>2. /\ job'[t].at = "write second" /\ job'[t].n = job[t].n /\ job'[t].inode = temp
          /\ \A u \in Thread : u # t => job'[u].at = "idle"
      BY <1>2, <1>3, <2>1, Zenon DEF GoesOn, Moves
    <2>3. file'[temp].first = job[t].n
      BY <1>2, <1>5, <1>7, Zenon DEF WriteFirst, Values, Contents
    <2>4. JobOK(t)'
      BY <1>1, <1>2, <2>2, <2>3, Zenon DEF JobOK
    <2> QED
      BY <1>1, <1>2, <1>6, <2>2, <2>4, FilesOf, Zenon
  <1>8. CASE WriteSecond(t)
    <2>1. GoesOn(t, "fsync", job[t].inode)
      BY <1>8, JobMoves, JobTypes, Zenon DEF WriteSecond
    <2>2. /\ job'[t].at = "fsync" /\ job'[t].n = job[t].n /\ job'[t].inode = temp
          /\ \A u \in Thread : u # t => job'[u].at = "idle"
      BY <1>2, <1>3, <2>1, Zenon DEF GoesOn, Moves
    <2>3. file[temp].first = job[t].n
      BY <1>8, Zenon DEF WriteSecond, At, Files, JobOK
    <2>4. file'[temp].first = job[t].n /\ file'[temp].second = job[t].n
      BY <1>2, <1>5, <1>8, <2>3, Zenon DEF WriteSecond, Values, Contents
    <2>5. JobOK(t)'
      BY <1>1, <1>2, <2>2, <2>4, Zenon DEF JobOK
    <2> QED
      BY <1>1, <1>2, <1>6, <2>2, <2>5, FilesOf, Zenon
  <1> QED
    BY <1>7, <1>8

\* It is synced, and the old snapshot removed.
LEMMA FilesSync ==
    ASSUME Values, Files, NEW t \in Thread, Fsync(t) \/ Remove(t)
    PROVE  Files'
  <1>1. job[t].at \in {"fsync", "remove"} /\ Active(t) /\ UNCHANGED <<temp, file, saved>>
    BY DEF Fsync, Remove, At, Active
  <1>2. /\ temp # NoInode /\ job[t].inode = temp /\ temp # path
        /\ file[temp].first = job[t].n /\ file[temp].second = job[t].n
    BY <1>1, Zenon DEF Files, JobOK
  <1>3. \A u \in Thread : u # t => job[u].at = "idle"
    BY <1>1, Alone
  <1>4. CASE Fsync(t)
    <2>1. GoesOn(t, "remove", job[t].inode)
      BY <1>4, JobMoves, JobTypes, Zenon DEF Fsync
    <2>2. /\ job'[t].at = "remove" /\ job'[t].n = job[t].n /\ job'[t].inode = temp
          /\ \A u \in Thread : u # t => job'[u].at = "idle"
      BY <1>2, <1>3, <2>1, Zenon DEF GoesOn, Moves
    <2>3. synced' = synced \cup {temp} /\ path' = path
      BY <1>2, <1>4 DEF Fsync
    <2>4. JobOK(t)'
      BY <1>1, <1>2, <2>2, <2>3 DEF JobOK
    <2> QED
      BY <1>1, <1>2, <2>2, <2>3, <2>4, FilesOf DEF Files
  <1>5. CASE Remove(t)
    <2>1. GoesOn(t, "rename", job[t].inode)
      BY <1>5, JobMoves, JobTypes, Zenon DEF Remove
    <2>2. /\ job'[t].at = "rename" /\ job'[t].n = job[t].n /\ job'[t].inode = temp
          /\ \A u \in Thread : u # t => job'[u].at = "idle"
      BY <1>2, <1>3, <2>1, Zenon DEF GoesOn, Moves
    <2>3. synced' = synced /\ path' = NoInode /\ temp \in synced
      BY <1>5, Zenon DEF Remove, At, Files, JobOK
    <2>4. JobOK(t)'
      BY <1>1, <1>2, <2>2, <2>3 DEF JobOK
    <2> QED
      BY <1>1, <1>2, <2>2, <2>3, <2>4, FilesOf
  <1> QED
    BY <1>4, <1>5

\* rdb_save_file ends, by the rename or by an error.
LEMMA FilesEnd ==
    ASSUME Values, Files, NEW t \in Thread,
           Rename(t) \/ RenameFails(t) \/ OpenFails(t) \/ WriteFails(t)
    PROVE  Files'
  <1>1. Active(t)
    BY Zenon DEF Rename, RenameFails, OpenFails, WriteFails, At, Active
  <1>2. PICK ok \in BOOLEAN : Return(t, ok) /\ (ok => Rename(t))
    BY Zenon DEF Rename, RenameFails, OpenFails, WriteFails
  <1>3. Moves(t, Idle)
    BY <1>2, ReturnValues
  <1>4. job'[t].at = "idle" /\ \A u \in Thread : u # t => job[u].at = "idle" /\ job'[u].at = "idle"
    BY <1>1, <1>3, Alone DEF Moves, Idle
  <1>5. JobOK(t)'
    BY <1>4 DEF JobOK
  <1>6. CASE Rename(t)
    <2>1. /\ job[t].at = "rename" /\ temp # NoInode /\ path' = temp /\ temp' = NoInode
          /\ UNCHANGED <<file, synced>> /\ saved' = job[t].n
      BY <1>6 DEF Rename, At, Return
    <2>2. /\ file[temp].first = job[t].n /\ file[temp].second = job[t].n /\ temp \in synced
      BY <2>1, Zenon DEF Files, JobOK
    <2>3. job[t].n # Nothing
      BY DEF Values, Job, Nothing
    <2>4. Parses(file'[path']) /\ file'[path'].first = saved' /\ path' \in synced'
      BY <2>1, <2>2, <2>3 DEF Parses
    <2> QED
      BY <1>4, <1>5, <2>1, <2>4, FilesOf
  <1>7. CASE ~Rename(t)
    <2>1. /\ UNCHANGED <<path, file, synced>> /\ temp' \in {temp, NoInode}
          /\ job[t].at # "open" => temp' = NoInode
      BY <1>7, Zenon DEF RenameFails, OpenFails, WriteFails, At, diskVars
    <2>2. saved' = saved
      BY <1>2, <1>7, Zenon DEF Return
    <2>3. temp' = NoInode
      BY <1>4, <2>1 DEF Files
    <2> QED
      BY <1>4, <1>5, <2>1, <2>2, <2>3, FilesOf DEF Files
  <1> QED
    BY <1>6, <1>7

\* A kill or a power failure leaves the snapshot as it is.
LEMMA FilesCrash ==
    ASSUME Values, Files, Kill \/ PowerFailure
    PROVE  Files'
  <1>1. PICK s \in Contents :
            Crash(s) /\ (path # NoInode /\ path \in synced => s = file[path])
    BY CrashFile
  <1>2. /\ \A t \in Thread : job'[t].at = "idle"
        /\ temp' = NoInode /\ path' = path /\ saved' = saved
        /\ \A i \in Inode : i = path => file'[i] = s
    BY <1>1 DEF Crash, Idle
  <1>3. path # NoInode => path \in Inode /\ path \in synced
    BY DEF Values, Files
  <1>4. path # NoInode => path \in synced'
    BY <1>3 DEF Kill, PowerFailure
  <1>5. path # NoInode => file'[path] = file[path]
    BY <1>1, <1>2, <1>3
  <1>6. "loop" \in Thread /\ JobOK("loop")'
    BY <1>2, Zenon DEF JobOK, Thread
  <1> QED
    BY <1>2, <1>4, <1>5, <1>6, FilesOf DEF Files

\* Nobody saves while SAVE or BGSAVE starts, unless they overlap.
LEMMA NobodySaves ==
    ASSUME Busy, LoopFree, ~saving
    PROVE  \A u \in Thread : ~Active(u)
  <1>1. ~Active("saver")
    BY Zenon DEF Busy, LoopFree
  <1>2. ~Active("loop")
    BY DEF LoopFree, Active, Idle
  <1> QED
    BY <1>1, <1>2 DEF Thread

LEMMA FilesStep ==
    ASSUME Flags, Values, Busy, Files, Next, overlaps = 0, overlaps' = 0
    PROVE  Files'
  <1>1. ASSUME UNCHANGED <<job, diskVars, saved>>
        PROVE  Files'
    BY <1>1, Zenon DEF Files, Active, JobOK, diskVars
  <1>2. CASE on_write \/ Elapse \/ Boot
    <2>1. UNCHANGED <<job, diskVars, saved>>
      BY <1>2, Zenon DEF on_write, Elapse, Boot
    <2> QED
      BY <1>1, <2>1
  <1>3. CASE save
    <2>1. ~saving
      <3>1. saving => overlaps' = overlaps + 1
        BY <1>3, Zenon DEF save
      <3>2. overlaps' # overlaps + 1
        OBVIOUS
      <3> QED
        BY <3>1, <3>2, Zenon
    <2>2. LoopFree /\ UNCHANGED <<diskVars, saved>>
      BY <1>3, Zenon DEF save
    <2>3. Moves("loop", Starting(written))
      BY <1>3, JobSet, JobTypes, Zenon DEF save, Values
    <2> QED
      BY <2>1, <2>2, <2>3, NobodySaves, FilesStart, JobTypes, Zenon
  <1>4. ASSUME LoopFree, background_save, UNCHANGED <<diskVars, saved>>
        PROVE  Files'
    <2>1. ~saving /\ job' = [job EXCEPT !["saver"] = Starting(written)]
      BY <1>4, Zenon DEF background_save
    <2>2. Moves("saver", Starting(written))
      BY <2>1, JobSet, JobTypes, Zenon DEF Values
    <2> QED
      BY <1>4, <2>1, <2>2, NobodySaves, FilesStart, JobTypes, Zenon
  <1>5. CASE BgSave
    BY <1>4, <1>5, Zenon DEF BgSave
  <1>6. CASE cron
    <2>1. /\ LoopFree /\ UNCHANGED <<diskVars, saved>>
          /\ background_save \/ UNCHANGED job
      BY <1>6, CronCases, Zenon
    <2> QED
      BY <1>1, <1>4, <2>1
  <1> QED
    BY <1>2, <1>3, <1>5, <1>6, FilesOpen, FilesWrite, FilesSync, FilesEnd, FilesCrash
       DEF Next, Saving
-----------------------------------------------------------------------------
(***************************************************************************)
(* Counts, and the theorems.                                               *)
(***************************************************************************)
LEMMA CountsStep ==
    ASSUME Flags, Values, Busy, Files, Counts, NoTrouble, Next, NoTrouble'
    PROVE  Counts'
  <1>1. /\ failures = 0 /\ crashes = 0 /\ overlaps = 0
        /\ mode = "up" /\ written \in Nat /\ dirty \in Nat /\ saved \in Nat
    BY DEF NoTrouble, Values, Counts
  <1>2. failures' = 0 /\ crashes' = 0 /\ overlaps' = 0
    BY ValuesStep DEF NoTrouble, Values
  <1>3. ASSUME UNCHANGED <<mode, written, dirty, saved, job>>
        PROVE  Counts'
    BY <1>3 DEF Counts, Active
  <1>4. CASE on_write
    <2>1. UNCHANGED <<mode, saved, job>> /\ written' = written + 1 /\ dirty' = dirty + 1
      BY <1>4 DEF on_write
    <2>2. ~Active("loop")
      BY <1>4 DEF on_write, LoopFree, Active, Idle
    <2>3. job["saver"].n \in Nat
      BY JobTypes, Zenon DEF Values, Job
    <2> QED
      BY <1>1, <2>1, <2>2, <2>3 DEF Counts, Active
  <1>5. CASE save
    <2>1. UNCHANGED <<mode, written, dirty, saved>>
      BY <1>5 DEF save, processVars
    <2>2. Moves("loop", Starting(written))
      BY <1>5, JobSet, JobTypes, Zenon DEF save, Values
    <2>3. job'["saver"] = job["saver"] /\ job'["loop"] = Starting(written)
      BY <2>2, JobTypes, Zenon DEF Moves
    <2>4. job'["loop"].n = written
      BY <2>3 DEF Starting
    <2> QED
      BY <1>1, <2>1, <2>3, <2>4 DEF Counts, Active
  <1>6. ASSUME LoopFree, background_save, UNCHANGED <<mode, written, saved>>
        PROVE  Counts'
    <2>1. dirty' = 0 /\ job' = [job EXCEPT !["saver"] = Starting(written)]
      BY <1>6, Zenon DEF background_save
    <2>2. Moves("saver", Starting(written))
      BY <2>1, JobSet, JobTypes, Zenon DEF Values
    <2>3. job'["loop"] = job["loop"] /\ job'["saver"] = Starting(written)
      BY <2>2, JobTypes, Zenon DEF Moves
    <2>4. job'["saver"].n = written /\ job'["saver"].at = "open"
      BY <2>3 DEF Starting
    <2>5. ~Active("loop")
      BY <1>6 DEF LoopFree, Active, Idle
    <2> QED
      BY <1>1, <1>6, <2>1, <2>3, <2>4, <2>5 DEF Counts, Active
  <1>7. CASE BgSave
    BY <1>6, <1>7, Zenon DEF BgSave
  <1>8. CASE cron
    <2>1. /\ LoopFree /\ UNCHANGED <<mode, written, saved>>
          /\ background_save \/ UNCHANGED <<job, dirty>>
      BY <1>8, CronCases, Zenon
    <2> QED
      BY <1>3, <1>6, <2>1
  <1>9. ASSUME NEW t \in Thread, Active(t), NEW step, step # "idle", NEW i,
               GoesOn(t, step, i), UNCHANGED <<mode, written, dirty, saved>>
        PROVE  Counts'
    <2>1. \A u \in Thread : (Active(u)' <=> Active(u)) /\ job'[u].n = job[u].n
      BY <1>9 DEF GoesOn, Moves, Active
    <2> QED
      BY <1>9, <2>1, JobTypes, Zenon DEF Counts
  <1>10. ASSUME NEW t \in Thread,
                Open(t) \/ WriteFirst(t) \/ WriteSecond(t) \/ Fsync(t) \/ Remove(t)
         PROVE  Counts'
    <2>1. /\ UNCHANGED <<mode, written, dirty, saved>> /\ Active(t)
      BY <1>10, Zenon DEF Open, WriteFirst, WriteSecond, Fsync, Remove, processVars, At, Active
    <2>2. ASSUME NEW step \in Step, step # "idle", GoTo(t, step)
          PROVE  Counts'
      BY <1>9, <2>1, <2>2, JobMoves
    <2>3. ASSUME Open(t)
          PROVE  Counts'
      <3>1. PICK i \in Inode : GoesOn(t, "write first", i)
        BY <2>3, OpenFinds, Zenon
      <3> QED
        BY <1>9, <2>1, <3>1, Zenon
    <2> QED
      BY <1>10, <2>2, <2>3, JobTypes, Zenon DEF WriteFirst, WriteSecond, Fsync, Remove
  <1>11. ASSUME NEW t \in Thread, Rename(t)
         PROVE  Counts'
    <2>1. Return(t, TRUE) /\ Active(t)
      BY <1>11, Zenon DEF Rename, At, Active
    <2>2. /\ mode' = mode /\ written' = written /\ saved' = job[t].n
          /\ t = "loop" => dirty' = 0
          /\ t = "saver" => dirty' = dirty
      BY <2>1 DEF Return
    <2>3. \A u \in Thread : job'[u].at = "idle"
      <3>1. Moves(t, Idle)
        BY <2>1, ReturnValues, Zenon
      <3> QED
        BY <2>1, <3>1, Alone DEF Moves, Idle
    <2>4. job[t].n \in Nat
      BY DEF Values, Job
    <2>5. CASE t = "loop"
      <3>1. saved' = written /\ dirty' = 0
        BY <2>1, <2>2, <2>5 DEF Counts
      <3>2. \A k \in Nat : 0 = k - k
        OBVIOUS
      <3>3. dirty' = written' - saved'
        BY <1>1, <2>2, <3>1, <3>2
      <3> QED
        BY <1>1, <2>2, <2>3, <3>3, JobTypes, Zenon DEF Counts, Active
    <2>6. CASE t = "saver"
      <3>1. dirty' = written - job["saver"].n
        BY <2>1, <2>2, <2>6 DEF Counts
      <3> QED
        BY <1>1, <2>2, <2>3, <2>6, <3>1, JobTypes, Zenon DEF Counts, Active
    <2> QED
      BY <2>5, <2>6 DEF Thread
  <1>12. ASSUME NEW t \in Thread, RenameFails(t) \/ OpenFails(t) \/ WriteFails(t)
         PROVE  FALSE
    <2>1. failures' = failures
      BY <1>1, <1>2
    <2>2. RenameFails(t) => temp # NoInode
      BY Zenon DEF RenameFails, At, Files, JobOK
    <2>3. failures' = failures + 1
      BY <1>12, <2>2, Zenon DEF RenameFails, OpenFails, WriteFails
    <2> QED
      BY <1>1, <2>1, <2>3
  <1>13. ~(Kill \/ PowerFailure)
    <2>1. ASSUME NEW s \in Contents
          PROVE  ~Crash(s)
      BY <1>1, <1>2 DEF Crash
    <2> QED
      BY <2>1, CrashFile
  <1>14. ~Boot
    BY <1>1 DEF Boot
  <1>15. CASE Elapse
    BY <1>3, <1>15 DEF Elapse
  <1> QED
    BY <1>4, <1>5, <1>7, <1>8, <1>10, <1>11, <1>12, <1>13, <1>14, <1>15 DEF Next, Saving

\* Troubles are never forgotten.
LEMMA TroublesStay ==
    ASSUME Flags, Values, Next
    PROVE  /\ overlaps' = 0 => overlaps = 0
           /\ NoTrouble' => NoTrouble
  <1>1. /\ overlaps' \in {overlaps, overlaps + 1}
        /\ failures' \in {failures, failures + 1}
        /\ crashes' \in {crashes, crashes + 1}
    <2>1. CASE on_write \/ save \/ BgSave \/ Elapse \/ Boot
      BY <2>1, Zenon DEF on_write, save, BgSave, Elapse, Boot, histVars
    <2>2. CASE cron
      BY <2>2, CronCases, Zenon DEF histVars
    <2>3. ASSUME NEW t \in Thread, Saving(t) \/ OpenFails(t) \/ WriteFails(t)
          PROVE  /\ overlaps' \in {overlaps, overlaps + 1}
                 /\ failures' \in {failures, failures + 1}
                 /\ crashes' \in {crashes, crashes + 1}
      BY <2>3, Zenon DEF Saving, OpenFails, WriteFails, Open, WriteFirst, WriteSecond, Fsync,
                  Remove, Rename, RenameFails, Return, histVars
    <2>4. CASE Kill \/ PowerFailure
      BY <2>4, Zenon DEF Kill, PowerFailure, Crash
    <2> QED
      BY <2>1, <2>2, <2>3, <2>4, Zenon DEF Next
  <1>2. \A i, j, k \in Nat : i + j + k = 0 <=> i = 0 /\ j = 0 /\ k = 0
    OBVIOUS
  <1>3. \A i, j \in Nat : j \in {i, i + 1} /\ j = 0 => i = 0
    OBVIOUS
  <1>4. Values'
    BY ValuesStep
  <1>5. /\ overlaps \in Nat /\ failures \in Nat /\ crashes \in Nat
        /\ overlaps' \in Nat /\ failures' \in Nat /\ crashes' \in Nat
    BY <1>4 DEF Values
  <1>6. /\ overlaps' = 0 => overlaps = 0
        /\ failures' = 0 => failures = 0
        /\ crashes' = 0 => crashes = 0
    BY <1>1, <1>3, <1>5
  <1>7. NoTrouble' => failures' = 0 /\ crashes' = 0 /\ overlaps' = 0
    <2> SUFFICES ASSUME NoTrouble'
                 PROVE  failures' = 0 /\ crashes' = 0 /\ overlaps' = 0
      OBVIOUS
    <2>1. failures' + crashes' + overlaps' = 0
      BY DEF NoTrouble
    <2> QED
      BY <1>2, <1>5, <2>1, Zenon
  <1>8. failures = 0 /\ crashes = 0 /\ overlaps = 0 => NoTrouble
    BY <1>2, <1>5, Zenon DEF NoTrouble
  <1> QED
    BY <1>6, <1>7, <1>8

LEMMA Invariance == Spec => []IInv
  <1>1. ASSUME Init
        PROVE  IInv
    <2>1. Flags
      BY <1>1, Zenon DEF Init, Flags
    <2>2. job = [t \in Thread |-> Idle] /\ file = [i \in Inode |-> Empty]
      BY <1>1, Zenon DEF Init
    <2>3. /\ mode = "up" /\ written = 0 /\ dirty = 0 /\ path = NoInode /\ temp = NoInode
          /\ synced = {} /\ saved = 0 /\ overlaps = 0 /\ failures = 0 /\ crashes = 0
      BY <1>1, Zenon DEF Init
    <2>4. Values
      <3>1. job \in [Thread -> Job] /\ file \in [Inode -> Contents]
        BY <2>2, JobTypes, Zenon
      <3> QED
        BY <2>3, <3>1 DEF Values
    <2>5. \A t \in Thread : job[t] = Idle /\ ~Active(t) /\ job[t].at = "idle"
      BY <2>2 DEF Active, Idle
    <2>6. saving = FALSE
      BY <1>1, Zenon DEF Init
    <2>7. Busy
      BY <2>3, <2>5, <2>6, JobTypes, Zenon DEF Busy
    <2>8. Files
      BY <2>3, <2>5, JobTypes, Zenon DEF Files, JobOK
    <2>9. Counts
      <3>1. dirty = written - saved
        BY <2>3
      <3> QED
        BY <2>3, <2>5, <3>1, JobTypes, Zenon DEF Counts
    <2> QED
      BY <2>1, <2>4, <2>7, <2>8, <2>9 DEF IInv
  <1>2. ASSUME IInv, [Next]_vars
        PROVE  IInv'
    <2>1. CASE UNCHANGED vars
      <3>1. Flags' /\ Busy'
        BY <1>2, <2>1, Zenon DEF vars, processVars, IInv, Flags, Busy, Active
      <3>2. UNCHANGED <<mode, written, dirty, job, diskVars, saved, histVars>>
        BY <2>1, Zenon DEF vars, processVars
      <3>3. Values' /\ (overlaps' = 0 => Files') /\ (NoTrouble' => Counts')
        BY <1>2, <3>2, Zenon DEF diskVars, histVars, IInv, Values, Files, JobOK, Active,
                          NoTrouble, Counts
      <3> QED
        BY <3>1, <3>3 DEF IInv
    <2>2. CASE Next
      <3>1. Flags /\ Values /\ Busy
        BY <1>2 DEF IInv
      <3>2. Flags' /\ Values' /\ Busy'
        BY <2>2, <3>1, FlagsStep, ValuesStep, BusyStep
      <3>3. overlaps' = 0 => Files'
        BY <1>2, <2>2, <3>1, TroublesStay, FilesStep DEF IInv
      <3>4. ASSUME NoTrouble'
            PROVE  Counts'
        <4>1. NoTrouble /\ overlaps = 0
          BY <2>2, <3>1, <3>4, TroublesStay DEF NoTrouble, Values
        <4> QED
          BY <1>2, <2>2, <3>1, <3>4, <4>1, CountsStep DEF IInv
      <3> QED
        BY <3>2, <3>3, <3>4 DEF IInv
    <2> QED
      BY <1>2, <2>1, <2>2
  <1> QED
    BY <1>1, <1>2, PTL DEF Spec

\* Whatever is killed or loses power, and wherever, the snapshot's name leads to no
\* file but the complete one that the last successful save renamed into place, as
\* long as no SAVE has run beside a BGSAVE.
THEOREM SnapshotAlwaysIntact == Spec => []SnapshotIntact
  <1>1. IInv => SnapshotIntact
    BY DEF IInv, Files, SnapshotIntact
  <1> QED
    BY <1>1, Invariance, PTL

\* With no save running, dirty_ is the number of writes since the last successful
\* save, those made while the background save was writing included.
THEOREM DirtyAlwaysCounts == Spec => []DirtyCountsUnsaved
  <1>1. ASSUME IInv
        PROVE  DirtyCountsUnsaved
    <2>1. ASSUME NoTrouble, ~saving, job["loop"] = Idle
          PROVE  dirty = written - saved
      <3>1. mode = "up" /\ Counts
        BY <1>1, <2>1, Zenon DEF IInv, Counts
      <3>2. ~Active("saver")
        BY <1>1, <2>1, <3>1, Zenon DEF IInv, Busy
      <3> QED
        BY <3>1, <3>2 DEF Counts
    <2> QED
      BY <2>1 DEF DirtyCountsUnsaved
  <1> QED
    BY <1>1, Invariance, PTL
=============================================================================
