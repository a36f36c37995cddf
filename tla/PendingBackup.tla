--------------------------- MODULE PendingBackup ---------------------------
(***************************************************************************)
(* One domain's backups, as DomBackup.start (backups/pending.py) takes     *)
(* them and as DomBackup.clean_aborted undoes them, in the process that    *)
(* failed or, after a crash, in a later `virt-backup clean` process.       *)
(*                                                                         *)
(* Persistent state: the pending-info file, the definition file, the disk  *)
(* copies, and on the hypervisor the external snapshots (an overlay above  *)
(* the disk, and the overlay's file).  Everything else is the memory of    *)
(* the one running process and is lost when it dies.  Commands on the      *)
(* domain run one after the other.                                         *)
(***************************************************************************)
EXTENDS Naturals

CONSTANTS NDisks,     \* disks of the domain
          NBackups,   \* bound: how many backups are started
          Packager,   \* the packager of each backup: groups have their own
          MaxFaults   \* bound: crashes, failing calls and pivot timeouts

ASSUME DisksAssumption == NDisks \in Nat \ {0}
ASSUME BackupsAssumption == NBackups \in Nat
ASSUME FaultsAssumption == MaxFaults \in Nat

Disks == 1..NDisks      \* numbered in the order of the dict DomBackup.disks
Backups == 1..NBackups  \* numbered in the order they start: their dates

ASSUME PackagerAssumption == Packager \in [Backups -> {"directory", "tar", "zstd"}]

VARIABLES
  pend,        \* *.json.pending of each backup: what a reader would parse
  defn,        \* *.json of each backup
  copies,      \* each backup's copy of each disk
  archives,    \* backups whose tar file exists
  overlay,     \* disks of the domain that run on the backup's snapshot
  snapfile,    \* disks whose snapshot file exists
  cmd,         \* the running command, "none" between two commands
  pc,          \* what the running command does next
  phase,       \* which effect of the operation at pc comes next: its first or second
  cur,         \* the backup it works on, 0 if none
  disk,        \* position of the running loop over the disks
  info,        \* DomBackup.pending_info
  helper,      \* DomBackup._ext_snapshot_helper: none, bare (no metadatas) or ready
  metas,       \* keys of helper.metadatas["disks"]
  sameID,      \* does dom.ID() still return the ID that is in the names of cur's files
  flag,        \* DomBackup._cancel_flag
  todo,        \* rest of the list clean_broken_backups iterates over
  started,     \* number of backups started so far
  faults,      \* number of faults so far
  opened,      \* history: backups whose pending file has been opened once
  gaveUp,      \* history: disks clean_for_disk returned from without merging
  interrupted, \* history: backups whose packager was being cleaned at a crash
  outcome      \* history: how the last command that worked on a backup ended

files == <<pend, defn, copies, archives>>
storage == <<overlay, snapfile>>
loop == <<phase, cur, disk, cmd, flag, todo, started>>
memory == <<info, helper, metas, sameID>>
history == <<opened, gaveUp, interrupted, outcome>>
vars == <<files, storage, loop, memory, history, pc, faults>>

PendDumps == {"dumpPending", "dumpNamed", "dumpTarget"}
DefnDumps == {"dumpEarlyDefn", "dumpDefn"}
Cleaning == {"cleanDisk", "postBackup", "abortClean"}
\* Inside the try block of start(): an exception leads to clean_aborted().
Tried == PendDumps \cup DefnDumps \cup
         {"snapshot", "metadatas", "openPackager", "nextDisk", "addDisk",
          "cleanDisk", "postBackup", "removePending"}
Aborting == {"abort", "abortClean", "abortPackager", "abortDefn", "abortPending"}

\* What a reader gets of a .json or .json.pending file, and the dict it is dumped from.
File == [st : {"absent", "torn", "ok"}, name : {"unset", "set"}, tgt : SUBSET Disks]
NoFile == [st |-> "absent", name |-> "unset", tgt |-> {}]
TornFile == [st |-> "torn", name |-> "unset", tgt |-> {}]
Info == [name : {"unset", "set"}, tgt : SUBSET Disks]
NoInfo == [name |-> "unset", tgt |-> {}]

TypeOK ==
  /\ pend \in [Backups -> File]
  /\ defn \in [Backups -> File]
  /\ copies \in [Backups -> [Disks -> {"none", "partial", "full"}]]
  /\ archives \in SUBSET Backups
  /\ overlay \in [Backups -> SUBSET Disks]
  /\ snapfile \in [Backups -> SUBSET Disks]
  /\ cmd \in {"none", "backup", "clean"}
  /\ pc \in Tried \cup Aborting \cup {"idle", "nextBroken"}
  /\ phase \in {"first", "second"}
  /\ cur \in Backups \cup {0}
  /\ disk \in 1..(NDisks + 1)
  /\ info \in Info
  /\ helper \in {"none", "bare", "ready"}
  /\ metas \in SUBSET Disks
  /\ sameID \in BOOLEAN
  /\ flag \in {"clear", "set"}
  /\ todo \in SUBSET Backups
  /\ started \in 0..NBackups
  /\ faults \in 0..MaxFaults
  /\ opened \in SUBSET Backups
  /\ gaveUp \in [Backups -> SUBSET Disks]
  /\ interrupted \in SUBSET Backups
  /\ outcome \in [Backups -> {"none", "done", "raised", "cleaned", "crashed"}]

Init ==
  /\ pend = [b \in Backups |-> NoFile]
  /\ defn = [b \in Backups |-> NoFile]
  /\ copies = [b \in Backups |-> [d \in Disks |-> "none"]]
  /\ archives = {}
  /\ overlay = [b \in Backups |-> {}]
  /\ snapfile = [b \in Backups |-> {}]
  /\ cmd = "none" /\ pc = "idle" /\ phase = "first" /\ cur = 0 /\ disk = 1
  /\ info = NoInfo /\ helper = "none" /\ metas = {} /\ sameID = TRUE /\ flag = "clear"
  /\ todo = {} /\ started = 0 /\ faults = 0
  /\ opened = {} /\ interrupted = {}
  /\ gaveUp = [b \in Backups |-> {}]
  /\ outcome = [b \in Backups |-> "none"]

----------------------------------------------------------------------------
(* The process: starting, ending, dying. *)

\* The process is over: its memory is gone.
Leave(how) ==
  /\ cmd' = "none" /\ pc' = "idle" /\ phase' = "first" /\ cur' = 0 /\ disk' = 1
  /\ info' = NoInfo /\ helper' = "none" /\ metas' = {} /\ sameID' = TRUE /\ flag' = "clear"
  /\ todo' = {}
  /\ outcome' = IF cur = 0 THEN outcome ELSE [outcome EXCEPT ![cur] = how]
  /\ UNCHANGED <<started, opened, gaveUp>>

\* start(): clears the cancel flag and makes a fresh snapshot helper.
StartBackup ==
  /\ pc = "idle" /\ started < NBackups
  /\ cmd' = "backup" /\ cur' = started + 1 /\ started' = started + 1
  /\ flag' = "clear" /\ helper' = "bare" /\ pc' = "snapshot"
  /\ UNCHANGED <<files, storage, phase, disk, todo, info, metas, sameID, history, faults>>

\* Another thread calls DomBackup.cancel().
Cancel ==
  /\ cmd = "backup" /\ flag = "clear"
  /\ flag' = "set"
  /\ UNCHANGED <<files, storage, phase, cur, disk, cmd, todo, started, memory, history, pc, faults>>

\* The process is killed, the host goes down, or clean_aborted() itself raises.
Crash ==
  /\ pc # "idle" /\ faults < MaxFaults
  /\ faults' = faults + 1
  /\ Leave("crashed")
  /\ interrupted' = IF pc = "abortPackager" THEN interrupted \cup {cur} ELSE interrupted
  /\ UNCHANGED <<files, storage>>

\* A call inside the try block raises: the except clause runs clean_aborted().
\* A dump that fails after open() leaves the file truncated; os.remove(snapshot)
\* failing after the pivot leaves the snapshot file.
StepFails ==
  /\ pc \in Tried \ {"nextDisk", "addDisk"} /\ faults < MaxFaults
  /\ faults' = faults + 1
  /\ pc' = "abort" /\ phase' = "first"
  /\ UNCHANGED <<files, storage, cur, disk, cmd, flag, todo, started, memory, history>>

----------------------------------------------------------------------------
(* DomBackup.start() *)

\* Mutation: the snapshot's XML forgets the last disk.
TakeSnapshotButLast ==
  /\ pc = "snapshot" /\ pc' = "metadatas"
  /\ overlay' = [overlay EXCEPT ![cur] = Disks \ {NDisks}]
  /\ snapfile' = [snapfile EXCEPT ![cur] = Disks \ {NDisks}]
  /\ UNCHANGED <<files, loop, memory, history, faults>>

\* dom.snapshotCreateXML with the ATOMIC flag: every disk gets an overlay.
TakeSnapshot ==
  /\ pc = "snapshot" /\ pc' = "metadatas"
  /\ overlay' = [overlay EXCEPT ![cur] = Disks]
  /\ snapfile' = [snapfile EXCEPT ![cur] = Disks]
  /\ UNCHANGED <<files, loop, memory, history, faults>>

\* The helper's metadatas and then pending_info are filled in memory.
FillMetadatas ==
  /\ pc = "metadatas" /\ pc' = "dumpPending"
  /\ helper' = "ready" /\ metas' = Disks
  /\ UNCHANGED <<files, storage, loop, info, sameID, history, faults>>

\* open(path, "w") truncates the file in place ...
DumpOpen ==
  /\ pc \in PendDumps \cup DefnDumps /\ phase = "first" /\ phase' = "second"
  /\ IF pc \in PendDumps
     THEN /\ pend' = [pend EXCEPT ![cur] = TornFile]
          /\ opened' = opened \cup {cur}
          /\ UNCHANGED defn
     ELSE /\ defn' = [defn EXCEPT ![cur] = TornFile]
          /\ UNCHANGED <<pend, opened>>
  /\ UNCHANGED <<copies, archives, storage, cur, disk, cmd, flag, todo, started,
                 memory, gaveUp, interrupted, outcome, pc, faults>>

\* What follows each dump in start().
AfterDump == [dumpPending |-> "dumpEarlyDefn", dumpEarlyDefn |-> "dumpNamed",
              dumpNamed |-> "openPackager", dumpTarget |-> "addDisk",
              dumpDefn |-> "postBackup"]

\* ... and json.dump writes the dict the process holds.  definition["disks"]
\* lists the disks that have a target in pending_info.
DumpWrite ==
  /\ pc \in PendDumps \cup DefnDumps /\ phase = "second" /\ phase' = "first"
  /\ LET content == [st |-> "ok", name |-> info.name, tgt |-> info.tgt] IN
       IF pc \in PendDumps
       THEN pend' = [pend EXCEPT ![cur] = content] /\ UNCHANGED defn
       ELSE defn' = [defn EXCEPT ![cur] = content] /\ UNCHANGED pend
  /\ pc' = AfterDump[pc]
  \* the name is set between the first pending dump and the early definition
  /\ info' = IF pc = "dumpPending" THEN [name |-> "set", tgt |-> info.tgt] ELSE info
  /\ disk' = IF pc = "dumpDefn" THEN 1 ELSE disk
  /\ UNCHANGED <<copies, archives, storage, cur, cmd, flag, todo, started,
                 helper, metas, sameID, history, faults>>

\* `with packager:` creates the tar file (mode "x").
OpenPackager ==
  /\ pc = "openPackager" /\ pc' = "nextDisk" /\ disk' = 1
  /\ archives' = IF Packager[cur] = "tar" THEN archives \cup {cur} ELSE archives
  /\ UNCHANGED <<pend, defn, copies, storage, phase, cur, cmd, flag, todo,
                 started, memory, history, faults>>

\* pending_info["disks"][disk]["target"] is set.
WithTarget(d) == [name |-> info.name, tgt |-> info.tgt \cup {d}]

\* Mutation: the loop ends one disk early.
NextDiskButLast ==
  /\ pc = "nextDisk"
  /\ IF disk >= NDisks THEN pc' = "dumpDefn" /\ UNCHANGED info
     ELSE pc' = "dumpTarget" /\ info' = WithTarget(disk)
  /\ UNCHANGED <<files, storage, loop, helper, metas, sameID, history, faults>>

\* Mutation: the target is noted in memory and not dumped before the copy.
NextDiskUndumped ==
  /\ pc = "nextDisk"
  /\ IF disk > NDisks THEN pc' = "dumpDefn" /\ UNCHANGED info
     ELSE pc' = "addDisk" /\ info' = WithTarget(disk)
  /\ UNCHANGED <<files, storage, loop, helper, metas, sameID, history, faults>>

\* The head of the loop over the disks.
NextDisk ==
  /\ pc = "nextDisk"
  /\ \/ /\ disk > NDisks
        /\ pc' = "dumpDefn" /\ UNCHANGED info
     \/ /\ disk <= NDisks /\ flag = "set"
        /\ pc' = "abort" /\ UNCHANGED info
     \/ /\ disk <= NDisks /\ flag = "clear"
        /\ pc' = "dumpTarget" /\ info' = WithTarget(disk)
  /\ UNCHANGED <<files, storage, loop, helper, metas, sameID, history, faults>>

\* packager.add: the target (or the archive member) appears ...
AddDisk ==
  /\ pc = "addDisk" /\ phase = "first" /\ phase' = "second" /\ flag = "clear"
  /\ copies' = [copies EXCEPT ![cur][disk] = "partial"]
  /\ UNCHANGED <<pend, defn, archives, storage, cur, disk, cmd, flag, todo,
                 started, memory, history, pc, faults>>

\* ... and is filled to the end of the disk.
AddedDisk ==
  /\ pc = "addDisk" /\ phase = "second" /\ phase' = "first" /\ pc' = "cleanDisk"
  /\ copies' = [copies EXCEPT ![cur][disk] = "full"]
  /\ UNCHANGED <<pend, defn, archives, storage, cur, disk, cmd, flag, todo,
                 started, memory, history, faults>>

\* The copy is cancelled between two buffers, or fails.  Only the zstd packager
\* removes what it has written.
AddFails ==
  /\ pc = "addDisk" /\ pc' = "abort" /\ phase' = "first"
  /\ \/ flag = "set" /\ UNCHANGED faults
     \/ faults < MaxFaults /\ faults' = faults + 1
  /\ copies' = IF Packager[cur] = "zstd" THEN [copies EXCEPT ![cur][disk] = "none"] ELSE copies
  /\ UNCHANGED <<pend, defn, archives, storage, cur, disk, cmd, flag, todo,
                 started, memory, history>>

\* _clean_pending_info: the backup is complete.
RemovePending ==
  /\ pc = "removePending"
  /\ pend' = [pend EXCEPT ![cur] = NoFile]
  /\ Leave("done")
  /\ UNCHANGED <<defn, copies, archives, storage, faults, interrupted>>

----------------------------------------------------------------------------
(* DomExtSnapshot.clean_for_disk, called for one disk by start() and for   *)
(* every disk left in metadatas by DomExtSnapshot.clean().                 *)

\* The disk the cleaning loop has come to.
Turn(d) == d \in metas /\ d >= disk /\ \A e \in metas : e >= disk => d <= e

\* Mutation: any snapshot of the domain may be merged.
IsAnywhere(b, d) == d \in overlay[b]

\* Is the snapshot of b the file the domain runs d on?
IsTop(b, d) == d \in overlay[b] /\ \A c \in Backups : c > b => d \notin overlay[c]

\* Mutation: a disk is skipped.
ProceedTwice(d) ==
  /\ disk' = d + 2
  /\ pc' = IF pc = "cleanDisk" THEN "nextDisk" ELSE pc

\* The caller goes on with the next disk.
Proceed(d) ==
  /\ disk' = d + 1
  /\ pc' = IF pc = "cleanDisk" THEN "nextDisk" ELSE pc

\* The domain does not run on our snapshot: warn and return.
SkipDisk(d) ==
  /\ pc \in Cleaning /\ phase = "first" /\ Turn(d) /\ ~IsTop(cur, d)
  /\ gaveUp' = [gaveUp EXCEPT ![cur] = @ \cup {d}]
  /\ Proceed(d)
  /\ UNCHANGED <<files, storage, phase, cur, cmd, flag, todo, started, memory,
                 opened, interrupted, outcome, faults>>

\* Commit the overlay into the file below and make the domain run on that file:
\* by block job and pivot if it is active, by qemu-img and its XML otherwise.
PivotDisk(d) ==
  /\ pc \in Cleaning /\ phase = "first" /\ Turn(d) /\ IsTop(cur, d)
  /\ overlay' = [overlay EXCEPT ![cur] = @ \ {d}]
  /\ phase' = "second"
  /\ UNCHANGED <<files, snapfile, cur, disk, cmd, flag, todo, started, memory,
                 history, pc, faults>>

\* os.remove(snapshot), and the disk leaves metadatas.
RemoveSnapshot(d) ==
  /\ pc \in Cleaning /\ phase = "second" /\ Turn(d)
  /\ snapfile' = [snapfile EXCEPT ![cur] = @ \ {d}]
  /\ metas' = metas \ {d}
  /\ phase' = "first" /\ Proceed(d)
  /\ UNCHANGED <<files, overlay, cur, cmd, flag, todo, started, info, helper,
                 sameID, history, faults>>

\* blockcommit_disk stops waiting for the pivot (or for the removal of the
\* snapshot, in the event thread) and returns as if it were done.  A backup
\* built from a pending file has no timeout.
PivotTimeout(d) ==
  /\ pc \in Cleaning /\ cmd = "backup" /\ Turn(d) /\ (phase = "second" \/ IsTop(cur, d))
  /\ faults < MaxFaults /\ faults' = faults + 1
  /\ gaveUp' = [gaveUp EXCEPT ![cur] = @ \cup {d}]
  /\ metas' = metas \ {d}
  /\ phase' = "first" /\ Proceed(d)
  /\ UNCHANGED <<files, storage, cur, cmd, flag, todo, started, info, helper,
                 sameID, opened, interrupted, outcome>>

CleanForDisk ==
  \E d \in Disks : SkipDisk(d) \/ PivotDisk(d) \/ RemoveSnapshot(d) \/ PivotTimeout(d)

\* Mutation: the copies are left when the definition tells of them.
CleanDoneUnpacked ==
  /\ pc \in {"postBackup", "abortClean"} /\ phase = "first"
  /\ \A d \in metas : d < disk
  /\ \/ pc = "postBackup" /\ pc' = "removePending" /\ helper' = "none" /\ metas' = {}
     \/ /\ pc = "abortClean" /\ UNCHANGED <<helper, metas>>
        /\ pc' = IF defn[cur].st = "absent" THEN "abortPackager" ELSE "abortDefn"
  /\ disk' = 1
  /\ UNCHANGED <<files, storage, phase, cur, cmd, flag, todo, started, info,
                 sameID, history, faults>>

\* DomExtSnapshot.clean() has gone through its disks.
CleanDone ==
  /\ pc \in {"postBackup", "abortClean"} /\ phase = "first"
  /\ \A d \in metas : d < disk
  /\ \/ pc = "postBackup" /\ pc' = "removePending" /\ helper' = "none" /\ metas' = {}
     \/ /\ pc = "abortClean" /\ UNCHANGED <<helper, metas>>
        /\ pc' = IF info.name = "set" THEN "abortPackager" ELSE "abortDefn"
  /\ disk' = 1
  /\ UNCHANGED <<files, storage, phase, cur, cmd, flag, todo, started, info,
                 sameID, history, faults>>

----------------------------------------------------------------------------
(* DomBackup.clean_aborted() *)

\* Without metadatas helper.clean() raises SnapshotNotStarted at once.
AbortNotStarted ==
  /\ pc = "abort" /\ helper = "bare"
  /\ Leave("raised")
  /\ UNCHANGED <<files, storage, faults, interrupted>>

\* Mutation: the rebuilt helper has no metadatas.
AbortEmpty ==
  /\ pc = "abort" /\ helper # "bare"
  /\ helper' = "ready" /\ metas' = IF helper = "none" THEN {} ELSE metas
  /\ disk' = 1 /\ pc' = "abortClean"
  /\ UNCHANGED <<files, storage, phase, cur, cmd, flag, todo, started, info,
                 sameID, history, faults>>

\* A helper is rebuilt from pending_info if there is none.
Abort ==
  /\ pc = "abort" /\ helper # "bare"
  /\ helper' = "ready" /\ metas' = IF helper = "none" THEN Disks ELSE metas
  /\ disk' = 1 /\ pc' = "abortClean"
  /\ UNCHANGED <<files, storage, phase, cur, cmd, flag, todo, started, info,
                 sameID, history, faults>>

\* Mutation: the first target is forgotten.
RemovableButFirst ==
  IF Packager[cur] = "directory" THEN {d \in info.tgt : d > disk}
  ELSE {d \in Disks : copies[cur][d] # "none"}

\* The targets _clean_packager still has to remove, in order, or the archives
\* remove_package finds by prefix.
Removable ==
  IF Packager[cur] = "directory" THEN {d \in info.tgt : d >= disk}
  ELSE {d \in Disks : copies[cur][d] # "none"}

\* One os.remove of _clean_packager / remove_package.
RemoveCopy ==
  /\ pc = "abortPackager"
  /\ Packager[cur] = "zstd" => flag = "clear"
  /\ Packager[cur] # "tar"
  /\ \E d \in Removable :
       /\ Packager[cur] = "directory" => \A e \in Removable : d <= e
       /\ copies[cur][d] # "none"
       /\ copies' = [copies EXCEPT ![cur][d] = "none"]
       /\ disk' = d + 1
  /\ UNCHANGED <<pend, defn, archives, storage, phase, cur, cmd, flag, todo,
                 started, memory, history, pc, faults>>

\* The zstd packager gives up on a cancelled backup before its first removal.
RemoveCancelled ==
  /\ pc = "abortPackager" /\ Packager[cur] = "zstd" /\ flag = "set" /\ Removable # {}
  /\ Leave("raised")
  /\ UNCHANGED <<files, storage, faults, interrupted>>

\* Nothing is left to remove, the first missing target raised FileNotFoundError
\* (which ends the removals), or the tar file goes with all it holds.
PackagerCleaned ==
  /\ pc = "abortPackager" /\ pc' = "abortDefn"
  /\ \/ /\ Packager[cur] = "tar"
        /\ archives' = archives \ {cur}
        /\ copies' = [copies EXCEPT ![cur] = [d \in Disks |-> "none"]]
     \/ /\ Packager[cur] # "tar" /\ UNCHANGED <<archives, copies>>
        /\ \A d \in Removable : \E e \in Removable : e <= d /\ copies[cur][e] = "none"
  /\ UNCHANGED <<pend, defn, storage, loop, memory, history, faults>>

\* Mutation: the definition is left.
AbortDefnKept ==
  /\ pc = "abortDefn" /\ pc' = "abortPending"
  /\ UNCHANGED <<files, storage, loop, memory, history, faults>>

\* Mutation: a definition that was never written makes the cleaning raise.
AbortDefnStrict ==
  /\ pc = "abortDefn" /\ UNCHANGED <<pend, copies, archives, storage, faults, interrupted>>
  /\ IF defn[cur].st = "absent" THEN Leave("raised") /\ UNCHANGED defn
     ELSE /\ pc' = "abortPending" /\ defn' = [defn EXCEPT ![cur] = NoFile]
          /\ UNCHANGED <<loop, memory, opened, gaveUp, outcome>>

\* _clean_definition, which may find no file: the path it removes is made of the
\* domain's present ID.
AbortDefn ==
  /\ pc = "abortDefn" /\ pc' = "abortPending"
  /\ defn' = IF sameID THEN [defn EXCEPT ![cur] = NoFile] ELSE defn
  /\ UNCHANGED <<pend, copies, archives, storage, loop, memory, history, faults>>

\* _clean_pending_info, which may find no file, too.  start() then raises again
\* what it caught; clean_broken_backups goes on with its list.
AbortPending ==
  /\ pc = "abortPending"
  /\ pend' = IF sameID THEN [pend EXCEPT ![cur] = NoFile] ELSE pend
  /\ IF cmd = "backup"
     THEN Leave("raised") /\ UNCHANGED interrupted
     ELSE /\ pc' = "nextBroken" /\ info' = NoInfo
          /\ outcome' = [outcome EXCEPT ![cur] = "cleaned"]
          \* cur leaves the list under the loop that iterates over it, so the
          \* loop's next position skips the backup that follows
          /\ todo' = {b \in todo : \E c \in todo : c < b}
          /\ UNCHANGED <<phase, cur, disk, cmd, flag, started, helper, metas,
                         sameID, opened, gaveUp, interrupted>>
  /\ UNCHANGED <<defn, copies, archives, storage, faults>>

----------------------------------------------------------------------------
(* `virt-backup clean`: scan the pending files, clean each by date. *)

\* scan_backup_dir lists the pending files that parse.
StartClean ==
  /\ pc = "idle"
  /\ \E b \in Backups : pend[b].st = "ok"
  /\ cmd' = "clean" /\ pc' = "nextBroken"
  /\ todo' = {b \in Backups : pend[b].st = "ok"}
  /\ UNCHANGED <<files, storage, phase, cur, disk, flag, started, memory,
                 history, faults>>

\* The loop takes the oldest backup left, built from its pending file.  Since that
\* backup the domain may have been stopped, or started again with another ID.
NextBroken ==
  /\ pc = "nextBroken"
  /\ \E b \in todo :
       /\ \A c \in todo : b <= c
       /\ cur' = b /\ todo' = todo \ {b}
       /\ info' = [name |-> pend[b].name, tgt |-> pend[b].tgt]
  /\ pc' = "abort" /\ helper' = "none" /\ metas' = {} /\ disk' = 1 /\ sameID' \in BOOLEAN
  /\ UNCHANGED <<files, storage, phase, cmd, flag, started, history, faults>>

CleanEnds ==
  /\ pc = "nextBroken" /\ todo = {}
  /\ cmd' = "none" /\ pc' = "idle" /\ phase' = "first" /\ cur' = 0 /\ disk' = 1
  /\ info' = NoInfo /\ helper' = "none" /\ metas' = {} /\ sameID' = TRUE /\ flag' = "clear"
  /\ UNCHANGED <<files, storage, todo, started, history, faults>>

----------------------------------------------------------------------------
\* A step the running process takes when nothing goes wrong around it.
Step ==
  \/ TakeSnapshot \/ FillMetadatas \/ DumpOpen \/ DumpWrite \/ OpenPackager
  \/ NextDisk \/ AddDisk \/ AddedDisk \/ RemovePending \/ CleanForDisk \/ CleanDone
  \/ AbortNotStarted \/ Abort \/ RemoveCopy \/ RemoveCancelled \/ PackagerCleaned
  \/ AbortDefn \/ AbortPending \/ NextBroken \/ CleanEnds

Next == Step \/ AddFails \/ StepFails \/ Crash \/ Cancel \/ StartBackup \/ StartClean

Spec == Init /\ [][Next]_vars

\* The process keeps running; the clean service is run again and again.
FairSpec == Spec /\ WF_vars(Step \/ AddFails) /\ WF_vars(StartClean)

----------------------------------------------------------------------------
(* Properties *)

\* Once its pending file has been opened, a backup nobody works on leaves no
\* disk on its snapshot without a pending file that tells of it, unless
\* clean_for_disk() returned from that disk without merging it: the order
\* "snapshots, packager, definition, pending file" of clean_aborted() and
\* start(), whatever fails or crashes in between.
OverlayHasPendingFile ==
  \A b \in opened : b # cur /\ pend[b].st = "absent" => overlay[b] \subseteq gaveUp[b]

\* While a disk is being copied, it and the disks still to copy run on this
\* backup's snapshot, so that the files read do not change: start() merges a
\* disk's snapshot only after that disk, and no earlier snapshot over it.
FrozenWhileCopied ==
  pc = "addDisk" => \A d \in Disks : d >= disk => IsTop(cur, d)

\* A definition file without a pending file beside it describes a backup that
\* has every disk, copied to the end: what list and restore rely on.
CompleteMeansWhole ==
  \A b \in Backups :
    pend[b].st = "absent" /\ defn[b].st # "absent" =>
      /\ defn[b] = [st |-> "ok", name |-> "set", tgt |-> Disks]
      /\ \A d \in Disks : copies[b][d] = "full"
      /\ Packager[b] = "tar" => b \in archives

\* When clean_aborted() removes the pending file, nothing else of the backup is
\* left but what clean_for_disk() gave up and what the directory packager lost
\* track of when an earlier cleaning died among its removals.
PendingRemovedLast ==
  pc = "abortPending" /\ sameID =>
    /\ defn[cur].st = "absent" /\ cur \notin archives
    /\ cur \in interrupted \/ \A d \in Disks : copies[cur][d] = "none"
    /\ overlay[cur] \cup snapfile[cur] \subseteq gaveUp[cur]

\* Whoever reads a pending file finds in it every copy made so far: the target
\* is recorded and dumped before packager.add() creates it.
CopiesRecorded ==
  \A b \in Backups : pend[b].st = "ok" =>
    \A d \in Disks : copies[b][d] # "none" => d \in pend[b].tgt

\* Once faults stop, each backup left with a readable pending file is cleaned by
\* one of the following clean commands, although each of them skips some, unless
\* one comes to a backup taken under another ID of the domain: that one stays, and
\* each command may skip the same one after it.
BrokenIsCleaned ==
  \A b \in Backups : pend[b].st = "ok" /\ cur # b ~> pend[b].st = "absent" \/ ~sameID

----------------------------------------------------------------------------
(* What the documentation and the comments say *)

\* README.mkd: the clean service removes all temporary files of the broken
\* backups: of a backup that clean_aborted() has gone through in a clean command,
\* neither the pending file nor the definition is left.
CleanLeavesNothing ==
  \A b \in Backups : outcome[b] = "cleaned" =>
    pend[b].st = "absent" /\ defn[b].st = "absent"
=============================================================================
