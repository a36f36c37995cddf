------------------------ MODULE PendingBackupRemains ------------------------
(***************************************************************************)
(* What start() and clean_aborted() leave behind, at every moment and when *)
(* they have ended, and that they implement the two abstract modules:      *)
(* proved for any number of disks, backups and faults.                     *)
(***************************************************************************)
EXTENDS PendingBackupSafety, MCPendingBackup

\* open() of a dump truncates one file of the backup, and nothing else changes.
LEMMA DumpOpenEffect ==
  ASSUME TypeOK, Control, DumpOpen
  PROVE  /\ cur \in Backups /\ cmd = "backup" /\ cur = started
         /\ pc \in PendDumps \cup DefnDumps /\ pc' = pc /\ phase' = "second"
         /\ pc \in PendDumps => /\ pend'[cur].st = "torn" /\ defn' = defn
                                /\ opened' = opened \cup {cur}
         /\ pc \in DefnDumps => defn'[cur].st = "torn" /\ pend' = pend /\ opened' = opened
         /\ \A b \in Backups : b # cur => pend'[b] = pend[b] /\ defn'[b] = defn[b]
         /\ UNCHANGED <<copies, archives, storage, cur, disk, cmd, flag, todo, started, memory,
                        gaveUp, interrupted, outcome>>
<1>1. /\ cur \in Backups /\ cmd = "backup" /\ cur = started
      /\ pend \in [Backups -> File] /\ defn \in [Backups -> File]
  BY DEF TypeOK, Control, DumpOpen, Tried
<1>2. CASE pc \in PendDumps
  <2>1. pend' = [pend EXCEPT ![cur] = TornFile] /\ defn' = defn /\ opened' = opened \cup {cur}
    BY <1>2 DEF DumpOpen
  <2>2. pend'[cur].st = "torn"
    BY <1>1, <2>1 DEF TornFile
  <2> QED BY <1>1, <1>2, <2>1, <2>2 DEF DumpOpen, PendDumps, DefnDumps
<1>3. CASE pc \in DefnDumps
  <2>1. defn' = [defn EXCEPT ![cur] = TornFile] /\ pend' = pend /\ opened' = opened
    BY <1>3 DEF DumpOpen, PendDumps, DefnDumps
  <2>2. defn'[cur].st = "torn"
    BY <1>1, <2>1 DEF TornFile
  <2> QED BY <1>1, <1>3, <2>1, <2>2 DEF DumpOpen, PendDumps, DefnDumps
<1> QED BY <1>2, <1>3 DEF DumpOpen

\* json.dump fills that file from the dict.
LEMMA DumpWriteEffect ==
  ASSUME TypeOK, Control, DumpWrite
  PROVE  /\ cur \in Backups /\ cmd = "backup" /\ cur = started
         /\ pc \in PendDumps \cup DefnDumps /\ pc' = AfterDump[pc] /\ phase' = "first"
         /\ pc \in PendDumps => /\ defn' = defn /\ pend'[cur].st = "ok"
                                /\ pend'[cur].name = info.name /\ pend'[cur].tgt = info.tgt
         /\ pc \in DefnDumps => /\ pend' = pend /\ defn'[cur].st = "ok"
                                /\ defn'[cur].name = info.name /\ defn'[cur].tgt = info.tgt
         /\ \A b \in Backups : b # cur => pend'[b] = pend[b] /\ defn'[b] = defn[b]
         /\ info'.tgt = info.tgt /\ info'.name = IF pc = "dumpPending" THEN "set" ELSE info.name
         /\ disk' = IF pc = "dumpDefn" THEN 1 ELSE disk
         /\ UNCHANGED <<copies, archives, storage, cur, cmd, flag, todo, started, helper, metas,
                        sameID, history>>
<1>1. /\ cur \in Backups /\ cmd = "backup" /\ cur = started
      /\ pend \in [Backups -> File] /\ defn \in [Backups -> File]
  BY DEF TypeOK, Control, DumpWrite, Tried
<1>2. info'.tgt = info.tgt /\ info'.name = IF pc = "dumpPending" THEN "set" ELSE info.name
  BY DEF DumpWrite
<1> DEFINE content == [st |-> "ok", name |-> info.name, tgt |-> info.tgt]
<1>3. CASE pc \in PendDumps
  <2>1. pend' = [pend EXCEPT ![cur] = content] /\ defn' = defn
    BY <1>3 DEF DumpWrite
  <2>2. pend'[cur] = content
    BY <1>1, <2>1
  <2> QED BY <1>1, <1>2, <1>3, <2>1, <2>2 DEF DumpWrite, PendDumps, DefnDumps
<1>4. CASE pc \in DefnDumps
  <2>1. defn' = [defn EXCEPT ![cur] = content] /\ pend' = pend
    BY <1>4 DEF DumpWrite, PendDumps, DefnDumps
  <2>2. defn'[cur] = content
    BY <1>1, <2>1
  <2> QED BY <1>1, <1>2, <1>4, <2>1, <2>2 DEF DumpWrite, PendDumps, DefnDumps
<1> QED BY <1>3, <1>4 DEF DumpWrite

----------------------------------------------------------------------------
(* The two files and the dict they are dumped from.                        *)

\* The steps of start() before the first dump, and before the packager is open.
Undumped == {"snapshot", "metadatas", "dumpPending"}
Unpacked == Undumped \cup {"dumpEarlyDefn", "dumpNamed", "openPackager"}

\* The definition start() writes first: it names no disk.
EarlyDefn(b) == defn[b].st = "ok" /\ defn[b].tgt = {}

FilesInv ==
  /\ pc = "idle" => info = NoInfo
  /\ pc \in Unpacked => info.tgt = {}
  /\ pc \in Undumped => info.name = "unset" /\ defn[cur].st = "absent"
  /\ pc \in Undumped /\ pend[cur].st = "absent" => cur \notin opened
  /\ pc \in {"dumpNamed", "openPackager"} \cup Copying => EarlyDefn(cur)
  /\ pc \in {"dumpEarlyDefn", "openPackager", "nextDisk", "addDisk", "cleanDisk", "dumpDefn"} =>
       pend[cur].st = "ok"
  /\ pc \in {"abort", "abortClean", "abortPackager"} /\ info.name = "set" =>
       pend[cur].st # "absent"
  /\ \A b \in Backups : pend[b].st = "torn" => defn[b].st = "absent" \/ EarlyDefn(b)
  /\ \A b \in Backups \ opened : pend[b].st = "absent" /\ defn[b].st = "absent"

\* No step leaves a file in a state that the next one does not expect.
LEMMA StepFiles ==
  ASSUME TypeOK, Control, RecordedInv, ToldInv, ProgressInv, WholeInv, FilesInv, [Next]_vars
  PROVE  FilesInv'
<1> USE DEF FilesInv, EarlyDefn, Control, TypeOK, Undumped, Unpacked, Copying, Tried, Aborting,
            PendDumps, DefnDumps
<1>1. CASE StartBackup
  BY <1>1, BackupsAssumption DEF StartBackup, files, storage, history, WholeInv,
     ToldInv, Backups, NoInfo
<1>2. CASE Cancel
  BY <1>2 DEF Cancel, files, storage, memory, history
<1>3. CASE Crash
  BY <1>3 DEF Crash, Leave, files, storage, NoInfo
<1>4. CASE StepFails
  BY <1>4 DEF StepFails, files, storage, memory, history, WholeInv
<1>5. CASE AddFails
  BY <1>5 DEF AddFails, storage, memory, history, WholeInv
<1>6. CASE StartClean
  BY <1>6 DEF StartClean, files, storage, memory, history
<1>7. CASE TakeSnapshot
  BY <1>7 DEF TakeSnapshot, files, loop, memory, history
<1>8. CASE FillMetadatas
  BY <1>8 DEF FillMetadatas, files, storage, loop, history
<1>9. CASE DumpOpen
  <2>1. CASE pc \in PendDumps
    BY <1>9, <2>1, DumpOpenEffect DEF memory
  <2>2. CASE pc \in DefnDumps
    <3>1. /\ pend' = pend /\ opened' = opened /\ pc' = pc /\ info' = info /\ cur' = cur
          /\ pend[cur].st = "ok" /\ cur \in Backups
          /\ \A b \in Backups : b # cur => defn'[b] = defn[b]
      BY <1>9, <2>2, DumpOpenEffect DEF memory
    <3> QED BY <2>2, <3>1
  <2> QED BY <1>9, <2>1, <2>2, DumpOpenEffect
<1>10. CASE DumpWrite
  <2>0. UNCHANGED <<cur, opened>> /\ cur \in Backups /\ info'.tgt = info.tgt
    BY <1>10, DumpWriteEffect DEF history
  <2>1. CASE pc \in PendDumps
    <3>1. /\ defn' = defn /\ pend'[cur].st = "ok"
          /\ \A b \in Backups : b # cur => pend'[b] = pend[b]
          /\ info'.name = IF pc = "dumpPending" THEN "set" ELSE info.name
      BY <1>10, <2>1, DumpWriteEffect
    <3>2. cur \in opened
      BY <1>10, <2>0, <2>1 DEF WholeInv, DumpWrite
    <3>3. \/ pc = "dumpPending" /\ pc' = "dumpEarlyDefn"
          \/ pc = "dumpNamed" /\ pc' = "openPackager"
          \/ pc = "dumpTarget" /\ pc' = "addDisk"
      BY <1>10, <2>1, DumpWriteEffect DEF AfterDump
    <3>4. CASE pc' = "dumpEarlyDefn"
      <4>1. \A b \in Backups : pend'[b].st = "torn" => defn'[b].st = "absent" \/ EarlyDefn(b)'
        BY <2>0, <3>1
      <4>2. \A b \in Backups \ opened' : pend'[b].st = "absent" /\ defn'[b].st = "absent"
        <5> SUFFICES ASSUME NEW b \in Backups \ opened
                     PROVE  pend'[b].st = "absent" /\ defn'[b].st = "absent"
          BY <2>0
        <5>1. b # cur
          BY <3>2
        <5> QED BY <3>1, <5>1
      <4> QED BY <2>0, <3>1, <3>4, <4>1, <4>2, <3>3
    <3>5. CASE pc' = "openPackager"
      BY <2>0, <3>1, <3>2, <3>3, <3>5
    <3>6. CASE pc' = "addDisk"
      BY <2>0, <3>1, <3>2, <3>3, <3>6
    <3> QED BY <3>3, <3>4, <3>5, <3>6
  <2>2. CASE pc \in DefnDumps
    <3>1. /\ pend' = pend /\ defn'[cur].st = "ok" /\ defn'[cur].tgt = info.tgt
          /\ \A b \in Backups : b # cur => defn'[b] = defn[b]
          /\ pend[cur].st = "ok" /\ info'.name = info.name
      BY <1>10, <2>2, DumpWriteEffect
    <3>2. (pc = "dumpEarlyDefn" /\ pc' = "dumpNamed") \/ (pc = "dumpDefn" /\ pc' = "postBackup")
      BY <1>10, <2>2, DumpWriteEffect DEF AfterDump
    <3> QED BY <2>0, <3>1, <3>2
  <2> QED BY <1>10, <2>1, <2>2 DEF DumpWrite
<1>11. CASE OpenPackager
  BY <1>11 DEF OpenPackager, storage, memory, history
<1>12. CASE NextDisk
  BY <1>12 DEF NextDisk, WithTarget, files, storage, loop, history, WholeInv
<1>13. CASE AddDisk
  BY <1>13 DEF AddDisk, storage, memory, history
<1>14. CASE AddedDisk
  BY <1>14 DEF AddedDisk, storage, memory, history
<1>15. CASE RemovePending
  BY <1>15 DEF RemovePending, Leave, storage, NoInfo, NoFile, WholeInv, Whole
<1>16. CASE CleanForDisk
  BY <1>16 DEF CleanForDisk, SkipDisk, PivotDisk, RemoveSnapshot, PivotTimeout, Proceed,
     Cleaning, files, storage, memory, history, Turn
<1>17. CASE CleanDone
  BY <1>17 DEF CleanDone, files, storage, history
<1>18. CASE AbortNotStarted
  BY <1>18 DEF AbortNotStarted, Leave, files, storage, NoInfo
<1>19. CASE Abort
  BY <1>19 DEF Abort, files, storage, history
<1>20. CASE RemoveCopy
  BY <1>20 DEF RemoveCopy, storage, memory, history
<1>21. CASE RemoveCancelled
  BY <1>21 DEF RemoveCancelled, Leave, files, storage, NoInfo
<1>22. CASE PackagerCleaned
  BY <1>22 DEF PackagerCleaned, storage, loop, memory, history
<1>23. CASE AbortDefn
  BY <1>23 DEF AbortDefn, storage, loop, memory, history, NoFile
<1>24. CASE AbortPending
  BY <1>24 DEF AbortPending, Leave, storage, NoInfo, NoFile, WholeInv
<1>25. CASE NextBroken
  BY <1>25 DEF NextBroken, files, storage, history, RecordedInv
<1>26. CASE CleanEnds
  BY <1>26 DEF CleanEnds, files, storage, history, NoInfo
<1>27. CASE UNCHANGED vars
  BY <1>27 DEF vars, files, storage, memory, history, loop
<1> QED BY <1>1, <1>2, <1>3, <1>4, <1>5, <1>6, <1>7, <1>8, <1>9, <1>10, <1>11, <1>12,
       <1>13, <1>14, <1>15, <1>16, <1>17, <1>18, <1>19, <1>20, <1>21, <1>22, <1>23, <1>24,
       <1>25, <1>26, <1>27 DEF Next, Step

----------------------------------------------------------------------------
(* The copies: made in the order of the disks, removed in it.              *)

NoCopy(b) == \A d \in Disks : copies[b][d] = "none"

\* The directory packager finds the targets to remove up to the first gap.
NoGap(b) ==
  \A d, e \in Disks : e < d /\ copies[b][d] # "none" /\ copies[b][e] = "none" =>
    b = cur /\ pc = "abortPackager" /\ e < disk

CopiesInv ==
  /\ \A b \in archives : Packager[b] = "tar" /\ b <= started
  /\ \A b \in Backups : pend[b].st = "ok" /\ pend[b].name = "unset" =>
       b \notin archives /\ NoCopy(b)
  /\ pc \in {"openPackager"} \cup Copying /\ pend[cur].st = "ok" => pend[cur].name = "set"
  /\ (cmd = "backup" \/ pc \in Aborting) /\ info.name = "unset" =>
       cur \notin archives /\ NoCopy(cur)
  /\ pc \in Unpacked => cur \notin archives /\ NoCopy(cur)
  /\ \A b \in Backups \ interrupted : Packager[b] = "directory" => NoGap(b)
  /\ pc = "abortPackager" /\ Packager[cur] = "directory" /\ cur \notin interrupted =>
       \A d \in Disks : d < disk => copies[cur][d] = "none"
  /\ pc \in {"abortDefn", "abortPending"} =>
       cur \notin archives /\ (cur \in interrupted \/ NoCopy(cur))
  /\ \A b \in Backups \ interrupted : defn[b].st = "absent" => NoCopy(b)

\* No step makes or removes a copy out of its turn.
LEMMA StepCopies ==
  ASSUME TypeOK, Control, FrozenInv, RecordedInv, ProgressInv, WholeInv, FilesInv, CopiesInv,
         [Next]_vars
  PROVE  CopiesInv'
<1> USE DEF CopiesInv, NoCopy, NoGap, Control, TypeOK, Undumped, Unpacked, Copying, Tried,
            Aborting, PendDumps, DefnDumps
<1>1. CASE StartBackup
  <2>1. /\ cur' \in Backups /\ cur' = started + 1 /\ started' = started + 1 /\ pc' = "snapshot"
        /\ UNCHANGED <<pend, defn, copies, archives, info, interrupted, disk>>
    BY <1>1, BackupsAssumption DEF StartBackup, files, history, Backups
  <2>2. cur' \notin archives /\ NoCopy(cur')
    BY <2>1, BackupsAssumption DEF RecordedInv, Backups
  <2>3. pc = "idle"
    BY <1>1 DEF StartBackup
  <2> QED BY <2>1, <2>2, <2>3, BackupsAssumption DEF Backups
<1>2. CASE Cancel
  BY <1>2 DEF Cancel, files, storage, memory, history
<1>3. CASE Crash
  BY <1>3 DEF Crash, Leave, files, storage
<1>4. CASE StepFails
  BY <1>4 DEF StepFails, files, storage, memory, history
<1>5. CASE AddFails
  BY <1>5 DEF AddFails, storage, memory, history, ProgressInv
<1>6. CASE StartClean
  BY <1>6 DEF StartClean, files, storage, memory, history
<1>7. CASE TakeSnapshot
  BY <1>7 DEF TakeSnapshot, files, loop, memory, history
<1>8. CASE FillMetadatas
  BY <1>8 DEF FillMetadatas, files, storage, loop, history
<1>9. CASE DumpOpen
  <2>1. /\ cur \in Backups /\ pc' = pc /\ cur' = cur /\ cmd' = cmd /\ copies' = copies
        /\ archives' = archives /\ started' = started /\ info' = info /\ disk' = disk
        /\ interrupted' = interrupted /\ pc \in PendDumps \cup DefnDumps
    BY <1>9, DumpOpenEffect DEF memory
  <2>2. \A b \in Backups : /\ pend'[b].st = "ok" => pend'[b] = pend[b]
                           /\ defn'[b].st = "absent" => defn[b].st = "absent"
    BY <1>9, DumpOpenEffect
  <2> QED BY <2>1, <2>2
<1>10. CASE DumpWrite
  <2>1. /\ cur \in Backups /\ cmd = "backup" /\ cur' = cur /\ cmd' = cmd /\ copies' = copies
        /\ archives' = archives /\ started' = started /\ interrupted' = interrupted
        /\ pc \in PendDumps \cup DefnDumps /\ pc' = AfterDump[pc]
        /\ info'.name = "unset" => info.name = "unset"
    BY <1>10, DumpWriteEffect DEF history
  <2>2. \A b \in Backups : /\ pend'[b].st = "ok" /\ pend'[b].name = "unset" =>
                                \/ pend[b].st = "ok" /\ pend[b].name = "unset"
                                \/ b = cur /\ info.name = "unset"
                           /\ defn'[b].st = "absent" => defn[b].st = "absent"
    BY <1>10, DumpWriteEffect
  <2>3. pc' \in {"openPackager"} \cup Copying => pend'[cur].name = info.name /\ info.name = "set"
    BY <1>10, DumpWriteEffect DEF AfterDump, ProgressInv
  <2>4. /\ pc' \in Unpacked => pc \in Unpacked
        /\ pc' \notin {"abortPackager", "abortDefn", "abortPending"}
    BY <2>1 DEF AfterDump
  <2> QED BY <2>1, <2>2, <2>3, <2>4
<1>11. CASE OpenPackager
  <2>1. cur \in Backups /\ cmd = "backup" /\ cur = started /\ info.name = "set"
    BY <1>11 DEF OpenPackager, ProgressInv
  <2>2. /\ \A b \in archives' : b \in archives \/ (b = cur /\ Packager[b] = "tar")
        /\ pc' = "nextDisk"
        /\ UNCHANGED <<pend, defn, copies, cur, cmd, started, info, interrupted>>
    BY <1>11 DEF OpenPackager, memory, history
  <2>3. ~(pend[cur].st = "ok" /\ pend[cur].name = "unset")
    BY <1>11 DEF OpenPackager
  <2> QED BY <1>11, <2>1, <2>2, <2>3 DEF OpenPackager
<1>12. CASE NextDisk
  BY <1>12 DEF NextDisk, WithTarget, files, storage, loop, history
<1>13. CASE AddDisk
  <2>1. /\ cur \in Backups /\ disk \in Disks /\ cmd = "backup" /\ info.name = "set"
        /\ defn[cur].st # "absent" /\ pend[cur].name = "set"
        /\ \A d \in Disks : d < disk => copies[cur][d] = "full"
    BY <1>13 DEF AddDisk, ProgressInv, FilesInv, EarlyDefn, FrozenInv
  <2>2. /\ UNCHANGED <<pend, defn, archives, cur, cmd, started, info, interrupted, pc>>
        /\ pc = "addDisk"
        /\ \A b \in Backups : b # cur => copies'[b] = copies[b]
        /\ \A d \in Disks : copies'[cur][d] = IF d = disk THEN "partial" ELSE copies[cur][d]
    BY <1>13, <2>1 DEF AddDisk, memory, history
  <2>3. \A b \in Backups \ interrupted : Packager[b] = "directory" => NoGap(b)'
    BY <2>1, <2>2 DEF Disks
  <2>4. \A b \in Backups : b # cur /\ NoCopy(b) => NoCopy(b)'
    BY <2>2
  <2> HIDE DEF NoCopy, NoGap
  <2> QED BY <2>1, <2>2, <2>3, <2>4
<1>14. CASE AddedDisk
  <2>1. /\ cur \in Backups /\ disk \in Disks /\ cmd = "backup" /\ info.name = "set"
        /\ defn[cur].st # "absent" /\ pend[cur].name = "set"
        /\ \A d \in Disks : d < disk => copies[cur][d] = "full"
    BY <1>14 DEF AddedDisk, ProgressInv, FilesInv, EarlyDefn, FrozenInv
  <2>2. /\ UNCHANGED <<pend, defn, archives, cur, cmd, started, info, interrupted>>
        /\ pc = "addDisk" /\ pc' = "cleanDisk"
        /\ \A b \in Backups : b # cur => copies'[b] = copies[b]
        /\ \A d \in Disks : copies'[cur][d] = IF d = disk THEN "full" ELSE copies[cur][d]
    BY <1>14, <2>1 DEF AddedDisk, memory, history
  <2>3. \A b \in Backups \ interrupted : Packager[b] = "directory" => NoGap(b)'
    BY <2>1, <2>2 DEF Disks
  <2>4. \A b \in Backups : b # cur /\ NoCopy(b) => NoCopy(b)'
    BY <2>2
  <2> HIDE DEF NoCopy, NoGap
  <2> QED BY <2>1, <2>2, <2>3, <2>4
<1>15. CASE RemovePending
  BY <1>15 DEF RemovePending, Leave, storage, NoFile, WholeInv
<1>16. CASE CleanForDisk
  BY <1>16 DEF CleanForDisk, SkipDisk, PivotDisk, RemoveSnapshot, PivotTimeout, Proceed,
     Cleaning, files, storage, memory, history
<1>17. CASE CleanDone
  <2>1. UNCHANGED <<pend, defn, copies, archives, cur, cmd, started, info, interrupted>>
    BY <1>17 DEF CleanDone, files, history
  <2>2. \/ pc = "postBackup" /\ pc' = "removePending"
        \/ pc = "abortClean" /\ pc' = "abortPackager" /\ info.name = "set"
        \/ pc = "abortClean" /\ pc' = "abortDefn" /\ info.name = "unset"
    BY <1>17 DEF CleanDone, Info
  <2>3. \A d \in Disks : ~(d < disk')
    BY <1>17 DEF CleanDone, Disks
  <2>4. \A b \in Backups \ interrupted : Packager[b] = "directory" => NoGap(b)'
    BY <2>1, <2>2
  <2> QED BY <2>1, <2>2, <2>3, <2>4
<1>18. CASE AbortNotStarted
  BY <1>18 DEF AbortNotStarted, Leave, files, storage
<1>19. CASE Abort
  BY <1>19 DEF Abort, files, storage, history
<1>20. CASE RemoveCopy
  <2>1. PICK d \in Removable : /\ Packager[cur] = "directory" => \A e \in Removable : d <= e
                               /\ copies' = [copies EXCEPT ![cur][d] = "none"]
                               /\ disk' = d + 1
    BY <1>20 DEF RemoveCopy
  <2>2. /\ cur \in Backups /\ d \in Disks /\ pc = "abortPackager" /\ Packager[cur] # "tar"
        /\ Packager[cur] = "directory" => Removable = {e \in info.tgt : e >= disk}
        /\ \A e \in Disks : copies[cur][e] # "none" => e \in info.tgt
        /\ UNCHANGED <<pend, defn, archives, cur, cmd, started, info, interrupted, pc>>
    BY <1>20, <2>1 DEF RemoveCopy, Removable, RecordedInv, memory, history, Info
  <2>3. /\ \A b \in Backups : b # cur => copies'[b] = copies[b]
        /\ \A e \in Disks : copies'[cur][e] = IF e = d THEN "none" ELSE copies[cur][e]
    BY <2>1, <2>2
  <2>4. Packager[cur] = "directory" /\ cur \notin interrupted =>
          \A e \in Disks : e < disk' => copies'[cur][e] = "none"
    BY <2>1, <2>2, <2>3 DEF Disks
  <2>5. \A b \in Backups \ interrupted : Packager[b] = "directory" => NoGap(b)'
    BY <2>1, <2>2, <2>3, <2>4 DEF Disks
  <2>6. \A b \in Backups : NoCopy(b) => NoCopy(b)'
    BY <2>3
  <2> HIDE DEF NoCopy, NoGap
  <2> QED BY <2>2, <2>4, <2>5, <2>6
<1>21. CASE RemoveCancelled
  BY <1>21 DEF RemoveCancelled, Leave, files, storage
<1>22. CASE PackagerCleaned
  <2>1. /\ cur \in Backups /\ pc = "abortPackager" /\ pc' = "abortDefn"
        /\ UNCHANGED <<pend, defn, cur, cmd, started, info, interrupted>>
    BY <1>22 DEF PackagerCleaned, loop, memory, history
  <2>2. CASE Packager[cur] = "tar"
    <3>1. /\ archives' = archives \ {cur} /\ NoCopy(cur)'
          /\ \A b \in Backups : b # cur => copies'[b] = copies[b]
      BY <1>22, <2>1, <2>2 DEF PackagerCleaned
    <3>2. \A b \in Backups : NoCopy(b) => NoCopy(b)'
      BY <2>1, <3>1
    <3>3. \A b \in Backups \ interrupted : Packager[b] = "directory" => NoGap(b)'
      BY <2>1, <2>2, <3>1
    <3> HIDE DEF NoCopy, NoGap
    <3> QED BY <2>1, <2>2, <3>1, <3>2, <3>3
  <2>3. CASE Packager[cur] # "tar"
    <3>1. /\ archives' = archives /\ copies' = copies /\ cur \notin archives
          /\ \A d \in Removable : \E e \in Removable : e <= d /\ copies[cur][e] = "none"
      BY <1>22, <2>3 DEF PackagerCleaned
    <3>2. CASE Packager[cur] = "directory"
      <4>1. Removable = {d \in info.tgt : d >= disk}
        BY <3>2 DEF Removable
      <4>2. \A d \in Disks : copies[cur][d] # "none" => d \in info.tgt
        BY <2>1 DEF RecordedInv
      <4>3. cur \notin interrupted => NoCopy(cur)
        BY <2>1, <3>1, <3>2, <4>1, <4>2 DEF Disks, Info
      <4> QED BY <2>1, <3>1, <4>3
    <3>3. CASE Packager[cur] # "directory"
      <4>1. NoCopy(cur)
        BY <2>1, <3>1, <3>3 DEF Removable, Disks
      <4> QED BY <2>1, <3>1, <3>3, <4>1
    <3> QED BY <3>2, <3>3
  <2> QED BY <2>2, <2>3
<1>23. CASE AbortDefn
  BY <1>23 DEF AbortDefn, storage, loop, memory, history, NoFile
<1>24. CASE AbortPending
  BY <1>24 DEF AbortPending, Leave, storage, NoFile
<1>25. CASE NextBroken
  BY <1>25 DEF NextBroken, files, storage, history, RecordedInv
<1>26. CASE CleanEnds
  BY <1>26 DEF CleanEnds, files, storage, history
<1>27. CASE UNCHANGED vars
  BY <1>27 DEF vars, files, storage, memory, history, loop
<1> QED BY <1>1, <1>2, <1>3, <1>4, <1>5, <1>6, <1>7, <1>8, <1>9, <1>10, <1>11, <1>12,
       <1>13, <1>14, <1>15, <1>16, <1>17, <1>18, <1>19, <1>20, <1>21, <1>22, <1>23, <1>24,
       <1>25, <1>26, <1>27 DEF Next, Step

----------------------------------------------------------------------------
(* The snapshot files: each goes with its snapshot, or has been given up.  *)

SnapfileInv ==
  /\ \A b \in Backups : b > started => snapfile[b] = {}
  /\ pc = "snapshot" => overlay[cur] = {} /\ snapfile[cur] = {}
  /\ pc \in Tried \cup {"abort"} /\ helper = "ready" =>
       snapfile[cur] \subseteq gaveUp[cur] \cup metas
  /\ pc \in {"postBackup", "abortClean"} =>
       \A d \in snapfile[cur] : d \in gaveUp[cur] \/ (d \in metas /\ d >= disk)
  /\ pc \in {"removePending", "abortPackager", "abortDefn", "abortPending"} =>
       snapfile[cur] \subseteq gaveUp[cur]
\* No step leaves a snapshot file behind that it has not given up.
LEMMA StepSnapfile ==
  ASSUME TypeOK, Control, FrozenInv, ToldInv, SnapfileInv, [Next]_vars PROVE SnapfileInv'
<1> USE DEF SnapfileInv, Control, TypeOK, Tried, Aborting, PendDumps, DefnDumps
<1>1. CASE StartBackup
  BY <1>1, BackupsAssumption DEF StartBackup, files, storage, history, FrozenInv,
     Backups, ToldInv
<1>2. CASE Cancel
  BY <1>2 DEF Cancel, files, storage, memory, history
<1>3. CASE Crash
  BY <1>3 DEF Crash, Leave, files, storage
<1>4. CASE StepFails
  BY <1>4 DEF StepFails, files, storage, memory, history
<1>5. CASE AddFails
  BY <1>5 DEF AddFails, storage, memory, history
<1>6. CASE StartClean
  BY <1>6 DEF StartClean, files, storage, memory, history
<1>7. CASE TakeSnapshot
  BY <1>7 DEF TakeSnapshot, files, loop, memory, history, ToldInv
<1>8. CASE FillMetadatas
  BY <1>8 DEF FillMetadatas, files, storage, loop, history
<1>9. CASE DumpOpen
  BY <1>9 DEF DumpOpen, storage, memory
<1>10. CASE DumpWrite
  <2>1. /\ cur \in Backups /\ pc \in PendDumps \cup DefnDumps /\ pc' = AfterDump[pc]
        /\ disk' = IF pc = "dumpDefn" THEN 1 ELSE disk
        /\ UNCHANGED <<storage, cur, started, helper, metas, history>>
    BY <1>10, DumpWriteEffect
  <2>2. /\ pc' \in {"dumpEarlyDefn", "dumpNamed", "openPackager", "addDisk", "postBackup"}
        /\ pc' = "postBackup" => disk' = 1
    BY <2>1 DEF AfterDump
  <2>3. helper = "ready"
    BY <2>1 DEF ToldInv
  <2>4. \A d \in Disks : d >= 1
    BY DEF Disks
  <2> QED BY <2>1, <2>2, <2>3, <2>4 DEF storage, history
<1>11. CASE OpenPackager
  BY <1>11 DEF OpenPackager, storage, memory, history
<1>12. CASE NextDisk
  BY <1>12 DEF NextDisk, WithTarget, files, storage, loop, history
<1>13. CASE AddDisk
  BY <1>13 DEF AddDisk, storage, memory, history
<1>14. CASE AddedDisk
  BY <1>14 DEF AddedDisk, storage, memory, history
<1>15. CASE RemovePending
  BY <1>15 DEF RemovePending, Leave, storage
<1>16. CASE CleanForDisk
  <2> PICK d \in Disks : SkipDisk(d) \/ PivotDisk(d) \/ RemoveSnapshot(d) \/ PivotTimeout(d)
    BY <1>16 DEF CleanForDisk
  <2>1. d \in metas /\ d >= disk /\ \A e \in metas : e >= disk => d <= e
    BY DEF SkipDisk, PivotDisk, RemoveSnapshot, PivotTimeout, Turn
  <2>2. pc \in Cleaning /\ cur \in Backups /\ UNCHANGED <<cur, started, helper>>
    BY DEF SkipDisk, PivotDisk, RemoveSnapshot, PivotTimeout, Cleaning, memory
  <2>3. CASE PivotDisk(d)
    BY <2>2, <2>3 DEF PivotDisk, memory, history, Cleaning
  <2>4. CASE ~PivotDisk(d)
    <3>1. pc' \in {pc, "nextDisk"} /\ disk' = d + 1 /\ (pc' # pc => pc = "cleanDisk")
      BY <2>4 DEF SkipDisk, RemoveSnapshot, PivotTimeout, Proceed
    <3>2. /\ \A b \in Backups : snapfile'[b] \subseteq snapfile[b] /\ gaveUp[b] \subseteq gaveUp'[b]
          /\ d \in snapfile'[cur] => d \in gaveUp'[cur]
          /\ metas \ {d} \subseteq metas'
      BY <2>2, <2>4 DEF SkipDisk, RemoveSnapshot, PivotTimeout, storage, memory, history
    <3>3. \A e \in metas : e >= disk /\ e # d => e >= disk'
      BY <2>1, <3>1 DEF Disks
    <3> QED BY <2>2, <3>1, <3>2, <3>3 DEF Cleaning
  <2> QED BY <2>3, <2>4
<1>17. CASE CleanDone
  <2>1. snapfile[cur] \subseteq gaveUp[cur]
    <3>1. \A d \in metas : ~(d >= disk)
      BY <1>17 DEF CleanDone, Disks
    <3> QED BY <1>17, <3>1 DEF CleanDone
  <2> QED BY <1>17, <2>1 DEF CleanDone, files, storage, history
<1>18. CASE AbortNotStarted
  BY <1>18 DEF AbortNotStarted, Leave, files, storage
<1>19. CASE Abort
  <2>1. \A d \in snapfile[cur] : d \in gaveUp[cur] \/ d \in metas'
    BY <1>19 DEF Abort
  <2>2. \A d \in snapfile[cur] : d >= disk'
    BY <1>19 DEF Abort, Disks
  <2> QED BY <1>19, <2>1, <2>2 DEF Abort, files, storage, history
<1>20. CASE RemoveCopy
  BY <1>20 DEF RemoveCopy, storage, memory, history
<1>21. CASE RemoveCancelled
  BY <1>21 DEF RemoveCancelled, Leave, files, storage
<1>22. CASE PackagerCleaned
  BY <1>22 DEF PackagerCleaned, storage, loop, memory, history
<1>23. CASE AbortDefn
  BY <1>23 DEF AbortDefn, storage, loop, memory, history
<1>24. CASE AbortPending
  BY <1>24 DEF AbortPending, Leave, storage
<1>25. CASE NextBroken
  BY <1>25 DEF NextBroken, files, storage, history
<1>26. CASE CleanEnds
  BY <1>26 DEF CleanEnds, files, storage, history
<1>27. CASE UNCHANGED vars
  BY <1>27 DEF vars, files, storage, memory, history, loop
<1> QED BY <1>1, <1>2, <1>3, <1>4, <1>5, <1>6, <1>7, <1>8, <1>9, <1>10, <1>11, <1>12,
       <1>13, <1>14, <1>15, <1>16, <1>17, <1>18, <1>19, <1>20, <1>21, <1>22, <1>23, <1>24,
       <1>25, <1>26, <1>27 DEF Next, Step

----------------------------------------------------------------------------
(* The invariants together.                                                *)

RemainsInv ==
  /\ TypeOK /\ Control /\ FrozenInv /\ RecordedInv /\ ToldInv /\ ProgressInv /\ WholeInv
  /\ FilesInv /\ CopiesInv /\ SnapfileInv

LEMMA InitRemains == Init => RemainsInv
<1> SUFFICES ASSUME Init PROVE RemainsInv
  OBVIOUS
<1>1. TypeOK /\ Control
  BY InitType
<1>2. FrozenInv /\ ProgressInv
  BY <1>1 DEF Init, FrozenInv, ProgressInv, Copying, Copied
<1>3. RecordedInv
  BY <1>1 DEF Init, RecordedInv, CopiesRecorded, Aborting, NoFile
<1>4. ToldInv
  BY <1>1 DEF Init, ToldInv, Told, Tried, PendDumps, DefnDumps, Cleaning
<1>5. WholeInv
  BY DEF Init, WholeInv, Tried, Aborting, PendDumps, DefnDumps, NoFile
<1>6. FilesInv
  BY DEF Init, FilesInv, Undumped, Unpacked, Copying, NoFile
<1>7. CopiesInv
  BY <1>1 DEF Init, CopiesInv, NoCopy, NoGap, Undumped, Unpacked, Copying, Aborting, NoFile
<1>8. SnapfileInv
  BY <1>1 DEF Init, SnapfileInv, Tried, PendDumps, DefnDumps
<1> QED BY <1>1, <1>2, <1>3, <1>4, <1>5, <1>6, <1>7, <1>8 DEF RemainsInv

LEMMA StepRemains == RemainsInv /\ [Next]_vars => RemainsInv'
<1> SUFFICES ASSUME RemainsInv, [Next]_vars PROVE RemainsInv'
  OBVIOUS
<1> QED
  BY StepType, StepControl, StepFrozen, StepRecorded, StepTold, StepProgress, StepWhole,
     StepFiles, StepCopies, StepSnapfile DEF RemainsInv

\* PendingRemovedLast holds in every reachable state: clean_aborted() comes to the
\* pending file only when copies, archive, definition and snapshots are gone, but
\* for what it gave up or an earlier cleaning that died made it lose track of.
THEOREM RemovedLast == Spec => []PendingRemovedLast
<1>1. RemainsInv => PendingRemovedLast
  <2> SUFFICES ASSUME RemainsInv, pc = "abortPending", sameID PROVE PendingRemovedLast
    BY DEF PendingRemovedLast
  <2>1. defn[cur].st = "absent" /\ cur \notin archives /\ (cur \in interrupted \/ NoCopy(cur))
    BY DEF RemainsInv, WholeInv, CopiesInv
  <2>2. overlay[cur] \cup snapfile[cur] \subseteq gaveUp[cur]
    BY DEF RemainsInv, ToldInv, SnapfileInv
  <2> QED BY <2>1, <2>2 DEF PendingRemovedLast, NoCopy
<1> QED
  BY <1>1, InitRemains, StepRemains, PTL DEF Spec

\* LeavesAsAssumed holds in every reachable state: a backup no command works on is
\* complete, gone without a trace, or one of those the clean command starts from.
THEOREM LeftAsAssumed == Spec => []LeavesAsAssumed
<1>1. RemainsInv => LeavesAsAssumed
  <2> SUFFICES ASSUME RemainsInv, NEW b \in opened \ (interrupted \cup {cur})
               PROVE  RemainsOf(b) \in Left \cup
                        {Complete, [pend |-> "absent", defn |-> "absent", data |-> "none"]}
    BY DEF LeavesAsAssumed
  <2> DEFINE r == RemainsOf(b)
             made == {copies[b][d] : d \in Disks}
  <2>1. b \in Backups /\ pend[b] \in File /\ defn[b] \in File /\ 1 \in Disks
    BY DisksAssumption DEF RemainsInv, TypeOK, Disks
  <2>2. /\ r.pend = pend[b].st
        /\ r.defn = IF defn[b].st # "ok" THEN defn[b].st
                    ELSE IF defn[b].tgt = {} THEN "early" ELSE "final"
        /\ r.data = IF made = {"full"} THEN "whole" ELSE IF made = {"none"} THEN "none" ELSE "partial"
        /\ r = [pend |-> r.pend, defn |-> r.defn, data |-> r.data]
    BY DEF RemainsOf
  <2>3. r \in Remains
    BY <2>1, <2>2 DEF Remains, File
  <2>4. r.defn = "absent" => r.data = "none"
    <3>1. defn[b].st = "absent" => made = {"none"}
      BY <2>1 DEF RemainsInv, CopiesInv, NoCopy
    <3> QED BY <2>2, <3>1
  <2>5. r.pend = "torn" => r.defn \in {"absent", "early"}
    BY <2>1, <2>2 DEF RemainsInv, FilesInv, EarlyDefn
  <2>6. r.pend = "absent" /\ r.defn # "absent" => r = Complete
    <3> SUFFICES ASSUME pend[b].st = "absent", defn[b].st # "absent" PROVE r = Complete
      BY <2>1, <2>2 DEF Complete
    <3>1. Whole(b)
      BY <2>1 DEF RemainsInv, WholeInv
    <3>2. made = {"full"} /\ defn[b].st = "ok" /\ defn[b].tgt # {}
      BY <2>1, <3>1 DEF Whole
    <3> QED BY <2>2, <3>2 DEF Complete
  <2>7. r.pend = "absent" /\ r.defn = "absent" =>
          r = [pend |-> "absent", defn |-> "absent", data |-> "none"]
    BY <2>2, <2>4
  <2> QED BY <2>3, <2>4, <2>5, <2>6, <2>7 DEF Left
<1> QED
  BY <1>1, InitRemains, StepRemains, PTL DEF Spec

----------------------------------------------------------------------------
(* The refinements.                                                        *)

\* What a step does to the snapshots.
LEMMA StepSnapshots ==
  ASSUME RemainsInv, [Next]_vars
  PROVE  [Chain!Next]_<<overlay, snapfile>>
<1> USE DEF RemainsInv, Control, TypeOK, Tried
<1>1. CASE TakeSnapshot
  <2>1. Chain!Take(cur)
    <3>1. cur \in Backups /\ cur = started
      BY <1>1 DEF TakeSnapshot
    <3> QED BY <1>1, <3>1 DEF TakeSnapshot, Chain!Take, SnapfileInv, FrozenInv
  <2> QED BY <1>1, <2>1 DEF Chain!Next, TakeSnapshot
<1>2. CASE CleanForDisk
  <2> PICK d \in Disks : SkipDisk(d) \/ PivotDisk(d) \/ RemoveSnapshot(d) \/ PivotTimeout(d)
    BY <1>2 DEF CleanForDisk
  <2>1. cur \in Backups
    BY DEF SkipDisk, PivotDisk, RemoveSnapshot, PivotTimeout, Cleaning, Aborting
  <2>2. CASE SkipDisk(d) \/ PivotTimeout(d)
    BY <2>2 DEF SkipDisk, PivotTimeout, storage
  <2>3. CASE PivotDisk(d)
    <3>1. Chain!Merge(cur, d)
      BY <2>1, <2>3 DEF PivotDisk, IsTop, Chain!Merge
    <3> QED BY <2>1, <3>1 DEF Chain!Next
  <2>4. CASE RemoveSnapshot(d)
    <3>1. d \notin overlay[cur] /\ overlay' = overlay
      BY <2>4 DEF RemoveSnapshot, ToldInv
    <3>2. CASE d \in snapfile[cur]
      <4>1. Chain!Unlink(cur, d)
        BY <2>1, <2>4, <3>1, <3>2 DEF RemoveSnapshot, Chain!Unlink
      <4> QED BY <2>1, <4>1 DEF Chain!Next
    <3>3. CASE d \notin snapfile[cur]
      <4>1. snapfile[cur] \ {d} = snapfile[cur]
        BY <3>3
      <4> QED BY <2>1, <2>4, <3>1, <4>1 DEF RemoveSnapshot
    <3> QED BY <3>2, <3>3
  <2> QED BY <2>2, <2>3, <2>4
<1>3. CASE ~(TakeSnapshot \/ CleanForDisk)
  <2>1. UNCHANGED <<overlay, snapfile>>
    BY <1>3 DEF Next, Step, vars, storage, Leave, StartBackup, Cancel, Crash, StepFails, AddFails,
       StartClean, FillMetadatas, DumpOpen, DumpWrite, OpenPackager, NextDisk, AddDisk,
       AddedDisk, RemovePending, CleanDone, AbortNotStarted, Abort, RemoveCopy,
       RemoveCancelled, PackagerCleaned, AbortDefn, AbortPending, NextBroken, CleanEnds
  <2> QED BY <2>1
<1> QED BY <1>1, <1>2, <1>3

\* Spec implements BackingChain: whatever crashes, snapshots are taken for all
\* disks at once, on top, merged from the top, and lose their files after that.
THEOREM ChainImplemented == Spec => ImplementsChain
<1>1. Init => Chain!Init
  BY DEF Init, Chain!Init
<1>2. RemainsInv /\ [Next]_vars => [Chain!Next]_<<overlay, snapfile>>
  BY StepSnapshots
<1> QED
  BY <1>1, <1>2, InitRemains, StepRemains, PTL DEF Spec, ImplementsChain, Chain!Spec

----------------------------------------------------------------------------
(* What a reader of the directory sees of a step.                          *)

Status == [b \in Backups |-> StatusOf(b)]
Stored == [b \in Backups |-> {d \in Disks : copies[b][d] = "full"}]

\* A step that changes copies of a backup whose pending file is there stores.
LEMMA StoreStep ==
  ASSUME TypeOK, cur \in Backups, pend[cur].st # "absent", UNCHANGED <<pend, defn, opened>>,
         \A b \in Backups : b # cur => copies'[b] = copies[b]
  PROVE  Lifecycle!Next
<1> DEFINE ds == {d \in Disks : copies'[cur][d] = "full"}
<1>1. Status[cur] = "begun" /\ Status' = Status
  BY DEF Status, StatusOf
<1>2. Stored' = [Stored EXCEPT ![cur] = ds]
  BY DEF Stored
<1>3. ds \in SUBSET Disks
  OBVIOUS
<1>4. PICK b \in Backups : b = cur
  OBVIOUS
<1>5. Lifecycle!Store(b)
  BY <1>1, <1>2, <1>3, <1>4 DEF Lifecycle!Store, Status, Stored
<1> QED BY <1>5 DEF Lifecycle!Next

\* One step of a backup's life, or none.
LEMMA StepLife ==
  ASSUME RemainsInv, [Next]_vars
  PROVE  [Lifecycle!Next]_<<Status, Stored>>
<1> USE DEF RemainsInv, Control, TypeOK, Tried, Aborting
<1>1. CASE DumpOpen
  <2>1. /\ cur \in Backups /\ Stored' = Stored
        /\ \A b \in Backups : b # cur => StatusOf(b)' = StatusOf(b)
    BY <1>1, DumpOpenEffect DEF StatusOf, Stored
  <2>2. StatusOf(cur)' = "begun" /\ cur' = cur
    BY <1>1, DumpOpenEffect DEF StatusOf, WholeInv, DefnDumps
  <2>3. CASE pend[cur].st # "absent"
    <3>1. Status' = Status
      BY <2>1, <2>2, <2>3 DEF Status, StatusOf
    <3> QED BY <2>1, <3>1
  <2>4. CASE pend[cur].st = "absent"
    <3>1. StatusOf(cur) = "none"
      BY <1>1, <2>4, DumpOpenEffect DEF StatusOf, WholeInv, FilesInv, Undumped, PendDumps,
         DefnDumps
    <3>2. Status' = [Status EXCEPT ![cur] = "begun"]
      BY <2>1, <2>2 DEF Status
    <3>3. Lifecycle!Begin(cur)
      BY <2>1, <3>1, <3>2 DEF Lifecycle!Begin, Status, Stored
    <3> QED BY <2>1, <3>3 DEF Lifecycle!Next
  <2> QED BY <2>3, <2>4
<1>2. CASE DumpWrite
  <2>1. /\ cur \in Backups /\ Stored' = Stored /\ pend[cur].st # "absent" /\ pend'[cur].st # "absent"
        /\ \A b \in Backups : b # cur => StatusOf(b)' = StatusOf(b)
    BY <1>2, DumpWriteEffect DEF StatusOf, Stored, WholeInv, DumpWrite, PendDumps, DefnDumps,
       history
  <2>2. Status' = Status
    BY <2>1 DEF Status, StatusOf
  <2> QED BY <2>1, <2>2
<1>3. CASE AddDisk \/ AddedDisk \/ AddFails
  <2>1. /\ cur \in Backups /\ pend[cur].st # "absent" /\ UNCHANGED <<pend, defn, opened>>
        /\ \A b \in Backups : b # cur => copies'[b] = copies[b]
    BY <1>3 DEF AddDisk, AddedDisk, AddFails, WholeInv, history
  <2>2. Lifecycle!Next
    <3> HIDE DEF TypeOK
    <3>1. TypeOK
      BY DEF RemainsInv
    <3> QED BY ONLY <3>1, <2>1, StoreStep
  <2> QED BY <2>2
<1>4. CASE RemoveCopy \/ PackagerCleaned
  <2>1. /\ cur \in Backups /\ UNCHANGED <<pend, defn, opened>> /\ pc = "abortPackager"
        /\ \A b \in Backups : b # cur => copies'[b] = copies[b]
    BY <1>4 DEF RemoveCopy, PackagerCleaned, history
  <2>2. CASE info.name = "set"
    <3>1. pend[cur].st # "absent"
      BY <2>1, <2>2 DEF FilesInv
    <3>2. Lifecycle!Next
      <4> HIDE DEF TypeOK
      <4>1. TypeOK
        BY DEF RemainsInv
      <4> QED BY ONLY <4>1, <2>1, <3>1, StoreStep
    <3> QED BY <3>2
  <2>3. CASE info.name # "set"
    <3>1. \A d \in Disks : copies[cur][d] = "none" /\ copies'[cur][d] = "none"
      BY <1>4, <2>1, <2>3 DEF CopiesInv, NoCopy, Info, RemoveCopy, PackagerCleaned
    <3>2. Status' = Status /\ Stored' = Stored
      BY <2>1, <3>1 DEF Status, StatusOf, Stored
    <3> QED BY <3>2
  <2> QED BY <2>2, <2>3
<1>5. CASE RemovePending
  <2>1. /\ cur \in Backups /\ pend[cur].st # "absent" /\ Whole(cur) /\ pend'[cur].st = "absent"
        /\ \A b \in Backups : b # cur => pend'[b] = pend[b]
        /\ UNCHANGED <<defn, copies, opened>>
    BY <1>5 DEF RemovePending, WholeInv, Leave, NoFile
  <2>2. StatusOf(cur) = "begun" /\ Stored' = Stored /\ Stored[cur] = Disks
    BY <2>1 DEF StatusOf, Stored, Whole
  <2>3. Status' = [Status EXCEPT ![cur] = "complete"]
    <3>1. \A b \in Backups : Status'[b] = IF b = cur THEN "complete" ELSE Status[b]
      BY <2>1 DEF Status, StatusOf, Whole
    <3> QED BY <3>1 DEF Status
  <2>4. Lifecycle!Complete(cur)
    BY <2>1, <2>2, <2>3 DEF Lifecycle!Complete, Status, Stored
  <2> QED BY <2>1, <2>4 DEF Lifecycle!Next
<1>6. CASE AbortDefn
  <2>1. /\ cur \in Backups /\ UNCHANGED <<pend, copies, opened>>
        /\ \A b \in Backups : b # cur => defn'[b] = defn[b]
        /\ defn[cur].st = "absent" => defn'[cur].st = "absent"
        /\ pend[cur].st = "absent" => defn[cur].st = "absent"
    BY <1>6 DEF AbortDefn, WholeInv, history, NoFile
  <2>2. Status' = Status /\ Stored' = Stored
    BY <2>1 DEF Status, StatusOf, Stored
  <2> QED BY <2>2
<1>7. CASE AbortPending
  <2>1. /\ cur \in Backups /\ UNCHANGED <<defn, copies, opened>> /\ Stored' = Stored
        /\ pend' = IF sameID THEN [pend EXCEPT ![cur] = NoFile] ELSE pend
    BY <1>7 DEF AbortPending, Leave, Stored
  <2>2. CASE pend' = pend
    <3>1. Status' = Status
      BY <2>1, <2>2 DEF Status, StatusOf
    <3> QED BY <2>1, <3>1
  <2>3. CASE sameID /\ pend[cur].st # "absent"
    <3>1. defn[cur].st = "absent" /\ cur \in opened
      BY <1>7, <2>1, <2>3 DEF AbortPending, WholeInv, FilesInv
    <3>2. /\ pend'[cur].st = "absent"
          /\ \A b \in Backups : b # cur => pend'[b] = pend[b]
      BY <2>1, <2>3 DEF NoFile
    <3>3. StatusOf(cur) = "begun" /\ Status' = [Status EXCEPT ![cur] = "dropped"]
      <4>1. \A b \in Backups : Status'[b] = IF b = cur THEN "dropped" ELSE Status[b]
        BY <2>1, <3>1, <3>2 DEF Status, StatusOf
      <4>2. StatusOf(cur) = "begun"
        BY <2>3 DEF StatusOf
      <4> QED BY <4>1, <4>2 DEF Status
    <3>4. Lifecycle!Drop(cur)
      BY <2>1, <3>3 DEF Lifecycle!Drop, Status, Stored
    <3> QED BY <2>1, <3>4 DEF Lifecycle!Next
  <2>4. CASE sameID /\ pend[cur].st = "absent"
    <3>1. \A b \in Backups : pend'[b].st = pend[b].st
      BY <2>1, <2>4 DEF NoFile
    <3>2. Status' = Status
      BY <2>1, <3>1 DEF Status, StatusOf
    <3> QED BY <2>1, <3>2
  <2> QED BY <2>1, <2>2, <2>3, <2>4
<1>8. CASE ~(\/ DumpOpen \/ DumpWrite \/ AddDisk \/ AddedDisk \/ AddFails \/ RemoveCopy
             \/ PackagerCleaned \/ RemovePending \/ AbortDefn \/ AbortPending)
  <2>1. UNCHANGED <<pend, defn, copies, opened>>
    BY <1>8 DEF Next, Step, vars, files, history, Leave, StartBackup, Cancel, Crash, StepFails,
       StartClean, TakeSnapshot, FillMetadatas, OpenPackager, NextDisk, CleanForDisk, SkipDisk,
       PivotDisk, RemoveSnapshot, PivotTimeout, CleanDone, AbortNotStarted, Abort,
       RemoveCancelled, NextBroken, CleanEnds
  <2>2. Status' = Status /\ Stored' = Stored
    BY <2>1 DEF Status, StatusOf, Stored
  <2> QED BY <2>2
<1> QED BY <1>1, <1>2, <1>3, <1>4, <1>5, <1>6, <1>7, <1>8

\* Spec implements BackupLifecycle: whatever crashes, a backup is complete from one
\* step on, with every disk, and no step undoes that or completes a dropped one.
THEOREM LifecycleImplemented == Spec => ImplementsLifecycle
<1>1. Init => Lifecycle!Init
  <2> SUFFICES ASSUME Init PROVE Lifecycle!Init
    OBVIOUS
  <2>1. Status = [b \in Backups |-> "none"] /\ Stored = [b \in Backups |-> {}]
    BY DEF Init, Status, StatusOf, Stored, NoFile
  <2> QED BY <2>1 DEF Lifecycle!Init, Status, Stored
<1>2. RemainsInv /\ [Next]_vars => [Lifecycle!Next]_<<Status, Stored>>
  BY StepLife
<1> QED
  BY <1>1, <1>2, InitRemains, StepRemains, PTL
  DEF Spec, ImplementsLifecycle, Lifecycle!Spec, Status, Stored
=============================================================================
