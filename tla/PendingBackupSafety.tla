------------------------ MODULE PendingBackupSafety ------------------------
(***************************************************************************)
(* The safety invariants of PendingBackup that TLAPS proves: what is being *)
(* copied is frozen, what has been copied is recorded, a snapshot left     *)
(* behind has a pending file, and what looks complete is.                  *)
(***************************************************************************)
EXTENDS PendingBackupProofs

(* The disks that are still to copy run on the snapshot of the backup.     *)

FrozenInv ==
  /\ \A b \in Backups : b > started => overlay[b] = {}
  /\ pc \in {"metadatas", "dumpPending", "dumpEarlyDefn", "dumpNamed", "openPackager"} =>
       overlay[cur] = Disks
  /\ pc \in {"dumpPending", "dumpEarlyDefn", "dumpNamed", "openPackager"} => metas = Disks
  /\ pc \in {"nextDisk", "dumpTarget", "addDisk"} =>
       \A d \in Disks : d >= disk => d \in metas /\ d \in overlay[cur]
  /\ pc = "cleanDisk" => /\ disk \in metas
                         /\ \A d \in Disks : d > disk => d \in metas /\ d \in overlay[cur]
  /\ pc \in {"dumpTarget", "addDisk"} => disk \in Disks

\* No step merges a disk that is still to copy, or puts a snapshot over it.
LEMMA StepFrozen ==
  ASSUME TypeOK, Control, FrozenInv, [Next]_vars PROVE FrozenInv'
<1> USE DEF FrozenInv, Control, TypeOK, Tried, Aborting, PendDumps, DefnDumps
<1>1. CASE StartBackup
  BY <1>1, BackupsAssumption DEF StartBackup, Backups, files, storage, history
<1>2. CASE Cancel
  BY <1>2 DEF Cancel, files, storage, memory, history
<1>3. CASE Crash
  BY <1>3 DEF Crash, Leave, files, storage
<1>4. CASE StepFails
  BY <1>4 DEF StepFails, files, storage, memory, history
<1>5. CASE AddFails
  BY <1>5 DEF AddFails, storage, memory, history
<1>6. CASE StartClean
  BY <1>6 DEF StartClean, files, storage, memory, history
<1>7. CASE TakeSnapshot
  BY <1>7 DEF TakeSnapshot, files, loop, memory, history
<1>8. CASE FillMetadatas
  BY <1>8 DEF FillMetadatas, files, storage, loop, history
<1>9. CASE DumpOpen
  BY <1>9 DEF DumpOpen, storage, memory
<1>10. CASE DumpWrite
  BY <1>10 DEF DumpWrite, AfterDump, storage, history
<1>11. CASE OpenPackager
  BY <1>11 DEF OpenPackager, storage, memory, history
<1>12. CASE NextDisk
  BY <1>12, DisksAssumption DEF NextDisk, Disks, WithTarget, files, storage, loop, history
<1>13. CASE AddDisk
  BY <1>13 DEF AddDisk, storage, memory, history
<1>14. CASE AddedDisk
  BY <1>14, DisksAssumption DEF AddedDisk, Disks, storage, memory, history
<1>15. CASE RemovePending
  BY <1>15 DEF RemovePending, Leave, storage
<1>16. CASE CleanForDisk
  <2> PICK d \in Disks : SkipDisk(d) \/ PivotDisk(d) \/ RemoveSnapshot(d) \/ PivotTimeout(d)
    BY <1>16 DEF CleanForDisk
  <2>1. \A b \in Backups : b > started' => overlay'[b] = {}
    BY DEF SkipDisk, PivotDisk, RemoveSnapshot, PivotTimeout, files, storage
  <2>2. pc = "cleanDisk" => d = disk
    BY DisksAssumption DEF SkipDisk, PivotDisk, RemoveSnapshot, PivotTimeout, Turn, Disks
  <2>3. CASE pc # "cleanDisk"
    BY <2>1, <2>3 DEF SkipDisk, PivotDisk, RemoveSnapshot, PivotTimeout, Proceed, Cleaning
  <2>4. CASE pc = "cleanDisk" /\ PivotDisk(d)
    BY <2>1, <2>2, <2>4 DEF PivotDisk, Disks, memory
  <2>5. CASE pc = "cleanDisk" /\ ~PivotDisk(d)
    <3>1. pc' = "nextDisk" /\ disk' = disk + 1 /\ overlay' = overlay /\ cur' = cur
      BY <2>2, <2>5 DEF SkipDisk, RemoveSnapshot, PivotTimeout, Proceed, storage
    <3>2. metas \ {disk} \subseteq metas'
      BY <2>2, <2>5 DEF SkipDisk, RemoveSnapshot, PivotTimeout, memory
    <3> QED BY <2>1, <2>5, <3>1, <3>2 DEF Disks
  <2> QED BY <2>3, <2>4, <2>5
<1>17. CASE CleanDone
  BY <1>17 DEF CleanDone, files, storage, history
<1>18. CASE AbortNotStarted
  BY <1>18 DEF AbortNotStarted, Leave, files, storage
<1>19. CASE Abort
  BY <1>19 DEF Abort, files, storage, history
<1>20. CASE RemoveCopy
  BY <1>20 DEF RemoveCopy, storage, memory, history
<1>21. CASE RemoveCancelled
  BY <1>21 DEF RemoveCancelled, Leave, files, storage
<1>22. CASE PackagerCleaned
  BY <1>22 DEF PackagerCleaned, storage, loop, memory, history
<1>23. CASE AbortDefn
  BY <1>23 DEF AbortDefn, storage, loop, memory, history
<1>24. CASE AbortPending
  BY <1>24 DEF AbortPending, Leave, storage
<1>25. CASE NextBroken
  BY <1>25 DEF NextBroken, files, storage, history
<1>26. CASE CleanEnds
  BY <1>26 DEF CleanEnds, files, storage, history
<1>27. CASE UNCHANGED vars
  BY <1>27 DEF vars, files, storage, memory, history, loop
<1> QED
  BY <1>1, <1>2, <1>3, <1>4, <1>5, <1>6, <1>7, <1>8, <1>9, <1>10, <1>11, <1>12, <1>13,
     <1>14, <1>15, <1>16, <1>17, <1>18, <1>19, <1>20, <1>21, <1>22, <1>23, <1>24,
     <1>25, <1>26, <1>27 DEF Next, Step

\* FrozenWhileCopied holds in every reachable state: a disk is read only while it
\* runs on the snapshot of the backup that reads it, with no snapshot above.
THEOREM Frozen == Spec => []FrozenWhileCopied
<1>1. Init => TypeOK /\ Control /\ FrozenInv
  BY InitType DEF Init, FrozenInv
<1>2. TypeOK /\ Control /\ FrozenInv /\ [Next]_vars => (TypeOK /\ Control /\ FrozenInv)'
  BY StepType, StepControl, StepFrozen
<1>3. TypeOK /\ Control /\ FrozenInv => FrozenWhileCopied
  BY BackupsAssumption DEF TypeOK, Control, Tried, FrozenInv, FrozenWhileCopied, IsTop, Backups
<1> QED
  BY <1>1, <1>2, <1>3, PTL DEF Spec

----------------------------------------------------------------------------
(* A copy is recorded, in memory and in the pending file, before it exists. *)

RecordedInv ==
  /\ CopiesRecorded
  /\ \A b \in Backups : b > started => \A d \in Disks : copies[b][d] = "none"
  /\ \A b \in todo : pend[b].st = "ok"
  /\ cmd # "clean" => todo = {}
  /\ cur \notin todo
  /\ cmd = "backup" \/ pc \in Aborting =>
       \A d \in Disks : copies[cur][d] # "none" => d \in info.tgt
  /\ pc = "dumpTarget" => disk \in info.tgt
  /\ pc = "addDisk" => disk \in pend[cur].tgt /\ disk \in info.tgt

\* No step makes a copy that is not recorded, or forgets one that exists.
LEMMA StepRecorded ==
  ASSUME TypeOK, Control, RecordedInv, [Next]_vars PROVE RecordedInv'
<1> USE DEF RecordedInv, CopiesRecorded, Control, Tried, Aborting, PendDumps, DefnDumps, TypeOK
<1>1. CASE StartBackup
  BY <1>1, BackupsAssumption DEF StartBackup, Backups, files, storage, history
<1>2. CASE Cancel
  BY <1>2 DEF Cancel, files, storage, memory, history
<1>3. CASE Crash
  BY <1>3 DEF Crash, Leave, files, storage
<1>4. CASE StepFails
  BY <1>4 DEF StepFails, files, storage, memory, history
<1>5. CASE AddFails
  BY <1>5 DEF AddFails, storage, memory, history
<1>6. CASE StartClean
  BY <1>6, BackupsAssumption DEF StartClean, Backups, files, storage, memory, history
<1>7. CASE TakeSnapshot
  BY <1>7 DEF TakeSnapshot, files, loop, memory, history
<1>8. CASE FillMetadatas
  BY <1>8 DEF FillMetadatas, files, storage, loop, history
<1>9. CASE DumpOpen
  <2>1. cur \in Backups /\ pc # "addDisk" /\ cmd = "backup"
    BY <1>9 DEF DumpOpen
  <2>2. \A b \in Backups : pend'[b] = pend[b] \/ pend'[b].st = "torn"
    BY <1>9, <2>1 DEF DumpOpen, TornFile
  <2> QED BY <1>9, <2>1, <2>2 DEF DumpOpen, storage, memory
<1>10. CASE DumpWrite
  <2>1. pc \in PendDumps => pend' = [pend EXCEPT ![cur] = [st |-> "ok", name |-> info.name, tgt |-> info.tgt]]
    BY <1>10 DEF DumpWrite
  <2>2. pc \notin PendDumps => pend' = pend
    BY <1>10 DEF DumpWrite
  <2>3. /\ \A b \in Backups : b # cur => pend'[b] = pend[b]
        /\ pc \in PendDumps => pend'[cur].tgt = info.tgt
    BY <1>10, <2>1, <2>2
  <2>4. info'.tgt = info.tgt
    BY <1>10 DEF DumpWrite
  <2>5. pc # "dumpDefn" => disk' = disk
    BY <1>10 DEF DumpWrite
  <2>6. pc \in PendDumps \cup DefnDumps /\ cmd = "backup" /\ cur \in Backups /\ todo = {}
    BY <1>10 DEF DumpWrite
  <2>7. UNCHANGED <<copies, todo, cur, cmd, started>>
    BY <1>10 DEF DumpWrite
  <2>8. CopiesRecorded'
    BY <2>2, <2>3, <2>6, <2>7
  <2>9. pc' = AfterDump[pc]
    BY <1>10 DEF DumpWrite
  <2> QED BY <2>2, <2>3, <2>4, <2>5, <2>6, <2>7, <2>8, <2>9 DEF AfterDump
<1>11. CASE OpenPackager
  BY <1>11 DEF OpenPackager, storage, memory, history
<1>12. CASE NextDisk
  BY <1>12 DEF NextDisk, WithTarget, files, storage, loop, history
<1>13. CASE AddDisk
  BY <1>13 DEF AddDisk, storage, memory, history
<1>14. CASE AddedDisk
  BY <1>14 DEF AddedDisk, storage, memory, history
<1>15. CASE RemovePending
  <2>1. \A b \in Backups : pend'[b] = pend[b] \/ pend'[b].st = "absent"
    BY <1>15 DEF RemovePending, NoFile
  <2> QED BY <1>15, <2>1 DEF RemovePending, Leave, storage
<1>16. CASE CleanForDisk
  BY <1>16 DEF CleanForDisk, SkipDisk, PivotDisk, RemoveSnapshot, PivotTimeout, Proceed, Turn,
     Cleaning, files, storage, memory, history
<1>17. CASE CleanDone
  BY <1>17 DEF CleanDone, files, storage, history
<1>18. CASE AbortNotStarted
  BY <1>18 DEF AbortNotStarted, Leave, files, storage
<1>19. CASE Abort
  BY <1>19 DEF Abort, files, storage, history
<1>20. CASE RemoveCopy
  BY <1>20 DEF RemoveCopy, storage, memory, history
<1>21. CASE RemoveCancelled
  BY <1>21 DEF RemoveCancelled, Leave, files, storage
<1>22. CASE PackagerCleaned
  <2>1. \A b \in Backups, d \in Disks : copies'[b][d] = copies[b][d] \/ copies'[b][d] = "none"
    BY <1>22 DEF PackagerCleaned
  <2> QED BY <1>22, <2>1 DEF PackagerCleaned, storage, loop, memory, history
<1>23. CASE AbortDefn
  BY <1>23 DEF AbortDefn, storage, loop, memory, history
<1>24. CASE AbortPending
  <2>1. \A b \in Backups : pend'[b] = pend[b] \/ pend'[b].st = "absent"
    BY <1>24 DEF AbortPending, NoFile
  <2>2. CASE cmd = "backup"
    BY <1>24, <2>1, <2>2 DEF AbortPending, Leave, storage
  <2>3. CASE cmd # "backup"
    BY <1>24, <2>1, <2>3 DEF AbortPending, storage
  <2> QED BY <2>2, <2>3
<1>25. CASE NextBroken
  BY <1>25 DEF NextBroken, files, storage, history
<1>26. CASE CleanEnds
  BY <1>26 DEF CleanEnds, files, storage, history
<1>27. CASE UNCHANGED vars
  BY <1>27 DEF vars, files, storage, memory, history, loop
<1> QED
  BY <1>1, <1>2, <1>3, <1>4, <1>5, <1>6, <1>7, <1>8, <1>9, <1>10, <1>11, <1>12, <1>13,
     <1>14, <1>15, <1>16, <1>17, <1>18, <1>19, <1>20, <1>21, <1>22, <1>23, <1>24,
     <1>25, <1>26, <1>27 DEF Next, Step

\* CopiesRecorded holds in every reachable state: whoever reads a pending file,
\* after a crash too, finds in it every copy made so far.
THEOREM Recorded == Spec => []CopiesRecorded
<1>1. Init => TypeOK /\ Control /\ RecordedInv
  BY InitType DEF Init, RecordedInv, CopiesRecorded, Aborting, NoFile
<1>2. TypeOK /\ Control /\ RecordedInv /\ [Next]_vars => (TypeOK /\ Control /\ RecordedInv)'
  BY StepType, StepControl, StepRecorded
<1>3. RecordedInv => CopiesRecorded
  BY DEF RecordedInv
<1> QED
  BY <1>1, <1>2, <1>3, PTL DEF Spec

----------------------------------------------------------------------------
(* The pending file is the last to go.                                     *)

\* OverlayHasPendingFile for the backup the process works on, too.
Told == \A b \in opened : pend[b].st = "absent" => overlay[b] \subseteq gaveUp[b]

ToldInv ==
  /\ Told
  /\ \A b \in opened : b <= started
  /\ pc \in {"snapshot", "metadatas"} => helper = "bare"
  /\ pc \in Tried \ {"snapshot", "metadatas", "removePending"} => helper = "ready"
  /\ pc = "removePending" => helper = "none"
  /\ cmd = "backup" /\ helper = "bare" => cur \notin opened
  /\ pc \in Tried \cup {"abort"} /\ helper = "ready" =>
       \A d \in overlay[cur] : d \in gaveUp[cur] \/ d \in metas
  /\ pc \in {"postBackup", "abortClean"} =>
       \A d \in overlay[cur] : d \in gaveUp[cur] \/ (d \in metas /\ d >= disk)
  /\ pc \in {"removePending", "abortPackager", "abortDefn", "abortPending"} =>
       overlay[cur] \subseteq gaveUp[cur]
  /\ pc \in Cleaning /\ phase = "second" => \A d \in Disks : Turn(d) => d \notin overlay[cur]

\* Opening or writing a file never makes a pending file disappear.
LEMMA DumpOpened ==
  ASSUME TypeOK, Control, DumpOpen
  PROVE  \A b \in opened' : pend'[b].st = "absent" => b \in opened /\ pend[b].st = "absent"
<1>1. cur \in Backups /\ pend \in [Backups -> File] /\ opened \subseteq Backups
  BY DEF TypeOK, Control, DumpOpen, Tried
<1>2. CASE pc \in PendDumps
  BY <1>1, <1>2 DEF DumpOpen, TornFile
<1>3. CASE pc \notin PendDumps
  BY <1>1, <1>3 DEF DumpOpen
<1> QED BY <1>2, <1>3

LEMMA DumpWritten ==
  ASSUME TypeOK, Control, DumpWrite
  PROVE  \A b \in Backups : pend'[b].st = "absent" => pend[b].st = "absent"
<1>1. cur \in Backups /\ pend \in [Backups -> File]
  BY DEF TypeOK, Control, DumpWrite, Tried
<1>2. CASE pc \in PendDumps
  BY <1>1, <1>2 DEF DumpWrite
<1>3. CASE pc \notin PendDumps
  BY <1>1, <1>3 DEF DumpWrite
<1> QED BY <1>2, <1>3

\* No step removes the pending file of a disk left on its snapshot.
LEMMA StepTold ==
  ASSUME TypeOK, Control, ToldInv, [Next]_vars PROVE ToldInv'
<1> USE DEF ToldInv, Told, Turn, Cleaning, Control, Tried, Aborting, PendDumps, DefnDumps, TypeOK
<1>1. CASE StartBackup
  BY <1>1, BackupsAssumption DEF StartBackup, Backups, files, storage, history
<1>2. CASE Cancel
  BY <1>2 DEF Cancel, files, storage, memory, history
<1>3. CASE Crash
  BY <1>3 DEF Crash, Leave, files, storage
<1>4. CASE StepFails
  BY <1>4 DEF StepFails, files, storage, memory, history
<1>5. CASE AddFails
  BY <1>5 DEF AddFails, storage, memory, history
<1>6. CASE StartClean
  BY <1>6 DEF StartClean, files, storage, memory, history
<1>7. CASE TakeSnapshot
  BY <1>7 DEF TakeSnapshot, files, loop, memory, history
<1>8. CASE FillMetadatas
  BY <1>8 DEF FillMetadatas, files, storage, loop, history
<1>9. CASE DumpOpen
  <2>1. pc' = pc /\ pc \notin Cleaning /\ pc \in Tried \ {"snapshot", "metadatas", "removePending"}
    BY <1>9 DEF DumpOpen
  <2>2. cur' = cur /\ UNCHANGED <<helper, metas, overlay, gaveUp, started, cmd>>
    BY <1>9 DEF DumpOpen, storage, memory
  <2>3. Told' /\ \A b \in opened' : b <= started'
    <3>1. \A b \in opened' : b \in opened \/ b = cur
      BY <1>9 DEF DumpOpen
    <3>2. \A b \in opened' : pend'[b].st = "absent" => b \in opened /\ pend[b].st = "absent"
      BY <1>9, DumpOpened
    <3>3. cur = started /\ started \in Nat
      BY <2>1, BackupsAssumption
    <3>4. Told'
      BY <2>2, <3>2
    <3>5. ASSUME NEW b \in opened' PROVE b <= started'
      <4>1. started' = started /\ started <= started
        BY <2>2, <3>3
      <4> QED BY <3>1, <3>3, <4>1
    <3> QED BY <3>4, <3>5
  <2> QED BY <2>1, <2>2, <2>3
<1>10. CASE DumpWrite
  <2>1. \A b \in Backups : pend'[b].st = "absent" => pend[b].st = "absent"
    BY <1>10, DumpWritten
  <2>2. pc' = AfterDump[pc] /\ phase' = "first"
    BY <1>10 DEF DumpWrite
  <2>3. pc = "dumpDefn" => \A d \in overlay[cur] : d >= disk'
    BY <1>10 DEF DumpWrite, Disks
  <2>4. cur' = cur /\ UNCHANGED <<helper, metas, overlay, gaveUp, opened, started, cmd>>
    BY <1>10 DEF DumpWrite, storage, history
  <2>5. pc \in PendDumps \cup DefnDumps
    BY <1>10 DEF DumpWrite
  <2> QED BY <2>1, <2>2, <2>3, <2>4, <2>5 DEF AfterDump
<1>11. CASE OpenPackager
  BY <1>11 DEF OpenPackager, storage, memory, history
<1>12. CASE NextDisk
  BY <1>12 DEF NextDisk, WithTarget, files, storage, loop, history
<1>13. CASE AddDisk
  BY <1>13 DEF AddDisk, storage, memory, history
<1>14. CASE AddedDisk
  BY <1>14 DEF AddedDisk, storage, memory, history
<1>15. CASE RemovePending
  BY <1>15 DEF RemovePending, Leave, storage
<1>16. CASE CleanForDisk
  <2> PICK d \in Disks : SkipDisk(d) \/ PivotDisk(d) \/ RemoveSnapshot(d) \/ PivotTimeout(d)
    BY <1>16 DEF CleanForDisk
  <2>1. d \in metas /\ d >= disk /\ \A e \in metas : e >= disk => d <= e
    BY DEF SkipDisk, PivotDisk, RemoveSnapshot, PivotTimeout
  <2>2. pc \in Cleaning /\ cur \in Backups
    BY DEF SkipDisk, PivotDisk, RemoveSnapshot, PivotTimeout
  <2>3. CASE PivotDisk(d)
    <3>1. \A e \in Disks : Turn(e)' => e = d
      BY <2>1, <2>3 DEF PivotDisk, memory, Disks
    <3>2. \A b \in Backups : overlay'[b] \subseteq overlay[b]
      BY <2>3 DEF PivotDisk
    <3>3. d \notin overlay'[cur]
      BY <2>2, <2>3 DEF PivotDisk
    <3> QED BY <2>3, <3>1, <3>2, <3>3 DEF PivotDisk, files, memory, history
  <2>4. CASE ~PivotDisk(d)
    <3>1. /\ overlay' = overlay /\ phase' = "first" /\ cur' = cur /\ pend' = pend
          /\ UNCHANGED <<opened, started, cmd, helper>>
          /\ disk' = d + 1 /\ pc' = IF pc = "cleanDisk" THEN "nextDisk" ELSE pc
      BY <2>4 DEF SkipDisk, RemoveSnapshot, PivotTimeout, Proceed, files, storage, memory, history
    <3>2. \A b \in Backups : gaveUp[b] \subseteq gaveUp'[b]
      BY <2>4 DEF SkipDisk, RemoveSnapshot, PivotTimeout, history
    <3>3. d \in overlay[cur] => d \in gaveUp'[cur]
      BY <2>2, <2>4 DEF SkipDisk, RemoveSnapshot, PivotTimeout
    <3>4. metas \ {d} \subseteq metas'
      BY <2>4 DEF SkipDisk, RemoveSnapshot, PivotTimeout, memory
    <3>5. \A e \in metas : e >= disk /\ e # d => e >= disk'
      BY <2>1, <3>1 DEF Disks
    <3> QED BY <2>2, <3>1, <3>2, <3>3, <3>4, <3>5
  <2> QED BY <2>3, <2>4
<1>17. CASE CleanDone
  <2>1. overlay[cur] \subseteq gaveUp[cur]
    <3>1. \A d \in metas : ~(d >= disk)
      BY <1>17 DEF CleanDone, Disks
    <3> QED BY <1>17, <3>1 DEF CleanDone
  <2> QED BY <1>17, <2>1 DEF CleanDone, files, storage, history
<1>18. CASE AbortNotStarted
  BY <1>18 DEF AbortNotStarted, Leave, files, storage
<1>19. CASE Abort
  <2>1. \A d \in overlay[cur] : d \in gaveUp[cur] \/ d \in metas'
    BY <1>19 DEF Abort
  <2>2. \A d \in overlay[cur] : d >= disk'
    BY <1>19 DEF Abort, Disks
  <2> QED BY <1>19, <2>1, <2>2 DEF Abort, files, storage, history
<1>20. CASE RemoveCopy
  BY <1>20 DEF RemoveCopy, storage, memory, history
<1>21. CASE RemoveCancelled
  BY <1>21 DEF RemoveCancelled, Leave, files, storage
<1>22. CASE PackagerCleaned
  BY <1>22 DEF PackagerCleaned, storage, loop, memory, history
<1>23. CASE AbortDefn
  BY <1>23 DEF AbortDefn, storage, loop, memory, history
<1>24. CASE AbortPending
  BY <1>24 DEF AbortPending, Leave, storage
<1>25. CASE NextBroken
  BY <1>25 DEF NextBroken, files, storage, history
<1>26. CASE CleanEnds
  BY <1>26 DEF CleanEnds, files, storage, history
<1>27. CASE UNCHANGED vars
  BY <1>27 DEF vars, files, storage, memory, history, loop
<1> QED
  BY <1>1, <1>2, <1>3, <1>4, <1>5, <1>6, <1>7, <1>8, <1>9, <1>10, <1>11, <1>12, <1>13,
     <1>14, <1>15, <1>16, <1>17, <1>18, <1>19, <1>20, <1>21, <1>22, <1>23, <1>24,
     <1>25, <1>26, <1>27 DEF Next, Step

\* OverlayHasPendingFile holds in every reachable state: once opened, a pending
\* file is removed only after every snapshot it tells of, or that was given up.
THEOREM OverlayTold == Spec => []OverlayHasPendingFile
<1>1. Init => TypeOK /\ Control /\ ToldInv
  BY InitType DEF Init, ToldInv, Told, Tried, PendDumps, DefnDumps, Cleaning
<1>2. TypeOK /\ Control /\ ToldInv /\ [Next]_vars => (TypeOK /\ Control /\ ToldInv)'
  BY StepType, StepControl, StepTold
<1>3. ToldInv => OverlayHasPendingFile
  BY DEF ToldInv, Told, OverlayHasPendingFile
<1> QED
  BY <1>1, <1>2, <1>3, PTL DEF Spec

----------------------------------------------------------------------------
(* What looks like a complete backup is one.                               *)

\* The steps of start() once the packager is open, and once all disks are copied.
Copying == {"nextDisk", "dumpTarget", "addDisk", "cleanDisk"}
Copied == {"dumpDefn", "postBackup", "removePending"}

\* start() passes a disk only when its copy is full and its target noted.
ProgressInv ==
  /\ pc \in {"dumpEarlyDefn", "dumpNamed", "openPackager"} \cup Copying \cup Copied =>
       info.name = "set"
  /\ pc \in Copying \cup Copied => (Packager[cur] = "tar" => cur \in archives)
  /\ pc \in Copying => \A d \in Disks : d < disk => copies[cur][d] = "full" /\ d \in info.tgt
  /\ pc = "addDisk" => disk \in info.tgt
  /\ pc = "dumpTarget" => disk \in info.tgt
  /\ pc = "cleanDisk" => disk \in info.tgt /\ copies[cur][disk] = "full"
  /\ pc \in Copied => \A d \in Disks : copies[cur][d] = "full" /\ d \in info.tgt

\* The definition of b names every disk, and every copy is there.
Whole(b) ==
  /\ defn[b] = [st |-> "ok", name |-> "set", tgt |-> Disks]
  /\ \A d \in Disks : copies[b][d] = "full"
  /\ Packager[b] = "tar" => b \in archives

\* A definition has its pending file beside it until the backup is whole.
WholeInv ==
  /\ \A b \in Backups : pend[b].st = "absent" /\ defn[b].st # "absent" => Whole(b)
  /\ \A b \in Backups : b > started => pend[b].st = "absent" /\ defn[b].st = "absent"
  /\ pc \in {"snapshot", "metadatas", "dumpPending"} /\ pend[cur].st = "absent" =>
       defn[cur].st = "absent"
  /\ pc \in Aborting /\ pend[cur].st = "absent" => defn[cur].st = "absent"
  /\ pc \in Tried \ {"snapshot", "metadatas", "dumpPending"} => pend[cur].st # "absent"
  /\ pc = "dumpPending" /\ phase = "second" => pend[cur].st # "absent"
  /\ pc = "abortPending" /\ sameID => defn[cur].st = "absent"
  /\ pc \in {"postBackup", "removePending"} => Whole(cur)

\* No step passes a disk whose copy is not full, or loses a copy that is.
LEMMA StepProgress ==
  ASSUME TypeOK, Control, FrozenInv, ProgressInv, [Next]_vars PROVE ProgressInv'
<1> USE DEF ProgressInv, Control, TypeOK, Copying, Copied, Tried, Aborting, PendDumps, DefnDumps
<1>1. CASE StartBackup
  BY <1>1 DEF StartBackup, files, storage, history
<1>2. CASE Cancel
  BY <1>2 DEF Cancel, files, storage, memory, history
<1>3. CASE Crash
  BY <1>3 DEF Crash, Leave, files, storage
<1>4. CASE StepFails
  BY <1>4 DEF StepFails, files, storage, memory, history
<1>5. CASE AddFails
  BY <1>5 DEF AddFails, storage, memory, history
<1>6. CASE StartClean
  BY <1>6 DEF StartClean, files, storage, memory, history
<1>7. CASE TakeSnapshot
  BY <1>7 DEF TakeSnapshot, files, loop, memory, history
<1>8. CASE FillMetadatas
  BY <1>8 DEF FillMetadatas, files, storage, loop, history
<1>9. CASE DumpOpen
  BY <1>9 DEF DumpOpen, storage, memory, history, TornFile
<1>10. CASE DumpWrite
  BY <1>10 DEF DumpWrite, AfterDump, storage, memory, history
<1>11. CASE OpenPackager
  BY <1>11 DEF Disks, OpenPackager, storage, memory, history
<1>12. CASE NextDisk
  BY <1>12, DisksAssumption DEF Disks, NextDisk, WithTarget, files, storage, loop, history
<1>13. CASE AddDisk
  BY <1>13 DEF AddDisk, storage, memory, history
<1>14. CASE AddedDisk
  <2>1. cur \in Backups /\ disk \in Disks
    BY <1>14 DEF AddedDisk, FrozenInv
  <2>2. \A d \in Disks : copies'[cur][d] = IF d = disk THEN "full" ELSE copies[cur][d]
    BY <1>14, <2>1 DEF AddedDisk
  <2> QED BY <1>14, <2>1, <2>2 DEF AddedDisk, storage, memory, history
<1>15. CASE RemovePending
  BY <1>15 DEF RemovePending, Leave, storage, NoFile
<1>16. CASE CleanForDisk
  <2>1. PICK d \in Disks : SkipDisk(d) \/ PivotDisk(d) \/ RemoveSnapshot(d) \/ PivotTimeout(d)
    BY <1>16 DEF CleanForDisk
  <2>2. pc \in {"cleanDisk", "postBackup", "abortClean"} /\ UNCHANGED <<copies, archives, info, cur>>
    BY <2>1 DEF SkipDisk, PivotDisk, RemoveSnapshot, PivotTimeout, Cleaning, files, memory
  <2>3. CASE pc = "cleanDisk"
    <3>1. d = disk
      BY <2>1, <2>3, DisksAssumption
      DEF SkipDisk, PivotDisk, RemoveSnapshot, PivotTimeout, Turn, FrozenInv, Disks
    <3>2. (pc' = "nextDisk" /\ disk' = disk + 1) \/ (pc' = pc /\ disk' = disk)
      BY <2>1, <2>3, <3>1 DEF SkipDisk, PivotDisk, RemoveSnapshot, PivotTimeout, Proceed
    <3> QED BY <2>2, <2>3, <3>1, <3>2 DEF Disks
  <2>4. CASE pc # "cleanDisk"
    <3>1. pc' = pc
      BY <2>1, <2>4 DEF SkipDisk, PivotDisk, RemoveSnapshot, PivotTimeout, Proceed
    <3> QED BY <2>2, <2>4, <3>1
  <2> QED BY <2>3, <2>4
<1>17. CASE CleanDone
  BY <1>17 DEF CleanDone, files, storage, history
<1>18. CASE AbortNotStarted
  BY <1>18 DEF AbortNotStarted, Leave, files, storage
<1>19. CASE Abort
  BY <1>19 DEF Abort, files, storage, history
<1>20. CASE RemoveCopy
  BY <1>20 DEF RemoveCopy, storage, memory, history
<1>21. CASE RemoveCancelled
  BY <1>21 DEF RemoveCancelled, Leave, files, storage
<1>22. CASE PackagerCleaned
  BY <1>22 DEF PackagerCleaned, storage, loop, memory, history
<1>23. CASE AbortDefn
  BY <1>23 DEF AbortDefn, storage, loop, memory, history, NoFile
<1>24. CASE AbortPending
  BY <1>24 DEF AbortPending, Leave, storage, NoFile
<1>25. CASE NextBroken
  BY <1>25 DEF NextBroken, files, storage, history
<1>26. CASE CleanEnds
  BY <1>26 DEF CleanEnds, files, storage, history
<1>27. CASE UNCHANGED vars
  BY <1>27 DEF vars, files, storage, memory, history, loop
<1> QED
  BY <1>1, <1>2, <1>3, <1>4, <1>5, <1>6, <1>7, <1>8, <1>9, <1>10, <1>11, <1>12, <1>13, <1>14,
     <1>15, <1>16, <1>17, <1>18, <1>19, <1>20, <1>21, <1>22, <1>23, <1>24, <1>25, <1>26,
     <1>27 DEF Next, Step

\* No step removes the pending file beside a definition of less than a whole
\* backup, or takes something away from a whole one.
LEMMA StepWhole ==
  ASSUME TypeOK, Control, RecordedInv, ProgressInv, WholeInv, [Next]_vars PROVE WholeInv'
<1> USE DEF WholeInv, Whole, Control, TypeOK, Tried, Aborting, PendDumps, DefnDumps
<1>1. CASE StartBackup
  BY <1>1, BackupsAssumption DEF StartBackup, Backups, files, storage, history
<1>2. CASE Cancel
  BY <1>2 DEF Cancel, files, storage, memory, history
<1>3. CASE Crash
  BY <1>3 DEF Crash, Leave, files, storage
<1>4. CASE StepFails
  BY <1>4 DEF StepFails, files, storage, memory, history
<1>5. CASE AddFails
  BY <1>5 DEF AddFails, storage, memory, history
<1>6. CASE StartClean
  BY <1>6 DEF StartClean, files, storage, memory, history
<1>7. CASE TakeSnapshot
  BY <1>7 DEF TakeSnapshot, files, loop, memory, history
<1>8. CASE FillMetadatas
  BY <1>8 DEF FillMetadatas, Cleaning, files, storage, loop, history
<1>9. CASE DumpOpen
  <2>1. cur \in Backups /\ cmd = "backup" /\ cur = started
    BY <1>9 DEF DumpOpen
  <2>2. UNCHANGED <<copies, archives, cur, cmd, started, pc>>
    BY <1>9 DEF DumpOpen
  <2>3. CASE pc \in PendDumps
    <3>1. defn' = defn /\ pend' = [pend EXCEPT ![cur] = TornFile]
      BY <1>9, <2>3 DEF DumpOpen
    <3>2. pend'[cur].st = "torn" /\ \A b \in Backups : b # cur => pend'[b] = pend[b]
      BY <2>1, <3>1 DEF TornFile
    <3> QED BY <2>1, <2>2, <2>3, <3>1, <3>2
  <2>4. CASE pc \in DefnDumps
    <3>1. pend' = pend /\ defn' = [defn EXCEPT ![cur] = TornFile]
      BY <1>9, <2>4 DEF DumpOpen
    <3>2. pend[cur].st # "absent" /\ \A b \in Backups : b # cur => defn'[b] = defn[b]
      BY <2>1, <2>4, <3>1
    <3> QED BY <2>1, <2>2, <2>4, <3>1, <3>2
  <2> QED BY <1>9, <2>3, <2>4 DEF DumpOpen
<1>10. CASE DumpWrite
  <2> DEFINE content == [st |-> "ok", name |-> info.name, tgt |-> info.tgt]
  <2>1. cur \in Backups /\ cmd = "backup" /\ cur = started
    BY <1>10 DEF DumpWrite
  <2>2. UNCHANGED <<copies, archives, cur, cmd, started>> /\ pc' = AfterDump[pc] /\ phase' = "first"
    BY <1>10 DEF DumpWrite
  <2>3. CASE pc \in PendDumps
    <3>1. defn' = defn /\ pend' = [pend EXCEPT ![cur] = content]
      BY <1>10, <2>3 DEF DumpWrite
    <3>2. pend'[cur].st = "ok" /\ \A b \in Backups : b # cur => pend'[b] = pend[b]
      BY <2>1, <3>1
    <3>3. pc' \in {"dumpEarlyDefn", "openPackager", "addDisk"}
      BY <2>2, <2>3 DEF AfterDump
    <3> QED BY <2>1, <2>2, <3>1, <3>2, <3>3
  <2>4. CASE pc \in DefnDumps
    <3>1. pend' = pend /\ defn' = [defn EXCEPT ![cur] = content]
      BY <1>10, <2>4 DEF DumpWrite
    <3>2. /\ pend[cur].st # "absent" /\ defn'[cur] = content
          /\ \A b \in Backups : b # cur => defn'[b] = defn[b]
      BY <2>1, <2>4, <3>1
    <3>3. pc = "dumpDefn" => info.name = "set" /\ info.tgt = Disks
      BY DEF ProgressInv, Copied, Info
    <3>4. pc = "dumpDefn" => Whole(cur)'
      BY <2>1, <2>2, <3>2, <3>3 DEF ProgressInv, Copied, Copying
    <3>5. CASE pc = "dumpEarlyDefn"
      BY <2>1, <2>2, <3>1, <3>2, <3>5 DEF AfterDump
    <3>6. CASE pc = "dumpDefn"
      BY <2>1, <2>2, <3>1, <3>2, <3>4, <3>6 DEF AfterDump
    <3> QED BY <2>4, <3>5, <3>6
  <2> QED BY <1>10, <2>3, <2>4 DEF DumpWrite
<1>11. CASE OpenPackager
  BY <1>11 DEF OpenPackager, storage, memory, history
<1>12. CASE NextDisk
  BY <1>12 DEF NextDisk, WithTarget, files, storage, loop, history
<1>13. CASE AddDisk
  BY <1>13 DEF AddDisk, storage, memory, history
<1>14. CASE AddedDisk
  BY <1>14 DEF AddedDisk, storage, memory, history
<1>15. CASE RemovePending
  BY <1>15 DEF RemovePending, Leave, storage, NoFile
<1>16. CASE CleanForDisk
  BY <1>16 DEF CleanForDisk, SkipDisk, PivotDisk, RemoveSnapshot, PivotTimeout, Proceed, Turn,
     Cleaning, files, storage, memory, history
<1>17. CASE CleanDone
  BY <1>17 DEF CleanDone, files, storage, history
<1>18. CASE AbortNotStarted
  BY <1>18 DEF AbortNotStarted, Leave, files, storage
<1>19. CASE Abort
  BY <1>19 DEF Abort, files, storage, history
<1>20. CASE RemoveCopy
  BY <1>20 DEF RemoveCopy, storage, memory, history
<1>21. CASE RemoveCancelled
  BY <1>21 DEF RemoveCancelled, Leave, files, storage
<1>22. CASE PackagerCleaned
  BY <1>22 DEF PackagerCleaned, storage, loop, memory, history
<1>23. CASE AbortDefn
  <2>1. CASE sameID
    BY <1>23, <2>1 DEF AbortDefn, storage, loop, memory, history, NoFile
  <2>2. CASE ~sameID
    BY <1>23, <2>2 DEF AbortDefn, storage, loop, memory, history
  <2> QED BY <2>1, <2>2
<1>24. CASE AbortPending
  <2>1. pc' \in {"idle", "nextBroken"} /\ UNCHANGED <<defn, copies, archives, started>>
    BY <1>24 DEF AbortPending, Leave
  <2>2. pc = "abortPending" /\ cur \in Backups
    BY <1>24 DEF AbortPending
  <2>3. \A b \in Backups : pend'[b] = pend[b] \/ (b = cur /\ sameID)
    BY <1>24 DEF AbortPending
  <2>4. \A b \in Backups : pend'[b].st = "absent" /\ defn[b].st # "absent" =>
          pend[b].st = "absent"
    BY <2>2, <2>3
  <2>5. \A b \in Backups : b > started => pend'[b].st = "absent"
    BY <1>24, <2>3 DEF AbortPending, NoFile
  <2> QED BY <2>1, <2>4, <2>5
<1>25. CASE NextBroken
  BY <1>25 DEF NextBroken, RecordedInv, files, storage, history
<1>26. CASE CleanEnds
  BY <1>26 DEF CleanEnds, files, storage, history
<1>27. CASE UNCHANGED vars
  BY <1>27 DEF vars, files, storage, memory, history, loop
<1> QED
  BY <1>1, <1>2, <1>3, <1>4, <1>5, <1>6, <1>7, <1>8, <1>9, <1>10, <1>11, <1>12, <1>13, <1>14,
     <1>15, <1>16, <1>17, <1>18, <1>19, <1>20, <1>21, <1>22, <1>23, <1>24, <1>25, <1>26,
     <1>27 DEF Next, Step

\* CompleteMeansWhole holds in every reachable state: a definition without a
\* pending file describes a backup that has every disk, whatever crashed or failed.
THEOREM CompleteIsWhole == Spec => []CompleteMeansWhole
<1>1. Init => TypeOK /\ Control /\ FrozenInv /\ RecordedInv /\ ProgressInv /\ WholeInv
  <2> SUFFICES ASSUME Init
               PROVE  TypeOK /\ Control /\ FrozenInv /\ RecordedInv /\ ProgressInv /\ WholeInv
    OBVIOUS
  <2>1. TypeOK /\ Control
    BY InitType
  <2>2. FrozenInv
    BY <2>1 DEF Init, FrozenInv
  <2>3. RecordedInv
    BY <2>1 DEF Init, RecordedInv, CopiesRecorded, Aborting, NoFile
  <2>4. ProgressInv
    BY DEF Init, ProgressInv, Copying, Copied
  <2>5. WholeInv
    BY DEF Init, WholeInv, Tried, Aborting, PendDumps, DefnDumps, NoFile
  <2> QED BY <2>1, <2>2, <2>3, <2>4, <2>5
<1>2. /\ TypeOK /\ Control /\ FrozenInv /\ RecordedInv /\ ProgressInv /\ WholeInv
      /\ [Next]_vars
      => (TypeOK /\ Control /\ FrozenInv /\ RecordedInv /\ ProgressInv /\ WholeInv)'
  BY StepType, StepControl, StepFrozen, StepRecorded, StepProgress, StepWhole
<1>3. WholeInv => CompleteMeansWhole
  BY DEF WholeInv, Whole, CompleteMeansWhole
<1> QED
  BY <1>1, <1>2, <1>3, PTL DEF Spec
============================================================================
