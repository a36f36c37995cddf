------------------------ MODULE PendingBackupProofs ------------------------
(***************************************************************************)
(* What TLAPS proves about PendingBackup, for any number of disks, backups *)
(* and faults, and whatever packagers.                                     *)
(***************************************************************************)
EXTENDS PendingBackup, TLAPS

(* Lemmas about the values the actions assign.                             *)

\* The records the actions build are files and dicts.
LEMMA RecordTypes ==
  /\ NoFile \in File /\ TornFile \in File /\ NoInfo \in Info
  /\ \A f \in File : [name |-> f.name, tgt |-> f.tgt] \in Info
<1>1. NoFile \in File /\ TornFile \in File /\ NoInfo \in Info
  BY DEF File, Info, NoFile, TornFile, NoInfo
<1>2. \A f \in File : [name |-> f.name, tgt |-> f.tgt] \in Info
  BY DEF File, Info
<1> QED BY <1>1, <1>2

\* What start() writes from a dict is a file, and the dict stays one.
LEMMA DumpTypes ==
  ASSUME NEW i \in Info
  PROVE  /\ [st |-> "ok", name |-> i.name, tgt |-> i.tgt] \in File
         /\ [name |-> "set", tgt |-> i.tgt] \in Info
         /\ \A d \in Disks : [name |-> i.name, tgt |-> i.tgt \cup {d}] \in Info
<1>1. [st |-> "ok", name |-> i.name, tgt |-> i.tgt] \in File
  BY DEF File, Info
<1>2. [name |-> "set", tgt |-> i.tgt] \in Info
  BY DEF Info
<1>3. \A d \in Disks : [name |-> i.name, tgt |-> i.tgt \cup {d}] \in Info
  BY DEF Info
<1> QED BY <1>1, <1>2, <1>3

\* What is left of the process's state when it is over.
LEMMA LeaveType ==
  ASSUME TypeOK, NEW how \in {"done", "raised", "crashed"}, Leave(how)
  PROVE  /\ cmd' = "none" /\ pc' = "idle" /\ phase' = "first" /\ cur' = 0
         /\ disk' \in 1..(NDisks + 1) /\ info' \in Info /\ helper' = "none"
         /\ metas' = {} /\ sameID' = TRUE /\ flag' = "clear" /\ todo' = {}
         /\ outcome' \in [Backups -> {"none", "done", "raised", "cleaned", "crashed"}]
         /\ UNCHANGED <<started, opened, gaveUp>>
<1>1. outcome' \in [Backups -> {"none", "done", "raised", "cleaned", "crashed"}]
  BY DEF TypeOK, Leave
<1> QED BY <1>1, DisksAssumption, RecordTypes DEF Leave

----------------------------------------------------------------------------
(* The control of the process: which command runs, and on which backup.    *)

Control ==
  /\ pc \in Tried => cmd = "backup"
  /\ pc \in Aborting => cmd \in {"backup", "clean"}
  /\ pc = "nextBroken" => cmd = "clean"
  /\ pc = "idle" => cmd = "none" /\ cur = 0
  /\ cmd = "backup" => cur = started
  /\ cmd = "backup" \/ pc \in Aborting => cur \in Backups
  /\ phase = "second" => pc \in PendDumps \cup DefnDumps \cup Cleaning \cup {"addDisk"}

\* Every step keeps the control.
LEMMA StepControl ==
  ASSUME TypeOK, Control, [Next]_vars PROVE Control'
<1> USE DEF Control, Tried, Aborting, PendDumps, DefnDumps, Cleaning, loop
<1>1. CASE StartBackup
  BY <1>1, BackupsAssumption DEF StartBackup, TypeOK, Backups
<1>2. CASE Cancel
  BY <1>2 DEF Cancel
<1>3. CASE Crash
  BY <1>3 DEF Crash, Leave
<1>4. CASE StepFails
  BY <1>4 DEF StepFails
<1>5. CASE AddFails
  BY <1>5 DEF AddFails
<1>6. CASE StartClean
  BY <1>6 DEF StartClean
<1>7. CASE TakeSnapshot
  BY <1>7 DEF TakeSnapshot
<1>8. CASE FillMetadatas
  BY <1>8 DEF FillMetadatas
<1>9. CASE DumpOpen
  BY <1>9 DEF DumpOpen
<1>10. CASE DumpWrite
  BY <1>10 DEF DumpWrite, AfterDump
<1>11. CASE OpenPackager
  BY <1>11 DEF OpenPackager
<1>12. CASE NextDisk
  BY <1>12 DEF NextDisk
<1>13. CASE AddDisk
  BY <1>13 DEF AddDisk
<1>14. CASE AddedDisk
  BY <1>14 DEF AddedDisk
<1>15. CASE RemovePending
  BY <1>15 DEF RemovePending, Leave
<1>16. CASE CleanForDisk
  BY <1>16 DEF CleanForDisk, SkipDisk, PivotDisk, RemoveSnapshot, PivotTimeout, Proceed
<1>17. CASE CleanDone
  BY <1>17 DEF CleanDone
<1>18. CASE AbortNotStarted
  BY <1>18 DEF AbortNotStarted, Leave
<1>19. CASE Abort
  BY <1>19 DEF Abort
<1>20. CASE RemoveCopy
  BY <1>20 DEF RemoveCopy
<1>21. CASE RemoveCancelled
  BY <1>21 DEF RemoveCancelled, Leave
<1>22. CASE PackagerCleaned
  BY <1>22 DEF PackagerCleaned
<1>23. CASE AbortDefn
  BY <1>23 DEF AbortDefn
<1>24. CASE AbortPending
  BY <1>24 DEF AbortPending, Leave
<1>25. CASE NextBroken
  BY <1>25 DEF NextBroken, TypeOK
<1>26. CASE CleanEnds
  BY <1>26 DEF CleanEnds
<1>27. CASE UNCHANGED vars
  BY <1>27 DEF vars
<1> QED
  BY <1>1, <1>2, <1>3, <1>4, <1>5, <1>6, <1>7, <1>8, <1>9, <1>10, <1>11, <1>12, <1>13,
     <1>14, <1>15, <1>16, <1>17, <1>18, <1>19, <1>20, <1>21, <1>22, <1>23, <1>24,
     <1>25, <1>26, <1>27 DEF Next, Step

----------------------------------------------------------------------------
(* Types.  Control is needed where a step adds cur to a set of backups.    *)

\* Every step keeps the type of every variable.
LEMMA StepType ==
  ASSUME TypeOK, Control, [Next]_vars PROVE TypeOK'
<1> USE DisksAssumption, FaultsAssumption, BackupsAssumption
<1>1. CASE StartBackup
  BY <1>1 DEF StartBackup, TypeOK, files, storage, history, Tried, Aborting, Backups
<1>2. CASE Cancel
  BY <1>2 DEF Cancel, TypeOK, files, storage, memory, history
<1>3. CASE Crash
  <2>1. Leave("crashed")
    BY <1>3 DEF Crash
  <2>2. interrupted' \in SUBSET Backups
    BY <1>3 DEF Crash, TypeOK, Control, Aborting
  <2>3. faults' \in 0..MaxFaults /\ UNCHANGED <<files, storage>>
    BY <1>3 DEF Crash, TypeOK
  <2> QED BY <2>1, <2>2, <2>3, LeaveType DEF TypeOK, files, storage
<1>4. CASE StepFails
  BY <1>4 DEF StepFails, TypeOK, files, storage, memory, history, Aborting, Tried
<1>5. CASE AddFails
  <2>1. copies' \in [Backups -> [Disks -> {"none", "partial", "full"}]]
    BY <1>5 DEF AddFails, TypeOK
  <2> QED BY <1>5, <2>1 DEF AddFails, TypeOK, storage, memory, history, Aborting
<1>6. CASE StartClean
  BY <1>6 DEF StartClean, TypeOK, files, storage, memory, history, Tried, Aborting
<1>7. CASE TakeSnapshot
  BY <1>7 DEF TakeSnapshot, TypeOK, files, loop, memory, history, Tried, Aborting
<1>8. CASE FillMetadatas
  BY <1>8 DEF FillMetadatas, TypeOK, files, storage, loop, history, Tried, Aborting, PendDumps
<1>9. CASE DumpOpen
  <2>1. pend' \in [Backups -> File] /\ defn' \in [Backups -> File]
    BY <1>9, RecordTypes DEF DumpOpen, TypeOK
  <2>2. opened' \in SUBSET Backups
    BY <1>9 DEF DumpOpen, TypeOK, Control, Tried
  <2> QED BY <1>9, <2>1, <2>2 DEF DumpOpen, TypeOK, storage, memory
<1>10. CASE DumpWrite
  <2>1. pend' \in [Backups -> File] /\ defn' \in [Backups -> File]
    BY <1>10, DumpTypes DEF DumpWrite, TypeOK
  <2>2. info' \in Info
    BY <1>10, DumpTypes DEF DumpWrite, TypeOK
  <2>3. pc' \in Tried /\ disk' \in 1..(NDisks + 1) /\ phase' = "first"
    BY <1>10 DEF DumpWrite, TypeOK, AfterDump, PendDumps, DefnDumps, Tried
  <2> QED BY <1>10, <2>1, <2>2, <2>3 DEF DumpWrite, TypeOK, storage, history
<1>11. CASE OpenPackager
  <2>1. archives' \in SUBSET Backups
    BY <1>11 DEF OpenPackager, TypeOK, Control, Tried
  <2> QED BY <1>11, <2>1 DEF OpenPackager, TypeOK, storage, memory, history, Tried
<1>12. CASE NextDisk
  <2>1. info' \in Info
    <3>1. disk \in Nat /\ info \in Info
      BY DEF TypeOK
    <3>2. disk <= NDisks => disk \in Disks
      BY <3>1 DEF TypeOK, Disks
    <3>3. disk \in Disks => WithTarget(disk) \in Info
      BY <3>1, DumpTypes DEF WithTarget
    <3> QED BY <1>12, <3>1, <3>2, <3>3 DEF NextDisk
  <2>2. pc' \in Tried \cup Aborting
    BY <1>12 DEF NextDisk, Tried, Aborting, PendDumps, DefnDumps
  <2> QED BY <1>12, <2>1, <2>2 DEF NextDisk, TypeOK, files, storage, loop, history
<1>13. CASE AddDisk
  BY <1>13 DEF AddDisk, TypeOK, storage, memory, history
<1>14. CASE AddedDisk
  BY <1>14 DEF AddedDisk, TypeOK, storage, memory, history, Tried, Aborting
<1>15. CASE RemovePending
  <2>1. Leave("done")
    BY <1>15 DEF RemovePending
  <2> QED BY <1>15, <2>1, LeaveType, RecordTypes DEF RemovePending, TypeOK, storage
<1>16. CASE CleanForDisk
  <2> PICK d \in Disks : SkipDisk(d) \/ PivotDisk(d) \/ RemoveSnapshot(d) \/ PivotTimeout(d)
    BY <1>16 DEF CleanForDisk
  <2>1. ASSUME Proceed(d), pc \in Cleaning
        PROVE  disk' \in 1..(NDisks + 1) /\ pc' \in Tried \cup Aborting
    BY <2>1 DEF Proceed, Cleaning, Tried, Aborting, Disks
  <2>2. CASE SkipDisk(d)
    BY <2>1, <2>2 DEF SkipDisk, TypeOK, files, storage, memory
  <2>3. CASE PivotDisk(d)
    BY <2>3 DEF PivotDisk, TypeOK, files, memory, history
  <2>4. CASE RemoveSnapshot(d)
    BY <2>1, <2>4 DEF RemoveSnapshot, TypeOK, files, history
  <2>5. CASE PivotTimeout(d)
    <3>1. gaveUp' \in [Backups -> SUBSET Disks] /\ metas' \in SUBSET Disks
      BY <2>5 DEF PivotTimeout, TypeOK
    <3>2. faults' \in 0..MaxFaults
      BY <2>5 DEF PivotTimeout, TypeOK
    <3> QED BY <2>1, <2>5, <3>1, <3>2 DEF PivotTimeout, TypeOK, files, storage
  <2> QED BY <2>2, <2>3, <2>4, <2>5
<1>17. CASE CleanDone
  BY <1>17 DEF CleanDone, TypeOK, files, storage, history, Tried, Aborting
<1>18. CASE AbortNotStarted
  BY <1>18, LeaveType DEF AbortNotStarted, TypeOK, files, storage
<1>19. CASE Abort
  BY <1>19 DEF Abort, TypeOK, files, storage, history, Tried, Aborting
<1>20. CASE RemoveCopy
  <2> PICK d \in Removable : copies' = [copies EXCEPT ![cur][d] = "none"] /\ disk' = d + 1
    BY <1>20 DEF RemoveCopy
  <2>1. d \in Disks
    BY DEF Removable, TypeOK, Info
  <2>2. copies' \in [Backups -> [Disks -> {"none", "partial", "full"}]]
    BY DEF TypeOK
  <2> QED BY <1>20, <2>1, <2>2 DEF RemoveCopy, TypeOK, storage, memory, history, Disks
<1>21. CASE RemoveCancelled
  BY <1>21, LeaveType DEF RemoveCancelled, TypeOK, files, storage
<1>22. CASE PackagerCleaned
  <2>1. copies' \in [Backups -> [Disks -> {"none", "partial", "full"}]]
    <3>1. [d \in Disks |-> "none"] \in [Disks -> {"none", "partial", "full"}]
      OBVIOUS
    <3> QED BY <1>22, <3>1 DEF PackagerCleaned, TypeOK
  <2> QED BY <1>22, <2>1 DEF PackagerCleaned, TypeOK, storage, loop, memory, history, Aborting
<1>23. CASE AbortDefn
  BY <1>23, RecordTypes DEF AbortDefn, TypeOK, storage, loop, memory, history, Tried, Aborting
<1>24. CASE AbortPending
  <2>1. pend' \in [Backups -> File]
    BY <1>24, RecordTypes DEF AbortPending, TypeOK
  <2>2. CASE cmd = "backup"
    BY <1>24, <2>1, <2>2, LeaveType DEF AbortPending, TypeOK, storage
  <2>3. CASE cmd # "backup"
    <3>1. outcome' \in [Backups -> {"none", "done", "raised", "cleaned", "crashed"}]
      BY <1>24, <2>3 DEF AbortPending, TypeOK
    <3> QED BY <1>24, <2>1, <2>3, <3>1, RecordTypes DEF AbortPending, TypeOK, storage
  <2> QED BY <2>2, <2>3
<1>25. CASE NextBroken
  BY <1>25, RecordTypes DEF NextBroken, TypeOK, files, storage, history, Tried, Aborting
<1>26. CASE CleanEnds
  BY <1>26, RecordTypes DEF CleanEnds, TypeOK, files, storage, history, Tried, Aborting
<1>27. CASE UNCHANGED vars
  BY <1>27 DEF vars, TypeOK, files, storage, loop, memory, history
<1> QED
  BY <1>1, <1>2, <1>3, <1>4, <1>5, <1>6, <1>7, <1>8, <1>9, <1>10, <1>11, <1>12, <1>13,
     <1>14, <1>15, <1>16, <1>17, <1>18, <1>19, <1>20, <1>21, <1>22, <1>23, <1>24,
     <1>25, <1>26, <1>27 DEF Next, Step

LEMMA InitType == Init => TypeOK /\ Control
<1>1. Init => TypeOK
  BY DisksAssumption, FaultsAssumption, BackupsAssumption, RecordTypes
  DEF Init, TypeOK, Tried, Aborting
<1>2. Init => Control
  BY DEF Init, Control, Tried, Aborting, PendDumps, DefnDumps
<1> QED BY <1>1, <1>2

\* Every reachable state is well typed: no loop over the disks runs past its end,
\* no file or snapshot belongs to a backup that does not exist.
THEOREM TypeCorrect == Spec => []TypeOK
<1>1. Init => TypeOK /\ Control
  BY InitType
<1>2. TypeOK /\ Control /\ [Next]_vars => (TypeOK /\ Control)'
  BY StepType, StepControl
<1> QED
  BY <1>1, <1>2, PTL DEF Spec
=============================================================================
