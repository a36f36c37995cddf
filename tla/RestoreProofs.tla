--------------------------- MODULE RestoreProofs ---------------------------
(***************************************************************************)
(* What TLAPS proves about Restore, for any number of disks, backups and   *)
(* restores, any definitions, and any others that meddle.                  *)
(***************************************************************************)
EXTENDS Restore, WellFoundedInduction, SequenceTheorems, FiniteSetTheorems, TLAPS

\* The command has a backup, and a disk of it where it works on one.
ChoiceInv ==
  /\ pc \in {"disk", "check", "open", "copy", "write"} => chosen \in Backups
  /\ pc \in {"check", "open", "copy"} => todo # {}
  /\ pc = "write" => todo = {} /\ kind = "dir"

\* What is copied is the command's own, in part, and marked as what it is.
CopyInv ==
  pc = "copy" => image[base[disk]] = "partial" /\ of[base[disk]] = <<chosen, disk>>

\* Whoever put a file under the name that was checked came late.
LateInv ==
  pc = "open" /\ image[base[disk]] = "theirs" =>
    Read(chosen).packager = "directory" \/ base[disk] \in late

\* The disks that are done are there, each under its own name.
DoneInv ==
  /\ pc \in {"disk", "check", "open", "copy", "write"}
  /\ kind = "dir" /\ found[chosen] = "final"
  => \A d \in Disks \ todo : image[base[d]] = "full" /\ of[base[d]] = <<chosen, d>>

\* The scan's list has what is complete since it began, or will have it.
ScanInv ==
  /\ \A b \in Backups : defn[b] # "absent" => b <= last
  /\ pc \in {"read", "pick"} => \A b \in sure :
       \/ b \in Listed
       \/ pc = "read" /\ b \in names /\ defn[b] = "final"

----------------------------------------------------------------------------
(* Types *)

\* There is a first disk among those that are left.
LEMMA FirstDisk == ASSUME todo \in SUBSET Disks, todo # {} PROVE disk \in todo
<1>1. \E d \in todo : \A e \in todo : ~ (<<e, d>> \in OpToRel(<, Nat))
  <2>1. todo \subseteq Nat
    BY DEF Disks
  <2> QED BY <2>1, NatLessThanWellFounded, WFMin
<1>2. \E d \in todo : \A e \in todo : d <= e
  <2>1. PICK d \in todo : \A e \in todo : ~ (<<e, d>> \in OpToRel(<, Nat))
    BY <1>1
  <2>2. ASSUME NEW e \in todo, e < d PROVE FALSE
    <3>1. d \in Nat /\ e \in Nat
      BY DEF Disks
    <3>2. <<e, d>> \in Nat \X Nat /\ <<e, d>>[1] < <<e, d>>[2]
      BY <3>1, <2>2
    <3>3. <<e, d>> \in OpToRel(<, Nat)
      BY <3>2 DEF OpToRel
    <3> QED BY <2>1, <3>3
  <2> QED BY <2>2 DEF Disks
<1> QED BY <1>2 DEF disk

LEMMA StepType == ASSUME TypeOK, ChoiceInv, [Next]_vars PROVE TypeOK' /\ ChoiceInv'
<1> USE RestoreAssumption DEF TypeOK, ChoiceInv, Quiet, given, backups, target, command
<1>1. CASE UNCHANGED vars
  BY <1>1 DEF vars
<1>2. CASE Environment
  <2>1. UNCHANGED <<given, command, pc>>
    BY <1>2 DEF Environment, BackupStarts, BackupGoesOn, BackupStops, CopyGoes, DefnGoes,
       OtherWrites, Others
  <2>2. CASE BackupStarts
    BY <2>1, <2>2 DEF BackupStarts, Others, Backups
  <2>5. CASE BackupStops
    BY <2>1, <2>5 DEF BackupStops, Others
  <2>6. CASE BackupGoesOn
    <3>1. defn' \in [Backups -> {"absent", "torn", "early", "final"}]
      BY <2>6 DEF BackupGoesOn
    <3>2. copies' \in [Backups -> SUBSET Disks]
      BY <2>6 DEF BackupGoesOn
    <3> QED BY <2>1, <2>6, <3>1, <3>2 DEF BackupGoesOn, Others
  <2>3. ASSUME NEW b \in Backups, DefnGoes(b) \/ \E d \in Disks : CopyGoes(b, d)
        PROVE  TypeOK' /\ ChoiceInv'
    BY <2>1, <2>3 DEF DefnGoes, CopyGoes, Others
  <2>4. ASSUME NEW i \in Images, OtherWrites(i) PROVE TypeOK' /\ ChoiceInv'
    BY <2>1, <2>4 DEF OtherWrites
  <2> QED BY <1>2, <2>2, <2>3, <2>4, <2>5, <2>6 DEF Environment
<1>3. CASE RestoreBackup
  BY <1>3 DEF RestoreBackup
<1>4. CASE Glob
  BY <1>4 DEF Glob
<1>5. CASE ReadDefinition
  BY <1>5 DEF ReadDefinition
<1>6. CASE ScanBroken
  BY <1>6 DEF ScanBroken, End, NoneFound
<1>7. CASE Pick
  BY <1>7 DEF Pick, Listed
<1>8. CASE NotFound \/ CopyDriver
  BY <1>8 DEF NotFound, CopyDriver, End, NoneFound
<1>9. CASE OpenPackager
  BY <1>9 DEF OpenPackager, End, NoneFound
<1>10. CASE CheckTarget
  BY <1>10 DEF CheckTarget, End, NoneFound
<1>11. CASE OpenTarget
  <2>1. disk \in Disks /\ base[disk] \in Images
    BY <1>11, FirstDisk DEF OpenTarget
  <2> QED BY <1>11, <2>1 DEF OpenTarget, RemoveTarget, End, NoneFound
<1>12. CASE CopyDisk
  BY <1>12 DEF CopyDisk
<1>13. CASE CopyFails
  BY <1>13 DEF CopyFails, RemoveTarget, End, NoneFound
<1>14. CASE OpenXml \/ WriteXml
  BY <1>14 DEF OpenXml, WriteXml, End, NoneFound
<1>15. CASE Killed
  <2>1. pc = "copy" => base[disk] \in Images
    BY <1>15, FirstDisk
  <2> QED BY <1>15, <2>1 DEF Killed, End, NoneFound
<1>16. CASE \E b \in Backups, d \in Disks, e \in Disks, active \in BOOLEAN :
              ReplaceDisk(b, d, e, active)
  BY <1>16 DEF ReplaceDisk
<1> QED
  BY <1>1, <1>2, <1>3, <1>4, <1>5, <1>6, <1>7, <1>8, <1>9, <1>10, <1>11, <1>12, <1>13, <1>14,
     <1>15, <1>16 DEF Next, Step

LEMMA InitType == Init => TypeOK /\ ChoiceInv
BY RestoreAssumption DEF Init, TypeOK, ChoiceInv, NoneFound, Backups

\* TypeOK for any definitions, with the control it needs.
THEOREM TypeCorrect == Spec => []TypeOK
<1>1. TypeOK /\ ChoiceInv /\ [Next]_vars => (TypeOK /\ ChoiceInv)'
  BY StepType
<1> QED BY InitType, <1>1, PTL DEF Spec

----------------------------------------------------------------------------
(* What a step does to the target directory *)

\* The backups' packagers and the names of the images do not change.
LEMMA Given ==
  ASSUME [Next]_vars
  PROVE  /\ UNCHANGED given /\ \A b : Read(b)' = Read(b)
         /\ todo' = todo => disk' = disk
<1>1. UNCHANGED given
  BY DEF Next, Step, vars, Quiet, Environment, BackupStarts, BackupGoesOn, BackupStops, CopyGoes,
     DefnGoes, OtherWrites, Others, RestoreBackup, Glob, ReadDefinition, ScanBroken, Pick,
     NotFound,
     OpenPackager, CheckTarget, OpenTarget, CopyDisk, CopyFails, OpenXml, WriteXml, CopyDriver,
     Killed, ReplaceDisk
<1> QED BY <1>1 DEF given, Read, disk

\* The steps that change an image.
Writes == OpenTarget \/ CopyDisk \/ CopyFails \/ \E i \in Images : OtherWrites(i)

\* The others leave the images, and begin neither a copy nor an exclusive open,
\* but for CheckTarget.
LEMMA OtherSteps ==
  ASSUME [Next]_vars, ~Writes
  PROVE  /\ UNCHANGED <<image, of>>
         /\ killed \subseteq killed' /\ (pc = "copy" /\ pc' # "copy" => base[disk] \in killed')
         /\ pc' = "copy" => pc = "copy" /\ UNCHANGED <<chosen, todo>>
         /\ pc' = "open" => UNCHANGED <<chosen, todo>> /\ (CheckTarget \/ (pc = "open" /\ late' = late))
<1>1. CASE UNCHANGED vars \/ Environment
  BY <1>1 DEF vars, target, command, Writes, Environment, BackupStarts, BackupGoesOn, BackupStops,
     CopyGoes, DefnGoes, Others
<1>2. CASE RestoreBackup \/ Glob \/ ReadDefinition \/ ScanBroken \/ Pick \/ NotFound
  BY <1>2 DEF RestoreBackup, Glob, ReadDefinition, ScanBroken, Pick, NotFound, End, target
<1>3. CASE OpenPackager \/ CheckTarget \/ OpenXml \/ WriteXml \/ CopyDriver \/ Killed
  BY <1>3 DEF OpenPackager, CheckTarget, OpenXml, WriteXml, CopyDriver, Killed, End, target,
     command
<1>4. CASE \E b \in Backups, d \in Disks, e \in Disks, active \in BOOLEAN :
             ReplaceDisk(b, d, e, active)
  BY <1>4 DEF ReplaceDisk, target
<1> QED BY <1>1, <1>2, <1>3, <1>4 DEF Next, Step, Writes

\* open(target, "xb") makes the file, or finds one (or the copy gone) and ends.
LEMMA OpenTargetEffect ==
  ASSUME TypeOK, ChoiceInv, OpenTarget
  PROVE  /\ pc = "open" /\ chosen \in Backups /\ disk \in todo /\ base[disk] \in Images
         /\ \A i \in Images : i # base[disk] => image'[i] = image[i] /\ of'[i] = of[i]
         /\ \/ /\ image[base[disk]] = "none" /\ image'[base[disk]] = "partial"
               /\ of'[base[disk]] = <<chosen, disk>> /\ pc' = "copy"
               /\ UNCHANGED <<command, result>>
            \/ /\ pc' = "idle" /\ result' = "failed"
               /\ \/ Read(chosen).packager # "directory" /\ image'[base[disk]] = "none"
                  \/ Read(chosen).packager = "directory" /\ UNCHANGED <<image, of>>
         /\ UNCHANGED killed
<1>1. pc = "open" /\ chosen \in Backups /\ disk \in Disks /\ disk \in todo /\ base[disk] \in Images
  BY FirstDisk DEF OpenTarget, ChoiceInv, TypeOK
<1> QED BY <1>1 DEF OpenTarget, RemoveTarget, End, TypeOK

LEMMA CopyDiskEffect ==
  ASSUME TypeOK, ChoiceInv, CopyDisk
  PROVE  /\ pc = "copy" /\ pc' = "disk" /\ disk \in todo /\ base[disk] \in Images
         /\ image'[base[disk]] = "full" /\ todo' = todo \ {disk}
         /\ \A i \in Images : i # base[disk] => image'[i] = image[i]
         /\ UNCHANGED <<of, killed, chosen, kind, found, result>>
BY FirstDisk DEF CopyDisk, ChoiceInv, TypeOK

LEMMA CopyFailsEffect ==
  ASSUME TypeOK, ChoiceInv, CopyFails
  PROVE  /\ pc = "copy" /\ pc' = "idle" /\ base[disk] \in Images /\ UNCHANGED killed
         /\ \A i \in Images : i # base[disk] => image'[i] = image[i] /\ of'[i] = of[i]
         /\ \/ image'[base[disk]] = "none"
            \/ Read(chosen).packager = "directory" /\ UNCHANGED <<image, of>>
<1>1. disk \in Disks /\ base[disk] \in Images
  BY FirstDisk DEF CopyFails, ChoiceInv, TypeOK
<1> QED BY <1>1 DEF CopyFails, RemoveTarget, End, TypeOK

LEMMA OtherWritesEffect ==
  ASSUME TypeOK, NEW i \in Images, OtherWrites(i)
  PROVE  /\ image[i] = "none" /\ image'[i] = "theirs"
         /\ \A j \in Images : j # i => image'[j] = image[j]
         /\ late' = (IF pc = "open" THEN late \cup {i} ELSE late)
         /\ UNCHANGED <<of, command, pc, killed, result, chosen, todo, kind, found>>
BY DEF OtherWrites, TypeOK, command

----------------------------------------------------------------------------
(* No part of an image is left, and nothing of others is touched *)

LEMMA StepCopy ==
  ASSUME TypeOK, ChoiceInv, CopyInv, NoPartialLeft, [Next]_vars
  PROVE  CopyInv' /\ NoPartialLeft'
<1> USE Given DEF given
<1>1. CASE ~Writes
  BY <1>1, OtherSteps DEF CopyInv, NoPartialLeft
<1>2. CASE OpenTarget
  BY <1>2, OpenTargetEffect DEF CopyInv, NoPartialLeft, command
<1>3. CASE CopyDisk
  BY <1>3, CopyDiskEffect DEF CopyInv, NoPartialLeft
<1>4. CASE CopyFails
  BY <1>4, CopyFailsEffect DEF CopyInv, NoPartialLeft
<1>5. ASSUME NEW i \in Images, OtherWrites(i) PROVE CopyInv' /\ NoPartialLeft'
  <2>1. pc = "copy" => base[disk] \in Images
    BY FirstDisk DEF ChoiceInv, TypeOK
  <2> QED BY <1>5, <2>1, OtherWritesEffect DEF CopyInv, NoPartialLeft, command
<1> QED BY <1>1, <1>2, <1>3, <1>4, <1>5 DEF Writes

LEMMA StepLate ==
  ASSUME TypeOK, ChoiceInv, LateInv, [Next]_vars PROVE LateInv'
<1> USE Given DEF given
<1>1. CASE CheckTarget
  BY <1>1 DEF CheckTarget, LateInv, command, target, End
<1>2. CASE ~Writes /\ ~CheckTarget
  BY <1>2, OtherSteps DEF LateInv
<1>3. CASE OpenTarget \/ CopyDisk \/ CopyFails
  BY <1>3, OpenTargetEffect, CopyDiskEffect, CopyFailsEffect DEF LateInv
<1>4. ASSUME NEW i \in Images, OtherWrites(i) PROVE LateInv'
  <2>1. pc = "open" => base[disk] \in Images
    BY FirstDisk DEF ChoiceInv, TypeOK
  <2> QED BY <1>4, <2>1, OtherWritesEffect DEF LateInv, command
<1> QED BY <1>1, <1>2, <1>3, <1>4 DEF Writes

\* TypeOK and the invariants of a running restore.
Restoring == TypeOK /\ ChoiceInv /\ CopyInv /\ NoPartialLeft /\ LateInv

LEMMA InitRestoring == Init => Restoring
<1> SUFFICES ASSUME Init PROVE Restoring
  OBVIOUS
<1>1. TypeOK /\ ChoiceInv
  BY InitType
<1>2. CopyInv /\ NoPartialLeft /\ LateInv
  BY DEF Init, CopyInv, NoPartialLeft, LateInv
<1> QED BY <1>1, <1>2 DEF Restoring

LEMMA StepRestoring == Restoring /\ [Next]_vars => Restoring'
BY StepType, StepCopy, StepLate DEF Restoring

\* NoPartialLeft: what a restore wrote in part is removed by whichever packager
\* looks before it writes, whatever failed and whoever meddled.
THEOREM NothingInPart == Spec => []NoPartialLeft
BY InitRestoring, StepRestoring, PTL DEF Spec, Restoring

\* TheirsKept: a restore harms no file of others that was there when it checked.
THEOREM OthersUnharmed == Spec => TheirsKept
<1>1. Restoring /\ [Next]_vars =>
        [\A i \in Images : image[i] = "theirs" /\ image'[i] # "theirs" => i \in late]_vars
  <2> SUFFICES ASSUME Restoring, [Next]_vars, NEW i \in Images, image[i] = "theirs", image'[i] # "theirs"
               PROVE  i \in late
    OBVIOUS
  <2> USE DEF Restoring
  <2>1. Writes
    BY OtherSteps
  <2>2. CASE OpenTarget
    BY <2>2, OpenTargetEffect DEF LateInv
  <2>3. CASE CopyDisk \/ CopyFails
    BY <2>3, CopyDiskEffect, CopyFailsEffect DEF CopyInv
  <2>4. CASE \E j \in Images : OtherWrites(j)
    BY <2>4, OtherWritesEffect
  <2> QED BY <2>1, <2>2, <2>3, <2>4 DEF Writes
<1> QED BY <1>1, InitRestoring, StepRestoring, PTL DEF Spec, TheirsKept

----------------------------------------------------------------------------
(* A restore that ends well has made everything *)

LEMMA StepDone ==
  ASSUME Restoring, DoneInv, [Next]_vars PROVE DoneInv'
<1> USE Given DEF Restoring, given
<1> DEFINE Restores == /\ pc' \in {"disk", "check", "open", "copy", "write"}
                       /\ kind' = "dir" /\ found'[chosen'] = "final"
<1>1. ASSUME /\ pc \in {"disk", "check", "open", "copy", "write"}
             /\ UNCHANGED <<image, of, kind, found, chosen, todo>>
      PROVE  DoneInv'
  BY <1>1 DEF DoneInv
<1>2. CASE ~Writes
  <2>1. CASE \/ RestoreBackup \/ Glob \/ ReadDefinition \/ ScanBroken \/ NotFound \/ WriteXml \/ CopyDriver
             \/ Killed
    BY <2>1 DEF RestoreBackup, Glob, ReadDefinition, ScanBroken, NotFound, WriteXml, CopyDriver,
       Killed,
       End, DoneInv
  <2>2. CASE Pick
    BY <2>2 DEF Pick, DoneInv
  <2>3. CASE OpenPackager \/ CheckTarget \/ OpenXml
    BY <1>1, <2>3 DEF OpenPackager, CheckTarget, OpenXml, End, DoneInv, target, command
  <2>4. CASE UNCHANGED vars \/ Environment
    <3>1. UNCHANGED <<target, command, pc>>
      BY <1>2, <2>4 DEF vars, Writes, Environment, BackupStarts, BackupGoesOn, BackupStops,
         CopyGoes,
         DefnGoes, Others
    <3> QED BY <3>1 DEF DoneInv, target, command
  <2>5. CASE \E b \in Backups, d \in Disks, e \in Disks, active \in BOOLEAN :
               ReplaceDisk(b, d, e, active)
    BY <2>5 DEF ReplaceDisk, DoneInv
  <2> QED BY <1>2, <2>1, <2>2, <2>3, <2>4, <2>5 DEF Next, Step, Writes
<1>3. CASE OpenTarget
  <2>1. CASE pc' = "idle"
    BY <2>1 DEF DoneInv
  <2>2. CASE pc' # "idle"
    <3>1. /\ pc = "open" /\ image[base[disk]] = "none" /\ UNCHANGED <<kind, found, chosen, todo>>
          /\ \A i \in Images : i # base[disk] => image'[i] = image[i] /\ of'[i] = of[i]
      BY <1>3, <2>2, OpenTargetEffect DEF command
    <3> QED BY <3>1 DEF DoneInv, TypeOK
  <2> QED BY <2>1, <2>2
<1>4. CASE CopyDisk
  <2>1. /\ pc = "copy" /\ disk \in todo /\ todo' = todo \ {disk} /\ image'[base[disk]] = "full"
        /\ UNCHANGED <<of, kind, found, chosen>>
        /\ \A i \in Images : i # base[disk] => image'[i] = image[i]
    BY <1>4, CopyDiskEffect
  <2>2. of[base[disk]] = <<chosen, disk>>
    BY <2>1 DEF CopyInv
  <2>3. \A d \in Disks \ todo' : d = disk \/ d \in Disks \ todo
    BY <2>1
  <2> QED BY <2>1, <2>2, <2>3 DEF DoneInv, TypeOK
<1>5. CASE CopyFails
  BY <1>5, CopyFailsEffect DEF DoneInv
<1>6. ASSUME NEW i \in Images, OtherWrites(i) PROVE DoneInv'
  BY <1>6, OtherWritesEffect DEF DoneInv, TypeOK
<1> QED BY <1>2, <1>3, <1>4, <1>5, <1>6 DEF Writes

\* DoneIsWhole: each disk that the definition names, from one backup, to its end.
THEOREM RestoredWhole == Spec => DoneIsWhole
<1>1. Init => DoneInv
  BY DEF Init, DoneInv
<1>2. Restoring /\ DoneInv /\ [Next]_vars => DoneInv'
  BY StepDone
<1>3. Restoring /\ DoneInv /\ [Next]_vars =>
        [result' = "done" /\ result # "done" /\ kind = "dir" /\ found[chosen] = "final" =>
           /\ xml' = "ours"
           /\ \A d \in Disks : image'[base[d]] = "full" /\ of'[base[d]] = <<chosen, d>>]_vars
  <2> SUFFICES ASSUME Restoring, DoneInv, Next, result' = "done", result # "done", kind = "dir",
                      found[chosen] = "final"
               PROVE  /\ xml' = "ours"
                      /\ \A d \in Disks : image'[base[d]] = "full" /\ of'[base[d]] = <<chosen, d>>
    OBVIOUS
  <2>1. WriteXml
    BY DEF Next, Step, Environment, BackupStarts, BackupGoesOn, BackupStops, CopyGoes, DefnGoes,
       OtherWrites, Others, RestoreBackup, Glob, ReadDefinition, ScanBroken, Pick, NotFound,
       OpenPackager, CheckTarget, OpenTarget, CopyDisk, CopyFails, OpenXml, CopyDriver, Killed,
       ReplaceDisk, End
  <2>2. pc = "write" /\ xml' = "ours" /\ UNCHANGED <<image, of>>
    BY <2>1 DEF WriteXml
  <2>3. todo = {}
    BY <2>2 DEF Restoring, ChoiceInv
  <2> QED BY <2>2, <2>3 DEF DoneInv
<1> QED BY <1>1, <1>2, <1>3, InitRestoring, StepRestoring, PTL DEF Spec, DoneIsWhole

----------------------------------------------------------------------------
(* The choice of a backup *)

LEMMA StepScan ==
  ASSUME TypeOK, ScanInv, [Next]_vars PROVE ScanInv'
<1> USE DEF ScanInv, TypeOK, backups, Listed
<1>1. CASE UNCHANGED vars
  BY <1>1 DEF vars, command
<1>2. CASE BackupStarts
  <2>1. /\ UNCHANGED <<pc, names, found, sure>> /\ last' = last + 1
        /\ \A b \in Backups : defn'[b] # defn[b] => b = last + 1
    BY <1>2 DEF BackupStarts, Others, command
  <2>2. \A b \in Backups : defn'[b] # "absent" => b <= last'
    BY <2>1 DEF Backups
  <2>3. \A b \in Backups : defn[b] = "final" => defn'[b] = "final"
    BY <2>1 DEF Backups
  <2> QED BY <2>1, <2>2, <2>3
<1>10. CASE BackupStops
  BY <1>10 DEF BackupStops, Others, command
<1>3. CASE BackupGoesOn
  <2>1. /\ UNCHANGED <<pc, names, found, sure, last>>
        /\ \A b \in Backups : defn'[b] # defn[b] => b = running /\ defn[b] \in {"torn", "early"}
    BY <1>3 DEF BackupGoesOn, Others, command
  <2> QED BY <2>1
<1>4. ASSUME NEW b \in Backups, DefnGoes(b) \/ \E d \in Disks : CopyGoes(b, d) PROVE ScanInv'
  BY <1>4 DEF DefnGoes, CopyGoes, Others, command
<1>5. CASE \E i \in Images : OtherWrites(i)
  BY <1>5 DEF OtherWrites, command
<1>6. CASE Glob
  BY <1>6 DEF Glob, Quiet
<1>7. CASE ReadDefinition
  BY <1>7 DEF ReadDefinition, Quiet
<1>8. CASE ScanBroken
  BY <1>8 DEF ScanBroken, Quiet, End, command
<1>9. CASE \/ RestoreBackup \/ Pick \/ NotFound \/ OpenPackager \/ CheckTarget \/ OpenTarget \/ CopyDisk
           \/ OpenXml \/ WriteXml \/ CopyDriver \/ CopyFails \/ Killed
           \/ \E b \in Backups, d \in Disks, e \in Disks, active \in BOOLEAN : ReplaceDisk(b, d, e, active)
  <2>1. UNCHANGED <<defn, last>> /\ pc' \notin {"read", "pick"}
    BY <1>9 DEF RestoreBackup, Pick, NotFound, OpenPackager, CheckTarget, OpenTarget, CopyDisk,
       OpenXml, WriteXml, CopyDriver, CopyFails, Killed, ReplaceDisk, Quiet, End
  <2> QED BY <2>1
<1> QED BY <1>1, <1>2, <1>3, <1>4, <1>5, <1>6, <1>7, <1>8, <1>9, <1>10 DEF Next, Step, Environment

\* NewestChosen: backups that come and go during the scan keep no complete one
\* from being found.
THEOREM NewestFound == Spec => NewestChosen
<1>1. Init => TypeOK /\ ChoiceInv /\ ScanInv
  <2>1. Init => ScanInv
    BY DEF Init, ScanInv
  <2> QED BY <2>1, InitType
<1>2. TypeOK /\ ChoiceInv /\ ScanInv /\ [Next]_vars => (TypeOK /\ ChoiceInv /\ ScanInv)'
  BY StepType, StepScan
<1>3. TypeOK /\ ScanInv /\ [Next]_vars =>
        [pc = "pick" /\ pc' = "disk" /\ request = 0 => \A b \in sure : b <= chosen']_vars
  <2> SUFFICES ASSUME TypeOK, ScanInv, Next, pc = "pick", pc' = "disk", request = 0, NEW b \in sure
               PROVE  b <= chosen'
    OBVIOUS
  <2>1. Pick
    BY DEF Next, Step, Environment, BackupStarts, BackupGoesOn, BackupStops, CopyGoes, DefnGoes,
       OtherWrites, Others, RestoreBackup, Glob, ReadDefinition, ScanBroken, NotFound,
       OpenPackager, CheckTarget, OpenTarget, CopyDisk, CopyFails, OpenXml, WriteXml, CopyDriver,
       Killed, ReplaceDisk, End
  <2>2. b \in Listed
    BY DEF ScanInv
  <2> QED BY <2>1, <2>2 DEF Pick
<1> QED BY <1>1, <1>2, <1>3, PTL DEF Spec, NewestChosen

----------------------------------------------------------------------------
(* The names of archives of before 0.4 *)

Pieces == {"name", ".tar", "get", ".gz"}

\* Every definition was written by a version of the program, for some name.
WrittenByUs ==
  \A f \in Forms : \A b \in Backups :
    \/ \E stem \in Seq(Pieces), c \in Compressions \cup {"unset"} : f[b] = Old(stem, c)
    \/ \E stem \in Seq(Pieces), p \in {"directory", "tar", "zstd"}, c \in Compressions :
         f[b] = Present(stem, p, c)

\* The conversion takes the extension from the name of an archive, and complete_path
\* gives it back, for any stem.
LEMMA SameName ==
  ASSUME NEW stem \in Seq(Pieces), NEW c \in {"tar", "gz"}, NEW dated,
         ~(Cardinality(TarAt(Old(stem, c).tar)) > 1)
  PROVE  LET def == Convert(Old(stem, c), dated) IN
         CompletePath(def.name, def.opts) = Old(stem, c).tar
<1> DEFINE t == stem \o Extension(c)
           n == Len(stem)
<1>1. n \in Nat /\ Extension(c) \in Seq(Pieces)
  <2>1. <<".tar">> \in Seq(Pieces) /\ <<".tar", ".gz">> \in Seq(Pieces)
    BY DEF Pieces
  <2> QED BY <2>1, LenProperties DEF Extension
<1>2. Len(Extension(c)) \in {1, 2} /\ Extension(c)[1] = ".tar"
  BY DEF Extension
<1>3. /\ t \in Seq(Pieces) /\ Len(t) = n + Len(Extension(c))
      /\ \A i \in 1..(n + Len(Extension(c))) :
           t[i] = IF i <= n THEN stem[i] ELSE Extension(c)[i - n]
  BY <1>1, ConcatProperties
<1>4. /\ DOMAIN t = 1..Len(t) /\ n + 1 \in 1..Len(t) /\ t[n + 1] = ".tar"
      /\ \A i \in 1..n : i \in 1..Len(t) /\ t[i] = stem[i]
  BY <1>1, <1>2, <1>3, LenProperties
<1>5. TarAt(t) = {n + 1}
  <2>1. n + 1 \in TarAt(t) /\ TarAt(t) \subseteq 1..Len(t)
    BY <1>4 DEF TarAt
  <2>2. ~(Cardinality(TarAt(t)) > 1)
    BY DEF Old
  <2>3. IsFiniteSet(TarAt(t))
    <3>1. IsFiniteSet(1..Len(t))
      BY <1>1, <1>2, <1>3, FS_Interval
    <3> QED BY <2>1, <3>1, FS_Subset
  <2>4. ASSUME NEW i \in TarAt(t), i # n + 1 PROVE FALSE
    <3>1. {i, n + 1} \subseteq TarAt(t)
      BY <2>1
    <3>2. Cardinality({i, n + 1}) <= Cardinality(TarAt(t)) /\ Cardinality(TarAt(t)) \in Nat
      BY <2>3, <3>1, FS_Subset, FS_CardinalityType
    <3>3. Cardinality({i, n + 1}) = 2
      <4>1. Cardinality({i}) = 1 /\ IsFiniteSet({i})
        BY FS_Singleton
      <4>2. {i} \cup {n + 1} = {i, n + 1} /\ n + 1 \notin {i}
        BY <2>4
      <4>3. Cardinality({i} \cup {n + 1}) = Cardinality({i}) + 1
        BY <4>1, <4>2, FS_AddElement
      <4> QED BY <4>1, <4>2, <4>3
    <3> QED BY <2>2, <3>2, <3>3
  <2> QED BY <2>1, <2>4
<1>6. SubSeq(t, 1, n) = stem
  <2>1. \A i \in 1..n : t[i] \in Pieces
    BY <1>4, ElementOfSeq
  <2>2. /\ SubSeq(t, 1, n) \in Seq(Pieces) /\ Len(SubSeq(t, 1, n)) = n
        /\ \A i \in 1..n : SubSeq(t, 1, n)[i] = t[i]
    <3> HIDE DEF t, n
    <3>1. 1 \in Int /\ n \in Int
      BY <1>1
    <3> QED BY <1>1, <2>1, <3>1, SubSeqProperties
  <2> QED BY <1>1, <1>4, <2>2, SeqEqual
<1>7. Old(stem, c).tar = t /\ Old(stem, c).compression = c /\ Old(stem, c).old
  BY DEF Old
<1>8. t # <<>>
  BY <1>4
<1>9. (CHOOSE i \in TarAt(t) : \A j \in TarAt(t) : j <= i) = n + 1
  BY <1>1, <1>5
<1> DEFINE cc == ConvertCompression(Old(stem, c))
           def == Convert(Old(stem, c), dated)
<1>10. cc.tar = t /\ cc.opts = (IF c = "tar" THEN "none" ELSE c)
  BY DEF ConvertCompression, Old
<1>11. ConvertName(cc, dated) = [cc EXCEPT !.tar = <<>>, !.name = stem]
  <2>1. SubSeq(t, 1, (n + 1) - 1) = stem
    BY <1>1, <1>6
  <2> HIDE DEF t, n, cc
  <2> QED BY <1>5, <1>8, <1>9, <1>10, <2>1 DEF ConvertName
<1>12. def = [ConvertName(cc, dated) EXCEPT !.old = FALSE]
  BY <1>7 DEF Convert
<1>13. def.name = stem /\ def.opts = (IF c = "tar" THEN "none" ELSE c)
  <2>1. cc = [old |-> TRUE, tar |-> t, name |-> <<>>, compression |-> "unset",
              packager |-> "tar", opts |-> IF c = "tar" THEN "none" ELSE c]
    BY DEF ConvertCompression, Old
  <2> HIDE DEF t, n, cc, def
  <2> QED BY <1>11, <1>12, <2>1
<1>14. TarAt(stem) = {}
  <2>1. \A i \in 1..n : t[i] = stem[i] /\ i # n + 1 /\ i \in DOMAIN t
    BY <1>1, <1>4
  <2>2. DOMAIN stem = 1..n
    BY LenProperties
  <2> HIDE DEF t, n
  <2> QED BY <1>5, <2>1, <2>2 DEF TarAt
<1>15. CompletePath(def.name, def.opts) = t
  BY <1>13, <1>14 DEF CompletePath, Extension
<1> QED BY <1>7, <1>15

\* Whatever the version that wrote it, the packager opens what is there.
LEMMA ArchiveOpens ==
  ASSUME TypeOK, WrittenByUs, NEW b \in Backups, ~(Cardinality(TarAt(stored[b].tar)) > 1)
  PROVE  Opens(b)
<1>1. CASE \E stem \in Seq(Pieces), p \in {"directory", "tar", "zstd"}, c \in Compressions :
              stored[b] = Present(stem, p, c)
  <2>1. ~stored[b].old /\ stored[b].tar = <<>>
    BY <1>1 DEF Present
  <2>2. Read(b) = stored[b]
    BY <2>1 DEF Read, Convert
  <2> QED BY <2>1, <2>2 DEF Opens
<1>2. CASE \E stem \in Seq(Pieces), c \in Compressions \cup {"unset"} : stored[b] = Old(stem, c)
  <2>1. PICK stem \in Seq(Pieces), c \in Compressions \cup {"unset"} : stored[b] = Old(stem, c)
    BY <1>2
  <2>2. CASE c \in {"tar", "gz"}
    <3>1. stored[b].tar # <<>>
      <4>1. stored[b].tar = stem \o Extension(c)
        BY <2>1, <2>2 DEF Old
      <4>2. Extension(c) \in Seq(Pieces) /\ Extension(c) # <<>>
        <5>1. <<".tar">> \in Seq(Pieces) /\ <<".tar", ".gz">> \in Seq(Pieces)
          BY DEF Pieces
        <5> QED BY <5>1 DEF Extension
      <4> QED BY <4>1, <4>2, ConcatEqualIffEmpty
    <3>2. CompletePath(Read(b).name, Read(b).opts) = stored[b].tar
      BY <2>1, <2>2, SameName DEF Read
    <3> QED BY <3>1, <3>2 DEF Opens
  <2>3. CASE c \in {"none", "unset"}
    <3>1. ConvertCompression(Old(stem, c)).packager = "directory"
      BY <2>3 DEF ConvertCompression, Old
    <3>2. Read(b).packager = "directory"
      <4>1. DOMAIN ConvertCompression(Old(stem, c)) =
              {"old", "tar", "name", "compression", "packager", "opts"}
        BY <2>3 DEF ConvertCompression, Old
      <4>2. Read(b) = [ConvertName(ConvertCompression(Old(stem, c)), <<"name">>) EXCEPT !.old = FALSE]
        BY <2>1 DEF Read, Convert, Old
      <4> QED BY <3>1, <4>1, <4>2 DEF ConvertName
    <3> QED BY <3>2 DEF Opens
  <2> QED BY <2>2, <2>3 DEF Compressions
<1> QED BY <1>1, <1>2 DEF TypeOK, WrittenByUs

\* OldIsFound: whatever the name of the domain, an archive is found by the name that
\* its definition gives, if the version that wrote it had it so.
THEOREM OldFound == ASSUME WrittenByUs PROVE Spec => OldIsFound
<1> DEFINE Fresh == pc # "idle" => result = "none"
<1>1. Init => TypeOK /\ ChoiceInv /\ Fresh
  <2>1. Init => Fresh
    BY DEF Init
  <2> QED BY <2>1, InitType
<1>2. TypeOK /\ ChoiceInv /\ Fresh /\ [Next]_vars => (TypeOK /\ ChoiceInv /\ Fresh)'
  <2> SUFFICES ASSUME Fresh, [Next]_vars PROVE Fresh'
    BY StepType
  <2> QED
    BY DEF Next, Step, vars, Environment, BackupStarts, BackupGoesOn, BackupStops, CopyGoes,
       DefnGoes,
       OtherWrites, Others, RestoreBackup, Glob, ReadDefinition, ScanBroken, Pick, NotFound,
       OpenPackager, CheckTarget, OpenTarget, CopyDisk, CopyFails, OpenXml, WriteXml, CopyDriver,
       Killed, ReplaceDisk, End
<1>3. TypeOK /\ ChoiceInv /\ Fresh /\ [Next]_vars =>
        [pc = "disk" /\ todo # {} /\ result' = "failed" =>
           disk \notin copies[chosen] \/ Cardinality(TarAt(stored[chosen].tar)) > 1]_vars
  <2> SUFFICES ASSUME TypeOK, ChoiceInv, Fresh, Next, pc = "disk", todo # {}, result' = "failed",
                      disk \in copies[chosen]
               PROVE  Cardinality(TarAt(stored[chosen].tar)) > 1
    OBVIOUS
  <2>1. OpenPackager /\ ~Opens(chosen)
    BY DEF Next, Step, Environment, BackupStarts, BackupGoesOn, BackupStops, CopyGoes, DefnGoes,
       OtherWrites, Others, RestoreBackup, Glob, ReadDefinition, ScanBroken, Pick, NotFound,
       OpenPackager, CheckTarget, OpenTarget, CopyDisk, CopyFails, OpenXml, WriteXml, CopyDriver,
       Killed, ReplaceDisk, End
  <2> QED BY <2>1, ArchiveOpens DEF ChoiceInv
<1> QED BY <1>1, <1>2, <1>3, PTL DEF Spec, OldIsFound
=============================================================================
