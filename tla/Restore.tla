------------------------------ MODULE Restore ------------------------------
(***************************************************************************)
(* `virt-backup restore` (restore_backup in __main__.py) and the library's *)
(* restore_and_replace_disk_of (backups/complete.py): the scan of the      *)
(* domain's backups, the choice of one, and the restore of each disk by    *)
(* the read packager.  Meanwhile other processes take a backup of the      *)
(* domain, remove backups, and write in the target directory.              *)
(***************************************************************************)
EXTENDS Definitions, FiniteSets

CONSTANTS NDisks,       \* disks of the domain
          NBackups,     \* bound: backups of the domain; the first one is there from the start
          Forms,        \* the ways the backups' definitions may be stored
          MaxCommands,  \* bound: restores
          MaxOthers,    \* bound: images that others write in the target directory
          MaxFaults     \* bound: failing copies, Ctrl-C, kills

ASSUME RestoreAssumption ==
  /\ NDisks \in Nat \ {0} /\ NBackups \in Nat \ {0}
  /\ MaxCommands \in Nat /\ MaxOthers \in Nat /\ MaxFaults \in Nat

Disks == 1..NDisks      \* in the order of the definition's "disks"
Images == Disks         \* a basename is called by the first disk whose image has it
Backups == 1..NBackups  \* in the order of their dates

ASSUME FormsAssumption == Forms \subseteq [Backups -> Definition]

VARIABLES
  stored,     \* what each backup's definition says of its packager
  base,       \* the basename of each disk's original image: the first disk that has it
  strangers,  \* is there a pending file the scan cannot make a backup of
  defn,       \* the definition file of each backup: an early one names no disk
  copies,     \* disks of each backup whose copy is there
  last, running,  \* the last backup started, and the one being taken, 0 if none
  image,      \* the files of the target directory under those basenames
  of,         \* for what the command wrote: of which backup and disk
  xml,        \* the domain's XML file in the target directory
  pc, kind, request,  \* the command: restore to a directory, or replace a disk
  names,      \* files that glob has listed and the scan has not read yet
  found,      \* CompleteBackupGroup.backups of the domain
  chosen, todo,   \* the backup, and the disks of it left to restore
  result,     \* how the last command ended
  commands, others, faults,
  sure,       \* history: complete backups since the scan began
  late,       \* history: an image that another wrote after the command's check
  killed      \* history: images whose copy was cut by a kill

backups == <<defn, copies, last, running>>
target == <<image, of, xml>>
command == <<kind, request, names, found, chosen, todo>>
given == <<stored, base, strangers>>
vars == <<given, backups, target, command, pc, result, commands, others, faults,
          sure, late, killed>>

TypeOK ==
  /\ stored \in Forms /\ base \in [Disks -> Images] /\ strangers \in BOOLEAN
  /\ defn \in [Backups -> {"absent", "torn", "early", "final"}]
  /\ copies \in [Backups -> SUBSET Disks]
  /\ last \in Backups /\ running \in {0, last}
  /\ image \in [Images -> {"none", "theirs", "partial", "full"}]
  /\ of \in [Images -> (Backups \cup {0}) \X (Disks \cup {0})]
  /\ xml \in {"none", "torn", "ours"}
  /\ pc \in {"idle", "glob", "read", "pick", "disk", "check", "open", "copy", "xml", "write"}
  /\ kind \in {"dir", "replace"} /\ request \in Backups \cup {0}
  /\ names \in SUBSET Backups /\ found \in [Backups -> {"no", "early", "final"}]
  /\ chosen \in Backups \cup {0} /\ todo \in SUBSET Disks
  /\ result \in {"none", "done", "failed", "killed"}
  /\ commands \in 0..MaxCommands /\ others \in 0..MaxOthers /\ faults \in 0..MaxFaults
  /\ sure \in SUBSET Backups /\ late \in SUBSET Images /\ killed \in SUBSET Images

NoneFound == [b \in Backups |-> "no"]

Init ==
  /\ stored \in Forms /\ strangers \in BOOLEAN
  /\ base \in {f \in [Disks -> Images] : \A d \in Disks : f[d] <= d /\ f[f[d]] = f[d]}
  /\ defn = [b \in Backups |-> IF b = 1 THEN "final" ELSE "absent"]
  /\ copies = [b \in Backups |-> IF b = 1 THEN Disks ELSE {}]
  /\ last = 1 /\ running = 0
  /\ image = [i \in Images |-> "none"] /\ of = [i \in Images |-> <<0, 0>>]
  /\ xml = "none"
  /\ pc = "idle" /\ kind = "dir" /\ request = 0 /\ names = {} /\ found = NoneFound
  /\ chosen = 0 /\ todo = {} /\ result = "none"
  /\ commands = 0 /\ others = 0 /\ faults = 0 /\ sure = {} /\ late = {} /\ killed = {}

\* What the scan makes of the definition.
Read(b) == Convert(stored[b], <<"name">>)

----------------------------------------------------------------------------
(* Other processes.  The steps of a backup are those of PendingBackup, those *)
(* of a removal those of CompleteGroup: here only what a reader can see.     *)

Others == UNCHANGED <<given, target, command, pc, result, commands, faults, late, killed>>

\* start() dumps an early definition, ...
BackupStarts ==
  /\ running = 0 /\ last < NBackups
  /\ last' = last + 1 /\ running' = last + 1
  /\ defn' = [defn EXCEPT ![last + 1] = "torn"]
  /\ UNCHANGED <<copies, others, sure>> /\ Others

\* ... writes it to the end, copies the disks, dumps the definition over it, ...
BackupGoesOn ==
  /\ running # 0
  /\ \/ /\ defn[running] = "torn" /\ UNCHANGED copies
        /\ defn' = [defn EXCEPT ![running] = IF copies[running] = {} THEN "early" ELSE "final"]
     \/ /\ defn[running] = "early" /\ copies[running] = {}
        /\ copies' = [copies EXCEPT ![running] = Disks] /\ UNCHANGED defn
     \/ /\ defn[running] = "early" /\ copies[running] = Disks
        /\ defn' = [defn EXCEPT ![running] = "torn"] /\ UNCHANGED copies
  /\ UNCHANGED <<last, running, others, sure>> /\ Others

\* ... and ends, or dies at any moment.
BackupStops ==
  /\ running # 0 /\ running' = 0
  /\ UNCHANGED <<defn, copies, last, others, sure>> /\ Others

\* clean_aborted() and delete() remove the copies, a tar archive at once ...
CopyGoes(b, d) ==
  /\ b # running /\ d \in copies[b]
  /\ copies' = [copies EXCEPT ![b] = IF Read(b).packager = "tar" THEN {} ELSE @ \ {d}]
  /\ UNCHANGED <<defn, last, running, others, sure>> /\ Others

\* ... and then the definition.
DefnGoes(b) ==
  /\ b # running /\ defn[b] # "absent"
  /\ defn' = [defn EXCEPT ![b] = "absent"] /\ sure' = sure \ {b}
  /\ UNCHANGED <<copies, last, running, others>> /\ Others

\* Someone puts a file where a disk's image would go.
OtherWrites(i) ==
  /\ image[i] = "none" /\ others < MaxOthers /\ others' = others + 1
  /\ image' = [image EXCEPT ![i] = "theirs"]
  /\ late' = IF pc = "open" THEN late \cup {i} ELSE late
  /\ UNCHANGED <<given, backups, of, xml, command, pc, result, commands, faults, sure, killed>>

Environment ==
  \/ BackupStarts \/ BackupGoesOn \/ BackupStops
  \/ \E b \in Backups : DefnGoes(b) \/ \E d \in Disks : CopyGoes(b, d)
  \/ \E i \in Images : OtherWrites(i)

----------------------------------------------------------------------------
(* The command: scan and choice *)

Quiet == UNCHANGED <<given, backups, others>>

\* The command is over.
End(how) ==
  /\ pc' = "idle" /\ result' = how
  /\ kind' = "dir" /\ request' = 0 /\ names' = {} /\ found' = NoneFound
  /\ chosen' = 0 /\ todo' = {} /\ sure' = {}
  /\ UNCHANGED commands

\* `virt-backup restore [--date] group domain target_dir`
RestoreBackup ==
  /\ pc = "idle" /\ commands < MaxCommands /\ commands' = commands + 1
  /\ request' \in Backups \cup {0}
  /\ pc' = "glob" /\ result' = "none"
  /\ UNCHANGED <<kind, names, found, chosen, todo, target, faults, sure, late, killed>> /\ Quiet

Glob ==
  /\ pc = "glob" /\ pc' = "read"
  /\ names' = {b \in Backups : defn[b] # "absent"}
  /\ sure' = {b \in Backups : defn[b] = "final"}
  /\ UNCHANGED <<kind, request, found, chosen, todo, target, result, commands, faults,
                 late, killed>> /\ Quiet

\* Mutation: a file that does not parse is not skipped.
ReadTorn ==
  /\ pc = "read"
  /\ \E b \in names : names' = names \ {b} /\ found' = [found EXCEPT ![b] = defn[b]]
  /\ UNCHANGED <<kind, request, chosen, todo, pc, target, result, commands, faults, sure,
                 late, killed>> /\ Quiet

\* A file that has gone or does not parse is skipped.
ReadDefinition ==
  /\ pc = "read"
  /\ \E b \in names :
       /\ names' = names \ {b}
       /\ found' = IF defn[b] \in {"early", "final"} THEN [found EXCEPT ![b] = defn[b]] ELSE found
  /\ UNCHANGED <<kind, request, chosen, todo, pc, target, result, commands, faults, sure,
                 late, killed>> /\ Quiet

\* Every pending file of the group is made a DomBackup, which raises for a domain
\* or a disk that libvirt does not know.
ScanBroken ==
  /\ pc = "read" /\ names = {}
  /\ \/ strangers /\ End("failed")
     \/ ~strangers /\ pc' = "pick" /\ UNCHANGED <<command, result, commands, sure>>
  /\ UNCHANGED <<target, faults, late, killed>> /\ Quiet

Listed == {b \in Backups : found[b] # "no"}

\* Mutation: the first of the list.
PickFirst ==
  /\ pc = "pick"
  /\ \E b \in Listed :
       /\ IF request = 0 THEN \A c \in Listed : b <= c ELSE b = request
       /\ chosen' = b /\ pc' = "disk"
       /\ todo' = IF found[b] = "final" THEN Disks ELSE {}
  /\ UNCHANGED <<kind, request, names, found, result, target, commands, faults, sure,
                 late, killed>> /\ Quiet

\* The last one of the list, or the one of the given date.
Pick ==
  /\ pc = "pick"
  /\ \E b \in Listed :
       /\ IF request = 0 THEN \A c \in Listed : c <= b ELSE b = request
       /\ chosen' = b /\ pc' = "disk"
       /\ todo' = IF found[b] = "final" THEN Disks ELSE {}
  /\ UNCHANGED <<kind, request, names, found, result, target, commands, faults, sure,
                 late, killed>> /\ Quiet

NotFound ==
  /\ pc = "pick" /\ IF request = 0 THEN Listed = {} ELSE request \notin Listed
  /\ End("failed")
  /\ UNCHANGED <<target, faults, late, killed>> /\ Quiet

----------------------------------------------------------------------------
(* restore_disk_to *)

disk == CHOOSE d \in todo : \A e \in todo : d <= e

\* Can the packager of b open what b was written to?  An archive of before 0.4 has
\* the name in the definition, later ones the name that complete_path gave them.
Opens(b) ==
  Read(b).packager = "tar" =>
    CompletePath(Read(b).name, Read(b).opts) =
      IF stored[b].tar # <<>> THEN stored[b].tar
      ELSE CompletePath(stored[b].name, stored[b].opts)

\* `with packager:` and its look at what it has.
OpenPackager ==
  /\ pc = "disk" /\ todo # {}
  /\ IF Opens(chosen) /\ disk \in copies[chosen]
     THEN pc' = "check" /\ UNCHANGED <<command, result, commands, sure>>
     ELSE End("failed")
  /\ UNCHANGED <<target, faults, late, killed>> /\ Quiet

\* Mutation: no file of the target directory may be there.
CheckDirectory ==
  /\ pc = "check"
  /\ IF \E i \in Images : image[i] # "none"
     THEN End("failed")
     ELSE pc' = "open" /\ UNCHANGED <<command, result, commands, sure>>
  /\ UNCHANGED <<target, faults, late, killed>> /\ Quiet

\* Is there a file under the target's name?  The directory packager does not look.
CheckTarget ==
  /\ pc = "check"
  /\ IF Read(chosen).packager # "directory" /\ image[base[disk]] # "none"
     THEN End("failed")
     ELSE pc' = "open" /\ UNCHANGED <<command, result, commands, sure>>
  /\ UNCHANGED <<target, faults, late, killed>> /\ Quiet

\* Mutation: no packager removes what it has written.
LeaveTarget == late' = {} /\ UNCHANGED <<image, of>>

\* What follows an exception: tar and zstd remove the target, if there is one.
RemoveTarget ==
  /\ IF Read(chosen).packager = "directory" THEN UNCHANGED <<image, of>>
     ELSE /\ image' = [image EXCEPT ![base[disk]] = "none"]
          /\ of' = [of EXCEPT ![base[disk]] = <<0, 0>>]
  /\ late' = {}

\* Mutation: open(target, "wb").
OpenOver ==
  /\ pc = "open" /\ pc' = "copy"
  /\ image' = [image EXCEPT ![base[disk]] = "partial"]
  /\ of' = [of EXCEPT ![base[disk]] = <<chosen, disk>>] /\ late' = {}
  /\ UNCHANGED <<xml, command, result, commands, faults, sure, killed>> /\ Quiet

\* The copy is opened (the tar archive is open already), then open(target, "xb").
OpenTarget ==
  /\ pc = "open"
  /\ LET readable == Read(chosen).packager = "tar" \/ disk \in copies[chosen] IN
     IF readable /\ image[base[disk]] = "none"
     THEN /\ image' = [image EXCEPT ![base[disk]] = "partial"]
          /\ of' = [of EXCEPT ![base[disk]] = <<chosen, disk>>]
          /\ pc' = "copy" /\ late' = {} /\ UNCHANGED <<command, result, commands, sure>>
     ELSE RemoveTarget /\ End("failed")
  /\ UNCHANGED <<xml, faults, killed>> /\ Quiet

\* A file that is open may be removed by others: it is read to its end.
CopyDisk ==
  /\ pc = "copy" /\ pc' = "disk"
  /\ image' = [image EXCEPT ![base[disk]] = "full"]
  /\ todo' = todo \ {disk}
  /\ UNCHANGED <<of, xml, kind, request, names, found, chosen, result, commands, faults,
                 sure, late, killed>> /\ Quiet

\* A read or a write fails, or Ctrl-C comes.
CopyFails ==
  /\ pc = "copy" /\ faults < MaxFaults /\ faults' = faults + 1
  /\ RemoveTarget /\ End("failed")
  /\ UNCHANGED <<xml, killed>> /\ Quiet

\* restore_to opens the XML file over what there is, and writes it.
OpenXml ==
  /\ pc = "disk" /\ todo = {} /\ kind = "dir" /\ pc' = "write"
  /\ xml' = "torn"
  /\ UNCHANGED <<image, of, command, result, commands, faults, sure, late, killed>> /\ Quiet

WriteXml ==
  /\ pc = "write" /\ xml' = "ours" /\ End("done")
  /\ UNCHANGED <<image, of, faults, late, killed>> /\ Quiet

Killed ==
  /\ pc # "idle" /\ faults < MaxFaults /\ faults' = faults + 1
  /\ killed' = IF pc = "copy" THEN killed \cup {base[disk]} ELSE killed
  /\ End("killed") /\ late' = {}
  /\ UNCHANGED target /\ Quiet

----------------------------------------------------------------------------
(* restore_and_replace_disk_of, on a backup that an earlier scan has found and *)
(* a domain whose disk e has its image in the target directory.                *)

ReplaceDisk(b, d, e, active) ==
  /\ pc = "idle" /\ commands < MaxCommands /\ commands' = commands + 1
  /\ defn[b] = "final"
  \* the domain's disks are filtered by e, and looked up by d
  /\ IF active \/ d # e THEN result' = "failed" /\ UNCHANGED <<pc, kind, chosen, todo>>
     ELSE result' = "none" /\ pc' = "disk" /\ kind' = "replace" /\ chosen' = b /\ todo' = {d}
  /\ UNCHANGED <<request, names, found, target, faults, sure, late, killed>> /\ Quiet

\* _copy_disk_driver_with_domain changes an XML tree that nobody keeps.
CopyDriver ==
  /\ pc = "disk" /\ todo = {} /\ kind = "replace" /\ End("done")
  /\ UNCHANGED <<target, faults, late, killed>> /\ Quiet

----------------------------------------------------------------------------
Step ==
  \/ Glob \/ ReadDefinition \/ ScanBroken \/ Pick \/ NotFound \/ OpenPackager
  \/ CheckTarget \/ OpenTarget \/ CopyDisk \/ OpenXml \/ WriteXml \/ CopyDriver

Next ==
  \/ Step \/ CopyFails \/ Killed \/ Environment \/ RestoreBackup
  \/ \E b \in Backups, d \in Disks, e \in Disks, active \in BOOLEAN : ReplaceDisk(b, d, e, active)

Spec == Init /\ [][Next]_vars

\* The command keeps running.
FairSpec == Spec /\ WF_vars(Step)

----------------------------------------------------------------------------
(* Properties *)

\* A file that someone else has put under the name of an image is never written
\* over nor removed, but when it came between the check of the tar and zstd
\* packagers and their open, which then remove what they have not written.
TheirsKept ==
  [][\A i \in Images : image[i] = "theirs" /\ image'[i] # "theirs" => i \in late]_vars

\* What a restore wrote in part is removed when it fails, whichever step failed;
\* the directory packager and a killed command leave it.
NoPartialLeft ==
  \A i \in Images : image[i] = "partial" /\ i \notin killed =>
    \/ pc = "copy" /\ i = base[disk]
    \/ Read(of[i][1]).packager = "directory"

\* A restore that ends well has made every disk the definition names out of the
\* same backup, to the end, and no two of them under one name, even when the
\* backup is removed or another is taken meanwhile.
DoneIsWhole ==
  [][result' = "done" /\ result # "done" /\ kind = "dir" /\ found[chosen] = "final" =>
     /\ xml' = "ours"
     /\ \A d \in Disks : image'[base[d]] = "full" /\ of'[base[d]] = <<chosen, d>>]_vars

\* Without a date, no backup is chosen that is older than one which was complete
\* from the beginning of the scan to its end.
NewestChosen ==
  [][pc = "pick" /\ pc' = "disk" /\ request = 0 => \A b \in sure : b <= chosen']_vars

\* No restore gives up on a disk whose copy is there, whichever version has written
\* the backup: the conversion makes the name that the archive has, unless ".tar"
\* occurs in what comes before its extension.
OldIsFound ==
  [][pc = "disk" /\ todo # {} /\ result' = "failed" =>
     disk \notin copies[chosen] \/ Cardinality(TarAt(stored[chosen].tar)) > 1]_vars

\* Nothing stands in the way of the disks left to restore.
Clear ==
  /\ Opens(chosen) /\ copies[chosen] = Disks
  /\ \A d \in todo : image[base[d]] = "none" /\ \A e \in todo : base[d] = base[e] => d = e

\* Once a whole backup is chosen and nothing stands in the way, its restore ends
\* well, unless someone removes the backup, writes into the target or stops it.
WholeIsRestored ==
  pc = "disk" /\ Clear ~>
    result = "done" \/ (chosen # 0 /\ copies[chosen] # Disks) \/ others > 0 \/ faults > 0

----------------------------------------------------------------------------
(* What the documentation says *)

\* docs/quickstart.rst: restoring the last backup of a domain extracts everything
\* that was backed up.
LastIsExtracted ==
  [][result' = "done" /\ result # "done" /\ kind = "dir" /\ request = 0 =>
     \A d \in Disks : image[base[d]] = "full"]_vars
=============================================================================
