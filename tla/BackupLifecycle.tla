-------------------------- MODULE BackupLifecycle --------------------------
(***************************************************************************)
(* What one domain's backups promise to whoever reads the backup directory *)
(* (virt-backup list, restore and clean): a backup is begun, then either   *)
(* becomes complete with every disk in it and stays so, or is dropped.     *)
(***************************************************************************)
CONSTANTS Backup, Disk

VARIABLES status,  \* none, begun, complete or dropped
          stored   \* disks of each backup that are stored to the end

Init == /\ status = [b \in Backup |-> "none"]
        /\ stored = [b \in Backup |-> {}]

\* A pending file appears.
Begin(b) == /\ status[b] = "none"
            /\ status' = [status EXCEPT ![b] = "begun"]
            /\ UNCHANGED stored

\* Disks are stored, or removed again, while the backup is begun.
Store(b) == /\ status[b] = "begun"
            /\ \E ds \in SUBSET Disk : stored' = [stored EXCEPT ![b] = ds]
            /\ UNCHANGED status

\* The pending file goes and leaves a definition.
Complete(b) == /\ status[b] = "begun" /\ stored[b] = Disk
               /\ status' = [status EXCEPT ![b] = "complete"]
               /\ UNCHANGED stored

\* The pending file goes and leaves no definition.
Drop(b) == /\ status[b] = "begun"
           /\ status' = [status EXCEPT ![b] = "dropped"]
           /\ UNCHANGED stored

Next == \E b \in Backup : Begin(b) \/ Store(b) \/ Complete(b) \/ Drop(b)

Spec == Init /\ [][Next]_<<status, stored>>
=============================================================================
