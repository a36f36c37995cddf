-------------------------- MODULE MCPendingBackup --------------------------
(***************************************************************************)
(* TLC's instance of PendingBackup, and the refinement mapping that shows  *)
(* it to keep the promise of BackupLifecycle.                              *)
(***************************************************************************)
EXTENDS PendingBackup, Remains

\* The packagers of the backups, in their order.
OneZstd == <<"zstd">>
TwoTars == <<"tar", "tar">>
ZstdThenDirectory == <<"zstd", "directory">>

\* The status a reader of the directory can tell from its two files.
StatusOf(b) ==
  IF pend[b].st # "absent" THEN "begun"
  ELSE IF defn[b].st # "absent" THEN "complete"
  ELSE IF b \in opened THEN "dropped" ELSE "none"

Lifecycle == INSTANCE BackupLifecycle WITH
  Backup <- Backups, Disk <- Disks,
  status <- [b \in Backups |-> StatusOf(b)],
  stored <- [b \in Backups |-> {d \in Disks : copies[b][d] = "full"}]

\* start() and clean_aborted() implement the life of a backup: a complete backup
\* has all its disks from the step that completes it on, and no step of another
\* backup, crash or cleaning undoes it or completes a dropped one.
ImplementsLifecycle == Lifecycle!Spec

\* The snapshots of successive backups, some of them left by crashes, stack and
\* unstack as files that back one another must.
Chain == INSTANCE BackingChain WITH Snapshot <- Backups, Disk <- Disks
ImplementsChain == Chain!Spec

\* What a reader finds of a backup, in the terms of CompleteGroup.
RemainsOf(b) ==
  [pend |-> pend[b].st,
   defn |-> IF defn[b].st # "ok" THEN defn[b].st
            ELSE IF defn[b].tgt = {} THEN "early" ELSE "final",
   data |-> LET made == {copies[b][d] : d \in Disks} IN
            IF made = {"full"} THEN "whole" ELSE IF made = {"none"} THEN "none" ELSE "partial"]

\* CompleteGroup starts from what start() may leave: whatever failed, crashed or
\* was cancelled, in start() or in the cleaning after it, a backup no command
\* works on is complete, or gone without a trace, or one of Left, unless several
\* cleanings of its shared directory died (README).
LeavesAsAssumed ==
  \A b \in opened \ (interrupted \cup {cur}) :
    RemainsOf(b) \in Left \cup {Complete, [pend |-> "absent", defn |-> "absent", data |-> "none"]}
=============================================================================
