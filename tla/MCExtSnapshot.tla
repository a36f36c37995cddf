--------------------------- MODULE MCExtSnapshot ---------------------------
(***************************************************************************)
(* TLC's instance of ExtSnapshot, and the mapping that shows its threads   *)
(* to do what PendingBackup takes clean_for_disk() to do in two steps.     *)
(***************************************************************************)
EXTENDS ExtSnapshot

Chain == INSTANCE BackingChain WITH
  Snapshot <- {1}, Disk <- Disks,
  overlay <- [s \in {1} |-> {d \in Disks : conf[d] = "snap"}],
  snapfile <- [s \in {1} |-> exists]

\* Whichever path cleans it (event thread or cleaning thread, running domain or
\* not), each disk is first configured back on its base, then loses its snapshot.
ImplementsChain == Chain!Spec
=============================================================================
