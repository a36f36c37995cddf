------------------------------ MODULE Remains ------------------------------
(***************************************************************************)
(* What one backup may have in the directory when no command works on it:  *)
(* the interface between the modules that produce it (PendingBackup, step  *)
(* by step) and those that start from it (CompleteGroup).                  *)
(***************************************************************************)

Remains ==
  [pend : {"absent", "torn", "ok"},             \* the pending file, as a reader finds it
   defn : {"absent", "torn", "early", "final"}, \* the definition: early ones name no disks
   data : {"none", "partial", "whole"}]         \* the copies of its disks

Complete == [pend |-> "absent", defn |-> "final", data |-> "whole"]

\* What the death of start() leaves, in its own steps after the first dump or in
\* those of clean_aborted(): the order of the dumps, of the copies and of their
\* removal decide what may come together.
Left ==
  {r \in Remains :
     /\ r.pend # "absent"
     /\ r.pend = "torn" => r.defn \in {"absent", "early"}
     /\ r.defn = "absent" => r.data = "none"}
=============================================================================
