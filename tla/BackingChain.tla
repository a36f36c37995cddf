---------------------------- MODULE BackingChain ----------------------------
(***************************************************************************)
(* What taking and cleaning external snapshots may do to a domain's disks: *)
(* an overlay goes under use for every disk at once, is merged only when   *)
(* it is the top of its disk, and its file is removed only after that.     *)
(***************************************************************************)
EXTENDS Naturals

CONSTANTS Snapshot,  \* snapshots, numbered in the order they are taken
          Disk

VARIABLES overlay,  \* disks that run on each snapshot
          snapfile  \* disks for which the file of each snapshot exists

Init == /\ overlay \in [Snapshot -> {{}, Disk}]
        /\ snapfile = overlay

Take(s) == /\ overlay[s] = {} /\ snapfile[s] = {}
           /\ \A t \in Snapshot : t > s => overlay[t] = {}
           /\ overlay' = [overlay EXCEPT ![s] = Disk]
           /\ snapfile' = [snapfile EXCEPT ![s] = Disk]

Merge(s, d) == /\ d \in overlay[s]
               /\ \A t \in Snapshot : t > s => d \notin overlay[t]
               /\ overlay' = [overlay EXCEPT ![s] = @ \ {d}]
               /\ UNCHANGED snapfile

Unlink(s, d) == /\ d \in snapfile[s] /\ d \notin overlay[s]
                /\ snapfile' = [snapfile EXCEPT ![s] = @ \ {d}]
                /\ UNCHANGED overlay

Next == \E s \in Snapshot :
          Take(s) \/ \E d \in Disk : Merge(s, d) \/ Unlink(s, d)

Spec == Init /\ [][Next]_<<overlay, snapfile>>
=============================================================================
