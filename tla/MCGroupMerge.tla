--------------------------- MODULE MCGroupMerge ---------------------------
(***************************************************************************)
(* TLC's instances of GroupMerge: two or three groups, two domains.        *)
(***************************************************************************)
EXTENDS GroupMerge

CONSTANTS d1, d2  \* domains

TwoDomains == [d \in {d1, d2} |-> IF d = d1 THEN {"vda", "vdb"} ELSE {"vda"}]

Host(match, exclude, disks, quiesce) ==
  [match |-> match, exclude |-> exclude, disks |-> disks, quiesce |-> quiesce]

SomeHosts ==
  {Host({d1}, FALSE, {}, "unset"), Host({d1, d2}, FALSE, {"vda"}, "unset"),
   Host({d1, d2}, FALSE, {"vdb"}, "unset"), Host({d1}, FALSE, {"vdb"}, "on"),
   Host({d1, d2}, FALSE, {}, "unset"), Host({d2}, TRUE, {}, "unset"), Host({}, FALSE, {}, "unset")}

Group(auto, packager, timeout, hosts) ==
  [autostart |-> auto, hosts |-> hosts,
   options |-> [target |-> "dir", packager |-> packager, quiesce |-> "unset", timeout |-> timeout]]

Ones == {<<x>> : x \in SomeHosts}
Twos == {<<x, y>> : x \in SomeHosts, y \in SomeHosts}

\* A list of two definitions and one of one; a third group meets backups of its
\* domain by both packagers.
TwoGroups ==
  {<<Group(TRUE, "unset", 0, xs), Group(auto, p, 5, ys)>> :
     xs \in Twos, ys \in Ones, auto \in BOOLEAN, p \in {"tar", "zstd"}}
ThreeGroups ==
  {<<Group(TRUE, "tar", 0, <<x>>), Group(TRUE, "zstd", 0, <<y>>), Group(TRUE, p, n, <<z>>)>> :
     x \in SomeHosts, y \in SomeHosts, z \in SomeHosts, p \in {"tar", "zstd"}, n \in {0, 5}}
AllConfigs == TwoGroups \cup ThreeGroups
=============================================================================
