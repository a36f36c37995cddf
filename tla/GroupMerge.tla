---------------------------- MODULE GroupMerge ----------------------------
(***************************************************************************)
(* How `virt-backup backup` turns the groups of the configuration into the *)
(* one list of backups it starts: groups_from_dict() builds a BackupGroup  *)
(* from the host definitions of each group (groups/pending.py), and        *)
(* build_main_backup_group() (__main__.py) adds the backups of the groups  *)
(* to a main group, which merges those that are compatible.                *)
(*                                                                         *)
(* A host definition is the set of domains its name or regex matches.      *)
(***************************************************************************)
EXTENDS Naturals, Sequences, FiniteSets

CONSTANTS DisksOf,  \* the disks of each domain
          Targets, Packagers,  \* backup directories, packagers with their options
          Configs   \* the configurations to try: sequences of groups

Domains == DOMAIN DisksOf
Hosts == [match : SUBSET Domains, exclude : BOOLEAN,
          disks : SUBSET UNION {DisksOf[d] : d \in Domains},  \* {}: not given
          quiesce : {"unset", "on", "off"}]
Options == [target : Targets \cup {"unset"}, packager : Packagers \cup {"unset"},
            quiesce : {"unset", "on", "off"}, timeout : Nat]  \* 0: none

ASSUME TarAssumption == "tar" \in Packagers
ASSUME ConfigsAssumption ==
  Configs \subseteq Seq([autostart : BOOLEAN, options : Options, hosts : Seq(Hosts)]) \ {<<>>}

VARIABLES
  config,  \* the groups
  asked,   \* the groups named on the command line
  pc,      \* "build", "merge", "done", or "failed" on an exception
  i,       \* the group that is built or merged
  h,       \* its next host definition
  built,   \* the groups built: at most one backup per domain
  merged,  \* the domains of group i whose backups are in the main group
  main     \* BackupGroup.backups of the main group

vars == <<config, asked, pc, i, h, built, merged, main>>

Backup == [dom : Domains, target : Targets \cup {"unset"}, packager : Packagers,
           disks : SUBSET UNION {DisksOf[d] : d \in Domains},
           quiesce : {"on", "off"}, timeout : Nat]

TypeOK ==
  /\ config \in Configs /\ asked \subseteq DOMAIN config
  /\ pc \in {"build", "merge", "done", "failed"}
  /\ i \in 1..(Len(config) + 1) /\ h \in Nat \ {0}
  /\ DOMAIN built = DOMAIN config
  /\ \A k \in DOMAIN built : \A d \in DOMAIN built[k] :
       built[k][d] \in Backup /\ built[k][d].dom = d
  /\ merged \subseteq Domains
  /\ \A k \in DOMAIN main : main[k] \in Backup /\ main[k].disks \subseteq DisksOf[main[k].dom]

Init ==
  /\ config \in Configs /\ asked \in SUBSET DOMAIN config
  /\ pc = "build" /\ i = 1 /\ h = 1
  /\ built = [k \in DOMAIN config |-> <<>>]
  /\ merged = {} /\ main = <<>>

----------------------------------------------------------------------------
(* The groups *)

Excluded(group) ==
  UNION {group.hosts[k].match : k \in {k \in DOMAIN group.hosts : group.hosts[k].exclude}}

\* Mutation: the exclusion only holds for the definitions that follow it.
IncludedInOrder(group, host) ==
  IF host.exclude THEN {} ELSE host.match \ Excluded([group EXCEPT !.hosts = SubSeq(@, 1, h)])

\* The domains a host definition adds to its group.
Included(group, host) == IF host.exclude THEN {} ELSE host.match \ Excluded(group)

\* No disk named means all of them.
DisksAsked(host, d) == IF host.disks = {} THEN DisksOf[d] ELSE host.disks

Or(value, default) == IF value = "unset" THEN default ELSE value

\* Mutation: no packager given, none used.
NewBackupAsGiven(options, host, d) ==
  [dom |-> d, target |-> options.target, packager |-> options.packager,
   disks |-> DisksAsked(host, d), timeout |-> options.timeout,
   quiesce |-> Or(host.quiesce, Or(options.quiesce, "off"))]

NewBackup(options, host, d) ==
  [dom |-> d, target |-> options.target, packager |-> Or(options.packager, "tar"),
   disks |-> DisksAsked(host, d), timeout |-> options.timeout,
   quiesce |-> Or(host.quiesce, Or(options.quiesce, "off"))]

\* add_domain() for each domain of the next definition: the first one of a domain
\* makes its backup, the others add their disks to it.
AddDomains ==
  /\ pc = "build" /\ h <= Len(config[i].hosts)
  /\ LET group == config[i]
         host == group.hosts[h]
         doms == Included(group, host)
         old == built[i]
     IN  /\ \A d \in doms : host.disks \subseteq DisksOf[d]
         /\ built' = [built EXCEPT ![i] = [d \in DOMAIN old \cup doms |->
              IF d \notin DOMAIN old THEN NewBackup(group.options, host, d)
              ELSE IF d \in doms THEN [old[d] EXCEPT !.disks = @ \cup DisksAsked(host, d)]
              ELSE old[d]]]
  /\ h' = h + 1
  /\ UNCHANGED <<config, asked, pc, i, merged, main>>

\* A disk that one of the domains does not have ends the command.
DiskNotFound ==
  /\ pc = "build" /\ h <= Len(config[i].hosts)
  /\ LET host == config[i].hosts[h]
     IN  \E d \in Included(config[i], host) : ~(host.disks \subseteq DisksOf[d])
  /\ pc' = "failed"
  /\ UNCHANGED <<config, asked, i, h, built, merged, main>>

GroupBuilt ==
  /\ pc = "build" /\ h > Len(config[i].hosts) /\ h' = 1
  /\ IF i < Len(config) THEN i' = i + 1 /\ UNCHANGED pc ELSE i' = 1 /\ pc' = "merge"
  /\ UNCHANGED <<config, asked, built, merged, main>>

----------------------------------------------------------------------------
(* The main group *)

\* The groups named, all those with autostart if none is.
Selected(k) == IF asked = {} THEN config[k].autostart ELSE k \in asked

CompatibleWith(a, b) == a.dom = b.dom /\ a.target = b.target /\ a.packager = b.packager

\* Mutation: only the first backup of the domain is compared.
MergeFirst(b) ==
  LET same == {k \in DOMAIN main : main[k].dom = b.dom}
      first == CHOOSE k \in same : \A l \in same : k <= l
  IN  IF same # {} /\ CompatibleWith(main[first], b)
      THEN main' = [main EXCEPT ![first].disks = @ \cup b.disks]
      ELSE main' = Append(main, b)

\* add_dombackup(): b is added to the first backup it is compatible with, its
\* timeout to one that has none.
Merge(b) ==
  LET same == {k \in DOMAIN main : CompatibleWith(main[k], b)}
      first == CHOOSE k \in same : \A l \in same : k <= l
  IN  IF same # {}
      THEN main' = [main EXCEPT ![first].disks = @ \cup b.disks,
                                ![first].timeout = IF @ = 0 THEN b.timeout ELSE @]
      ELSE main' = Append(main, b)

AddDomBackup ==
  /\ pc = "merge" /\ Selected(i)
  /\ \E d \in DOMAIN built[i] \ merged :
       Merge(built[i][d]) /\ merged' = merged \cup {d}
  /\ UNCHANGED <<config, asked, pc, i, h, built>>

GroupMerged ==
  /\ pc = "merge" /\ (Selected(i) => merged = DOMAIN built[i])
  /\ i' = i + 1 /\ merged' = {}
  /\ pc' = IF i < Len(config) THEN "merge" ELSE "done"
  /\ UNCHANGED <<config, asked, h, built, main>>

Next == AddDomains \/ DiskNotFound \/ GroupBuilt \/ AddDomBackup \/ GroupMerged

Spec == Init /\ [][Next]_vars

----------------------------------------------------------------------------
(* Properties *)

\* docs/backup.rst, "Unicity": no two backups of the main group are compatible,
\* whatever the order of groups with several packagers and targets: the same
\* copies are never taken twice in the same place.
NoTwoAlike ==
  \A k \in DOMAIN main, l \in DOMAIN main :
    k # l => ~(/\ main[k].dom = main[l].dom
               /\ main[k].target = main[l].target /\ main[k].packager = main[l].packager)

\* Definition n of group k asks for a backup of d by the options o, and no
\* definition of the group, before or after it, excludes d.
Asks(k, n, d, target, packager) ==
  LET group == config[k]
  IN  /\ Selected(k) /\ group.options.target = target
      /\ (IF group.options.packager = "unset" THEN "tar" ELSE group.options.packager) = packager
      /\ ~group.hosts[n].exclude /\ d \in group.hosts[n].match
      /\ \A l \in DOMAIN group.hosts : group.hosts[l].exclude => d \notin group.hosts[l].match

\* The main group is what the configuration asks for, in whatever order and
\* however often: a disk of a domain is backed up to a target by a packager if
\* and only if a group that is selected asks for it; the backup waits for the
\* end of a pivot for ever only if none of the groups it comes from has a timeout,
\* and its guests are frozen only if one of the groups says so.
AsAsked ==
  pc = "done" =>
    \A d \in Domains, target \in Targets \cup {"unset"}, packager \in Packagers :
      LET asking == {k \in DOMAIN config :
                       \E n \in DOMAIN config[k].hosts : Asks(k, n, d, target, packager)}
          of == {k \in DOMAIN main :
                   main[k].dom = d /\ main[k].target = target /\ main[k].packager = packager}
      IN  /\ UNION {main[k].disks : k \in of} =
               {disk \in DisksOf[d] : \E k \in asking : \E n \in DOMAIN config[k].hosts :
                  /\ Asks(k, n, d, target, packager)
                  /\ config[k].hosts[n].disks = {} \/ disk \in config[k].hosts[n].disks}
          /\ asking = {} <=> of = {}
          /\ \A k \in of : main[k].timeout = 0 <=> \A l \in asking : config[l].options.timeout = 0
          /\ \A k \in of : main[k].quiesce = "on" => \E l \in asking :
               \/ config[l].options.quiesce = "on"
               \/ \E n \in DOMAIN config[l].hosts : config[l].hosts[n].quiesce = "on"
=============================================================================
