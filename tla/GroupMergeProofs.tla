------------------------- MODULE GroupMergeProofs -------------------------
(***************************************************************************)
(* What TLAPS proves about GroupMerge: that the main group is what the     *)
(* configuration asks for, for any configuration of any domains.           *)
(***************************************************************************)
EXTENDS GroupMerge, WellFoundedInduction, SequenceTheorems, TLAPS

ControlInv ==
  /\ main \in Seq(Backup)
  /\ pc \in {"build", "merge"} => i \in DOMAIN config
  /\ pc = "build" => h <= Len(config[i].hosts) + 1 /\ main = <<>> /\ merged = {}
  /\ pc = "merge" => merged \subseteq DOMAIN built[i]
  /\ \A k \in DOMAIN config : \A d \in DOMAIN built[k] : built[k][d].disks \subseteq DisksOf[d]

\* Definition n of group k is for d, which no definition of the group excludes.
Covers(k, n, d) == d \in Included(config[k], config[k].hosts[n])

\* The definitions of group k that have been read.
Read(k) ==
  CASE pc \in {"merge", "done"} \/ k < i -> DOMAIN config[k].hosts
    [] pc = "build" /\ k = i -> 1..(h - 1)
    [] OTHER -> {}

\* What group k has for d is what its definitions read so far ask for.
BuiltAs(k, d) ==
  LET options == config[k].options
      covering == {n \in Read(k) : Covers(k, n, d)}
  IN  /\ d \in DOMAIN built[k] <=> covering # {}
      /\ d \in DOMAIN built[k] =>
           /\ built[k][d].target = options.target
           /\ built[k][d].packager = Or(options.packager, "tar")
           /\ built[k][d].timeout = options.timeout
           /\ \A x : x \in built[k][d].disks <=>
                       \E n \in covering : x \in DisksAsked(config[k].hosts[n], d)
           /\ built[k][d].quiesce = "on" =>
                options.quiesce = "on" \/ \E n \in Read(k) : config[k].hosts[n].quiesce = "on"

BuiltInv == pc # "failed" => \A k \in DOMAIN config : \A d \in Domains : BuiltAs(k, d)

\* The backup of d in group k has been merged into the main group.
Added(k, d) ==
  /\ k \in DOMAIN config /\ Selected(k) /\ d \in DOMAIN built[k]
  /\ \/ pc = "done"
     \/ pc = "merge" /\ k < i
     \/ pc = "merge" /\ k = i /\ d \in merged

From(m) ==
  {k \in DOMAIN config : Added(k, main[m].dom) /\ CompatibleWith(main[m], built[k][main[m].dom])}

\* A backup of the main group is what those it comes from make of it.
MadeOf(m, S) ==
  LET d == main[m].dom
  IN  /\ S # {}
      /\ \A x : x \in main[m].disks <=> \E k \in S : x \in built[k][d].disks
      /\ main[m].timeout = 0 <=> \A k \in S : built[k][d].timeout = 0
      /\ main[m].quiesce = "on" => \E k \in S : built[k][d].quiesce = "on"

MainInv ==
  /\ \A m \in DOMAIN main : MadeOf(m, From(m))
  /\ \A k, d : Added(k, d) => \E m \in DOMAIN main : CompatibleWith(main[m], built[k][d])

----------------------------------------------------------------------------
(* Types *)

\* What a configuration is made of.
LEMMA ConfigType ==
  ASSUME TypeOK
  PROVE  /\ config \in Seq([autostart : BOOLEAN, options : Options, hosts : Seq(Hosts)])
         /\ config # <<>> /\ Len(config) \in Nat /\ DOMAIN config = 1..Len(config)
         /\ \A k \in DOMAIN config :
              /\ config[k].hosts \in Seq(Hosts) /\ Len(config[k].hosts) \in Nat
              /\ DOMAIN config[k].hosts = 1..Len(config[k].hosts)
              /\ config[k].options \in Options
         /\ \A k \in DOMAIN config : \A n \in DOMAIN config[k].hosts : config[k].hosts[n] \in Hosts
<1>1. config \in Seq([autostart : BOOLEAN, options : Options, hosts : Seq(Hosts)]) /\ config # <<>>
  BY ConfigsAssumption DEF TypeOK
<1>2. Len(config) \in Nat /\ DOMAIN config = 1..Len(config)
  BY <1>1
<1>3. ASSUME NEW k \in DOMAIN config
      PROVE  config[k] \in [autostart : BOOLEAN, options : Options, hosts : Seq(Hosts)]
  BY <1>1, <1>2, ElementOfSeq
<1>4. ASSUME NEW k \in DOMAIN config
      PROVE  /\ config[k].hosts \in Seq(Hosts) /\ Len(config[k].hosts) \in Nat
             /\ DOMAIN config[k].hosts = 1..Len(config[k].hosts)
             /\ config[k].options \in Options
  <2>1. config[k].hosts \in Seq(Hosts) /\ config[k].options \in Options
    BY <1>3
  <2> QED BY <2>1
<1>5. ASSUME NEW k \in DOMAIN config, NEW n \in DOMAIN config[k].hosts
      PROVE  config[k].hosts[n] \in Hosts
  BY <1>4
<1> QED BY <1>1, <1>2, <1>4, <1>5

\* The disks a definition names are the domain's, once they have been found.
LEMMA DisksFound ==
  ASSUME NEW host \in Hosts, NEW d \in Domains, host.disks \subseteq DisksOf[d]
  PROVE  DisksAsked(host, d) \subseteq DisksOf[d]
BY DEF DisksAsked

LEMMA NewBackupType ==
  ASSUME NEW options \in Options, NEW host \in Hosts, NEW d \in Domains,
         host.disks \subseteq DisksOf[d]
  PROVE  NewBackup(options, host, d) \in Backup
<1>1. DisksAsked(host, d) \in SUBSET UNION {DisksOf[e] : e \in Domains}
  BY DisksFound
<1>2. Or(options.packager, "tar") \in Packagers
  BY TarAssumption DEF Or, Options
<1>3. Or(host.quiesce, Or(options.quiesce, "off")) \in {"on", "off"}
  BY DEF Or, Options, Hosts
<1> QED BY <1>1, <1>2, <1>3 DEF NewBackup, Backup, Options

\* There is a first one among the backups of the main group that are compatible.
LEMMA First ==
  ASSUME NEW S \in SUBSET Nat, S # {}
  PROVE  (CHOOSE k \in S : \A l \in S : k <= l) \in S
<1>1. PICK k \in S : \A l \in S : ~ (<<l, k>> \in OpToRel(<, Nat))
  BY NatLessThanWellFounded, WFMin
<1>2. ASSUME NEW l \in S, l < k PROVE FALSE
  <2>1. <<l, k>> \in Nat \X Nat /\ <<l, k>>[1] < <<l, k>>[2]
    BY <1>2
  <2> QED BY <1>1, <2>1 DEF OpToRel
<1>3. \A l \in S : k <= l
  BY <1>2
<1> QED BY <1>3

\* What AddDomains does to the group it reads.
LEMMA ReadOne ==
  ASSUME TypeOK, ControlInv, AddDomains
  PROVE  /\ i \in DOMAIN config /\ h \in DOMAIN config[i].hosts
         /\ config[i].options \in Options /\ config[i].hosts[h] \in Hosts
         /\ DOMAIN built' = DOMAIN built
         /\ \A k \in DOMAIN config : k # i => built'[k] = built[k]
         /\ DOMAIN built'[i] = DOMAIN built[i] \cup Included(config[i], config[i].hosts[h])
         /\ \A d \in DOMAIN built'[i] :
              built'[i][d] =
                IF d \notin DOMAIN built[i] THEN NewBackup(config[i].options, config[i].hosts[h], d)
                ELSE IF d \in Included(config[i], config[i].hosts[h])
                     THEN [built[i][d] EXCEPT !.disks = @ \cup DisksAsked(config[i].hosts[h], d)]
                     ELSE built[i][d]
         /\ \A d \in Included(config[i], config[i].hosts[h]) :
              d \in Domains /\ config[i].hosts[h].disks \subseteq DisksOf[d]
<1>1. i \in DOMAIN config /\ i \in DOMAIN built
  BY DEF AddDomains, ControlInv, TypeOK
<1>2. h \in DOMAIN config[i].hosts
  BY <1>1, ConfigType DEF AddDomains, TypeOK
<1>3. config[i].hosts[h] \in Hosts /\ config[i].options \in Options
  BY <1>1, <1>2, ConfigType
<1>4. \A d \in Included(config[i], config[i].hosts[h]) : d \in Domains
  BY <1>3 DEF Included, Hosts
<1>5. \A d \in Included(config[i], config[i].hosts[h]) : config[i].hosts[h].disks \subseteq DisksOf[d]
  BY DEF AddDomains
<1> DEFINE doms == Included(config[i], config[i].hosts[h])
           new == [d \in DOMAIN built[i] \cup doms |->
              IF d \notin DOMAIN built[i] THEN NewBackup(config[i].options, config[i].hosts[h], d)
              ELSE IF d \in doms
                   THEN [built[i][d] EXCEPT !.disks = @ \cup DisksAsked(config[i].hosts[h], d)]
              ELSE built[i][d]]
<1>6. built' = [built EXCEPT ![i] = new]
  BY DEF AddDomains
<1> HIDE DEF new
<1>7. DOMAIN built' = DOMAIN built /\ built'[i] = new /\ \A k \in DOMAIN config : k # i => built'[k] = built[k]
  BY <1>1, <1>6 DEF TypeOK
<1> QED BY <1>1, <1>2, <1>3, <1>4, <1>5, <1>7 DEF new

LEMMA AddDomainsType == ASSUME TypeOK, ControlInv, AddDomains PROVE TypeOK' /\ ControlInv'
<1> DEFINE host == config[i].hosts[h]
<1>1. UNCHANGED <<config, asked, pc, i, merged, main>> /\ h' = h + 1 /\ pc = "build"
  BY DEF AddDomains
<1>2. i \in DOMAIN config /\ host \in Hosts /\ config[i].options \in Options /\ h \in DOMAIN config[i].hosts
  BY ReadOne
<1>3. ASSUME NEW k \in DOMAIN built', NEW d \in DOMAIN built'[k]
      PROVE  built'[k][d] \in Backup /\ built'[k][d].dom = d /\ built'[k][d].disks \subseteq DisksOf[d]
  <2>1. CASE k # i
    BY <1>1, <2>1, ReadOne DEF TypeOK, ControlInv
  <2>2. CASE k = i /\ d \notin DOMAIN built[i]
    <3>1. d \in Domains /\ host.disks \subseteq DisksOf[d]
      BY <2>2, ReadOne
    <3>2. built'[k][d] = NewBackup(config[i].options, host, d)
      BY <2>2, ReadOne
    <3> QED BY <1>2, <3>1, <3>2, NewBackupType, DisksFound DEF NewBackup
  <2>3. CASE k = i /\ d \in DOMAIN built[i] /\ d \in Included(config[i], host)
    <3>1. built[i][d] \in Backup /\ built[i][d].dom = d /\ built[i][d].disks \subseteq DisksOf[d]
      BY <1>2, <2>3 DEF TypeOK, ControlInv
    <3>2. d \in Domains /\ DisksAsked(host, d) \subseteq DisksOf[d]
      BY <1>2, <2>3, ReadOne, DisksFound
    <3>3. built'[k][d] = [built[i][d] EXCEPT !.disks = @ \cup DisksAsked(host, d)]
      BY <2>3, ReadOne
    <3> QED BY <3>1, <3>2, <3>3 DEF Backup
  <2>4. CASE k = i /\ d \in DOMAIN built[i] /\ d \notin Included(config[i], host)
    BY <1>2, <2>4, ReadOne DEF TypeOK, ControlInv
  <2> QED BY <2>1, <2>2, <2>3, <2>4
<1>4. DOMAIN built' = DOMAIN config'
  BY <1>1, ReadOne DEF TypeOK
<1>5. h' \in Nat \ {0} /\ h' <= Len(config'[i'].hosts) + 1
  BY <1>1, <1>2, ConfigType DEF TypeOK
<1> QED BY <1>1, <1>2, <1>3, <1>4, <1>5 DEF TypeOK, ControlInv

\* What Merge leaves as it is: the backups keep what they are compared by.
LEMMA MergeKeeps ==
  ASSUME main \in Seq(Backup), NEW b \in Backup, Merge(b)
  PROVE  /\ main' \in Seq(Backup)
         /\ \A m \in DOMAIN main :
              /\ m \in DOMAIN main'
              /\ main'[m].dom = main[m].dom /\ main'[m].target = main[m].target
              /\ main'[m].packager = main[m].packager
              /\ main'[m].quiesce = main[m].quiesce
         /\ \/ \E first \in DOMAIN main :
                 /\ CompatibleWith(main[first], b)
                 /\ DOMAIN main' = DOMAIN main
                 /\ main'[first].disks = main[first].disks \cup b.disks
                 /\ main'[first].timeout =
                      IF main[first].timeout = 0 THEN b.timeout ELSE main[first].timeout
                 /\ \A m \in DOMAIN main : m # first => main'[m] = main[m]
            \/ /\ \A m \in DOMAIN main : ~CompatibleWith(main[m], b) /\ main'[m] = main[m]
               /\ DOMAIN main' = 1..(Len(main) + 1) /\ main'[Len(main) + 1] = b
<1> DEFINE same == {k \in DOMAIN main : CompatibleWith(main[k], b)}
           first == CHOOSE k \in same : \A l \in same : k <= l
<1>1. DOMAIN main = 1..Len(main) /\ Len(main) \in Nat /\ \A m \in DOMAIN main : main[m] \in Backup
  OBVIOUS
<1>2. CASE same # {}
  <2>1. first \in same
    <3>1. same \in SUBSET Nat
      BY <1>1
    <3> HIDE DEF same
    <3> QED BY <1>2, <3>1, First
  <2>2. main' = [main EXCEPT ![first].disks = @ \cup b.disks,
                             ![first].timeout = IF @ = 0 THEN b.timeout ELSE @]
    BY <1>2 DEF Merge
  <2> HIDE DEF first
  <2>3. first \in DOMAIN main /\ CompatibleWith(main[first], b)
    BY <2>1
  <2>4. DOMAIN main' = DOMAIN main /\ Len(main') = Len(main)
    BY <1>1, <2>2
  <2>5. main'[first] = [main[first] EXCEPT !.disks = @ \cup b.disks,
                                           !.timeout = IF @ = 0 THEN b.timeout ELSE @]
    BY <2>2, <2>3, <1>1 DEF Backup
  <2>6. \A m \in DOMAIN main : m # first => main'[m] = main[m]
    BY <2>2, <2>3
  <2>7. main'[first] \in Backup
    <3>1. main[first] \in Backup
      BY <1>1, <2>3
    <3>2. /\ main[first].disks \cup b.disks \in SUBSET UNION {DisksOf[d] : d \in Domains}
          /\ (IF main[first].timeout = 0 THEN b.timeout ELSE main[first].timeout) \in Nat
      BY <3>1 DEF Backup
    <3> QED BY <2>5, <3>1, <3>2 DEF Backup
  <2>8. main' \in Seq(Backup)
    <3>1. main' \in [1..Len(main) -> Backup]
      BY <1>1, <2>2, <2>4, <2>6, <2>7
    <3> QED BY <3>1, <1>1
  <2>9. /\ main'[first].dom = main[first].dom /\ main'[first].target = main[first].target
        /\ main'[first].packager = main[first].packager
        /\ main'[first].quiesce = main[first].quiesce
        /\ main'[first].disks = main[first].disks \cup b.disks
        /\ main'[first].timeout = IF main[first].timeout = 0 THEN b.timeout ELSE main[first].timeout
    BY <1>1, <2>3, <2>5 DEF Backup
  <2> QED BY <2>3, <2>4, <2>6, <2>8, <2>9
<1>3. CASE same = {}
  <2>1. main' = Append(main, b)
    BY <1>3 DEF Merge
  <2>2. main' \in Seq(Backup) /\ Len(main') = Len(main) + 1
    BY <2>1
  <2>3. DOMAIN main' = 1..(Len(main) + 1)
    BY <2>2
  <2>4. \A m \in DOMAIN main : m \in DOMAIN main' /\ main'[m] = main[m]
    BY <1>1, <2>1, <2>3
  <2>5. main'[Len(main) + 1] = b /\ Len(main) + 1 \in DOMAIN main'
    BY <1>1, <2>1, <2>3
  <2> QED BY <1>3, <2>2, <2>3, <2>4, <2>5
<1> QED BY <1>2, <1>3

\* The backup that AddDomBackup takes.
LEMMA AddDomBackupType == ASSUME TypeOK, ControlInv, AddDomBackup PROVE TypeOK' /\ ControlInv'
<1>1. PICK d \in DOMAIN built[i] \ merged : Merge(built[i][d]) /\ merged' = merged \cup {d}
  BY DEF AddDomBackup
<1>2. UNCHANGED <<config, asked, pc, i, h, built>> /\ pc = "merge"
  BY DEF AddDomBackup
<1> DEFINE b == built[i][d]
<1>3. b \in Backup /\ b.dom = d /\ b.disks \subseteq DisksOf[d] /\ d \in Domains
  BY <1>2 DEF TypeOK, ControlInv, Backup
<1> HIDE DEF b
<1>4. main \in Seq(Backup) /\ Merge(b)
  BY <1>1 DEF ControlInv, b
<1>5. main' \in Seq(Backup)
  BY <1>3, <1>4, MergeKeeps
<1>6. ASSUME NEW m \in DOMAIN main' PROVE main'[m] \in Backup /\ main'[m].disks \subseteq DisksOf[main'[m].dom]
  <2>1. main'[m] \in Backup
    BY <1>5
  <2>2. \A l \in DOMAIN main : main[l].disks \subseteq DisksOf[main[l].dom]
    BY DEF TypeOK
  <2> QED BY <1>3, <1>4, <2>1, <2>2, MergeKeeps DEF CompatibleWith
<1> QED BY <1>1, <1>2, <1>3, <1>5, <1>6 DEF TypeOK, ControlInv

LEMMA InitType == Init => TypeOK /\ ControlInv
<1> SUFFICES ASSUME Init PROVE TypeOK /\ ControlInv
  OBVIOUS
<1>1. config \in Seq([autostart : BOOLEAN, options : Options, hosts : Seq(Hosts)]) /\ config # <<>>
  BY ConfigsAssumption DEF Init
<1>2. Len(config) \in Nat \ {0} /\ DOMAIN config = 1..Len(config)
  BY <1>1
<1>3. config[1].hosts \in Seq(Hosts)
  <2> DEFINE G == [autostart : BOOLEAN, options : Options, hosts : Seq(Hosts)]
  <2>1. config \in Seq(G) /\ 1 \in 1..Len(config)
    BY <1>1, <1>2
  <2> HIDE DEF G
  <2>2. config[1] \in G
    BY <2>1, ElementOfSeq
  <2> QED BY <2>2 DEF G
<1> QED BY <1>2, <1>3 DEF Init, TypeOK, ControlInv

LEMMA StepType == ASSUME TypeOK, ControlInv, [Next]_vars PROVE TypeOK' /\ ControlInv'
<1>1. CASE AddDomains
  BY <1>1, AddDomainsType
<1>2. CASE DiskNotFound
  BY <1>2 DEF DiskNotFound, TypeOK, ControlInv
<1>3. CASE GroupBuilt
  BY <1>3, ConfigType DEF GroupBuilt, TypeOK, ControlInv
<1>4. CASE AddDomBackup
  BY <1>4, AddDomBackupType
<1>5. CASE GroupMerged
  BY <1>5, ConfigType DEF GroupMerged, TypeOK, ControlInv
<1>6. CASE UNCHANGED vars
  BY <1>6 DEF vars, TypeOK, ControlInv
<1> QED BY <1>1, <1>2, <1>3, <1>4, <1>5, <1>6 DEF Next

\* The types, with the control and the disks they need.
THEOREM TypeCorrect == Spec => []TypeOK
<1>1. TypeOK /\ ControlInv /\ [Next]_vars => (TypeOK /\ ControlInv)'
  BY StepType
<1> QED BY InitType, <1>1, PTL DEF Spec

----------------------------------------------------------------------------
(* No copies are taken twice in the same place *)

LEMMA StepAlike ==
  ASSUME TypeOK, ControlInv, NoTwoAlike, [Next]_vars PROVE NoTwoAlike'
<1>1. CASE AddDomBackup
  <2>1. PICK d \in DOMAIN built[i] \ merged : Merge(built[i][d])
    BY <1>1 DEF AddDomBackup
  <2> DEFINE b == built[i][d]
  <2>2. b \in Backup /\ Merge(b) /\ main \in Seq(Backup)
    BY <1>1, <2>1 DEF AddDomBackup, TypeOK, ControlInv
  <2> HIDE DEF b
  <2>3. \A m \in DOMAIN main :
          /\ main'[m].dom = main[m].dom /\ main'[m].target = main[m].target
          /\ main'[m].packager = main[m].packager
    BY <2>2, MergeKeeps
  <2>4. CASE DOMAIN main' = DOMAIN main
    BY <2>3, <2>4 DEF NoTwoAlike
  <2>5. CASE /\ \A m \in DOMAIN main : ~CompatibleWith(main[m], b)
             /\ DOMAIN main' = 1..(Len(main) + 1) /\ main'[Len(main) + 1] = b
    <3>1. DOMAIN main = 1..Len(main) /\ Len(main) \in Nat
      BY <2>2
    <3>2. \A m \in DOMAIN main' : m \in DOMAIN main \/ m = Len(main) + 1
      BY <2>5, <3>1
    <3> QED BY <2>3, <2>5, <3>2 DEF NoTwoAlike, CompatibleWith
  <2> QED BY <2>2, <2>4, <2>5, MergeKeeps
<1>2. CASE main' = main
  BY <1>2 DEF NoTwoAlike
<1>3. CASE AddDomains \/ DiskNotFound \/ GroupBuilt \/ GroupMerged \/ UNCHANGED vars
  BY <1>2, <1>3 DEF AddDomains, DiskNotFound, GroupBuilt, GroupMerged, vars
<1> QED BY <1>1, <1>3 DEF Next

\* docs/backup.rst, "Unicity", for any groups: two backups of the main group are
\* never compatible.
THEOREM Unicity == Spec => []NoTwoAlike
<1>1. Init => TypeOK /\ ControlInv /\ NoTwoAlike
  BY InitType DEF Init, NoTwoAlike
<1>2. TypeOK /\ ControlInv /\ NoTwoAlike /\ [Next]_vars => (TypeOK /\ ControlInv /\ NoTwoAlike)'
  BY StepType, StepAlike
<1> QED BY <1>1, <1>2, PTL DEF Spec

----------------------------------------------------------------------------
(* The main group is what is asked for *)

\* What the configuration says does not change.
LEMMA Fixed ==
  ASSUME [Next]_vars
  PROVE  /\ config' = config /\ asked' = asked
         /\ \A k, n, d : Covers(k, n, d)' <=> Covers(k, n, d)
         /\ \A k : Selected(k)' <=> Selected(k)
<1>1. config' = config /\ asked' = asked
  BY DEF Next, AddDomains, DiskNotFound, GroupBuilt, AddDomBackup, GroupMerged, vars
<1> QED BY <1>1 DEF Covers, Included, Excluded, Selected

LEMMA SameBuilt ==
  ASSUME [Next]_vars, NEW k, NEW d, built'[k] = built[k], Read(k)' = Read(k), BuiltAs(k, d)
  PROVE  BuiltAs(k, d)'
BY Fixed DEF BuiltAs

\* The next definition adds its domains and disks to what the others have asked for.
LEMMA DomainAdded ==
  ASSUME TypeOK, ControlInv, AddDomains, NEW d \in Domains, BuiltAs(i, d)
  PROVE  BuiltAs(i, d)'
<1> DEFINE host == config[i].hosts[h]
           options == config[i].options
           covering == {n \in Read(i) : Covers(i, n, d)}
<1>1. config' = config /\ i' = i /\ pc' = pc /\ pc = "build" /\ h' = h + 1
  BY DEF AddDomains
<1>2. h \in DOMAIN config[i].hosts /\ h \in Nat \ {0}
  BY ReadOne DEF TypeOK
<1>3. Read(i) = 1..(h - 1) /\ Read(i)' = 1..h
  BY <1>1, <1>2 DEF Read, TypeOK
<1>4. Read(i)' = Read(i) \cup {h}
  BY <1>2, <1>3
<1>5. \A n : Covers(i, n, d)' <=> Covers(i, n, d)
  BY <1>1, Fixed DEF Next
<1>6. Covers(i, h, d) <=> d \in Included(config[i], host)
  BY DEF Covers
<1>7. CASE d \notin Included(config[i], host)
  <2>1. {n \in Read(i)' : Covers(i, n, d)'} = covering
    BY <1>4, <1>5, <1>6, <1>7
  <2>2. d \in DOMAIN built'[i] <=> d \in DOMAIN built[i]
    BY <1>7, ReadOne
  <2>3. d \in DOMAIN built'[i] => built'[i][d] = built[i][d]
    BY <1>7, ReadOne
  <2> QED BY <1>1, <1>4, <2>1, <2>2, <2>3 DEF BuiltAs
<1>8. CASE d \in Included(config[i], host)
  <2>1. {n \in Read(i)' : Covers(i, n, d)'} = covering \cup {h}
    BY <1>4, <1>5, <1>6, <1>8
  <2>2. d \in DOMAIN built'[i]
    BY <1>8, ReadOne
  <2>3. CASE d \notin DOMAIN built[i]
    <3>1. covering = {}
      BY <2>3 DEF BuiltAs
    <3>2. built'[i][d] = NewBackup(options, host, d)
      BY <2>2, <2>3, ReadOne
    <3>3. /\ built'[i][d].target = options.target /\ built'[i][d].timeout = options.timeout
          /\ built'[i][d].packager = Or(options.packager, "tar")
          /\ built'[i][d].disks = DisksAsked(host, d)
          /\ built'[i][d].quiesce = Or(host.quiesce, Or(options.quiesce, "off"))
      BY <3>2 DEF NewBackup
    <3>4. built'[i][d].quiesce = "on" => options.quiesce = "on" \/ host.quiesce = "on"
      BY <3>3 DEF Or
    <3> QED BY <1>1, <1>4, <2>1, <2>2, <3>1, <3>3, <3>4 DEF BuiltAs
  <2>4. CASE d \in DOMAIN built[i]
    <3>1. built'[i][d] = [built[i][d] EXCEPT !.disks = @ \cup DisksAsked(host, d)]
      BY <1>8, <2>2, <2>4, ReadOne
    <3>2. built[i][d] \in Backup
      BY <2>4, ReadOne DEF TypeOK
    <3>3. /\ built'[i][d].disks = built[i][d].disks \cup DisksAsked(host, d)
          /\ built'[i][d].target = built[i][d].target
          /\ built'[i][d].packager = built[i][d].packager
          /\ built'[i][d].timeout = built[i][d].timeout
          /\ built'[i][d].quiesce = built[i][d].quiesce
      BY <3>1, <3>2 DEF Backup
    <3> QED BY <1>1, <1>4, <2>1, <2>2, <2>4, <3>3 DEF BuiltAs
  <2> QED BY <2>3, <2>4
<1> QED BY <1>7, <1>8

LEMMA StepBuilt == ASSUME TypeOK, ControlInv, BuiltInv, [Next]_vars PROVE BuiltInv'
<1> SUFFICES ASSUME pc' # "failed", NEW k \in DOMAIN config, NEW d \in Domains
             PROVE  BuiltAs(k, d)'
  BY Fixed DEF BuiltInv
<1>1. pc # "failed"
  BY DEF Next, AddDomains, DiskNotFound, GroupBuilt, AddDomBackup, GroupMerged, vars
<1>2. BuiltAs(k, d)
  BY <1>1 DEF BuiltInv
<1>3. CASE AddDomains
  <2>1. CASE k = i
    <3>1. i' = i
      BY <1>3 DEF AddDomains
    <3>2. BuiltAs(i, d)'
      BY <1>2, <1>3, <2>1, DomainAdded
    <3> QED BY <2>1, <3>1, <3>2
  <2>2. CASE k # i
    <3>1. built'[k] = built[k]
      BY <1>3, <2>2, ReadOne
    <3>2. Read(k)' = Read(k)
      BY <1>3, <2>2 DEF AddDomains, Read
    <3> QED BY <1>2, <3>1, <3>2, SameBuilt
  <2> QED BY <2>1, <2>2
<1>4. CASE GroupBuilt
  <2>1. Len(config) \in Nat /\ k \in 1..Len(config) /\ i \in 1..Len(config)
    BY <1>4, ConfigType DEF GroupBuilt, ControlInv
  <2>2. Read(i) = DOMAIN config[i].hosts
    <3>1. /\ DOMAIN config[i].hosts = 1..Len(config[i].hosts) /\ Len(config[i].hosts) \in Nat
          /\ h \in Nat /\ h - 1 = Len(config[i].hosts)
      <4>1. h \in Nat /\ h > Len(config[i].hosts) /\ h <= Len(config[i].hosts) + 1
        BY <1>4 DEF GroupBuilt, TypeOK, ControlInv
      <4>2. DOMAIN config[i].hosts = 1..Len(config[i].hosts) /\ Len(config[i].hosts) \in Nat
        BY <2>1, ConfigType
      <4> QED BY <4>1, <4>2
    <3> QED BY <1>4, <2>1, <3>1 DEF GroupBuilt, Read
  <2>3. Read(k)' = Read(k)
    <3>1. CASE i < Len(config)
      <4>1. config' = config /\ i' = i + 1 /\ pc' = "build" /\ pc = "build" /\ h' = 1
        BY <1>4, <3>1, Fixed DEF GroupBuilt
      <4>2. CASE k <= i
        BY <2>1, <2>2, <4>1, <4>2 DEF Read
      <4>3. CASE k > i
        BY <2>1, <4>1, <4>3 DEF Read
      <4> QED BY <2>1, <4>2, <4>3
    <3>2. CASE i = Len(config)
      BY <1>4, <2>1, <2>2, <3>2, Fixed DEF GroupBuilt, Read
    <3> QED BY <2>1, <3>1, <3>2
  <2> QED BY <1>2, <1>4, <2>3, SameBuilt DEF GroupBuilt
<1>5. CASE AddDomBackup \/ GroupMerged
  <2>1. Read(k)' = Read(k) /\ built' = built
    BY <1>5 DEF AddDomBackup, GroupMerged, Read
  <2> QED BY <1>2, <2>1, SameBuilt
<1>6. CASE UNCHANGED vars
  <2>1. Read(k)' = Read(k) /\ built' = built
    BY <1>6 DEF vars, Read
  <2> QED BY <1>2, <2>1, SameBuilt
<1>7. ~DiskNotFound
  BY DEF DiskNotFound
<1> QED BY <1>3, <1>4, <1>5, <1>6, <1>7 DEF Next

LEMMA InitBuilt == Init => BuiltInv
<1> SUFFICES ASSUME Init, NEW k \in DOMAIN config, NEW d \in Domains PROVE BuiltAs(k, d)
  BY DEF BuiltInv
<1>1. Len(config) \in Nat /\ k \in 1..Len(config)
  BY InitType, ConfigType
<1>2. Read(k) = {}
  BY <1>1 DEF Init, Read
<1>3. DOMAIN built[k] = {}
  BY DEF Init
<1> QED BY <1>2, <1>3 DEF BuiltAs

\* Without a merge, the main group and what it is made of stay as they are.
LEMMA SameMain ==
  ASSUME [Next]_vars, main' = main, built' = built, MainInv,
         \A k, d : Added(k, d)' <=> Added(k, d)
  PROVE  MainInv'
<1>1. \A m : From(m)' = From(m)
  BY Fixed DEF From, CompatibleWith
<1>2. \A m : MadeOf(m, From(m))' <=> MadeOf(m, From(m))
  BY <1>1 DEF MadeOf
<1> QED BY <1>2 DEF MainInv, CompatibleWith

\* A backup merged is in the backup that is compatible with it, and in no other.
LEMMA MainMerged ==
  ASSUME TypeOK, ControlInv, NoTwoAlike, MainInv, AddDomBackup PROVE MainInv'
<1>1. PICK d \in DOMAIN built[i] \ merged : Merge(built[i][d]) /\ merged' = merged \cup {d}
  BY DEF AddDomBackup
<1>2. UNCHANGED <<config, asked, pc, i, h, built>> /\ pc = "merge" /\ Selected(i)
  BY DEF AddDomBackup
<1>3. i \in DOMAIN config /\ i \in Nat
  BY <1>2 DEF ControlInv, TypeOK
<1> DEFINE b == built[i][d]
<1>4. b \in Backup /\ b.dom = d /\ main \in Seq(Backup) /\ Merge(b)
  BY <1>1, <1>2, <1>3 DEF TypeOK, ControlInv
<1>5. \A k, e : Added(k, e)' <=> Added(k, e) \/ (k = i /\ e = d)
  <2>1. \A k : Selected(k)' <=> Selected(k)
    BY Fixed DEF Next
  <2> QED BY <1>1, <1>2, <1>3, <2>1 DEF Added
<1>6. \A m \in DOMAIN main :
        /\ m \in DOMAIN main'
        /\ main'[m].dom = main[m].dom /\ main'[m].target = main[m].target
        /\ main'[m].packager = main[m].packager
        /\ main'[m].quiesce = main[m].quiesce
  BY <1>4, MergeKeeps
<1>7. \A m \in DOMAIN main :
        From(m)' = IF CompatibleWith(main[m], b) THEN From(m) \cup {i} ELSE From(m)
  BY <1>2, <1>3, <1>4, <1>5, <1>6 DEF From, CompatibleWith
<1>8. \A m \in DOMAIN main : MadeOf(m, From(m))
  BY DEF MainInv
<1> HIDE DEF b
<1>9. CASE \E first \in DOMAIN main :
             /\ CompatibleWith(main[first], b)
             /\ DOMAIN main' = DOMAIN main
             /\ main'[first].disks = main[first].disks \cup b.disks
             /\ main'[first].timeout =
                  IF main[first].timeout = 0 THEN b.timeout ELSE main[first].timeout
             /\ \A m \in DOMAIN main : m # first => main'[m] = main[m]
  <2>1. PICK first \in DOMAIN main :
             /\ CompatibleWith(main[first], b)
             /\ DOMAIN main' = DOMAIN main
             /\ main'[first].disks = main[first].disks \cup b.disks
             /\ main'[first].timeout =
                  IF main[first].timeout = 0 THEN b.timeout ELSE main[first].timeout
             /\ \A m \in DOMAIN main : m # first => main'[m] = main[m]
    BY <1>9
  <2>2. MadeOf(first, From(first))'
    <3>1. MadeOf(first, From(first)) /\ From(first)' = From(first) \cup {i}
      BY <1>7, <1>8, <2>1
    <3>2. main'[first].dom = d /\ main[first].dom = d /\ built'[i][d] = b /\ built' = built
      BY <1>2, <1>4, <1>6, <2>1 DEF CompatibleWith, b
    <3>3. \A x : x \in main'[first].disks <=> \E k \in From(first) \cup {i} : x \in built[k][d].disks
      BY <2>1, <3>1, <3>2 DEF MadeOf
    <3>4. main'[first].timeout = 0 <=> \A k \in From(first) \cup {i} : built[k][d].timeout = 0
      BY <2>1, <3>1, <3>2 DEF MadeOf
    <3>5. main'[first].quiesce = "on" => \E k \in From(first) \cup {i} : built[k][d].quiesce = "on"
      BY <1>6, <2>1, <3>1, <3>2 DEF MadeOf
    <3> QED BY <3>1, <3>2, <3>3, <3>4, <3>5 DEF MadeOf
  <2>3. ASSUME NEW m \in DOMAIN main, m # first PROVE MadeOf(m, From(m))'
    <3>1. ~CompatibleWith(main[m], b)
      BY <2>1, <2>3 DEF CompatibleWith, NoTwoAlike
    <3>2. From(m)' = From(m) /\ main'[m] = main[m] /\ built' = built
      BY <1>2, <1>7, <2>1, <2>3, <3>1
    <3> QED BY <1>8, <3>2 DEF MadeOf
  <2>4. ASSUME NEW k, NEW e, Added(k, e)'
        PROVE  \E m \in DOMAIN main' : CompatibleWith(main[m], built[k][e])'
    <3>1. \E m \in DOMAIN main : CompatibleWith(main[m], built[k][e])
      BY <1>5, <2>1, <2>4 DEF MainInv, b
    <3> QED BY <1>2, <1>6, <3>1 DEF CompatibleWith
  <2> QED BY <2>1, <2>2, <2>3, <2>4 DEF MainInv
<1>10. CASE /\ \A m \in DOMAIN main : ~CompatibleWith(main[m], b) /\ main'[m] = main[m]
            /\ DOMAIN main' = 1..(Len(main) + 1) /\ main'[Len(main) + 1] = b
  <2>1. DOMAIN main = 1..Len(main) /\ Len(main) \in Nat
    BY <1>4
  <2>2. PICK new : new = Len(main) + 1
    OBVIOUS
  <2>3. From(new)' = {i}
    <3>1. ASSUME NEW k \in DOMAIN config, k # i, Added(k, d) PROVE ~CompatibleWith(b, built[k][d])
      <4>1. PICK m \in DOMAIN main : CompatibleWith(main[m], built[k][d])
        BY <3>1 DEF MainInv
      <4> QED BY <1>10, <4>1 DEF CompatibleWith
    <3>2. main'[new] = b /\ b.dom = d /\ built' = built /\ config' = config /\ b = built[i][d]
      BY <1>2, <1>4, <1>10, <2>2 DEF b
    <3> QED BY <1>3, <1>5, <3>1, <3>2 DEF From, CompatibleWith
  <2>4. MadeOf(new, {i})'
    <3>1. main'[new] = b /\ b.dom = d /\ built' = built /\ i' = i /\ b = built[i][d]
      BY <1>2, <1>4, <1>10, <2>2 DEF b
    <3> QED BY <3>1 DEF MadeOf
  <2>5. ASSUME NEW m \in DOMAIN main PROVE MadeOf(m, From(m))'
    <3>1. From(m)' = From(m) /\ main'[m] = main[m] /\ built' = built
      BY <1>2, <1>7, <1>10
    <3> QED BY <1>8, <3>1 DEF MadeOf
  <2>6. ASSUME NEW k, NEW e, Added(k, e)'
        PROVE  \E m \in DOMAIN main' : CompatibleWith(main[m], built[k][e])'
    <3>1. CASE Added(k, e)
      <4>1. PICK m \in DOMAIN main : CompatibleWith(main[m], built[k][e])
        BY <3>1 DEF MainInv
      <4> QED BY <1>2, <1>6, <4>1 DEF CompatibleWith
    <3>2. CASE k = i /\ e = d
      <4>1. new \in DOMAIN main' /\ main'[new] = b /\ built'[k][e] = b
        BY <1>2, <1>10, <2>1, <2>2, <3>2 DEF b
      <4> QED BY <4>1 DEF CompatibleWith
    <3> QED BY <1>5, <2>6, <3>1, <3>2
  <2>7. \A m \in DOMAIN main' : m \in DOMAIN main \/ m = new
    BY <1>10, <2>1, <2>2
  <2>8. MadeOf(new, From(new))'
    BY <1>2, <2>3, <2>4
  <2> QED BY <2>5, <2>6, <2>7, <2>8 DEF MainInv
<1> QED BY <1>4, <1>9, <1>10, MergeKeeps

LEMMA StepMain ==
  ASSUME TypeOK, ControlInv, NoTwoAlike, MainInv, [Next]_vars PROVE MainInv'
<1>1. CASE AddDomBackup
  BY <1>1, MainMerged
<1>2. CASE AddDomains \/ DiskNotFound
  <2>1. main' = <<>> /\ pc' \in {"build", "failed"}
    BY <1>2 DEF AddDomains, DiskNotFound, ControlInv
  <2> QED BY <2>1 DEF MainInv, Added
<1>3. CASE GroupBuilt
  <2>1. main' = <<>> /\ merged' = {} /\ built' = built /\ config' = config
    BY <1>3 DEF GroupBuilt, ControlInv
  <2>2. pc' = "build" \/ (pc' = "merge" /\ i' = 1)
    BY <1>3 DEF GroupBuilt
  <2>3. \A k \in DOMAIN config : k >= 1
    BY ConfigType
  <2>4. \A k, d : ~Added(k, d)'
    BY <2>1, <2>2, <2>3 DEF Added
  <2> QED BY <2>1, <2>4 DEF MainInv
<1>4. CASE GroupMerged
  <2>1. DOMAIN config = 1..Len(config) /\ Len(config) \in Nat /\ i \in 1..Len(config)
    BY <1>4, ConfigType DEF GroupMerged, ControlInv
  <2>2. \A k : Selected(k)' <=> Selected(k)
    BY Fixed
  <2>3. \A k, d : Added(k, d)' <=> Added(k, d)
    BY <1>4, <2>1, <2>2 DEF GroupMerged, Added
  <2> QED BY <1>4, <2>3, SameMain DEF GroupMerged
<1>5. CASE UNCHANGED vars
  <2>1. \A k, d : Added(k, d)' <=> Added(k, d)
    BY <1>5 DEF vars, Added, Selected
  <2> QED BY <1>5, <2>1, SameMain DEF vars
<1> QED BY <1>1, <1>2, <1>3, <1>4, <1>5 DEF Next

Merged == TypeOK /\ ControlInv /\ NoTwoAlike /\ BuiltInv /\ MainInv

LEMMA AlwaysMerged == Spec => []Merged
<1>1. Init => Merged
  BY InitType, InitBuilt DEF Init, Merged, NoTwoAlike, MainInv, Added
<1>2. Merged /\ [Next]_vars => Merged'
  BY StepType, StepAlike, StepBuilt, StepMain DEF Merged
<1> QED BY <1>1, <1>2, PTL DEF Spec

\* A definition asks for a backup where it covers the domain and its group is chosen.
LEMMA AsksIs ==
  ASSUME NEW k, NEW n \in DOMAIN config[k].hosts, NEW d, NEW t, NEW p
  PROVE  Asks(k, n, d, t, p) <=>
           /\ Selected(k) /\ Covers(k, n, d)
           /\ config[k].options.target = t /\ Or(config[k].options.packager, "tar") = p
<1> DEFINE group == config[k]
<1>1. d \in Excluded(group) <=>
        \E l \in DOMAIN group.hosts : group.hosts[l].exclude /\ d \in group.hosts[l].match
  BY DEF Excluded
<1>2. Covers(k, n, d) <=> /\ ~group.hosts[n].exclude /\ d \in group.hosts[n].match
                          /\ d \notin Excluded(group)
  BY DEF Covers, Included
<1> QED BY <1>1, <1>2 DEF Asks, Or

\* At the end, what a backup of the main group comes from is what asks for it.
LEMMA MergedAsAsked == Merged => AsAsked
<1> SUFFICES ASSUME Merged, pc = "done",
                    NEW d \in Domains, NEW t \in Targets \cup {"unset"}, NEW p \in Packagers
             PROVE  LET asking == {k \in DOMAIN config :
                                     \E n \in DOMAIN config[k].hosts : Asks(k, n, d, t, p)}
                        of == {m \in DOMAIN main :
                                 main[m].dom = d /\ main[m].target = t /\ main[m].packager = p}
                    IN  /\ UNION {main[m].disks : m \in of} =
                             {x \in DisksOf[d] : \E k \in asking : \E n \in DOMAIN config[k].hosts :
                                /\ Asks(k, n, d, t, p)
                                /\ config[k].hosts[n].disks = {} \/ x \in config[k].hosts[n].disks}
                        /\ asking = {} <=> of = {}
                        /\ \A m \in of :
                             main[m].timeout = 0 <=> \A l \in asking : config[l].options.timeout = 0
                        /\ \A m \in of : main[m].quiesce = "on" => \E l \in asking :
                             \/ config[l].options.quiesce = "on"
                             \/ \E n \in DOMAIN config[l].hosts : config[l].hosts[n].quiesce = "on"
  BY DEF AsAsked
<1> DEFINE asking == {k \in DOMAIN config : \E n \in DOMAIN config[k].hosts : Asks(k, n, d, t, p)}
           of == {m \in DOMAIN main :
                    main[m].dom = d /\ main[m].target = t /\ main[m].packager = p}
<1>1. \A k \in DOMAIN config : BuiltAs(k, d) /\ Read(k) = DOMAIN config[k].hosts
  BY DEF Merged, BuiltInv, Read
<1>2. \A k \in DOMAIN config : d \in DOMAIN built[k] =>
        built[k][d].dom = d /\ built[k][d].disks \subseteq DisksOf[d]
  BY DEF Merged, TypeOK, ControlInv
\* Those that ask are those whose backups are merged and compatible.
<1>3. ASSUME NEW k \in DOMAIN config
      PROVE  k \in asking <=> /\ Added(k, d) /\ built[k][d].dom = d
                              /\ built[k][d].target = t /\ built[k][d].packager = p
  <2>1. k \in asking <=> /\ Selected(k) /\ \E n \in DOMAIN config[k].hosts : Covers(k, n, d)
                         /\ config[k].options.target = t
                         /\ Or(config[k].options.packager, "tar") = p
    BY AsksIs
  <2>2. d \in DOMAIN built[k] <=> \E n \in DOMAIN config[k].hosts : Covers(k, n, d)
    BY <1>1 DEF BuiltAs
  <2>3. d \in DOMAIN built[k] => /\ built[k][d].target = config[k].options.target
                                 /\ built[k][d].packager = Or(config[k].options.packager, "tar")
    BY <1>1 DEF BuiltAs
  <2>4. Added(k, d) <=> Selected(k) /\ d \in DOMAIN built[k]
    BY DEF Added
  <2> HIDE DEF asking
  <2> QED BY <1>2, <2>1, <2>2, <2>3, <2>4
<1>4. \A k \in asking : k \in DOMAIN config /\ BuiltAs(k, d) /\ d \in DOMAIN built[k]
  BY <1>1, <1>3 DEF Added
<1>5. \A m \in of : From(m) = asking /\ MadeOf(m, asking)
  <2>1. ASSUME NEW m \in of PROVE From(m) = asking
    <3>1. From(m) \subseteq DOMAIN config /\ asking \subseteq DOMAIN config
      BY DEF From
    <3>2. \A k \in DOMAIN config : k \in From(m) <=> k \in asking
      <4> HIDE DEF asking
      <4>1. main[m].dom = d /\ main[m].target = t /\ main[m].packager = p
        BY <2>1
      <4> QED BY <1>3, <4>1 DEF From, CompatibleWith
    <3> HIDE DEF asking
    <3> QED BY <3>1, <3>2
  <2>2. \A m \in of : MadeOf(m, From(m))
    BY DEF Merged, MainInv
  <2> HIDE DEF asking, of
  <2> QED BY <2>1, <2>2
<1>6. asking # {} => of # {}
  <2>1. ASSUME NEW k \in asking PROVE of # {}
    <3>1. Added(k, d) /\ built[k][d].dom = d /\ built[k][d].target = t /\ built[k][d].packager = p
      <4>1. k \in DOMAIN config
        OBVIOUS
      <4> HIDE DEF asking
      <4> QED BY <1>3, <2>1, <4>1
    <3>2. PICK m \in DOMAIN main : CompatibleWith(main[m], built[k][d])
      BY <3>1 DEF Merged, MainInv
    <3> QED BY <3>1, <3>2 DEF CompatibleWith
  <2> HIDE DEF of, asking
  <2> QED BY <2>1
<1>7. \A k \in asking : \A n \in DOMAIN config[k].hosts : Asks(k, n, d, t, p) <=> Covers(k, n, d)
  BY AsksIs
<1>8. \A m \in of : main[m].dom = d
  OBVIOUS
<1> HIDE DEF asking, of
<1>9. asking = {} <=> of = {}
  BY <1>5, <1>6 DEF MadeOf
<1>10. \A k \in asking :
         /\ built[k][d].timeout = config[k].options.timeout
         /\ built[k][d].quiesce = "on" =>
              \/ config[k].options.quiesce = "on"
              \/ \E n \in DOMAIN config[k].hosts : config[k].hosts[n].quiesce = "on"
         /\ built[k][d].disks \subseteq DisksOf[d]
         /\ \A x : x \in built[k][d].disks <=> \E n \in DOMAIN config[k].hosts :
                     Asks(k, n, d, t, p) /\ x \in DisksAsked(config[k].hosts[n], d)
  BY <1>1, <1>2, <1>4, <1>7 DEF BuiltAs
<1>11. \A m \in of : main[m].timeout = 0 <=> \A l \in asking : config[l].options.timeout = 0
  BY <1>5, <1>8, <1>10 DEF MadeOf
<1>12. \A m \in of : main[m].quiesce = "on" => \E l \in asking :
         \/ config[l].options.quiesce = "on"
         \/ \E n \in DOMAIN config[l].hosts : config[l].hosts[n].quiesce = "on"
  BY <1>5, <1>8, <1>10 DEF MadeOf
<1>13. \A x : x \in UNION {main[m].disks : m \in of} <=> \E k \in asking : x \in built[k][d].disks
  BY <1>5, <1>8, <1>9 DEF MadeOf
<1>14. \A x : (\E k \in asking : x \in built[k][d].disks) <=>
              /\ x \in DisksOf[d]
              /\ \E k \in asking : \E n \in DOMAIN config[k].hosts :
                   /\ Asks(k, n, d, t, p)
                   /\ config[k].hosts[n].disks = {} \/ x \in config[k].hosts[n].disks
  BY <1>10 DEF DisksAsked
<1>15. UNION {main[m].disks : m \in of} =
         {x \in DisksOf[d] : \E k \in asking : \E n \in DOMAIN config[k].hosts :
            /\ Asks(k, n, d, t, p)
            /\ config[k].hosts[n].disks = {} \/ x \in config[k].hosts[n].disks}
  BY <1>13, <1>14
<1> QED BY <1>9, <1>11, <1>12, <1>15 DEF asking, of

\* The main group is what the configuration asks for, for every configuration:
\* the disks of each domain, to each target by each packager, the timeout and
\* the freezing of its guest.
THEOREM MainGroupAsAsked == Spec => []AsAsked
<1> QED BY AlwaysMerged, MergedAsAsked, PTL

=============================================================================
