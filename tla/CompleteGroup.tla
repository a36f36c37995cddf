--------------------------- MODULE CompleteGroup ---------------------------
(***************************************************************************)
(* The directory of one domain's backups, and the `virt-backup clean`      *)
(* command on it: CompleteBackupGroup.scan_backup_dir(), clean() by the    *)
(* retention policy, clean_broken_backups() (groups/complete.py), and      *)
(* DomCompleteBackup.delete().                                             *)
(*                                                                         *)
(* Backups and clean commands come one after the other.  The steps of a    *)
(* backup and of clean_aborted() are those of PendingBackup; here a backup *)
(* is what its end, or its death, leaves in the directory.                 *)
(***************************************************************************)
EXTENDS Integers, FiniteSets, Sequences, Remains

CONSTANTS Date,       \* the calendar: Date[b] is when backup b is taken, if it is
          Keep,       \* how many backups to keep per period (Len(Date) stands for "*")
          Packager,   \* the packager of each backup
          MaxFaults   \* bound: backups and clean commands that die

Periods == {"hour", "day", "week", "month", "year"}
Backups == 1..Len(Date)

ASSUME DateAssumption ==
  \* nth numbers the days, from a Monday
  Date \in Seq([year : Nat, month : 1..12, week : 1..53, day : 1..31, hour : 0..23, nth : Nat])
ASSUME OrderAssumption ==
  \A b \in Backups, c \in Backups :
    b < c => Date[b].nth * 24 + Date[b].hour <= Date[c].nth * 24 + Date[c].hour
\* The year of an ISO week: the last days of December may be in week 1 of the next
\* one, the first of January in the last week of the one before.
IsoYear(d) ==
  IF d.month = 12 /\ d.week = 1 THEN d.year + 1
  ELSE IF d.month = 1 /\ d.week \in 52..53 THEN d.year - 1
  ELSE d.year

\* True of all dates: days follow one another as year, month and day do, and
\* weeks, which begin on Mondays, as ISO year and week do.
ASSUME CalendarAssumption ==
  \A b \in Backups, c \in Backups :
    LET x == Date[b]
        y == Date[c]
    IN  /\ x.nth < y.nth <=> \/ x.year < y.year
                             \/ x.year = y.year /\ x.month < y.month
                             \/ x.year = y.year /\ x.month = y.month /\ x.day < y.day
        /\ x.nth \div 7 < y.nth \div 7 <=>
             IsoYear(x) < IsoYear(y) \/ (IsoYear(x) = IsoYear(y) /\ x.week < y.week)
ASSUME KeepAssumption == Keep \in [Periods -> Nat]
ASSUME PackagerAssumption == Packager \in [Backups -> {"directory", "tar", "zstd"}]
ASSUME BoundAssumption == MaxFaults \in Nat

VARIABLES
  pend,     \* the pending file of each backup, as a reader finds it
  defn,     \* its definition file: early ones name no disks
  data,     \* its copies
  last,     \* the last backup started
  foreign,  \* the backups up to this one were taken under another ID of the domain
  pc,       \* what the clean command does next, "idle" if none runs
  mode,     \* its option: none ("all"), -b ("broken") or -B ("complete")
  listed,   \* CompleteBackupGroup.backups
  broken,   \* rest of the list clean_broken_backups iterates over
  rm,       \* backups_to_remove not removed yet
  cur,      \* the one that delete() is removing, 0 if none
  faults,   \* number of deaths so far
  settled,  \* history: what the last finished clean() has left
  had       \* history: the complete backups when the command started

files == <<pend, defn, data>>
command == <<mode, listed, broken, rm, cur>>
history == <<settled, had>>
vars == <<files, command, history, last, foreign, pc, faults>>

TypeOK ==
  /\ pend \in [Backups -> {"absent", "torn", "ok"}]
  /\ defn \in [Backups -> {"absent", "torn", "early", "final"}]
  /\ data \in [Backups -> {"none", "partial", "whole"}]
  /\ last \in Backups \cup {0} /\ foreign \in 0..last
  /\ pc \in {"idle", "retain", "delete", "broken"}
  /\ mode \in {"all", "broken", "complete"}
  /\ listed \in SUBSET Backups /\ broken \in SUBSET Backups /\ rm \in SUBSET listed
  /\ cur \in rm \cup {0}
  /\ faults \in 0..MaxFaults
  /\ settled \in SUBSET Backups /\ had \in SUBSET Backups

Init ==
  /\ pend = [b \in Backups |-> "absent"]
  /\ defn = [b \in Backups |-> "absent"]
  /\ data = [b \in Backups |-> "none"]
  /\ last = 0 /\ foreign = 0 /\ pc = "idle" /\ mode = "all" /\ cur = 0 /\ faults = 0
  /\ listed = {} /\ broken = {} /\ rm = {} /\ settled = {} /\ had = {}

----------------------------------------------------------------------------
(* Retention *)

\* The key _group_backup_by_period gives a backup: the attributes of its date,
\* from the year down to the period, the ISO week being one of them.
Key ==
  LET long(d) == <<d.year, d.month, d.week, d.day, d.hour>>
      length == [year |-> 1, month |-> 2, week |-> 3, day |-> 4, hour |-> 5]
  IN  [p \in Periods |-> [b \in Backups |-> SubSeq(long(Date[b]), 1, length[p])]]

\* The order of Python's tuples, in which the groups are sorted.
Before(k, l) == \E i \in DOMAIN k : k[i] < l[i] /\ \A j \in 1..(i - 1) : k[j] = l[j]

\* Mutation: [-n - 1 : -1]: the group in progress is left out.
LastKeysButOne(keys, n) == {k \in keys : Cardinality({l \in keys : Before(k, l)}) \in 1..n}

\* sorted(grouped_backups.items())[-n:]
LastKeys(keys, n) == {k \in keys : Cardinality({l \in keys : Before(k, l)}) < n}

\* Mutation: the last backup of each group.
PeriodicLast(S, p) ==
  LET keys == LastKeys({Key[p][b] : b \in S}, Keep[p])
  IN  {b \in S : Key[p][b] \in keys /\ \A c \in S : Key[p][c] = Key[p][b] => c <= b}

\* _keep_n_periodic_backups: the first backup of each of the last groups.
Periodic(S, p) ==
  LET keys == LastKeys({Key[p][b] : b \in S}, Keep[p])
  IN  {b \in S : Key[p][b] \in keys /\ \A c \in S : Key[p][c] = Key[p][b] => b <= c}

\* keep_backups
Kept(S) == UNION {Periodic(S, p) : p \in Periods}

----------------------------------------------------------------------------
(* Backups *)

Leaves(b, r) ==
  /\ last' = b
  /\ pend' = [pend EXCEPT ![b] = r.pend]
  /\ defn' = [defn EXCEPT ![b] = r.defn]
  /\ data' = [data EXCEPT ![b] = r.data]
  /\ UNCHANGED <<command, history, foreign, pc>>

\* A backup is taken at one of the dates to come.
BackupCompletes ==
  /\ pc = "idle"
  /\ \E b \in Backups : b > last /\ Leaves(b, Complete)
  /\ UNCHANGED faults

BackupDies ==
  /\ pc = "idle" /\ faults < MaxFaults /\ faults' = faults + 1
  /\ \E b \in Backups, r \in Left : b > last /\ Leaves(b, r)

\* The domain is stopped, or started again: its ID is not the one it had.
DomainRestarts ==
  /\ pc = "idle" /\ foreign # last /\ foreign' = last
  /\ UNCHANGED <<files, command, last, history, pc, faults>>

----------------------------------------------------------------------------
(* The clean command *)

\* Both lists hold what parses: an early definition, too, is a complete backup.
Scan(m) ==
  /\ pc = "idle" /\ mode' = m
  /\ listed' = {b \in Backups : defn[b] \in {"early", "final"}}
  /\ broken' = {b \in Backups : pend[b] = "ok"}
  /\ had' = {b \in Backups : pend[b] = "absent" /\ defn[b] = "final" /\ data[b] = "whole"}
  /\ pc' = IF m = "broken" THEN "broken" ELSE "retain"
  /\ UNCHANGED <<files, rm, cur, last, foreign, settled, faults>>

\* Mutation: what the list does not have is removed, too.
RetainUnlisted ==
  /\ pc = "retain" /\ pc' = "delete"
  /\ rm' = Backups \ Kept(listed)
  /\ UNCHANGED <<files, mode, listed, broken, cur, last, foreign, history, faults>>

Retain ==
  /\ pc = "retain" /\ pc' = "delete"
  /\ rm' = listed \ Kept(listed)
  /\ UNCHANGED <<files, mode, listed, broken, cur, last, foreign, history, faults>>

\* The command is over.
Stop ==
  /\ pc' = "idle" /\ mode' = "all" /\ rm' = {} /\ cur' = 0 /\ listed' = {} /\ broken' = {}
  /\ had' = {}
  /\ UNCHANGED <<files, last, foreign>>

\* delete() has copies to remove: in a shared directory those the definition
\* names, an early one names none.
Removes(b) == ~(Packager[b] = "directory" /\ defn[b] = "early")

\* It raises when one of them has gone with a delete() that died, or when the
\* archive was never opened.
Raises(b) ==
  \/ Packager[b] = "directory" /\ Removes(b) /\ data[b] # "whole"
  \/ Packager[b] = "tar" /\ data[b] = "none"

\* Nothing catches what delete() raises.
DeleteRaises ==
  /\ pc = "delete" /\ cur = 0
  /\ \E b \in rm : Raises(b)
  /\ Stop /\ UNCHANGED <<settled, faults>>

\* The packagers with a file per disk remove them one at a time ...
DeleteFirst ==
  /\ pc = "delete" /\ cur = 0
  /\ \E b \in rm : /\ Packager[b] # "tar" /\ Removes(b) /\ data[b] = "whole"
                   /\ data' = [data EXCEPT ![b] = "partial"]
                   /\ cur' = b
  /\ UNCHANGED <<pend, defn, mode, listed, broken, rm, last, foreign, history, pc, faults>>

\* ... to the last, the tar packager its only file ...
DeleteLast ==
  /\ pc = "delete"
  /\ \E b \in rm : /\ IF cur = 0 THEN ~Raises(b) ELSE b = cur /\ data[b] = "partial"
                   /\ data' = IF Removes(b) THEN [data EXCEPT ![b] = "none"] ELSE data
                   /\ cur' = b
  /\ UNCHANGED <<pend, defn, mode, listed, broken, rm, last, foreign, history, pc, faults>>

\* ... and the definition goes last.
DeleteDefn ==
  /\ pc = "delete" /\ cur # 0 /\ (Removes(cur) => data[cur] = "none")
  /\ defn' = [defn EXCEPT ![cur] = "absent"]
  /\ rm' = rm \ {cur} /\ cur' = 0
  /\ UNCHANGED <<pend, data, mode, listed, broken, last, foreign, history, pc, faults>>

\* Mutation: without option, the command does not go on to the broken backups.
RetainedOnly ==
  /\ pc = "delete" /\ rm = {}
  /\ settled' = {b \in listed : defn[b] # "absent"}
  /\ Stop /\ UNCHANGED faults

Retained ==
  /\ pc = "delete" /\ rm = {}
  /\ settled' = {b \in listed : defn[b] # "absent"}
  /\ \/ mode = "complete" /\ Stop
     \/ mode = "all" /\ pc' = "broken" /\ UNCHANGED <<files, command, last, foreign, had>>
  /\ UNCHANGED faults

\* clean_aborted() removes what is left of the oldest one, but for the files whose
\* names it makes of an ID the domain no longer has; removing it from the list
\* that is iterated over skips the next.
CleanBroken ==
  /\ pc = "broken"
  /\ \E b \in broken :
       /\ \A c \in broken : b <= c
       /\ pend' = IF b <= foreign THEN pend ELSE [pend EXCEPT ![b] = "absent"]
       /\ defn' = IF b <= foreign THEN defn ELSE [defn EXCEPT ![b] = "absent"]
       \* the removal of a directory's copies ends at the first that is missing
       /\ \E left \in {"none"} \cup ({data[b]} \cap {"partial"}) :
            /\ left # "none" => Packager[b] = "directory"
            /\ data' = [data EXCEPT ![b] = left]
       /\ broken' = {c \in broken : \E d \in broken : b < d /\ d < c}
  /\ UNCHANGED <<mode, listed, rm, cur, last, foreign, history, pc, faults>>

CleanEnds ==
  /\ pc = "broken" /\ broken = {}
  /\ Stop /\ UNCHANGED <<settled, faults>>

Crash ==
  /\ pc # "idle" /\ faults < MaxFaults /\ faults' = faults + 1
  /\ Stop /\ UNCHANGED settled

CleanStep ==
  \/ Retain \/ DeleteRaises \/ DeleteFirst \/ DeleteLast \/ DeleteDefn \/ Retained
  \/ CleanBroken \/ CleanEnds

Next ==
  \/ BackupCompletes \/ BackupDies \/ DomainRestarts \/ Crash \/ CleanStep
  \/ \E m \in {"all", "broken", "complete"} : Scan(m)

Spec == Init /\ [][Next]_vars

\* `virt-backup clean`, without option, is run again and again.
FairSpec == Spec /\ WF_vars(CleanStep) /\ SF_vars(Scan("all"))

----------------------------------------------------------------------------
(* Properties *)

\* The number of the hour, day, ISO week, month or year of a backup, and of its
\* week as the code counts them: a new one begins with each Monday and with each
\* month, so that an ISO week that goes over the end of a month counts as two.
Span ==
  LET numbers(d) == [hour |-> d.nth * 24 + d.hour, day |-> d.nth,
                     week |-> d.nth \div 7 + d.year * 12 + d.month,
                     month |-> d.year * 12 + d.month, year |-> d.year,
                     isoweek |-> d.nth \div 7]
  IN  [b \in Backups |-> numbers(Date[b])]

\* Is b in one of the last n hours, days, ... in which S has a backup?
Recent(b, S, p, n) ==
  Cardinality({Span[c][p] : c \in {c \in S : Span[c][p] > Span[b][p]}}) < n

\* Is it the first backup S has in one of them?
FirstOfRecent(b, S, p, n) ==
  Recent(b, S, p, n) /\ \A c \in S : Span[c][p] = Span[b][p] => b <= c

Removed(b) == b \in rm \/ defn[b] = "absent"

\* docs/config.rst: `daily: 2` keeps the first backup of the day of the last two
\* days, and so on: clean() removes the backups listed that are none of these,
\* and only them.  Weeks are those that end with their month; of the ISO weeks,
\* PeriodsKeepOne says what the documentation does.
ExactlyOutdated ==
  pc = "delete" => \A b \in listed :
    Removed(b) <=> ~\E p \in Periods : FirstOfRecent(b, listed, p, Keep[p])

\* Retention is stable: what one clean() has kept, the next one keeps, as long
\* as no backup has been taken or cleaned in between.
KeptStaysKept == pc = "delete" /\ listed = settled => rm = {}

\* docs/config.rst: `daily` and `weekly` are how many days and weeks keep their first
\* backup: of each of the last days, and of each of the last weeks, that had a
\* complete backup when the command started, it leaves one that is whole.
PeriodsKeepOne ==
  LET keep == [day |-> Keep["day"], isoweek |-> Keep["week"]]
  IN  pc = "broken" /\ mode = "all" /\ broken = {} =>
        \A p \in DOMAIN keep, b \in had : Recent(b, had, p, keep[p]) =>
          \E c \in had : Span[c][p] = Span[b][p] /\ data[c] = "whole"

\* A clean command has come to a backup whose delete() raises: one that the
\* death of an earlier command has left without some of its copies, or a broken
\* one whose archive was never opened.
Stuck == pc = "delete" /\ cur = 0 /\ \E b \in rm : Raises(b)

\* README.mkd: clean cleans the broken backups: sooner or later each of those
\* that can be read is cleaned, whatever else is listed, unless the retention
\* raises before the command comes to them, or the oldest broken backup is of
\* another ID of the domain: its files stay, and it stays ahead of the others.
BrokenGoes ==
  \A b \in Backups : pend[b] = "ok" ~>
    pend[b] = "absent" \/ Stuck \/ \E c \in 1..foreign : c <= b /\ pend[c] = "ok"
=============================================================================
