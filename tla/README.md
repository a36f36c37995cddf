# Verification of virt-backup

virt-backup backs up libvirt domains while they run: it takes an external
snapshot of a domain's disks, copies the disks, which the snapshot has frozen,
and merges the snapshot back. It is a Python program of 3400 lines that runs as
a command, so what can go wrong is what a command leaves behind: a domain on a
snapshot nobody knows of, copies nobody will remove, a backup that looks
complete and is not. This directory holds TLA+ models of the parts where that is
decided, the TLC runs that check them, and proofs.

Contents: [the system](#the-system) · [modules](#modules-and-the-code-they-model) ·
[runs](#runs) · [what the runs found](#where-the-code-and-its-documentation-part) ·
[proofs](#proofs) · [limits](#not-modelled) · [plan](#plan)

## The system

| Component | State | Operations | What makes it correct |
|---|---|---|---|
| Domain backup (`backups/pending.py`) | `pending_info`, its file; the definition and its file; `metadatas` of the snapshot helper; cancel flag | `start`, `cancel`, `clean_aborted`, `compatible_with`, `merge_with` | The files always tell enough to undo the backup; a definition alone means a whole backup |
| Write packagers (`backups/packagers/`) | tar file, files per disk in a directory, or archives found by prefix | `open`, `add`, `remove`, `list`, `remove_package` | What is added is recorded; what is removed is only one's own |
| External snapshots (`backups/snapshot.py`) | `metadatas`, `_wait_for_pivot`, registered callbacks; in libvirt, chains and block jobs | `start`, `clean`, `clean_for_disk`, event callback | No file in use and no data not merged is removed; every disk ends up on its base; the wait ends |
| Backup group (`groups/pending.py`) | list of backups; queues per domain; futures | building, merging, `start`, `start_multithread` | Each thing asked for is backed up once; never two backups of a domain at a time; nobody is abandoned |
| Complete group (`groups/complete.py`, `backups/complete.py`) | lists of complete and broken backups, from a scan | `scan_backup_dir`, `clean`, `clean_broken_backups`, `delete` | Retention keeps what it says; broken backups go |
| Restore (`backups/complete.py`, read packagers, `compat_layers/definition.py`) | the target directory | `restore_to`, `restore_and_replace_disk_of`, conversion of old definitions | The last whole backup, all of it, and nobody else's files |
| Commands (`__main__.py`) | the event loop thread, the callback registrer | `backup`, `clean`, `restore`, `list` | Ctrl-C and errors leave the above intact |
| Domains, patterns, configuration, other compatibility layers | none | pure functions | - |

How they interact. A command builds groups from the configuration. `backup`
merges them into one and gives each `DomBackup` to a thread of a pool. Each
`DomBackup` uses its own `DomExtSnapshot`; the pivot at the end of a block job
is done by a callback in the libvirt event loop's thread, which one registrer
shared by all backups dispatches by snapshot path, while the backup's thread
waits on an event. Between commands everything is in the files of the backup
directory: `clean` rebuilds a `DomBackup` from each `.json.pending` file and
calls `clean_aborted`, and a `DomCompleteBackup` from each `.json` file, as
`restore` does, which then reads the copies while other commands may run.

What is hard: death of the process between any two steps, since the snapshot is
in libvirt and the files are on disk; exceptions in the middle of `start`, whose
handler itself may fail; event loop against cleaning thread; a domain that stops
or starts during the merge; Ctrl-C, once or twice, against the pool; cleaning
again what a cleaning that died has half removed; names made of an ID that the
domain changes at each start; a restore beside a backup, a removal, or anyone who
writes where it writes. `PROJECT.json` lists each hazard with its line.

## Modules and the code they model

| Module | Models | State variables and the code's |
|---|---|---|
| `PendingBackup` | `DomBackup.start` and `clean_aborted`, the packagers as they use them, `clean_broken_backups`, for the successive backups of one domain | `pend`, `defn`, `copies`, `archives`: the backup directory. `overlay`, `snapfile`: libvirt's chains. `sameID`: does the domain still have the ID in the file names. `info`, `metas`, `helper`, `flag`: `pending_info`, `metadatas["disks"]`, `_ext_snapshot_helper`, `_cancel_flag`. `pc`, `phase`, `disk`, `cur`, `cmd`, `todo`: where the running command is |
| `ExtSnapshot` | `DomExtSnapshot.clean`, `clean_for_disk`, `blockcommit_disk`, `_pivot_callback` and the registrer, statement by statement; the death of the process, the clean commands after it, and one of another process beside it | `metas`, `callbacks`; `slot` is `_wait_for_pivot` and `signalled` the Events that are set; `conf`, `live`, `job`, `dirty`, `exists`: libvirt, guest, disk. `recovering`: is it a clean command; `orphan`: jobs of other processes; `rival`, `rdisk`, `rloop`: the other process |
| `BackupScheduler` | `BackupGroup.start_multithread` with its pool, `start` with one thread, Ctrl-C in both, and the backups as far as they share the domain and the registrer | `group`: the backups and the number of threads; `futures`, `run`, `errors`: the futures and their results; `chain` the snapshots of each domain, `registrer` whether events still arrive |
| `CompleteGroup` | `scan_backup_dir`, `clean` with its retention policy, `delete`, `clean_broken_backups` and the clean command around them, for one domain | `pend`, `defn`, `data`: the directory; `listed`, `broken`, `rm`: the lists; `foreign`: the backups of another ID; `pc`, `mode`, `cur`: the command |
| `GroupMerge` | `groups_from_dict`, `add_domain`, `build_main_backup_group`, `add_dombackup` | `built`: the groups; `main`: the main group's list; `i`, `h`, `merged`: the loops |
| `Restore` | `restore_backup` with scan and choice, `restore_to`, `restore_and_replace_disk_of`, the read packagers, beside other processes | `defn`, `copies`: the backups; `image`, `xml`: the target; `names`, `found`: what the scan has still to read, and has; `pc`, `chosen`, `todo`: the command |
| `Definitions` | a definition of either version, its conversion (`compat_layers/definition.py`), the archive's name (`complete_path`) | no state |
| `Remains` | what one backup may have in the directory when no command works on it | no state; used by `PendingBackup`'s instance and by `CompleteGroup` |
| `BackupLifecycle` | abstract: what a reader of the directory may rely on: a backup is begun and then complete, with every disk, or dropped | refined by `PendingBackup` (`ImplementsLifecycle`) |
| `BackingChain` | abstract: a snapshot is merged only when on top, its file removed only after that | refined by `PendingBackup` and by `ExtSnapshot` (`ImplementsChain` in each) |
| `MC...` | values of the constants for TLC | |
| `PendingBackupProofs`, `PendingBackupSafety`, `PendingBackupRemains` | theorems about `PendingBackup` | |
| `ExtSnapshotProofs`, `BackupSchedulerProofs`, `CompleteGroupProofs`, `GroupMergeProofs`, `RestoreProofs` | theorems about the module each is named after | |

How they compose. `PendingBackup` and `ExtSnapshot` are two views of the same
merge: in the first it is two steps (pivot, removal of the file), in the second
it is what two threads, libvirt and a guest do. Both are shown to implement
`BackingChain`, which is what each may assume of the other. `BackupScheduler`
has the whole backup as six steps and assumes of it what `PendingBackup` shows:
that it leaves its own snapshot unless another is above it. `CompleteGroup`
starts from what a death of `start` may leave (`Left` in `Remains`), and
`Pending_mixed` checks that `PendingBackup` leaves nothing else
(`LeavesAsAssumed`). `GroupMerge` ends with the list that `BackupScheduler` starts
from. `Restore` has the backups as `PendingBackup` makes them: an early definition
that names no disk, copies one by one, the final definition.

Choices worth knowing:

- A file is absent, torn (truncated and not rewritten, or rewritten in part), or
  readable with what it was dumped from. `open(path, "w")` and the write are two
  steps; a crash between them leaves a torn file.
- A failing statement is `StepFails`: whatever step was next raises, and the
  `except:` clause of `start` takes over. Inside `clean_aborted` an exception ends it.
- Targets of the disks are the disks' numbers; dates are the order of the backups
  in `PendingBackup`, and calendar records in `CompleteGroup`, where the retention
  is about them.
- A host definition of `GroupMerge` is the set of domains it matches, and a
  packager stands for its options too. The order of the domains in the sets is
  left open.
- In `Restore`, a file name is a sequence of pieces, since the question is where
  the code finds `.tar` in it; the images of the disks have basenames that two
  disks may share.
- In `CompleteGroup`, `clean_aborted` is one step: its own steps and deaths are
  those of `PendingBackup`.
- `Mutation:` marks an operator that is no part of a specification: it is the
  definition after it with a plausible mistake, which the properties must catch.

## Runs

Every property of a passing run has a mutant (`PROJECT.json`) under which TLC
finds it violated.

| Run | Checks | Bounds, and why they are enough |
|---|---|---|
| `Pending_tar` | `TypeOK`, `OverlayHasPendingFile`, `FrozenWhileCopied`, `CompleteMeansWhole`, `ImplementsChain` | 3 disks: a first, a middle and a last one, for the order of merges; 2 backups, for a snapshot on a snapshot; 2 faults, a crash and one in the cleaning after it; tar |
| `Pending_mixed` | `PendingRemovedLast`, `CopiesRecorded`, `LeavesAsAssumed`, `ImplementsLifecycle`, `BrokenIsCleaned` | 2 disks; 2 backups, the first by zstd, the second into a shared directory; 2 faults: two broken backups, one skipped by the first clean, or a cleaning that dies; any domain may have another ID when it is cleaned |
| `Snap_threads` | `TypeOK`, `InUseExists`, `NothingLost`, `CleanedMeansGone`, `DoneMeansBack`, `ReadyIsHeard`, `ImplementsChain`, `CleanEnds`, `Recovers` | 2 disks, since the events of one may come during the wait for the other; 2 calls of `clean()`; 2 others among stops and starts of the domain and clean commands beside this one; 2 faults among jobs or statements that fail and deaths, so that the cleaning after a death may fail or die, too; any number of clean commands after it; with timeouts |
| `Sched_threads` | `TypeOK`, `NoneAbandoned`, `FailuresReported`, `SignalledAll`, `OneAtATime`, `DomainsBackOnDisks`, `GroupEnds` | 3 backups on 2 threads, so that one waits, of 3 domains, or of 2 domains and with a shared virDomain object; and 3 backups in sequence, of 2 domains; Ctrl-C twice, 2 failures |
| `Clean_retention` | `TypeOK`, `ExactlyOutdated`, `KeptStaysKept`, `BrokenGoes` | any subset of 5 dates of the winter of 2018, with two backups of one hour, of one day, of one ISO week in two months, and of two years; all packagers; 2 per hour, day and week, 1 per month and year; 1 death; the domain may take another ID after any backup |
| `Groups_merge` | `TypeOK`, `NoTwoAlike`, `AsAsked` | 2744 configurations: 2 groups with 2 and 1 of 7 host definitions, or 3 groups with 1 each; 2 domains, one without the second disk; 2 packagers; any choice of groups |
| `Restore_races` | `TypeOK`, `NoPartialLeft`, `TheirsKept`, `DoneIsWhole`, `OldIsFound`, `NewestChosen`, `WholeIsRestored` | 2 disks, with or without the same basename; 2 backups, so that one is there while another is taken or removed, the first by tar or into a directory, of this version or an old one, its name with or without `.tar` in it, the second by zstd; 1 restore; 1 image written by another; 1 failing copy, Ctrl-C or kill |

The bounds `MaxFaults`, `MaxCleans`, `MaxInterrupts`, `MaxFails`,
`MaxCommands`, `MaxOthers` and `NBackups` only limit how often the environment acts;
no step of the program has one. `CHECK_DEADLOCK FALSE` stands where a command ends, or may wait for ever.

What the retention keeps depends on the calendar, since its keys hold year, month
and ISO week, which do not begin together. At the end of a month within an ISO week,
which most months have, the week has two keys and counts as two of the weeks to keep:
`ExactlyOutdated` has weeks that end with their month, as the code does, and
`Doc_weeks` shows that the documentation's weeks are not kept. At the turn of a year
the keys of hours, days and weeks are not sorted like the dates, either, and
`ExactlyOutdated` may fail (`DaysNeedOneIsoYear`, below). So the run's dates have
a month's end within a week, and no month with days of two ISO years.

### Fairness

- `Pending_mixed`: a process that is not dead takes its next step, and a clean
  command is run again as long as there is something to clean (the systemd unit
  `example/virt-backup-clean.service` runs it at each boot). Crashes are bounded,
  never fair.
- `Snap_threads`: both threads are scheduled, and a block job that does not fail
  becomes ready, which QEMU does once the copy has caught up. Nothing is assumed
  of the guest, of the other process or of whoever stops the domain. After a death
  the clean command is run again as long as it has not succeeded. A timeout is part of the instance:
  without one the wait may have no end, and the clean command has none, so that
  `CleanEnds` and `Recovers` speak of a command that waits as one of the outcomes.
- `Sched_threads`: threads are scheduled and the steps of a backup end. After a
  second Ctrl-C the registrer may be closed under a backup that waits for its
  event, so `GroupEnds` does not speak of that case.
- `Clean_retention`: a command that runs goes on, and the command without options
  is run again and again (strong fairness, since it can only start when no other
  command runs, and people may run other ones in between).
- `Restore_races`: the command that runs takes its next step; nobody else has to.

## Where the code and its documentation part

Each `Doc_` run checks one sentence of the documentation, or of a message, that
the code does not keep; `PROJECT.json` quotes the sentence and the lines.

| Run | What TLC shows |
|---|---|
| `Doc_restore` | a restore beside a backup that runs, or after one that died, takes its first definition for the last backup: it extracts the domain's XML, no disk, and ends well |
| `Doc_clean` | the clean command looks for the files of a broken backup under the domain's present ID: once the domain was restarted, pending file and definition stay |
| `Doc_chain` | a domain started during a manual commit loses the file it runs on |
| `Doc_parallel` | two backups of a domain run at once, since each holds a virDomain object of its own |
| `Doc_weeks` | of backups on January 22nd and 30th and February 1st, 2018, `weekly: 2` removes the first: the other two are of one week, but of two months |

### Known gaps

The models have more behaviours that one would not want; they have no run of their
own. A property above that has an exception has it for one of these or of those above.

- A crash between the creation of the snapshot and the first dump leaves a
  snapshot that no file tells of; one during a dump leaves a pending file that
  does not parse and that no scan lists. `OverlayHasPendingFile` begins when the
  pending file has been opened and asks that there is one, torn or not.
- An exception after the creation of the snapshot and before `metadatas` is set
  leaves the snapshot (`AbortNotStarted`).
- A cleaning by the directory packager that dies half-way makes the next one stop
  at the first target missing and forget the others (`PackagerCleaned`;
  `PendingRemovedLast` excepts `interrupted`).
- `clean_broken_backups` removes what it has cleaned from the list it iterates
  over, so one command skips every second broken backup (`AbortPending`);
  `BrokenIsCleaned` needs several commands.
- After a timeout a disk still on its snapshot is taken for pivoted (`TimesOut`;
  `CleanedMeansGone` excepts `timedOut`).
- Two threads may each create the `Event` of a disk in `_wait_for_pivot`; the
  pivot is done and the wait goes on until its timeout (`Lookup`, `LoopLookup`).
- The second backup in a domain's queue is never started: the loop that should do
  it raises AttributeError (`While`), after which the group ends with that error.
- At the turn of a year the retention's keys put December 30th and 31st, when they
  are in ISO week 1, before the rest of the month, and the first days of January,
  when they are in week 52 or 53, behind it: the newest backups of December are
  taken for the oldest, and removed (`Key`). At the end of 2024, `daily: 1` keeps
  the backup of the 29th.
- A broken backup counts as complete for its early definition, and a complete one
  of the same day is removed in its place (`Scan`, `Kept`; `PeriodsKeepOne` fails
  on any calendar when a backup may die).
- `delete()` of a tar backup whose archive was never opened, or of one whose
  copies an earlier `delete()` has removed before it died, raises each time, and
  the command ends before it comes to the broken backups (`DeleteRaises`;
  `BrokenGoes` excepts it as `Stuck`).
- A domain that is restarted has another ID: the broken backups before that stay
  listed, each clean command begins with the oldest one and skips the second, for
  ever the same one perhaps (`AbortDefn`, `CleanBroken`; `BrokenIsCleaned` and
  `BrokenGoes` except it).
- A clean command beside a running backup merges the snapshot under the disk that
  is being copied and removes copies and files, while the backup goes on and ends
  with a definition of what is no longer there. The pivot of one process may
  answer the event of the other's job, which then waits for ever or until its
  timeout (`RivalPivots`).
- A zstd backup cancelled between two disks keeps its archive, definition and
  pending file until a clean command comes: the removal takes the cancel flag for
  its own (`RemoveCancelled`). docs/backup.rst:52-53 says that an aborted backup
  removes what it has done.
- A broken backup's snapshot under another one's is given up without being
  merged, and its pending file goes, so nobody knows of it any more (`SkipDisk`).
- A block job that a death, of this process or of another, leaves in libvirt makes every later clean fail for as
  long as the domain runs (`Commit`; `Recovers` excepts it), and a clean command
  waits for its pivots without a timeout.
- Ctrl-C during the snapshot of a sequential backup is replaced by
  SnapshotNotStarted, and the next backup is started; Ctrl-C during a cleaning
  leaves its snapshot (`InterruptSequence`; `DomainsBackOnDisks` excepts `cut`).
- The quiesce option of a host definition is dropped when another definition has
  made the backup of that host before (`GroupMerge`; `AsAsked` only asks that no
  guest is frozen unasked). docs/config.rst:131 says that it overrides the group's.
- A file that appears in the target between the check of a restore and its open
  makes the open fail, and the file is removed as if it were the restore's own
  (`RemoveTarget`; `TheirsKept` excepts `late`).
- A failed restore by the directory packager, and a killed one by any, leaves a
  part of an image (`NoPartialLeft`). Two disks whose images have one basename
  cannot be restored into one directory. The XML of an earlier restore is
  overwritten.
- `restore_and_replace_disk_of` restores to the path of the image, which the tar
  and zstd packagers refuse as long as that image is there, and throws its copy of
  the driver away (`ReplaceDisk`, `CopyDriver`).
- A pending file of a domain that libvirt no longer knows makes the scan raise:
  nothing of the group is cleaned or restored (`ScanBroken`).
- The archive of an old definition with `.tar` twice in its name is looked for
  under another name (`ConvertName`; `OldIsFound` excepts it).
- The backup command builds its groups from the configuration without the
  section `default` (`__main__.py:442`), which the other commands do read and which
  docs/config.rst:185 calls a dictionary containing all the default options for
  the groups.

## Proofs

TLAPS proves every invariant, every action property and every refinement that the
passing runs check, for every value of the constants. The assumptions are the named
ones in the modules that declare the constants (at least one disk, one CPU and one
call of `clean()`, packagers among the three there are, dates in the order of the
backups, and the like); TLC evaluates them in each run. Three theorems have a
hypothesis beyond these, in their statement: `OneObject`, `OneIsoYear`, and
`WrittenByUs`. Each is explained below, and holds of an instance TLC has checked.

A property is seldom inductive as it stands. What follows says for each what was
added to it; TLC has checked these inductive invariants on the instances of the
runs before they were proved.

### PendingBackup

`TypeCorrect` (`PendingBackupProofs`): whether `cur` is a backup, `disk` a disk, and
what the next step does with `info` depends on `pc`. The invariant is
`TypeOK /\ Control`, where `Control` says which values of `pc` go with which command,
phase, current backup and disk. `StepControl` and `StepType` have one case per
action; the dumps, whose step is chosen by `pc`, have lemmas of their own.

In `PendingBackupSafety`:

- `Frozen` (`FrozenWhileCopied`). `FrozenInv` adds that no backup that has not begun
  has a snapshot, that from the snapshot to the first copy all disks run on it, and
  that the loop over the disks only merges those it has passed.
- `Recorded` (`CopiesRecorded`). A dump replaces the file by `info`, so the copies
  must be in `info` before they are in the file: `RecordedInv` says that what is on
  disk is in `info` while a command works on the backup.
- `OverlayTold` (`OverlayHasPendingFile`). `ToldInv` relates snapshots in use,
  `metas` and the steps of `clean_aborted`: when it reaches the pending file, the
  disks still on the snapshot are those that `clean_for_disk` gave up.
- `CompleteIsWhole` (`CompleteMeansWhole`). `ProgressInv`: `start` passes a disk only
  when its copy is full and its target noted; it needs `FrozenInv`, by which the loop
  that merges one disk merges that one and moves on by one. `WholeInv`: a definition
  has its pending file beside it until the backup is whole.

In `PendingBackupRemains`, on top of all of these:

- `RemovedLast` (`PendingRemovedLast`) and `LeftAsAssumed` (`LeavesAsAssumed`).
  `FilesInv` says which of the two files are there at each step and that a torn
  pending file has at most an early definition beside it; `CopiesInv` where copies
  may be, and that a shared directory has none after the first one missing, unless
  a cleaning died there; `SnapfileInv` that what is in `snapfile` is still in `metas` or
  was given up.
- `ChainImplemented`, `LifecycleImplemented`: the module implements both abstract
  ones. Each action is shown to be one step of the abstract module or none; that a
  complete backup has every disk from the step that completes it on is
  `CompleteIsWhole` again.

### ExtSnapshot

All in `ExtSnapshotProofs`, over `TypeCorrect` with the control of the two threads.

- `InUseKept` (`InUseExists`) and `WritesKept` (`NothingLost`) rest on `MergedInv`:
  what is configured on its base runs on its base and has nothing unmerged, or its
  domain was started during the commit; a manual commit keeps what it commits
  until one of the other processes changes it, which is where `startedUnder` comes in.
- `CleanedGone` (`CleanedMeansGone`) adds where the wait for the pivot is
  (`PivotInv`), `DoneBack` (`DoneMeansBack`) what the loop over the disks has passed
  (`PassedInv`), `ReadyHeard` (`ReadyIsHeard`) that a job of this process has its
  callback (`JobInv`).
- `ChainImplemented`: statement by statement, the two threads, the other process and
  the clean commands after a death implement `BackingChain`.

`MaxCleans` must be at least 1: it counts the calls of `clean()`, and the first one
is what the module is about.

### BackupScheduler

- `NoneLeft` (`NoneAbandoned`). `ThreadsInv` says that the `with` block of the pool is
  left only when all futures are over, and the `except` clause before that only by a
  second Ctrl-C; `SequenceInv` the same of the sequence, where the position in the list
  tells what is over.
- `AllSignalled` (`SignalledAll`). `SignalInv` says how far the two loops of the
  `except` clause have got. A backup that begins behind the first loop was waiting
  when that loop had not reached it, which cannot be.
- `Reported` (`FailuresReported`). The main thread waits for as many futures as there
  are backups; by `FuturesInv` no object's backup is submitted twice, so each has
  its own (`AllSubmitted`, a pigeonhole argument).
- `OneDomainOnce` (`OneAtATime`) and `BackOnDisks` (`DomainsBackOnDisks`) assume
  `OneObject`: where threads run the group, two backups of one domain hold the same
  virDomain object. That is what the queues by object need in order to be queues
  by domain. The groups of `Sched_threads` have it; the `backup` command, when groups
  name a domain twice, does not, and `Doc_parallel` shows two backups of one domain at
  once. The theorem and the run together say that the key of the queues is the
  whole of that fault. For `DomainsBackOnDisks`, without `OneObject` a snapshot may be
  taken on another backup's, and then is not on top when its turn comes.

### CompleteGroup

- `Stable` (`KeptStaysKept`). `KeptAgain`: `keep_backups` applied to what it has kept
  keeps all of it, for any calendar and policy; among fewer groups those of the last n
  stay among the last n, and the first of a group stays its first. `RetainInv` says
  that the loop over the outdated ends with exactly what is kept.
- `RemovesOutdated` (`ExactlyOutdated`) has the hypothesis `OneIsoYear`: the backups
  of one month are of one ISO year, which only the last days of a December and the
  first of a January can fail. Under it the keys of `_group_backup_by_period` are
  equal, and sorted, as the hours, days, months and years they stand for, and as the
  weeks that end with their month (`CalendarAgrees`); and two sets of which one counts
  keys and the other periods have as many elements (`SameCount`). Of the calendar it
  uses only what is true of all dates (`CalendarAssumption`). The winter of
  `Clean_retention` has a month's end within a week, and `OneIsoYear`. The theorem does
  not say that those weeks are the documentation's: they are not (`Doc_weeks`).
- `DaysNeedOneIsoYear`: the keys of days are equal, and sorted, as the days if and only
  if `OneIsoYear`. So the hypothesis is no stronger than the code needs, and at the turn
  of a year that fails it the code sorts two days of one month the wrong way round.
- `KeepsMonthsAndYears` (`MonthsAndYearsKeepFirst`) has no hypothesis, and no run
  of its own: the keys of months and years have no week in them (`MonthsAgree`).

### GroupMerge

- `Unicity` (`NoTwoAlike`): a merge appends only what is compatible with nothing in
  the list, and changes nothing that backups are compared by.
- `MainGroupAsAsked` (`AsAsked`), for any number of groups and definitions, exclusions
  included. `BuiltInv`: what a group has for a domain is what the definitions read so
  far ask for. `MainInv`: a backup of the main group is made of the backups merged
  so far that are compatible with it, and each of those has one. It needs
  `NoTwoAlike`: were there two, the second would not get what is merged into the first.

### Restore

- `NothingInPart` (`NoPartialLeft`) and `OthersUnharmed` (`TheirsKept`): `CopyInv` and
  `LateInv` say that between check, open and copy the file under the image's name is
  the command's own, or came late.
- `RestoredWhole` (`DoneIsWhole`). `DoneInv`: the disks done are there, in full, each
  under its own name, whatever others remove.
- `NewestFound` (`NewestChosen`). `ScanInv`: what is complete since the scan began is in
  the list, or will be read.
- `OldFound` (`OldIsFound`) assumes `WrittenByUs`: each definition is one that this
  version writes, or the one before 0.4, for any stem and any compression. The
  property compares two names that the program makes, so of a file it has not
  written nothing could be said. `SameName` is the fact about `convert` and
  `complete_path`.

### What is only model-checked

The liveness properties (`BrokenIsCleaned`, `CleanEnds`, `Recovers`, `GroupEnds`,
`BrokenGoes`, `WholeIsRestored`), which need fairness and ENABLED, out of the prover's
reach. The `Doc_` runs check properties that do not hold: `OneAtATime` is
proved, and checked by `Sched_threads`, only for backups that share their objects.

## Not modelled

- What a clean command beside a running backup does to the backup's files. The
  scan takes the backup that runs for a broken one. `ExtSnapshot` has both
  processes at work on the snapshots, and `Snap_threads` shows that the domain's
  disks come to no harm; nothing in the code or its documentation promises
  anything of the copies.
- Several domains in one clean command: they follow one another and share nothing
  but an exception that ends them all, which `DeleteRaises` and `ScanBroken` have
  for one.
- A base of the snapshot that has a backing file of its own: `Commit` of
  `ExtSnapshot` relies on a disk back on its base having nothing to commit.
- Two backups of a domain within one second, which have the same names, and a
  second `start()` of one `DomBackup`, which goes one directory deeper: the
  command does neither but by `Doc_parallel`.
- Listing, the conversions of the configuration and of pending files, YAML, XML,
  options and authentication: input and output without state.

`PROJECT.json` gives the reason for each part.

## Plan

Done, in this order:

1. `PendingBackup` with `BackupLifecycle` and `BackingChain`: the core, a backup and its remains.
2. `ExtSnapshot`: the merge with its threads, deaths and the cleaning after them.
3. `BackupScheduler`: the pool, the queues, the sequence and Ctrl-C.
4. `CompleteGroup` and `GroupMerge`: retention, and the list of backups; `Remains` between the first and the fourth.
5. `Restore` and `Definitions`.
6. Proofs: the type invariant of each module, all invariants and action properties
   of the passing runs, and the three refinements.

Left:

7. Proofs: that the excepted cases of the properties are the only ones (`lost` and
   `cut` of `BackupScheduler`, `interrupted` of `PendingBackup`), and the bound of the
   repeated cleanings behind `BrokenIsCleaned`, as an invariant.
8. The files of a backup with a clean command beside it.
9. The conversion of the configuration and of pending files, checked for idempotence.
