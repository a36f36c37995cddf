--------------------------- MODULE BackupScheduler ---------------------------
(***************************************************************************)
(* BackupGroup.start_multithread and start (groups/pending.py) as          *)
(* start_backups (__main__.py) runs them: the main thread, the threads of  *)
(* the executor, Ctrl-C, and the event registrer the pivots need.  With    *)
(* one thread the main thread takes the backups itself.  One backup is a   *)
(* few steps: what it does to its domain is a stack of snapshots, each     *)
(* taken on top and merged only from the top (ExtSnapshot, PendingBackup). *)
(***************************************************************************)
EXTENDS Naturals, Sequences, FiniteSets

CONSTANTS NBackups,      \* backups of the group
          Groups,        \* groups to start: each backup's virDomain object and domain,
                         \* and the configured number of threads
          CPUs,          \* the number of threads when 0 is configured
          MaxInterrupts, \* bound: Ctrl-C pressed
          MaxFails       \* bound: backups that fail

Backups == 1..NBackups   \* in the order of BackupGroup.backups

ASSUME BackupsAssumption == NBackups \in Nat
ASSUME GroupsAssumption == \A g \in Groups :
  DOMAIN g.obj = Backups /\ DOMAIN g.dom = Backups /\ g.threads \in Nat
ASSUME ThreadsAssumption == CPUs \in Nat \ {0}
ASSUME BoundsAssumption == MaxInterrupts \in Nat /\ MaxFails \in Nat

VARIABLES
  pc,         \* the main thread
  seen,       \* keys of backups_by_domain already visited
  futures,    \* backups submitted, in order
  pos,        \* position of the loops of the except clause
  exc,        \* the exception on its way to the except clause
  errors,     \* keys of error_backups
  registrer,  \* are the libvirt events still received
  interrupts,
  run,        \* each backup: its future, then its steps
  flag,       \* each backup's _cancel_flag
  chain,      \* each domain's snapshots above its disks, named by backup
  fails,
  lost,       \* history: backups whose cancellation start() erased
  cut,        \* history: backups whose snapshot or cleaning Ctrl-C has broken off
  group       \* the group that is started

main == <<pc, seen, futures, pos, exc, errors, registrer, interrupts>>
workers == <<run, flag, chain, fails, lost, cut, group>>
vars == <<main, workers>>

Obj == group.obj  \* BackupGroup.backups: their dom attributes ...
Dom == group.dom  \* ... and the UUIDs of these
Objs == {Obj[b] : b \in Backups}
Doms == {Dom[b] : b \in Backups}
Threads == IF group.threads = 0 THEN CPUs ELSE group.threads

Running == {"begin", "snapshot", "copy", "merge", "abort"}
Over == {"ok", "failed", "cancelled"}
Ended == {"returned", "failure", "raised", "exited"}

TypeOK ==
  /\ group \in Groups
  /\ pc \in Ended \cup {"submit", "while", "join", "collect", "cancel", "signal", "wait", "sequence"}
  /\ seen \in SUBSET Objs
  /\ futures \in Seq(Backups)
  /\ pos \in Nat
  /\ exc \in {"none", "error", "interrupt"}
  /\ errors \in SUBSET Doms
  /\ registrer \in BOOLEAN
  /\ interrupts \in 0..MaxInterrupts
  /\ run \in [Backups -> Running \cup Over \cup {"none", "queued"}]
  /\ flag \in [Backups -> BOOLEAN]
  /\ chain \in [Doms -> Seq(Backups)]
  /\ fails \in 0..MaxFails
  /\ lost \in SUBSET Backups /\ cut \in SUBSET Backups

Init ==
  /\ group \in Groups
  /\ pc = IF group.threads = 1 THEN "sequence" ELSE "submit"
  /\ seen = {} /\ futures = <<>> /\ pos = 1
  /\ exc = "none" /\ errors = {} /\ registrer = TRUE /\ interrupts = 0
  /\ run = [b \in Backups |-> "none"] /\ flag = [b \in Backups |-> FALSE]
  /\ chain = [m \in Doms |-> <<>>] /\ fails = 0 /\ lost = {} /\ cut = {}

----------------------------------------------------------------------------
(* The main thread *)

AllOver == \A i \in 1..Len(futures) : run[futures[i]] \in Over

\* Mutation: each backup of the group is submitted at once.
SubmitEach ==
  /\ pc = "submit"
  /\ \E b \in Backups :
       /\ run[b] = "none"
       /\ seen' = seen \cup {Obj[b]} /\ futures' = Append(futures, b)
       /\ run' = [run EXCEPT ![b] = "queued"]
  /\ UNCHANGED <<pc, pos, exc, errors, registrer, interrupts, flag, chain, fails, lost, cut, group>>

\* For each list of backups_by_domain, in the order its key was first met, the
\* last backup of the list is submitted.
Submit ==
  /\ pc = "submit"
  /\ \E first, b \in Backups :
       /\ Obj[first] \notin seen
       /\ \A c \in Backups : Obj[c] \notin seen => first <= c
       /\ Obj[b] = Obj[first]
       /\ \A c \in Backups : Obj[c] = Obj[b] => c <= b
       /\ seen' = seen \cup {Obj[b]}
       /\ futures' = Append(futures, b)
       /\ run' = [run EXCEPT ![b] = "queued"]
  /\ UNCHANGED <<pc, pos, exc, errors, registrer, interrupts, flag, chain, fails, lost, cut, group>>

Submitted ==
  /\ pc = "submit" /\ seen = Objs /\ pc' = "while"
  /\ UNCHANGED <<seen, futures, pos, exc, errors, registrer, interrupts, workers>>

\* while len(futures) < len(self.backups): done, or the first future that ends
\* leads to completed_doms.pop().dom, which raises: IndexError when the future's
\* callback has not run yet, else AttributeError, a virDomain having no dom.
While ==
  /\ pc = "while" /\ pc' = "join"
  /\ \/ Len(futures) = NBackups /\ UNCHANGED exc
     \/ /\ Len(futures) < NBackups
        /\ \E i \in 1..Len(futures) : run[futures[i]] \in Over
        /\ exc' = "error"
  /\ UNCHANGED <<seen, futures, pos, errors, registrer, interrupts, workers>>

\* Mutation: the executor is left without waiting.
JoinNoWait ==
  /\ pc = "join"
  /\ pc' = IF exc = "none" THEN "collect" ELSE "cancel"
  /\ UNCHANGED <<seen, futures, pos, exc, errors, registrer, interrupts, workers>>

\* Mutation: it waits for every backup of the group.
JoinGroup ==
  /\ pc = "join" /\ \A b \in Backups : run[b] \in Over
  /\ pc' = IF exc = "none" THEN "collect" ELSE "cancel"
  /\ UNCHANGED <<seen, futures, pos, exc, errors, registrer, interrupts, workers>>

\* Leaving the with block waits for every future submitted.
Join ==
  /\ pc = "join" /\ AllOver
  /\ pc' = IF exc = "none" THEN "collect" ELSE "cancel"
  /\ UNCHANGED <<seen, futures, pos, exc, errors, registrer, interrupts, workers>>

\* Mutation: errors are kept by backup.
CollectByBackup ==
  /\ pc = "collect"
  /\ errors' = {c \in Backups : run[c] = "failed"}
  /\ pc' = IF errors' = {} THEN "returned" ELSE "failure"
  /\ UNCHANGED <<seen, futures, pos, exc, registrer, interrupts, workers>>

\* Mutation: only the result of the last future is looked at.
CollectLast ==
  /\ pc = "collect"
  /\ errors' = {Dom[b] : b \in {c \in Backups : run[c] = "failed" /\ c = futures[Len(futures)]}}
  /\ pc' = IF errors' = {} THEN "returned" ELSE "failure"
  /\ UNCHANGED <<seen, futures, pos, exc, registrer, interrupts, workers>>

\* error_backups has one entry per domain name.
Collect ==
  /\ pc = "collect"
  /\ errors' = {Dom[b] : b \in {c \in Backups : run[c] = "failed"}}
  /\ pc' = IF errors' = {} THEN "returned" ELSE "failure"
  /\ UNCHANGED <<seen, futures, pos, exc, registrer, interrupts, workers>>

\* First loop of the except clause: f.cancel() on a future that has not begun.
CancelFuture ==
  /\ pc = "cancel"
  /\ IF pos <= Len(futures)
     THEN /\ run' = IF run[futures[pos]] = "queued"
                    THEN [run EXCEPT ![futures[pos]] = "cancelled"] ELSE run
          /\ pos' = pos + 1 /\ UNCHANGED pc
     ELSE pc' = "signal" /\ pos' = 1 /\ UNCHANGED run
  /\ UNCHANGED <<seen, futures, exc, errors, registrer, interrupts, flag, chain, fails, lost, cut, group>>

\* Mutation: running futures are cancelled as futures, which does nothing.
SignalFuture ==
  /\ pc = "signal" /\ pc' = "wait"
  /\ UNCHANGED <<seen, futures, pos, exc, errors, registrer, interrupts, workers>>

\* Second loop: DomBackup.cancel() on those that run.
SignalBackup ==
  /\ pc = "signal"
  /\ IF pos <= Len(futures)
     THEN /\ flag' = IF run[futures[pos]] \in Running
                     THEN [flag EXCEPT ![futures[pos]] = TRUE] ELSE flag
          /\ pos' = pos + 1 /\ UNCHANGED pc
     ELSE pc' = "wait" /\ UNCHANGED <<pos, flag>>
  /\ UNCHANGED <<seen, futures, exc, errors, registrer, interrupts, run, chain, fails, lost, cut, group>>

Wait ==
  /\ pc = "wait" /\ AllOver /\ pc' = "raised"
  /\ UNCHANGED <<seen, futures, pos, exc, errors, registrer, interrupts, workers>>

\* start_backups leaves `with callbacks_registrer` and the main thread ends; the
\* interpreter still waits for the threads of the executor.
Exit ==
  /\ pc \in {"returned", "failure", "raised"} /\ pc' = "exited"
  /\ registrer' = FALSE
  /\ UNCHANGED <<seen, futures, pos, exc, errors, interrupts, workers>>

\* Ctrl-C: in the with block it waits for the futures like any exception, at its
\* end or after it goes to the except clause, in that clause it leaves it.
Interrupt ==
  /\ pc \notin Ended \cup {"sequence"} /\ interrupts < MaxInterrupts
  /\ interrupts' = interrupts + 1 /\ exc' = "interrupt"
  /\ pc' = CASE pc \in {"submit", "while"} -> "join"
             [] pc \in {"join", "collect"} -> "cancel"
             [] OTHER -> "raised"
  /\ UNCHANGED <<seen, futures, pos, errors, registrer, workers>>

----------------------------------------------------------------------------
(* start(): the backups one after the other in the main thread *)

\* The state of the backup whose turn it is.
Turn == IF pos <= NBackups THEN run[pos] ELSE "none"

SequenceStep == UNCHANGED <<seen, futures, registrer, interrupts, flag, chain, fails, lost, cut, group>>

StartNext ==
  /\ pc = "sequence" /\ pos <= NBackups /\ run[pos] = "none"
  /\ run' = [run EXCEPT ![pos] = "begin"]
  /\ UNCHANGED <<pc, pos, exc, errors>> /\ SequenceStep

\* Mutation: the error of one backup hides those before it.
BackupEndsAlone ==
  /\ pc = "sequence" /\ Turn \in Over
  /\ IF exc = "interrupt" THEN pc' = "raised" /\ UNCHANGED <<pos, errors>>
     ELSE /\ errors' = IF run[pos] = "failed" THEN {Dom[pos]} ELSE errors
          /\ pos' = pos + 1 /\ UNCHANGED pc
  /\ UNCHANGED <<run, exc>> /\ SequenceStep

\* An exception of a backup is kept for later, KeyboardInterrupt is not.
BackupEnds ==
  /\ pc = "sequence" /\ Turn \in Over
  /\ IF exc = "interrupt" THEN pc' = "raised" /\ UNCHANGED <<pos, errors>>
     ELSE /\ errors' = IF run[pos] = "failed" THEN errors \cup {Dom[pos]} ELSE errors
          /\ pos' = pos + 1 /\ UNCHANGED pc
  /\ UNCHANGED <<run, exc>> /\ SequenceStep

SequenceEnds ==
  /\ pc = "sequence" /\ pos > NBackups
  /\ pc' = IF errors = {} THEN "returned" ELSE "failure"
  /\ UNCHANGED <<run, pos, exc, errors>> /\ SequenceStep

\* Ctrl-C reaches the backup that runs.  It cleans what it has done, unless it was
\* cleaning already.  During the snapshot the cleaning raises SnapshotNotStarted,
\* which takes the place of KeyboardInterrupt: the next backup is started.
InterruptSequence ==
  /\ pc = "sequence" /\ interrupts < MaxInterrupts /\ interrupts' = interrupts + 1
  /\ \/ /\ Turn \in Over \cup {"none"}
        /\ pc' = "raised" /\ UNCHANGED <<exc, run, chain, cut>>
     \/ /\ Turn \in {"copy", "merge"}
        /\ run' = [run EXCEPT ![pos] = "abort"] /\ exc' = "interrupt"
        /\ UNCHANGED <<pc, chain, cut>>
     \/ /\ Turn \in {"begin", "snapshot", "abort"}
        /\ run' = [run EXCEPT ![pos] = "failed"]
        /\ \/ pc' = "raised" /\ exc' = "interrupt"
           \/ Turn = "snapshot" /\ UNCHANGED <<pc, exc>>
        /\ cut' = IF Turn = "begin" THEN cut ELSE cut \cup {pos}
        /\ \/ Turn = "snapshot" /\ chain' = [chain EXCEPT ![Dom[pos]] = Append(@, pos)]
           \/ UNCHANGED chain
  /\ UNCHANGED <<seen, futures, pos, errors, registrer, flag, fails, lost, group>>

Main == \/ StartNext \/ BackupEnds \/ SequenceEnds
        \/ Submit \/ Submitted \/ While \/ Join \/ Collect
        \/ CancelFuture \/ SignalBackup \/ Wait \/ Exit

----------------------------------------------------------------------------
(* The executor and the backups *)

\* A free thread takes the oldest future that has not been cancelled.
Pick(b) ==
  /\ run[b] = "queued" /\ Cardinality({c \in Backups : run[c] \in Running}) < Threads
  /\ \E i \in 1..Len(futures) :
       /\ futures[i] = b
       /\ \A j \in 1..Len(futures) : run[futures[j]] = "queued" => i <= j
  /\ run' = [run EXCEPT ![b] = "begin"]
  /\ UNCHANGED <<main, flag, chain, fails, lost, cut, group>>

\* DomBackup.start() clears the cancel flag.
Begin(b) ==
  /\ run[b] = "begin" /\ run' = [run EXCEPT ![b] = "snapshot"]
  /\ flag' = [flag EXCEPT ![b] = FALSE]
  /\ lost' = IF flag[b] THEN lost \cup {b} ELSE lost
  /\ UNCHANGED <<main, chain, fails, cut, group>>

Snapshot(b) ==
  /\ run[b] = "snapshot" /\ run' = [run EXCEPT ![b] = "copy"]
  /\ chain' = [chain EXCEPT ![Dom[b]] = Append(@, b)]
  /\ UNCHANGED <<main, flag, fails, lost, cut, group>>

SnapshotFails(b) ==
  /\ run[b] = "snapshot" /\ run' = [run EXCEPT ![b] = "failed"]
  /\ fails < MaxFails /\ fails' = fails + 1
  /\ UNCHANGED <<main, flag, chain, lost, cut, group>>

Copied(b) ==
  /\ run[b] = "copy" /\ run' = [run EXCEPT ![b] = "merge"]
  /\ UNCHANGED <<main, flag, chain, fails, lost, cut, group>>

\* The copy fails or is cancelled: clean_aborted().
CopyStops(b) ==
  /\ run[b] = "copy" /\ run' = [run EXCEPT ![b] = "abort"]
  /\ \/ flag[b] /\ UNCHANGED fails
     \/ fails < MaxFails /\ fails' = fails + 1
  /\ UNCHANGED <<main, flag, chain, lost, cut, group>>

\* Mutation: a backup that fails leaves its snapshot.
MergeIfCopied(b) ==
  /\ run[b] \in {"merge", "abort"}
  /\ IF run[b] = "merge" /\ chain[Dom[b]][Len(chain[Dom[b]])] = b
     THEN /\ registrer
          /\ chain' = [chain EXCEPT ![Dom[b]] = SubSeq(@, 1, Len(@) - 1)]
     ELSE UNCHANGED chain
  /\ run' = [run EXCEPT ![b] = IF @ = "merge" THEN "ok" ELSE "failed"]
  /\ UNCHANGED <<main, flag, fails, lost, cut, group>>

\* The snapshot is merged if the domain runs on it, left otherwise.  The pivot
\* of a running domain needs its READY event.
Merge(b) ==
  /\ run[b] \in {"merge", "abort"}
  /\ IF chain[Dom[b]][Len(chain[Dom[b]])] = b
     THEN /\ registrer
          /\ chain' = [chain EXCEPT ![Dom[b]] = SubSeq(@, 1, Len(@) - 1)]
     ELSE UNCHANGED chain
  /\ run' = [run EXCEPT ![b] = IF @ = "merge" THEN "ok" ELSE "failed"]
  /\ UNCHANGED <<main, flag, fails, lost, cut, group>>

Worker(b) == Begin(b) \/ Snapshot(b) \/ SnapshotFails(b) \/ Copied(b) \/ CopyStops(b) \/ Merge(b)

Next == Main \/ Interrupt \/ InterruptSequence \/ \E b \in Backups : Pick(b) \/ Worker(b)

Spec == Init /\ [][Next]_vars

\* Threads are scheduled fairly, and what a backup does ends.
FairSpec == Spec /\ WF_vars(Main) /\ \A b \in Backups : WF_vars(Pick(b)) /\ WF_vars(Worker(b))

----------------------------------------------------------------------------
(* Properties *)

\* docs/backup.rst: "safety have been done to avoid backuping the same domain in
\* parallel": at most one backup works on a domain.
OneAtATime ==
  \A b, c \in Backups : b # c /\ run[b] \in Running /\ run[c] \in Running => Dom[b] # Dom[c]

\* Nothing is left to do.
NoneRuns == \A b \in Backups : run[b] \in Over \cup {"none"}

\* When every backup that was started is over, each domain is back on its own
\* disks, but for the snapshots of backups that Ctrl-C kept from cleaning.
DomainsBackOnDisks ==
  NoneRuns => \A m \in Doms : \A i \in DOMAIN chain[m] : \E c \in cut : Dom[c] = m

\* The group comes back, and with it the event registrer is closed, only when no
\* backup is running or can still begin, unless Ctrl-C was pressed again in the
\* except clause.
NoneAbandoned == pc \in Ended /\ (interrupts < 2 \/ group.threads = 1) => NoneRuns

\* It returns normally only if every backup of the group has succeeded and Ctrl-C
\* was not pressed, and the exception it raises otherwise names every domain with
\* a failed backup.
FailuresReported ==
  /\ pc = "returned" => interrupts = 0 /\ \A b \in Backups : run[b] = "ok"
  /\ pc = "failure" => /\ errors # {}
                       /\ \A b \in Backups : run[b] = "failed" => Dom[b] \in errors

\* After the two loops of the except clause no backup goes on unaware: each one
\* has ended, will see its flag, or began only after it was signalled.
SignalledAll ==
  pc = "wait" => \A b \in Backups :
    run[b] \in Over \cup {"none"} \/ flag[b] \/ b \in lost

\* Main thread and backups all end, unless Ctrl-C is pressed a second
\* time while threads run.
GroupEnds == <>((pc = "exited" /\ NoneRuns) \/ (interrupts > 1 /\ group.threads # 1))
=============================================================================
