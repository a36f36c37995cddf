---------------------------- MODULE ExtSnapshot ----------------------------
(***************************************************************************)
(* DomExtSnapshot.clean() (backups/snapshot.py) at the grain of its        *)
(* threads: the thread that takes the backup and waits for each pivot, and *)
(* the libvirt event loop, which runs the pivot callback.  Around them, as *)
(* the code uses them and not modelled from src/: libvirt, QEMU's block    *)
(* jobs, and a domain that people start and stop.                          *)
(*                                                                         *)
(* The module begins where start() returns: every disk of the domain runs  *)
(* on the snapshot and metadatas holds every disk.  The process may die at *)
(* any moment; a clean command then starts again from the pending file.    *)
(* Another one may run beside it, which takes the same pending file for    *)
(* that of a broken backup.                                                *)
(***************************************************************************)
EXTENDS Naturals

CONSTANTS NDisks,      \* disks of the snapshot
          HasTimeout,  \* is DomExtSnapshot.timeout set
          MaxCleans,   \* bound: calls of clean() (start() then clean_aborted())
          MaxOthers,   \* bound: starts and stops of the domain, clean commands beside this one
          MaxFaults    \* bound: block jobs and system calls that fail, deaths of the process

ASSUME DisksAssumption == NDisks \in Nat \ {0}
ASSUME TimeoutAssumption == HasTimeout \in BOOLEAN
ASSUME BoundsAssumption == MaxCleans \in Nat \ {0} /\ MaxOthers \in Nat /\ MaxFaults \in Nat

Disks == 1..NDisks

VARIABLES
  active,    \* is the domain running
  live,      \* the file the running domain uses for each disk
  conf,      \* the file its persistent XML names
  exists,    \* disks whose snapshot file exists
  dirty,     \* disks whose snapshot holds data its base does not
  job,       \* block commit of each disk
  ready,     \* READY events not dispatched yet
  pc, disk,  \* the cleaning thread and the disk it has come to
  metas,     \* keys of metadatas["disks"]
  callbacks, \* keys of the registrer's callbacks
  slot,      \* _wait_for_pivot: the Event object stored for each disk
  held,      \* the Event object the cleaning thread waits on
  signalled, \* the Event objects that are set
  lpc, ldisk, lheld, \* the event loop: what it does, for which disk, its Event
  rival, rdisk, rloop, \* the clean command of another process: its two threads
  cleans, others, faults,
  recovering, \* is it a clean command that cleans, since the backup's process has ended
  timedOut,  \* history: disks whose wait timed out
  startedUnder, \* history: disks committed by qemu-img under a domain that started
  orphan     \* history: disks whose block job is not of the process that cleans

domain == <<active, live, conf, dirty, job, others>>
events == <<slot, signalled>>
main == <<pc, disk, metas, held, cleans>>
evloop == <<lpc, ldisk, lheld>>
other == <<rival, rdisk, rloop>>
history == <<timedOut, startedUnder, recovering, orphan>>
vars == <<domain, exists, ready, events, main, callbacks, evloop, other, faults, history>>

TypeOK ==
  /\ active \in BOOLEAN
  /\ live \in [Disks -> {"snap", "base"}] /\ conf \in [Disks -> {"snap", "base"}]
  /\ exists \in SUBSET Disks /\ dirty \in SUBSET Disks
  /\ job \in [Disks -> {"none", "running", "ready"}]
  /\ ready \in SUBSET Disks
  /\ pc \in {"check", "isActive", "register", "commit", "lookup", "store", "wait",
             "pop", "qemuImg", "reconfigure", "unlink", "forget", "done", "raised", "dead"}
  /\ disk \in 1..(NDisks + 1)
  /\ metas \in SUBSET Disks /\ callbacks \in SUBSET Disks
  /\ slot \in [Disks -> {"none", "main", "loop"}]
  /\ held \in {"none", "main", "loop"}
  /\ signalled \in [Disks -> SUBSET {"main", "loop"}]
  /\ lpc \in {"idle", "pivot", "remove", "lookup", "store", "set"}
  /\ ldisk \in Disks /\ lheld \in {"none", "main", "loop"}
  /\ rival \in {"none", "check", "isActive", "commit", "wait", "qemuImg", "reconfigure",
               "unlink", "raised"}
  /\ rdisk \in Disks /\ rloop \in {"idle", "pivot", "remove"}
  /\ cleans \in 0..MaxCleans /\ others \in 0..MaxOthers /\ faults \in 0..MaxFaults
  /\ recovering \in BOOLEAN
  /\ timedOut \in SUBSET Disks /\ startedUnder \in SUBSET Disks
  /\ orphan \subseteq {d \in Disks : job[d] # "none"}

Init ==
  /\ active \in BOOLEAN
  /\ live = [d \in Disks |-> "snap"] /\ conf = [d \in Disks |-> "snap"]
  /\ exists = Disks /\ dirty = Disks
  /\ job = [d \in Disks |-> "none"] /\ ready = {}
  /\ pc = "check" /\ disk = 1 /\ metas = Disks /\ callbacks = {}
  /\ slot = [d \in Disks |-> "none"] /\ held = "none"
  /\ signalled = [d \in Disks |-> {}]
  /\ lpc = "idle" /\ ldisk = 1 /\ lheld = "none"
  /\ rival = "none" /\ rdisk = 1 /\ rloop = "idle"
  /\ cleans = 1 /\ others = 0 /\ faults = 0
  /\ timedOut = {} /\ startedUnder = {} /\ recovering = FALSE /\ orphan = {}

\* dom.XMLDesc() describes the running domain, or the configuration.
Current(d) == IF active THEN live[d] ELSE conf[d]

Fault == faults < MaxFaults /\ faults' = faults + 1

----------------------------------------------------------------------------
(* The cleaning thread *)

Goto(p) == pc' = p /\ UNCHANGED <<disk, metas, held, cleans>>

\* Mutation: the exception is logged, and the next disk taken.
RaiseNot ==
  /\ pc' = "check" /\ disk' = disk + 1
  /\ UNCHANGED <<metas, held, cleans, callbacks>>

\* The exception leaves clean(), whose finally drops every callback.
Raise ==
  /\ pc' = "raised" /\ callbacks' = callbacks \ metas
  /\ UNCHANGED <<disk, metas, held, cleans>>

\* clean_for_disk: is the snapshot the top of the disk?
Check ==
  /\ pc = "check" /\ disk \in metas
  /\ IF Current(disk) = "snap"
     THEN Goto("isActive")
     ELSE disk' = disk + 1 /\ UNCHANGED <<pc, metas, held, cleans>>
  /\ UNCHANGED <<domain, exists, ready, events, callbacks, evloop, faults, history, other>>

\* A disk an earlier clean() has finished is not in the list.
NotInList ==
  /\ pc = "check" /\ disk \in Disks \ metas
  /\ disk' = disk + 1 /\ UNCHANGED <<pc, metas, held, cleans>>
  /\ UNCHANGED <<domain, exists, ready, events, callbacks, evloop, faults, history, other>>

IsActive ==
  /\ pc = "isActive" /\ Goto(IF active THEN "register" ELSE "qemuImg")
  /\ UNCHANGED <<domain, exists, ready, events, callbacks, evloop, faults, history, other>>

\* Mutation: the callback is not found under the path of the event.
RegisterElsewhere ==
  /\ pc = "register" /\ Goto("commit")
  /\ UNCHANGED <<domain, exists, ready, events, callbacks, evloop, faults, history, other>>

\* blockcommit_disk registers the callback before it starts the job.
Register ==
  /\ pc = "register" /\ Goto("commit")
  /\ callbacks' = callbacks \cup {disk}
  /\ UNCHANGED <<domain, exists, ready, events, evloop, faults, history, other>>

\* dom.blockCommit: refused for a domain that is off, a disk under a job, or one
\* that is back on its base, which has no backing file.
Commit ==
  /\ pc = "commit"
  /\ \/ /\ active /\ live[disk] = "snap" /\ job[disk] = "none"
        /\ job' = [job EXCEPT ![disk] = "running"]
        /\ Goto("lookup") /\ UNCHANGED <<callbacks, faults>>
     \/ /\ ~(active /\ live[disk] = "snap" /\ job[disk] = "none")
        /\ Raise /\ UNCHANGED <<job, faults>>
     \/ Fault /\ Raise /\ UNCHANGED job
  /\ UNCHANGED <<active, live, conf, dirty, others, exists, ready, events, evloop, history, other>>

\* _wait_for_pivot[snapshot] finds an Event, or calls threading.Event ...
Lookup ==
  /\ pc = "lookup"
  /\ IF slot[disk] = "none" THEN pc' = "store" /\ held' = "main"
                            ELSE pc' = "wait" /\ held' = slot[disk]
  /\ UNCHANGED <<disk, metas, cleans>>
  /\ UNCHANGED <<domain, exists, ready, events, callbacks, evloop, faults, history, other>>

\* ... and stores the new Event, whatever was stored since.
Store ==
  /\ pc = "store" /\ Goto("wait")
  /\ slot' = [slot EXCEPT ![disk] = "main"]
  /\ UNCHANGED <<domain, exists, ready, signalled, callbacks, evloop, faults, history, other>>

\* Event.wait returns, and its result is ignored.
Woken ==
  /\ pc = "wait" /\ held \in signalled[disk] /\ Goto("pop")
  /\ UNCHANGED <<domain, exists, ready, events, callbacks, evloop, faults, history, other>>

\* Mutation: the timeout is not given to the wait.
TimesOutNever ==
  /\ pc = "wait" /\ ~HasTimeout /\ ~recovering /\ held \notin signalled[disk] /\ Goto("pop")
  /\ timedOut' = timedOut \cup {disk}
  /\ UNCHANGED <<domain, exists, ready, events, callbacks, evloop, faults, startedUnder, recovering, orphan, other>>

\* A backup made from a pending file has no timeout.
TimesOut ==
  /\ pc = "wait" /\ HasTimeout /\ ~recovering /\ held \notin signalled[disk] /\ Goto("pop")
  /\ timedOut' = timedOut \cup {disk}
  /\ UNCHANGED <<domain, exists, ready, events, callbacks, evloop, faults, startedUnder, recovering, orphan, other>>

Pop ==
  /\ pc = "pop" /\ Goto("forget")
  /\ slot' = [slot EXCEPT ![disk] = "none"]
  /\ UNCHANGED <<domain, exists, ready, signalled, callbacks, evloop, faults, history, other>>

\* Mutation: the exit status of qemu-img is ignored.
QemuImgCommitUnchecked ==
  /\ pc = "qemuImg" /\ Goto("reconfigure")
  /\ \/ ~active /\ disk \in exists /\ dirty' = dirty \ {disk} /\ UNCHANGED faults
     \/ Fault /\ UNCHANGED dirty
  /\ UNCHANGED <<active, live, conf, job, others, exists, ready, events,
                 callbacks, evloop, history, other>>

\* qemu-img commit: the image locks of a running domain make it fail.
QemuImgCommit ==
  /\ pc = "qemuImg"
  /\ \/ /\ ~active /\ disk \in exists
        /\ dirty' = dirty \ {disk}
        /\ Goto("reconfigure") /\ UNCHANGED <<callbacks, faults>>
     \/ /\ active \/ disk \notin exists
        /\ Raise /\ UNCHANGED <<dirty, faults>>
     \/ Fault /\ Raise /\ UNCHANGED dirty
  /\ UNCHANGED <<active, live, conf, job, others, exists, ready, events, evloop, history, other>>

\* _manually_pivot_disk changes the persistent configuration only.
Reconfigure ==
  /\ pc = "reconfigure"
  /\ \/ /\ conf' = [conf EXCEPT ![disk] = "base"]
        /\ Goto("unlink") /\ UNCHANGED <<callbacks, faults>>
     \/ Fault /\ Raise /\ UNCHANGED conf
  /\ UNCHANGED <<active, live, dirty, job, others, exists, ready, events, evloop, history, other>>

Unlink ==
  /\ pc = "unlink"
  /\ \/ /\ disk \in exists /\ exists' = exists \ {disk}
        /\ Goto("forget") /\ UNCHANGED <<callbacks, faults>>
     \/ /\ disk \notin exists
        /\ Raise /\ UNCHANGED <<exists, faults>>
     \/ Fault /\ Raise /\ UNCHANGED exists
  /\ UNCHANGED <<domain, ready, events, evloop, history, other>>

\* Mutation: a disk is skipped.
ForgetTwo ==
  /\ pc = "forget" /\ pc' = "check"
  /\ metas' = metas \ {disk} /\ callbacks' = callbacks \ {disk}
  /\ disk' = disk + 2 /\ held' = "none" /\ UNCHANGED cleans
  /\ UNCHANGED <<domain, exists, ready, events, evloop, faults, history, other>>

\* The disk leaves metadatas and the registrer; clean() takes the next one.
Forget ==
  /\ pc = "forget" /\ pc' = "check"
  /\ metas' = metas \ {disk} /\ callbacks' = callbacks \ {disk}
  /\ disk' = disk + 1 /\ held' = "none" /\ UNCHANGED cleans
  /\ UNCHANGED <<domain, exists, ready, events, evloop, faults, history, other>>

CleanReturns ==
  /\ pc = "check" /\ disk > NDisks /\ Goto("done")
  /\ callbacks' = {}
  /\ UNCHANGED <<domain, exists, ready, events, evloop, faults, history, other>>

\* DomBackup.start() met the exception: clean_aborted() calls clean() again.
CleanAgain ==
  /\ pc = "raised" /\ ~recovering /\ cleans < MaxCleans
  /\ pc' = "check" /\ disk' = 1 /\ held' = "none" /\ cleans' = cleans + 1
  /\ UNCHANGED <<domain, exists, ready, events, metas, callbacks, evloop, faults, history, other>>

Main ==
  \/ Check \/ NotInList \/ IsActive \/ Register \/ Commit \/ Lookup \/ Store \/ Woken
  \/ TimesOut \/ Pop \/ QemuImgCommit \/ Reconfigure \/ Unlink \/ Forget
  \/ CleanReturns \/ CleanAgain

----------------------------------------------------------------------------
(* The libvirt event loop: event_callback, then _pivot_callback *)

LoopGoto(p) == lpc' = p /\ UNCHANGED <<ldisk, lheld>>
LoopReturns == lpc' = "idle" /\ ldisk' = 1 /\ lheld' = "none"

\* Mutation: the snapshot is removed before the pivot.
EventCallbackRemoves ==
  /\ lpc = "idle"
  /\ \E d \in ready :
       /\ ready' = ready \ {d}
       /\ IF d \in callbacks
          THEN lpc' = "remove" /\ ldisk' = d /\ UNCHANGED lheld
          ELSE UNCHANGED evloop
  /\ UNCHANGED <<domain, exists, events, main, callbacks, faults, history, other>>

\* A READY event finds its callback, or is logged and lost.
EventCallback ==
  /\ lpc = "idle"
  /\ \E d \in ready :
       /\ ready' = ready \ {d}
       /\ IF d \in callbacks
          THEN lpc' = "pivot" /\ ldisk' = d /\ UNCHANGED lheld
          ELSE UNCHANGED evloop
  /\ UNCHANGED <<domain, exists, events, main, callbacks, faults, history, other>>

\* blockJobAbort with PIVOT; an exception in a callback ends the callback.
LoopPivot ==
  /\ lpc = "pivot"
  /\ \/ /\ active /\ job[ldisk] = "ready"
        /\ live' = [live EXCEPT ![ldisk] = "base"]
        /\ conf' = [conf EXCEPT ![ldisk] = "base"]
        /\ job' = [job EXCEPT ![ldisk] = "none"]
        /\ dirty' = dirty \ {ldisk} /\ orphan' = orphan \ {ldisk}
        /\ LoopGoto("remove") /\ UNCHANGED faults
     \/ /\ ~active \/ job[ldisk] # "ready"
        /\ LoopReturns /\ UNCHANGED <<live, conf, job, dirty, orphan, faults>>
     \/ Fault /\ LoopReturns /\ UNCHANGED <<live, conf, job, dirty, orphan>>
  /\ UNCHANGED <<active, others, exists, ready, events, main, callbacks,
                 timedOut, startedUnder, recovering, other>>

\* Mutation: the snapshot is not removed.
LoopRemoveNot ==
  /\ lpc = "remove" /\ LoopGoto("lookup")
  /\ UNCHANGED <<domain, exists, ready, events, main, callbacks, faults, history, other>>

LoopRemove ==
  /\ lpc = "remove"
  /\ \/ /\ ldisk \in exists /\ exists' = exists \ {ldisk}
        /\ LoopGoto("lookup") /\ UNCHANGED faults
     \/ ldisk \notin exists /\ LoopReturns /\ UNCHANGED <<exists, faults>>
     \/ Fault /\ LoopReturns /\ UNCHANGED exists
  /\ UNCHANGED <<domain, ready, events, main, callbacks, history, other>>

LoopLookup ==
  /\ lpc = "lookup" /\ UNCHANGED ldisk
  /\ IF slot[ldisk] = "none" THEN lpc' = "store" /\ lheld' = "loop"
                             ELSE lpc' = "set" /\ lheld' = slot[ldisk]
  /\ UNCHANGED <<domain, exists, ready, events, main, callbacks, faults, history, other>>

LoopStore ==
  /\ lpc = "store" /\ LoopGoto("set")
  /\ slot' = [slot EXCEPT ![ldisk] = "loop"]
  /\ UNCHANGED <<domain, exists, ready, signalled, main, callbacks, faults, history, other>>

LoopSet ==
  /\ lpc = "set" /\ LoopReturns
  /\ signalled' = [signalled EXCEPT ![ldisk] = @ \cup {lheld}]
  /\ UNCHANGED <<domain, exists, ready, slot, main, callbacks, faults, history, other>>

Loop == EventCallback \/ LoopPivot \/ LoopRemove \/ LoopLookup \/ LoopStore \/ LoopSet

----------------------------------------------------------------------------
(* libvirt and the people who use the domain *)

\* The READY event of a job goes to every process that is there.
JobReady ==
  /\ \E d \in Disks :
       /\ job[d] = "running"
       /\ job' = [job EXCEPT ![d] = "ready"]
       /\ ready' = IF pc = "dead" THEN ready ELSE ready \cup {d}
       /\ rloop' = IF rival \in {"commit", "wait"} /\ rdisk = d THEN "pivot" ELSE rloop
  /\ UNCHANGED <<active, live, conf, dirty, others, exists, events, main,
                 callbacks, evloop, faults, history, rival, rdisk>>

\* The FAILED event of the job is only logged.
JobFails ==
  /\ Fault
  /\ \E d \in Disks : /\ job[d] = "running" /\ job' = [job EXCEPT ![d] = "none"]
                     /\ orphan' = orphan \ {d}
  /\ UNCHANGED <<active, live, conf, dirty, others, exists, ready, events, main,
                 callbacks, evloop, timedOut, startedUnder, recovering, other>>

GuestWrites ==
  /\ active
  /\ \E d \in Disks \ dirty : live[d] = "snap" /\ dirty' = dirty \cup {d}
  /\ UNCHANGED <<active, live, conf, job, others, exists, ready, events, main,
                 callbacks, evloop, faults, history, other>>

DomainStops ==
  /\ active /\ others < MaxOthers /\ others' = others + 1
  /\ active' = FALSE /\ live' = conf
  /\ job' = [d \in Disks |-> "none"] /\ orphan' = {}
  /\ UNCHANGED <<conf, dirty, exists, ready, events, main, callbacks, evloop,
                 faults, timedOut, startedUnder, recovering, other>>

DomainStarts ==
  /\ ~active /\ others < MaxOthers /\ others' = others + 1
  /\ active' = TRUE /\ live' = conf
  /\ startedUnder' = startedUnder \cup {d \in Disks :
                       (pc = "reconfigure" /\ disk = d) \/ (rival = "reconfigure" /\ rdisk = d)}
  /\ UNCHANGED <<conf, dirty, job, exists, ready, events, main, callbacks, evloop,
                 faults, timedOut, recovering, orphan, other>>

----------------------------------------------------------------------------
(* The process ends, and a clean command begins *)

\* What a process takes with it.
Forgets ==
  /\ cleans' = 1 /\ timedOut' = {}
  /\ callbacks' = {} /\ ready' = {} /\ held' = "none"
  /\ slot' = [d \in Disks |-> "none"] /\ signalled' = [d \in Disks |-> {}]
  /\ lpc' = "idle" /\ ldisk' = 1 /\ lheld' = "none"

\* The pending file is left, with all the disks in it.
ProcessDies ==
  /\ pc \notin {"done", "dead"} /\ Fault
  /\ pc' = "dead" /\ disk' = 1 /\ metas' = Disks /\ Forgets
  /\ orphan' = {d \in Disks : job[d] # "none"}
  /\ UNCHANGED <<domain, exists, startedUnder, recovering, other>>

\* Mutation: the snapshot helper gets the first disk only.
CleanCommandFirst ==
  /\ pc = "dead" \/ (pc = "raised" /\ (recovering \/ cleans = MaxCleans))
  /\ pc' = "check" /\ disk' = 1 /\ metas' = {1} /\ recovering' = TRUE
  /\ Forgets
  /\ orphan' = {d \in Disks : job[d] # "none"}
  /\ UNCHANGED <<domain, exists, faults, startedUnder, other>>

\* clean_aborted() of the backup made from the pending file, which still has all
\* the disks.
CleanCommand ==
  /\ pc = "dead" \/ (pc = "raised" /\ (recovering \/ cleans = MaxCleans))
  /\ pc' = "check" /\ disk' = 1 /\ metas' = Disks /\ recovering' = TRUE
  /\ Forgets
  /\ orphan' = {d \in Disks : job[d] # "none"}
  /\ UNCHANGED <<domain, exists, faults, startedUnder, other>>

----------------------------------------------------------------------------
(* A clean command in another process, which has found the pending file of   *)
(* the backup that cleans here and cleans the same disks.  It has callbacks  *)
(* and an event loop of its own, and ends whenever it raises or is killed.   *)

Ours == UNCHANGED <<ready, events, main, callbacks, evloop,
                    timedOut, startedUnder, recovering>>

RivalComes ==
  /\ rival = "none" /\ pc # "done" /\ others < MaxOthers /\ others' = others + 1
  /\ rival' = "check" /\ rdisk' = 1 /\ rloop' = "idle"
  /\ UNCHANGED <<active, live, conf, dirty, job, exists, orphan, faults>> /\ Ours

\* It goes on with the next disk.
RivalProceeds ==
  /\ rloop' = "idle"
  /\ IF rdisk < NDisks THEN rival' = "check" /\ rdisk' = rdisk + 1
                       ELSE rival' = "none" /\ rdisk' = 1

\* Two reads of the domain, and then block commit, for which it registers its
\* callback, or manual commit.
RivalLooks ==
  /\ \/ rival = "check" /\ Current(rdisk) # "snap" /\ RivalProceeds
     \/ /\ UNCHANGED <<rdisk, rloop>>
        /\ \/ rival = "check" /\ Current(rdisk) = "snap" /\ rival' = "isActive"
           \/ rival = "isActive" /\ rival' = IF active THEN "commit" ELSE "qemuImg"
  /\ UNCHANGED <<active, live, conf, dirty, job, exists, orphan, others, faults>> /\ Ours

RivalCommits ==
  /\ rival = "commit" /\ UNCHANGED <<rdisk, rloop>>
  /\ IF active /\ live[rdisk] = "snap" /\ job[rdisk] = "none"
     THEN /\ job' = [job EXCEPT ![rdisk] = "running"]
          /\ orphan' = orphan \cup {rdisk} /\ rival' = "wait"
     ELSE rival' = "raised" /\ UNCHANGED <<job, orphan>>
  /\ UNCHANGED <<active, live, conf, dirty, exists, others, faults>> /\ Ours

\* Its event loop: an exception there leaves the main thread in its wait.
RivalPivots ==
  /\ rloop = "pivot"
  /\ IF active /\ job[rdisk] = "ready"
     THEN /\ live' = [live EXCEPT ![rdisk] = "base"] /\ conf' = [conf EXCEPT ![rdisk] = "base"]
          /\ job' = [job EXCEPT ![rdisk] = "none"]
          /\ dirty' = dirty \ {rdisk} /\ orphan' = orphan \ {rdisk}
          /\ rloop' = "remove"
     ELSE rloop' = "idle" /\ UNCHANGED <<live, conf, job, dirty, orphan>>
  /\ UNCHANGED <<active, exists, rival, rdisk, others, faults>> /\ Ours

RivalRemoves ==
  /\ rloop = "remove" /\ exists' = exists \ {rdisk}
  /\ IF rdisk \in exists /\ rival = "wait" THEN RivalProceeds
     ELSE rloop' = "idle" /\ UNCHANGED <<rival, rdisk>>
  /\ UNCHANGED <<active, live, conf, dirty, job, orphan, others, faults>> /\ Ours

RivalCommitsByHand ==
  /\ UNCHANGED <<active, live, job, orphan, others, faults>> /\ Ours
  /\ \/ /\ rival = "qemuImg" /\ UNCHANGED <<conf, exists, rdisk, rloop>>
        /\ IF ~active /\ rdisk \in exists
           THEN dirty' = dirty \ {rdisk} /\ rival' = "reconfigure"
           ELSE rival' = "raised" /\ UNCHANGED dirty
     \/ /\ rival = "reconfigure" /\ rival' = "unlink"
        /\ conf' = [conf EXCEPT ![rdisk] = "base"]
        /\ UNCHANGED <<dirty, exists, rdisk, rloop>>
     \/ /\ rival = "unlink" /\ UNCHANGED <<dirty, conf>>
        /\ exists' = exists \ {rdisk}
        /\ IF rdisk \in exists THEN RivalProceeds
           ELSE rival' = "raised" /\ UNCHANGED <<rdisk, rloop>>

RivalEnds ==
  /\ rival # "none" /\ rival' = "none" /\ rdisk' = 1 /\ rloop' = "idle"
  /\ UNCHANGED <<active, live, conf, dirty, job, exists, orphan, others, faults>> /\ Ours

Rival ==
  \/ RivalComes \/ RivalLooks \/ RivalCommits \/ RivalPivots \/ RivalRemoves
  \/ RivalCommitsByHand \/ RivalEnds

----------------------------------------------------------------------------
Next ==
  \/ Main \/ Loop \/ ProcessDies \/ CleanCommand \/ Rival
  \/ JobReady \/ JobFails \/ GuestWrites \/ DomainStops \/ DomainStarts

Spec == Init /\ [][Next]_vars

\* Both threads keep running, a block job that does not fail becomes ready, and
\* the clean command is run again as long as there is a pending file.
FairSpec ==
  Spec /\ WF_vars(Main) /\ WF_vars(Loop) /\ WF_vars(JobReady) /\ WF_vars(CleanCommand)

----------------------------------------------------------------------------
(* Properties *)

\* No disk is left on a snapshot file that is gone, in the configuration or
\* under the running domain, whichever thread and process removed it: but for a domain that
\* was started between qemu-img commit and the change of its configuration.
InUseExists ==
  \A d \in Disks \ (exists \cup startedUnder) :
    conf[d] = "base" /\ (active => live[d] = "base")

\* A snapshot file is removed only when its base holds all the guest wrote, with
\* the same exception.
NothingLost == dirty \subseteq exists \cup startedUnder

\* A disk clean_for_disk() is done with (it has left metadatas) is back on its
\* base with its snapshot file removed, unless the wait for the pivot timed out.
CleanedMeansGone ==
  \A d \in Disks \ (metas \cup timedOut) : d \notin exists /\ conf[d] = "base"

\* When clean() returns, in the backup or in a clean command after any number of
\* deaths, no disk is on the snapshot any more, with both exceptions: the pending
\* file, which is removed next, is not needed.
DoneMeansBack ==
  pc = "done" => \A d \in Disks \ (timedOut \cup startedUnder) :
    conf[d] = "base" /\ (active => live[d] = "base")

\* No READY event of a job that is waiting for its pivot is lost for want of a
\* callback: registration comes before the job and ends after the pivot, or the
\* wait timed out, or the job is not of the process that cleans here.
ReadyIsHeard ==
  [][\A d \in ready \ ready' :
       lpc' = "idle" /\ job'[d] = "ready" => d \in timedOut \cup orphan']_vars

\* With a timeout set clean() returns or raises, whatever happens to the jobs,
\* the domain and the events; without one, as in the clean command, all it may
\* do for ever is wait.
CleanEnds == []<>(pc \in {"done", "raised", "dead"} \/ (recovering /\ pc = "wait"))

\* After the death of a backup's process, clean commands bring every disk back,
\* unless one of them waits for ever, or a block job of another process is in their
\* way, which libvirt keeps as long as the domain runs.
Recovers ==
  <>[](recovering =>
         \/ \A d \in Disks \ startedUnder : conf[d] = "base" /\ (active => live[d] = "base")
         \/ pc = "wait"
         \/ \E d \in orphan : job[d] = "ready")

----------------------------------------------------------------------------
(* What the documentation and the comments say *)

\* clean_for_disk: disks whose configuration has changed are left alone "to not
\* break the backing chain": a running domain never loses a file it runs on.
ChainUnbroken == \A d \in Disks : active /\ live[d] = "snap" => d \in exists
=============================================================================
