------------------------- MODULE ExtSnapshotProofs -------------------------
(***************************************************************************)
(* What TLAPS proves about ExtSnapshot, for any number of disks, calls of  *)
(* clean(), faults, stops and starts of the domain, with and without a     *)
(* timeout.                                                                *)
(***************************************************************************)
EXTENDS MCExtSnapshot, TLAPS

(* Control: the disk each of the threads has come to, and its Event.       *)

Control ==
  /\ pc \notin {"check", "done", "raised", "dead"} => disk \in Disks
  /\ pc = "done" => disk \notin Disks
  /\ lpc \in {"store", "set"} => lheld \in {"main", "loop"}

\* There is a first disk, and clean() ends behind the last one.
LEMMA DiskFacts ==
  /\ 1 \in Disks /\ 1 \in 1..(NDisks + 1)
  /\ \A d \in Disks : d + 1 \in 1..(NDisks + 1)
  /\ \A d \in 1..(NDisks + 1) : d > NDisks <=> d \notin Disks
  /\ \A d \in Disks : d < NDisks => d + 1 \in Disks
BY DisksAssumption DEF Disks

\* A counter that is below its bound may be incremented.
LEMMA CounterFacts ==
  ASSUME TypeOK
  PROVE  /\ 1 \in 0..MaxCleans
         /\ cleans < MaxCleans => cleans + 1 \in 0..MaxCleans
         /\ others < MaxOthers => others + 1 \in 0..MaxOthers
         /\ Fault => faults' \in 0..MaxFaults
BY BoundsAssumption DEF TypeOK, Fault

\* Every step keeps the type of every variable, and the control.
LEMMA StepType ==
  ASSUME TypeOK, Control, [Next]_vars PROVE TypeOK' /\ Control'
<1> USE DiskFacts, CounterFacts
    DEF TypeOK, Control, domain, events, main, evloop, other, history, Ours
<1>1. CASE Main
  <2>1. CASE Check
    <3>1. disk' \in 1..(NDisks + 1)
      BY <2>1 DEF Check, Goto
    <3>2. pc' = "check" \/ (pc' = "isActive" /\ disk' \in Disks)
      BY <2>1 DEF Check, Goto
    <3>3. UNCHANGED <<domain, exists, ready, events, metas, held, cleans, callbacks, evloop,
                      faults, history, other>>
      BY <2>1 DEF Check, Goto
    <3> QED BY <3>1, <3>2, <3>3
  <2>2. CASE NotInList
    BY <2>2 DEF NotInList
  <2>3. CASE IsActive
    BY <2>3 DEF IsActive, Goto
  <2>4. CASE Register
    BY <2>4 DEF Register, Goto
  <2>5. CASE Commit
    BY <2>5 DEF Commit, Goto, Raise
  <2>6. CASE Lookup
    BY <2>6 DEF Lookup
  <2>7. CASE Store
    BY <2>7 DEF Store, Goto
  <2>8. CASE Woken
    BY <2>8 DEF Woken, Goto
  <2>9. CASE TimesOut
    BY <2>9 DEF TimesOut, Goto
  <2>10. CASE Pop
    BY <2>10 DEF Pop, Goto
  <2>11. CASE QemuImgCommit
    BY <2>11 DEF QemuImgCommit, Goto, Raise
  <2>12. CASE Reconfigure
    BY <2>12 DEF Reconfigure, Goto, Raise
  <2>13. CASE Unlink
    BY <2>13 DEF Unlink, Goto, Raise
  <2>14. CASE Forget
    BY <2>14 DEF Forget
  <2>15. CASE CleanReturns
    BY <2>15 DEF CleanReturns, Goto
  <2>16. CASE CleanAgain
    BY <2>16 DEF CleanAgain
    <2> QED BY <1>1, <2>1, <2>2, <2>3, <2>4, <2>5, <2>6, <2>7, <2>8, <2>9, <2>10, <2>11,
         <2>12, <2>13, <2>14, <2>15, <2>16 DEF Main
<1>2. CASE Loop
  <2>1. CASE EventCallback
    BY <2>1 DEF EventCallback
  <2>2. CASE LoopPivot
    BY <2>2 DEF LoopPivot, LoopGoto, LoopReturns
  <2>3. CASE LoopRemove
    BY <2>3 DEF LoopRemove, LoopGoto, LoopReturns
  <2>4. CASE LoopLookup
    BY <2>4 DEF LoopLookup
  <2>5. CASE LoopStore
    BY <2>5 DEF LoopStore, LoopGoto
  <2>6. CASE LoopSet
    BY <2>6 DEF LoopSet, LoopReturns
  <2> QED BY <1>2, <2>1, <2>2, <2>3, <2>4, <2>5, <2>6 DEF Loop
<1>3. CASE Rival
  <2>1. CASE RivalComes
    BY <2>1 DEF RivalComes
  <2>2. CASE RivalLooks
    <3>1. rdisk' \in Disks /\ rival' \in {"none", "check", "isActive", "commit", "qemuImg"}
      BY <2>2 DEF RivalLooks, RivalProceeds
    <3> QED BY <2>2, <3>1 DEF RivalLooks, RivalProceeds
  <2>3. CASE RivalCommits
    BY <2>3 DEF RivalCommits
  <2>4. CASE RivalPivots
    BY <2>4 DEF RivalPivots
  <2>5. CASE RivalRemoves
    <3>1. rdisk' \in Disks /\ rival' \in {rival, "none", "check"} /\ rloop' = "idle"
      BY <2>5 DEF RivalRemoves, RivalProceeds
    <3> QED BY <2>5, <3>1 DEF RivalRemoves
  <2>6. CASE RivalCommitsByHand
    <3>1. /\ rdisk' \in Disks /\ rival' \in {"none", "check", "reconfigure", "unlink", "raised"}
            /\ rloop' \in {rloop, "idle"}
      BY <2>6 DEF RivalCommitsByHand, RivalProceeds
    <3>2. /\ conf' \in [Disks -> {"snap", "base"}]
            /\ exists' \in SUBSET Disks /\ dirty' \in SUBSET Disks
      BY <2>6 DEF RivalCommitsByHand
    <3> QED BY <2>6, <3>1, <3>2 DEF RivalCommitsByHand
  <2>7. CASE RivalEnds
    BY <2>7 DEF RivalEnds
  <2> QED BY <1>3, <2>1, <2>2, <2>3, <2>4, <2>5, <2>6, <2>7 DEF Rival
<1>4. CASE JobReady
  BY <1>4 DEF JobReady
<1>5. CASE JobFails
  BY <1>5 DEF JobFails
<1>6. CASE GuestWrites
  BY <1>6 DEF GuestWrites
<1>7. CASE DomainStops
  <2>1. /\ job' \in [Disks -> {"none", "running", "ready"}] /\ orphan' = {}
        /\ live' \in [Disks -> {"snap", "base"}] /\ active' = FALSE
        /\ others' \in 0..MaxOthers
    BY <1>7 DEF DomainStops
  <2>2. UNCHANGED <<conf, dirty, exists, ready, events, main, callbacks, evloop, faults,
                    timedOut, startedUnder, recovering, other>>
    BY <1>7 DEF DomainStops
  <2>3. signalled' \in [Disks -> SUBSET {"main", "loop"}]
    BY <2>2
  <2>4. orphan' \subseteq {d \in Disks : job'[d] # "none"}
    BY <2>1
  <2>5. Control'
    BY <2>2
  <2>6. /\ active' \in BOOLEAN
        /\ live' \in [Disks -> {"snap", "base"}] /\ conf' \in [Disks -> {"snap", "base"}]
        /\ exists' \in SUBSET Disks /\ dirty' \in SUBSET Disks
        /\ job' \in [Disks -> {"none", "running", "ready"}]
        /\ ready' \in SUBSET Disks
    BY <2>1, <2>2
  <2>7. /\ cleans' \in 0..MaxCleans /\ others' \in 0..MaxOthers /\ faults' \in 0..MaxFaults
        /\ recovering' \in BOOLEAN
        /\ timedOut' \in SUBSET Disks /\ startedUnder' \in SUBSET Disks
    BY <2>1, <2>2
  <2> QED BY <2>1, <2>2, <2>3, <2>4, <2>5, <2>6, <2>7
<1>8. CASE DomainStarts
  BY <1>8 DEF DomainStarts
<1>9. CASE ProcessDies
  BY <1>9 DEF ProcessDies, Forgets
<1>10. CASE CleanCommand
  BY <1>10 DEF CleanCommand, Forgets
<1>11. CASE UNCHANGED vars
  BY <1>11 DEF vars
<1> QED BY <1>1, <1>2, <1>3, <1>4, <1>5, <1>6, <1>7, <1>8, <1>9, <1>10, <1>11 DEF Next

\* The first state has the types.
LEMMA InitType == Init => TypeOK /\ Control
<1> SUFFICES ASSUME Init PROVE TypeOK /\ Control
  OBVIOUS
<1>1. cleans \in 0..MaxCleans /\ others \in 0..MaxOthers /\ faults \in 0..MaxFaults
  BY BoundsAssumption DEF Init
<1>2. orphan \subseteq {d \in Disks : job[d] # "none"}
  BY DEF Init
<1> QED BY <1>1, <1>2, DiskFacts DEF Init, TypeOK, Control

\* TypeOK holds in every reachable state, whatever threads and processes do.
THEOREM TypeCorrect == Spec => []TypeOK
<1>1. Init => TypeOK /\ Control
  BY InitType
<1>2. TypeOK /\ Control /\ [Next]_vars => (TypeOK /\ Control)'
  BY StepType
<1> QED
  BY <1>1, <1>2, PTL DEF Spec

----------------------------------------------------------------------------
(* What a step never undoes.                                               *)

\* Disks on their base, now and after the domain has stopped or started.
Back == {d \in Disks : conf[d] = "base" /\ (active => live[d] = "base")}

\* Disks whose snapshot file may go.
Merged == {d \in Back \cup startedUnder : conf[d] = "base" /\ (d \in startedUnder \/ d \notin dirty)}

\* Disks between qemu-img commit and the change of their configuration.
Committed == {d \in Disks : d \in startedUnder \/ (~active /\ d \notin dirty)}

\* Disks that a block job has brought back.
Pivoted == {d \in Disks : live[d] = "base" /\ conf[d] = "base" /\ job[d] = "none"}

\* The running domain is on the base of a disk only if its configuration is.
Configured == \A d \in Disks : live[d] = "base" => conf[d] = "base"

\* A disk that is back, merged or pivoted stays so, and no file comes again.
LEMMA Stable ==
  ASSUME TypeOK, Control, Configured, [Next]_vars
  PROVE  /\ Configured'
         /\ Back \subseteq Back' /\ Merged \subseteq Merged' /\ Pivoted \subseteq Pivoted'
         /\ (active' => active) => Committed \subseteq Committed'
         /\ exists' \subseteq exists /\ startedUnder \subseteq startedUnder'
<1> USE DEF TypeOK, Control, Configured, Back, Merged, Committed, Pivoted, domain, other,
    history, Ours
<1>1. CASE Check \/ NotInList \/ IsActive \/ Register \/ Lookup \/ Store \/ Woken \/
          TimesOut \/ Pop \/ Forget \/ CleanReturns \/ CleanAgain
  BY <1>1 DEF Check, Goto, NotInList, IsActive, Register, Lookup, Store, Woken,
     TimesOut, Pop, Forget, CleanReturns, CleanAgain
<1>2. CASE EventCallback \/ LoopLookup \/ LoopStore \/ LoopSet \/ RivalComes \/ RivalLooks
          \/ RivalEnds \/ UNCHANGED vars \/ ProcessDies \/ CleanCommand
  BY <1>2 DEF EventCallback, LoopLookup, LoopStore, LoopGoto, LoopSet, LoopReturns,
     RivalComes, RivalLooks, RivalProceeds, RivalEnds, vars, ProcessDies, Forgets,
     CleanCommand
<1>3. CASE Commit
  BY <1>3 DEF Commit, Goto, Raise
<1>4. CASE QemuImgCommit
  BY <1>4 DEF QemuImgCommit, Goto, Raise
<1>5. CASE Reconfigure
  BY <1>5 DEF Reconfigure, Goto, Raise
<1>6. CASE Unlink
  BY <1>6 DEF Unlink, Goto, Raise
<1>7. CASE LoopPivot
  BY <1>7 DEF LoopPivot, LoopGoto, LoopReturns
<1>8. CASE LoopRemove
  BY <1>8 DEF LoopRemove, LoopGoto, LoopReturns
<1>9. CASE RivalCommits
  BY <1>9 DEF RivalCommits
<1>10. CASE RivalPivots
  BY <1>10 DEF RivalPivots
<1>11. CASE RivalRemoves
  BY <1>11 DEF RivalRemoves, RivalProceeds
<1>12. CASE RivalCommitsByHand
  BY <1>12 DEF RivalCommitsByHand, RivalProceeds
<1>13. CASE JobReady
  BY <1>13 DEF JobReady
<1>14. CASE JobFails
  BY <1>14 DEF JobFails
<1>15. CASE GuestWrites
  BY <1>15 DEF GuestWrites
<1>16. CASE DomainStops
  BY <1>16 DEF DomainStops
<1>17. CASE DomainStarts
  BY <1>17 DEF DomainStarts
<1> QED BY <1>1, <1>2, <1>3, <1>4, <1>5, <1>6, <1>7, <1>8, <1>9, <1>10, <1>11, <1>12,
       <1>13, <1>14, <1>15, <1>16, <1>17 DEF Next, Main, Loop, Rival
----------------------------------------------------------------------------
(* A snapshot file that is removed, or about to be, is merged.             *)

MergedInv ==
  /\ Configured
  /\ \A d \in Disks \ exists : d \in Merged
  /\ pc = "reconfigure" => disk \in Committed
  /\ pc = "unlink" => disk \in Merged
  /\ lpc = "remove" => ldisk \in Merged
  /\ rival = "reconfigure" => rdisk \in Committed
  /\ rival = "unlink" => rdisk \in Merged
  /\ rloop = "remove" => rdisk \in Merged

\* No thread and no process comes to the removal of a file that is not merged.
LEMMA StepMerged ==
  ASSUME TypeOK, Control, MergedInv, [Next]_vars PROVE MergedInv'
<1>0. /\ Configured' /\ Merged \subseteq Merged' /\ exists' \subseteq exists
      /\ (active' => active) => Committed \subseteq Committed'
  BY Stable DEF MergedInv
<1> USE <1>0 DEF TypeOK, Control, MergedInv, domain, other, history, main, evloop, Ours
<1>1. CASE Check \/ NotInList \/ IsActive \/ Register \/ Lookup \/ Store \/ Woken \/
          TimesOut \/ Pop \/ Forget \/ CleanReturns \/ CleanAgain
  BY <1>1 DEF Check, Goto, NotInList, IsActive, Register, Lookup, Store, Woken,
     TimesOut, Pop, Forget, CleanReturns, CleanAgain
<1>2. CASE EventCallback \/ LoopLookup \/ LoopStore \/ LoopSet \/ RivalComes \/ RivalLooks
          \/ RivalEnds \/ ProcessDies \/ CleanCommand \/ UNCHANGED vars
  BY <1>2 DEF EventCallback, LoopLookup, LoopStore, LoopGoto, LoopSet, LoopReturns,
     RivalComes, RivalLooks, RivalProceeds, RivalEnds, ProcessDies, Forgets,
     CleanCommand, vars
<1>3. CASE JobReady \/ JobFails \/ GuestWrites \/ DomainStops
  BY <1>3 DEF JobReady, JobFails, GuestWrites, DomainStops
<1>4. CASE Commit
  BY <1>4 DEF Commit, Goto, Raise
<1>5. CASE QemuImgCommit
  BY <1>5 DEF QemuImgCommit, Goto, Raise, Committed
<1>6. CASE Reconfigure
  BY <1>6 DEF Reconfigure, Goto, Raise, Committed, Merged, Back
<1>7. CASE Unlink
  BY <1>7 DEF Unlink, Goto, Raise
<1>8. CASE LoopPivot
  BY <1>8 DEF LoopPivot, LoopGoto, LoopReturns, Merged, Back
<1>9. CASE LoopRemove
  BY <1>9 DEF LoopRemove, LoopGoto, LoopReturns
<1>10. CASE RivalCommits
  BY <1>10 DEF RivalCommits
<1>11. CASE RivalPivots
  BY <1>11 DEF RivalPivots, Merged, Back
<1>12. CASE RivalRemoves
  BY <1>12 DEF RivalRemoves, RivalProceeds
<1>13. CASE RivalCommitsByHand
  BY <1>13 DEF RivalCommitsByHand, RivalProceeds, Committed, Merged, Back
<1>14. CASE DomainStarts
  BY <1>14 DEF DomainStarts, Committed
<1> QED BY <1>1, <1>2, <1>3, <1>4, <1>5, <1>6, <1>7, <1>8, <1>9, <1>10, <1>11, <1>12,
       <1>13, <1>14 DEF Next, Main, Loop, Rival

\* InUseExists holds in every reachable state: no disk is left on a snapshot file
\* that a thread, an event or another process has removed.
THEOREM InUseKept == Spec => []InUseExists
<1>1. Init => TypeOK /\ Control /\ MergedInv
  BY InitType DEF Init, MergedInv, Configured, TypeOK
<1>2. TypeOK /\ Control /\ MergedInv /\ [Next]_vars => (TypeOK /\ Control /\ MergedInv)'
  BY StepType, StepMerged
<1>3. TypeOK /\ MergedInv => InUseExists
  BY DEF TypeOK, MergedInv, Merged, Back, InUseExists
<1> QED
  BY <1>1, <1>2, <1>3, PTL DEF Spec

\* NothingLost holds in every reachable state: what the guest has written is in the
\* base of a disk before its snapshot file goes.
THEOREM WritesKept == Spec => []NothingLost
<1>1. Init => TypeOK /\ Control /\ MergedInv
  BY InitType DEF Init, MergedInv, Configured, TypeOK
<1>2. TypeOK /\ Control /\ MergedInv /\ [Next]_vars => (TypeOK /\ Control /\ MergedInv)'
  BY StepType, StepMerged
<1>3. TypeOK /\ MergedInv => NothingLost
  BY DEF TypeOK, MergedInv, Merged, NothingLost
<1> QED
  BY <1>1, <1>2, <1>3, PTL DEF Spec

----------------------------------------------------------------------------
(* A disk that has been waited for is pivoted and its file removed, or its *)
(* wait timed out.                                                         *)

PivotInv ==
  /\ lpc \in {"remove", "lookup", "store", "set"} => ldisk \in Pivoted
  /\ lpc \in {"lookup", "store", "set"} => ldisk \notin exists
  /\ \A d \in Disks : signalled[d] # {} => d \in Pivoted \ exists
  /\ pc \in {"pop", "forget"} => disk \in timedOut \/ disk \notin exists
  /\ \A d \in Disks \ metas : d \in timedOut \/ d \notin exists

\* An Event is set only after the pivot and the removal of the file, and a disk
\* is forgotten only after that.
LEMMA StepPivot ==
  ASSUME TypeOK, Control, MergedInv, PivotInv, [Next]_vars PROVE PivotInv'
<1>0. Pivoted \subseteq Pivoted' /\ exists' \subseteq exists
  BY Stable DEF MergedInv
<1> USE <1>0 DEF TypeOK, Control, PivotInv, domain, events, history, main, evloop, Ours
<1>1. CASE Check \/ NotInList \/ IsActive \/ Register \/ Lookup \/ Store \/ CleanReturns
          \/ CleanAgain \/ Commit \/ QemuImgCommit \/ Reconfigure
  BY <1>1 DEF Check, Goto, NotInList, IsActive, Register, Lookup, Store, CleanReturns,
     CleanAgain, Commit, Raise, QemuImgCommit, Reconfigure
<1>2. CASE RivalComes \/ RivalLooks \/ RivalCommits \/ RivalPivots \/ RivalRemoves \/
          RivalCommitsByHand \/ RivalEnds
  BY <1>2 DEF RivalComes, RivalLooks, RivalProceeds, RivalCommits, RivalPivots,
     RivalRemoves, RivalCommitsByHand, RivalEnds
<1>3. CASE JobReady \/ JobFails \/ GuestWrites \/ DomainStops \/ DomainStarts
  BY <1>3 DEF JobReady, JobFails, GuestWrites, DomainStops, DomainStarts
<1>4. CASE ProcessDies \/ CleanCommand
  BY <1>4 DEF ProcessDies, Forgets, CleanCommand
<1>5. CASE EventCallback \/ LoopLookup \/ LoopStore
  BY <1>5 DEF EventCallback, LoopLookup, LoopStore, LoopGoto
<1>6. CASE Woken
  BY <1>6 DEF Woken, Goto
<1>7. CASE TimesOut
  BY <1>7 DEF TimesOut, Goto
<1>8. CASE Pop
  BY <1>8 DEF Pop, Goto
<1>9. CASE Unlink
  BY <1>9 DEF Unlink, Goto, Raise
<1>10. CASE Forget
  BY <1>10 DEF Forget
<1>11. CASE LoopPivot
  BY <1>11 DEF LoopPivot, LoopGoto, LoopReturns, Pivoted
<1>12. CASE LoopRemove
  BY <1>12 DEF LoopRemove, LoopGoto, LoopReturns
<1>13. CASE LoopSet
  BY <1>13 DEF LoopSet, LoopReturns
<1>14. CASE UNCHANGED vars
  BY <1>14 DEF vars
<1> QED BY <1>1, <1>2, <1>3, <1>4, <1>5, <1>6, <1>7, <1>8, <1>9, <1>10, <1>11, <1>12,
       <1>13, <1>14 DEF Next, Main, Loop, Rival

\* CleanedMeansGone holds in every reachable state: a disk that has left metadatas
\* is off its snapshot and the file is gone, or the wait for its pivot timed out.
THEOREM CleanedGone == Spec => []CleanedMeansGone
<1> DEFINE I == TypeOK /\ Control /\ MergedInv /\ PivotInv
<1>1. Init => I
  BY InitType DEF Init, MergedInv, PivotInv, Configured, TypeOK
<1>2. I /\ [Next]_vars => I'
  BY StepType, StepMerged, StepPivot
<1>3. I => CleanedMeansGone
  BY DEF TypeOK, MergedInv, PivotInv, Merged, CleanedMeansGone
<1> QED
  BY <1>1, <1>2, <1>3, PTL DEF Spec

----------------------------------------------------------------------------
(* The disks clean() has passed, in this call, are back.                   *)

PassedInv ==
  pc \notin {"raised", "dead"} =>
    \A d \in Disks : d < disk => d \in Back \cup timedOut \cup startedUnder

\* clean() takes the next disk only when the one before is back, or given up.
LEMMA StepPassed ==
  ASSUME TypeOK, Control, MergedInv, PivotInv, PassedInv, [Next]_vars PROVE PassedInv'
<1>0. Back \subseteq Back' /\ startedUnder \subseteq startedUnder'
  BY Stable DEF MergedInv
<1> USE <1>0 DEF TypeOK, Control, PassedInv, domain, history, main, Ours
<1>1. CASE Register \/ Lookup \/ Store \/ Woken \/ TimesOut \/ Pop \/ CleanReturns \/
          Commit \/ QemuImgCommit \/ Reconfigure \/ IsActive \/ Unlink
  BY <1>1 DEF Register, Goto, Lookup, Store, Woken, TimesOut, Pop, CleanReturns, Commit,
     Raise, QemuImgCommit, Reconfigure, IsActive, Unlink
<1>2. CASE RivalComes \/ RivalLooks \/ RivalCommits \/ RivalPivots \/ RivalRemoves \/
          RivalCommitsByHand \/ RivalEnds
  BY <1>2 DEF RivalComes, RivalLooks, RivalProceeds, RivalCommits, RivalPivots,
     RivalRemoves, RivalCommitsByHand, RivalEnds
<1>3. CASE JobReady \/ JobFails \/ GuestWrites \/ DomainStops \/ DomainStarts
  BY <1>3 DEF JobReady, JobFails, GuestWrites, DomainStops, DomainStarts
<1>4. CASE EventCallback \/ LoopLookup \/ LoopStore \/ LoopSet \/ LoopRemove \/ LoopPivot
  BY <1>4 DEF EventCallback, LoopLookup, LoopStore, LoopGoto, LoopSet, LoopReturns,
     LoopRemove, LoopPivot
<1>5. CASE CleanAgain \/ ProcessDies \/ CleanCommand
  <2>1. disk' = 1
    BY <1>5 DEF CleanAgain, ProcessDies, CleanCommand, Forgets
  <2> QED BY <2>1 DEF Disks
<1>6. CASE Check
  <2>1. Current(disk) # "snap" => disk \in Back
    BY <1>6 DEF Check, Current, Back, MergedInv, Configured
  <2>2. \A d \in Disks : d < disk' => d < disk \/ d = disk
    BY <1>6 DEF Check, Goto, Disks
  <2> QED BY <1>6, <2>1, <2>2 DEF Check, Goto
<1>7. CASE NotInList
  <2>1. disk \in Back \cup timedOut \cup startedUnder
    BY <1>7 DEF NotInList, PivotInv, MergedInv, Merged
  <2>2. \A d \in Disks : d < disk' => d < disk \/ d = disk
    BY <1>7 DEF NotInList, Disks
  <2> QED BY <1>7, <2>1, <2>2 DEF NotInList
<1>8. CASE Forget
  <2>1. disk \in Back \cup timedOut \cup startedUnder
    BY <1>8 DEF Forget, PivotInv, MergedInv, Merged
  <2>2. \A d \in Disks : d < disk' => d < disk \/ d = disk
    BY <1>8 DEF Forget, Disks
  <2> QED BY <1>8, <2>1, <2>2 DEF Forget
<1>9. CASE UNCHANGED vars
  BY <1>9 DEF vars
<1> QED BY <1>1, <1>2, <1>3, <1>4, <1>5, <1>6, <1>7, <1>8, <1>9 DEF Next, Main, Loop,
       Rival

\* DoneMeansBack holds in every reachable state: when clean() has returned, whatever
\* happened to the processes before, no disk is on the snapshot, but for those of
\* a wait that timed out or of a domain that was started during the commit.
THEOREM DoneBack == Spec => []DoneMeansBack
<1> DEFINE I == TypeOK /\ Control /\ MergedInv /\ PivotInv /\ PassedInv
<1>1. Init => I
  <2> SUFFICES ASSUME Init PROVE I
    OBVIOUS
  <2>1. \A d \in Disks : ~(d < 1)
    BY DEF Disks
  <2> QED BY <2>1, InitType DEF Init, MergedInv, PivotInv, PassedInv, Configured, TypeOK
<1>2. I /\ [Next]_vars => I'
  BY StepType, StepMerged, StepPivot, StepPassed
<1>3. I => DoneMeansBack
  <2> SUFFICES ASSUME I, pc = "done" PROVE \A d \in Disks : d \in Back \cup timedOut \cup startedUnder
    BY DEF DoneMeansBack, Back
  <2>1. disk > NDisks
    BY DiskFacts DEF TypeOK, Control
  <2>2. \A d \in Disks : d < disk
    BY <2>1, DisksAssumption DEF TypeOK, Disks
  <2> QED BY <2>2 DEF PassedInv
<1> QED
  BY <1>1, <1>2, <1>3, PTL DEF Spec

----------------------------------------------------------------------------
(* A block job of the process that cleans is the one it waits for.         *)

JobInv ==
  /\ pc \in {"commit", "lookup", "store", "wait"} => disk \in callbacks
  /\ \A d \in Disks : job[d] # "none" =>
       \/ d \in timedOut \cup orphan
       \/ d = disk /\ pc \in {"lookup", "store", "wait"}

\* The callback is there before the job is, and as long as the job is waited for.
LEMMA StepJob ==
  ASSUME TypeOK, Control, MergedInv, PivotInv, JobInv, [Next]_vars PROVE JobInv'
<1> USE DEF TypeOK, Control, JobInv, domain, history, main, Ours
<1>1. CASE Check \/ NotInList \/ IsActive \/ Register \/ Lookup \/ Store \/ TimesOut \/
          Pop \/ CleanReturns \/ CleanAgain \/ Forget
  BY <1>1 DEF Check, Goto, NotInList, IsActive, Register, Lookup, Store, TimesOut, Pop,
     CleanReturns, CleanAgain, Forget
<1>2. CASE QemuImgCommit \/ Reconfigure \/ Unlink
  BY <1>2 DEF QemuImgCommit, Goto, Raise, Reconfigure, Unlink
<1>3. CASE RivalComes \/ RivalLooks \/ RivalRemoves \/ RivalCommitsByHand \/ RivalEnds
  BY <1>3 DEF RivalComes, RivalLooks, RivalProceeds, RivalRemoves, RivalCommitsByHand,
     RivalEnds
<1>4. CASE GuestWrites \/ DomainStops \/ DomainStarts
  BY <1>4 DEF GuestWrites, DomainStops, DomainStarts
<1>5. CASE ProcessDies \/ CleanCommand
  BY <1>5 DEF ProcessDies, Forgets, CleanCommand
<1>6. CASE EventCallback \/ LoopLookup \/ LoopStore \/ LoopSet \/ LoopRemove
  BY <1>6 DEF EventCallback, LoopLookup, LoopStore, LoopGoto, LoopSet, LoopReturns,
     LoopRemove
<1>7. CASE Commit
  BY <1>7 DEF Commit, Goto, Raise
<1>8. CASE Woken
  BY <1>8 DEF Woken, Goto, PivotInv, Pivoted
<1>9. CASE LoopPivot
  BY <1>9 DEF LoopPivot, LoopGoto, LoopReturns
<1>10. CASE RivalCommits
  BY <1>10 DEF RivalCommits
<1>11. CASE RivalPivots
  BY <1>11 DEF RivalPivots
<1>12. CASE JobReady
  BY <1>12 DEF JobReady
<1>13. CASE JobFails
  BY <1>13 DEF JobFails
<1>14. CASE UNCHANGED vars
  BY <1>14 DEF vars
<1> QED BY <1>1, <1>2, <1>3, <1>4, <1>5, <1>6, <1>7, <1>8, <1>9, <1>10, <1>11, <1>12,
       <1>13, <1>14 DEF Next, Main, Loop, Rival

\* ReadyIsHeard holds of every behaviour: a READY event is dispatched without a
\* callback, or is lost with its process, only if nobody waits for its pivot.
THEOREM ReadyHeard == Spec => ReadyIsHeard
<1> DEFINE I == TypeOK /\ Control /\ MergedInv /\ PivotInv /\ JobInv
           Heard == \A d \in ready \ ready' :
                      lpc' = "idle" /\ job'[d] = "ready" => d \in timedOut \cup orphan'
<1>1. Init => I
  BY InitType DEF Init, MergedInv, PivotInv, JobInv, Configured, TypeOK
<1>2. I /\ [Next]_vars => I'
  BY StepType, StepMerged, StepPivot, StepJob
<1>3. I /\ [Next]_vars => [Heard]_vars
  <2> SUFFICES ASSUME I, Next PROVE Heard
    OBVIOUS
  <2>1. CASE EventCallback
    BY <2>1 DEF EventCallback, TypeOK, JobInv, domain, history
  <2>2. CASE ProcessDies \/ CleanCommand
    BY <2>2 DEF ProcessDies, CleanCommand, domain, TypeOK
  <2>3. CASE ~(EventCallback \/ ProcessDies \/ CleanCommand)
    <3>1. ready \subseteq ready'
      BY <2>3 DEF Next, Main, Loop, Rival, Ours, Check, NotInList, IsActive, Register, Commit,
         Lookup, Store, Woken, TimesOut, Pop, QemuImgCommit, Reconfigure, Unlink, Forget,
         CleanReturns, CleanAgain, LoopPivot, LoopRemove, LoopLookup, LoopStore, LoopSet,
         RivalComes, RivalLooks, RivalCommits, RivalPivots, RivalRemoves,
         RivalCommitsByHand, RivalEnds, JobReady, JobFails, GuestWrites, DomainStops, DomainStarts
    <3> QED BY <3>1
  <2> QED BY <2>1, <2>2, <2>3
<1> QED
  BY <1>1, <1>2, <1>3, PTL DEF Spec, ReadyIsHeard
----------------------------------------------------------------------------
(* The refinement.  What the two variables of BackingChain stand for is    *)
(* changed by a merge, by the removal of a file, or not at all.            *)

MergeStep == \E d \in Disks : /\ conf[d] = "snap" /\ conf' = [conf EXCEPT ![d] = "base"]
                              /\ exists' = exists
UnlinkStep == \E d \in Disks : /\ d \in exists /\ conf[d] = "base"
                               /\ exists' = exists \ {d} /\ conf' = conf
NoChainStep == UNCHANGED <<conf, exists>>

\* Every step is one of the three.
LEMMA StepChain ==
  ASSUME TypeOK, Control, MergedInv, [Next]_vars
  PROVE  MergeStep \/ UnlinkStep \/ NoChainStep
<1> USE DEF TypeOK, Control, domain
<1>0. \A d \in Disks : /\ conf' = [conf EXCEPT ![d] = "base"] /\ exists' = exists
                       => MergeStep \/ NoChainStep
  <2> SUFFICES ASSUME NEW d \in Disks, conf' = [conf EXCEPT ![d] = "base"], exists' = exists
               PROVE  MergeStep \/ NoChainStep
    OBVIOUS
  <2>1. CASE conf[d] = "snap"
    BY <2>1 DEF MergeStep
  <2>2. CASE conf[d] = "base"
    BY <2>2 DEF NoChainStep
  <2> QED BY <2>1, <2>2
<1>1. CASE Check \/ NotInList \/ IsActive \/ Register \/ Commit \/ Lookup \/ Store \/
          Woken \/ TimesOut \/ Pop \/ QemuImgCommit \/ Forget \/ CleanReturns \/
          CleanAgain
  BY <1>1 DEF Check, Goto, NoChainStep, NotInList, IsActive, Register, Commit, Raise,
     Lookup, Store, Woken, TimesOut, Pop, QemuImgCommit, Forget, CleanReturns,
     CleanAgain
<1>2. CASE EventCallback \/ LoopLookup \/ LoopStore \/ LoopSet \/ RivalComes \/ RivalLooks
          \/ RivalCommits \/ RivalEnds \/ JobReady \/ JobFails \/ GuestWrites \/
          DomainStops \/ DomainStarts \/ ProcessDies \/ CleanCommand \/ UNCHANGED vars
  BY <1>2 DEF EventCallback, NoChainStep, LoopLookup, LoopStore, LoopGoto, LoopSet,
     LoopReturns, RivalComes, RivalLooks, RivalProceeds, RivalCommits, RivalEnds,
     JobReady, JobFails, GuestWrites, DomainStops, DomainStarts, ProcessDies, Forgets,
     CleanCommand, vars
<1>3. CASE Reconfigure
  <2>1. NoChainStep \/ (conf' = [conf EXCEPT ![disk] = "base"] /\ exists' = exists)
    BY <1>3 DEF Reconfigure, Goto, Raise, NoChainStep
  <2> QED BY <1>3, <2>1, <1>0 DEF Reconfigure
<1>4. CASE Unlink
  BY <1>4 DEF Unlink, MergedInv, Merged, UnlinkStep, NoChainStep
<1>5. CASE LoopPivot
  <2>1. NoChainStep \/ (conf' = [conf EXCEPT ![ldisk] = "base"] /\ exists' = exists)
    BY <1>5 DEF LoopPivot, NoChainStep
  <2> QED BY <1>5, <2>1, <1>0
<1>6. CASE LoopRemove
  BY <1>6 DEF LoopRemove, MergedInv, Merged, UnlinkStep, NoChainStep
<1>7. CASE RivalPivots
  <2>1. NoChainStep \/ (conf' = [conf EXCEPT ![rdisk] = "base"] /\ exists' = exists)
    BY <1>7 DEF RivalPivots, NoChainStep
  <2> QED BY <1>7, <2>1, <1>0
<1>8. CASE RivalRemoves
  BY <1>8 DEF RivalRemoves, MergedInv, Merged, UnlinkStep, NoChainStep
<1>9. CASE RivalCommitsByHand
  <2>1. CASE rival = "reconfigure"
    BY <1>9, <2>1, <1>0 DEF RivalCommitsByHand
  <2>2. CASE rival # "reconfigure"
    BY <1>9, <2>2 DEF RivalCommitsByHand, MergedInv, Merged, UnlinkStep, NoChainStep
  <2> QED BY <2>1, <2>2
<1> QED BY <1>1, <1>2, <1>3, <1>4, <1>5, <1>6, <1>7, <1>8, <1>9 DEF Next, Main, Loop,
       Rival

\* Spec implements BackingChain: whichever threads and processes clean it, a disk is
\* first configured back on its base and then loses its snapshot file.
THEOREM ChainImplemented == Spec => ImplementsChain
<1> DEFINE overlay == [s \in {1} |-> {d \in Disks : conf[d] = "snap"}]
           snapfile == [s \in {1} |-> exists]
<1>1. Init => TypeOK /\ Control /\ MergedInv
  BY InitType DEF Init, MergedInv, Configured, TypeOK
<1>2. TypeOK /\ Control /\ MergedInv /\ [Next]_vars => (TypeOK /\ Control /\ MergedInv)'
  BY StepType, StepMerged
<1>3. Init => Chain!Init
  <2> SUFFICES ASSUME Init PROVE Chain!Init
    OBVIOUS
  <2>1. {d \in Disks : conf[d] = "snap"} = Disks
    BY DEF Init
  <2> QED BY <2>1 DEF Init, Chain!Init
<1>4. TypeOK /\ Control /\ MergedInv /\ [Next]_vars => [Chain!Next]_<<overlay, snapfile>>
  <2> SUFFICES ASSUME TypeOK, Control, MergedInv, [Next]_vars
               PROVE  [Chain!Next]_<<overlay, snapfile>>
    OBVIOUS
  <2>1. CASE MergeStep
    <3> PICK d \in Disks : /\ conf[d] = "snap" /\ conf' = [conf EXCEPT ![d] = "base"]
                           /\ exists' = exists
      BY <2>1 DEF MergeStep
    <3>1. {e \in Disks : conf'[e] = "snap"} = {e \in Disks : conf[e] = "snap"} \ {d}
      BY DEF TypeOK
    <3>2. Chain!Merge(1, d)
      BY <3>1 DEF Chain!Merge
    <3> QED BY <3>2 DEF Chain!Next
  <2>2. CASE UnlinkStep
    <3> PICK d \in Disks : /\ d \in exists /\ conf[d] = "base"
                           /\ exists' = exists \ {d} /\ conf' = conf
      BY <2>2 DEF UnlinkStep
    <3>1. Chain!Unlink(1, d)
      BY DEF Chain!Unlink
    <3> QED BY <3>1 DEF Chain!Next
  <2>3. CASE NoChainStep
    BY <2>3 DEF NoChainStep
  <2> QED BY <2>1, <2>2, <2>3, StepChain
<1> QED
  BY <1>1, <1>2, <1>3, <1>4, PTL DEF Spec, ImplementsChain, Chain!Spec
=============================================================================
