----------------------- MODULE BackupSchedulerProofs -----------------------
(***************************************************************************)
(* What TLAPS proves about BackupScheduler, for any number of backups, any *)
(* groups of them and any number of threads, of Ctrl-C and of failures.    *)
(***************************************************************************)
EXTENDS BackupScheduler, SequenceTheorems, FiniteSetTheorems, TLAPS

Queue == {futures[i] : i \in 1..Len(futures)}
Active == {"copy", "merge", "abort"}

\* The loops over the futures and over the backups begin with the first.
Placed == pos \in Nat \ {0}

\* What the steps of one backup rest on: while it has a snapshot to merge, the
\* domain has one, and its own is among the domain's.
Held ==
  \A b \in Backups : run[b] \in Active =>
    \E i \in 1..Len(chain[Dom[b]]) : chain[Dom[b]][i] = b

\* Each object's backup is submitted at most once, and what is not submitted does
\* not run; one thread needs no futures.
FuturesInv ==
  /\ \A i, j \in 1..Len(futures) : Obj[futures[i]] = Obj[futures[j]] => i = j
  /\ \A i \in 1..Len(futures) : Obj[futures[i]] \in seen
  /\ IF group.threads = 1
     THEN /\ pc \in {"sequence"} \cup Ended /\ futures = <<>>
          /\ \A b \in Backups : run[b] \notin {"queued", "cancelled"}
     ELSE pc # "sequence" /\ \A b \in Backups : run[b] = "none" <=> b \notin Queue

\* The with block is left only when all futures are over, and the except clause
\* before that only by a second Ctrl-C.
ThreadsInv == group.threads # 1 =>
  /\ interrupts > 0 => exc # "none"
  /\ pc \in {"submit", "while"} => exc = "none"
  /\ pc = "join" /\ exc = "none" => Len(futures) = NBackups
  /\ pc \in {"collect", "returned", "failure"} =>
       exc = "none" /\ Len(futures) = NBackups /\ AllOver
  /\ pc \in {"cancel", "signal", "wait"} /\ interrupts = 0 => AllOver
  /\ pc \in {"raised", "exited"} /\ interrupts < 2 => AllOver
  /\ (\E b \in Backups : run[b] = "cancelled") =>
       pc \in {"cancel", "signal", "wait", "raised", "exited"}

\* A backup that will not go on unaware of the cancellation.
Aware(b) == run[b] \in Over \/ flag[b] \/ b \in lost

\* Where the two loops of the except clause have got.
SignalInv ==
  /\ group.threads # 1 /\ pc \in {"submit", "while", "join", "collect"} => pos = 1
  /\ pc = "cancel" => \A i \in 1..Len(futures) : i < pos => run[futures[i]] # "queued"
  /\ pc \in {"signal", "wait"} => \A i \in 1..Len(futures) : run[futures[i]] # "queued"
  /\ pc = "signal" => \A i \in 1..Len(futures) : i < pos => Aware(futures[i])
  /\ pc = "wait" => \A i \in 1..Len(futures) : Aware(futures[i])

\* One after the other: those before are over and their errors kept, those after
\* have not begun, and Ctrl-C is on its way or has become a failure.
SequenceInv == group.threads = 1 =>
  /\ pos <= NBackups + 1
  /\ \A b \in Backups : b > pos => run[b] = "none"
  /\ \A b \in Backups : b < pos => run[b] \in Over /\ (run[b] = "failed" => Dom[b] \in errors)
  /\ pc \in Ended => NoneRuns
  /\ pc = "sequence" /\ interrupts > 0 => exc = "interrupt" \/ \E b \in Backups : run[b] = "failed"
  /\ pc = "sequence" /\ exc = "interrupt" => pos <= NBackups /\ run[pos] \in {"abort", "failed"}

\* Two backups of a domain hold one object, if threads take them.
OneObject ==
  \A g \in Groups : g.threads # 1 =>
    \A b, c \in Backups : g.dom[b] = g.dom[c] => g.obj[b] = g.obj[c]

\* A domain that Ctrl-C has not touched has no snapshot, or that of the backup
\* that works on it.
ChainInv ==
  \A m \in Doms : (\A c \in cut : Dom[c] # m) =>
    /\ Len(chain[m]) <= 1
    /\ \A i \in 1..Len(chain[m]) : Dom[chain[m][i]] = m /\ run[chain[m][i]] \in Active

----------------------------------------------------------------------------
(* The steps of the threads, as the main thread sees them. *)

\* The backup of a domain is one of the group's domains.
LEMMA DomFacts ==
  ASSUME TypeOK PROVE \A b \in Backups : Dom[b] \in Doms /\ Obj[b] \in Objs
BY DEF Doms, Objs

\* No step changes which group is started.
LEMMA SameGroup == ASSUME [Next]_vars PROVE UNCHANGED <<group, Obj, Dom, Objs, Doms, Threads>>
<1>1. group' = group
  BY DEF Next, Main, Worker, vars, main, workers, SequenceStep, StartNext, BackupEnds,
     SequenceEnds, Submit, Submitted, While, Join, Collect, CancelFuture, SignalBackup, Wait,
     Exit,
     Interrupt, InterruptSequence, Pick, Begin, Snapshot, SnapshotFails, Copied, CopyStops, Merge
<1> QED BY <1>1 DEF Obj, Dom, Objs, Doms, Threads

\* A step of a backup changes its own state, its domain's chain and its flag.
LEMMA WorkerEffect ==
  ASSUME TypeOK, NEW b \in Backups, Worker(b)
  PROVE  /\ UNCHANGED <<main, cut, group>>
         /\ run[b] \in Running /\ run'[b] \in Running \cup {"ok", "failed"}
         /\ run' = [run EXCEPT ![b] = run'[b]]
         /\ \A c \in Backups : flag[c] \/ c \in lost => flag'[c] \/ c \in lost'
         /\ \A m \in Doms : m # Dom[b] => chain'[m] = chain[m]
<1> USE DomFacts DEF TypeOK, Running
<1>1. CASE Begin(b)
  BY <1>1 DEF Begin, main
<1>2. CASE Snapshot(b) \/ SnapshotFails(b) \/ Copied(b) \/ CopyStops(b)
  BY <1>2 DEF Snapshot, SnapshotFails, Copied, CopyStops
<1>3. CASE Merge(b)
  BY <1>3 DEF Merge
<1> QED BY <1>1, <1>2, <1>3 DEF Worker

\* A thread takes a backup that was submitted.
LEMMA PickEffect ==
  ASSUME TypeOK, NEW b \in Backups, Pick(b)
  PROVE  /\ UNCHANGED <<main, flag, chain, fails, lost, cut, group>>
         /\ run[b] = "queued" /\ run' = [run EXCEPT ![b] = "begin"]
         /\ run \in [Backups -> Running \cup Over \cup {"none", "queued"}]
BY DEF Pick, TypeOK

\* A snapshot is taken on top ...
LEMMA Appended ==
  ASSUME TypeOK, NEW b \in Backups, chain' = [chain EXCEPT ![Dom[b]] = Append(@, b)]
  PROVE  /\ chain' \in [Doms -> Seq(Backups)]
         /\ Len(chain[Dom[b]]) \in Nat /\ Len(chain'[Dom[b]]) = Len(chain[Dom[b]]) + 1
         /\ Len(chain[Dom[b]]) + 1 \in 1..Len(chain'[Dom[b]])
         /\ chain'[Dom[b]][Len(chain[Dom[b]]) + 1] = b
         /\ \A i \in 1..Len(chain[Dom[b]]) : chain'[Dom[b]][i] = chain[Dom[b]][i]
         /\ \A m \in Doms : m # Dom[b] => chain'[m] = chain[m]
<1>1. Dom[b] \in Doms /\ chain[Dom[b]] \in Seq(Backups)
  BY DomFacts DEF TypeOK
<1>2. chain'[Dom[b]] = Append(chain[Dom[b]], b)
  BY <1>1 DEF TypeOK
<1>3. /\ Append(chain[Dom[b]], b) \in Seq(Backups)
      /\ Len(Append(chain[Dom[b]], b)) = Len(chain[Dom[b]]) + 1
      /\ Append(chain[Dom[b]], b)[Len(chain[Dom[b]]) + 1] = b
      /\ \A i \in 1..Len(chain[Dom[b]]) : Append(chain[Dom[b]], b)[i] = chain[Dom[b]][i]
  BY <1>1, AppendProperties
<1> QED BY <1>1, <1>2, <1>3, LenProperties DEF TypeOK

\* ... and merged from the top.
LEMMA Shortened ==
  ASSUME TypeOK, NEW b \in Backups, Len(chain[Dom[b]]) > 0,
         chain' = [chain EXCEPT ![Dom[b]] = SubSeq(@, 1, Len(@) - 1)]
  PROVE  /\ chain' \in [Doms -> Seq(Backups)]
         /\ Len(chain[Dom[b]]) \in Nat /\ Len(chain'[Dom[b]]) = Len(chain[Dom[b]]) - 1
         /\ \A i \in 1..(Len(chain[Dom[b]]) - 1) : chain'[Dom[b]][i] = chain[Dom[b]][i]
         /\ \A m \in Doms : m # Dom[b] => chain'[m] = chain[m]
<1> DEFINE s == chain[Dom[b]]
<1>1. Dom[b] \in Doms /\ s \in Seq(Backups) /\ Len(s) \in Nat
  BY DomFacts, LenProperties DEF TypeOK
<1>2. chain'[Dom[b]] = SubSeq(s, 1, Len(s) - 1)
  BY <1>1 DEF TypeOK
<1>3. \A i \in 1..(Len(s) - 1) : s[i] \in Backups
  BY <1>1, ElementOfSeq
<1>4. /\ SubSeq(s, 1, Len(s) - 1) \in Seq(Backups)
      /\ Len(SubSeq(s, 1, Len(s) - 1)) = Len(s) - 1
      /\ \A i \in 1..(Len(s) - 1) : SubSeq(s, 1, Len(s) - 1)[i] = s[i]
  <2> HIDE DEF s
  <2> QED BY <1>1, <1>3, SubSeqProperties DEF s
<1> QED BY <1>1, <1>2, <1>4 DEF TypeOK

LEMMA HeldAppended ==
  ASSUME TypeOK, Held, UNCHANGED Dom, NEW b \in Backups,
         chain' = [chain EXCEPT ![Dom[b]] = Append(@, b)],
         \A c \in Backups : c # b /\ run'[c] \in Active => run[c] \in Active
  PROVE  Held'
<1> SUFFICES ASSUME NEW c \in Backups, run'[c] \in Active
             PROVE  \E i \in 1..Len(chain'[Dom[c]]) : chain'[Dom[c]][i] = c
  BY DEF Held
<1>1. CASE c = b
  <2>1. PICK i \in 1..Len(chain'[Dom[b]]) : chain'[Dom[b]][i] = b
    BY Appended
  <2> QED BY <1>1, <2>1
<1>2. CASE c # b
  <2>1. PICK i \in 1..Len(chain[Dom[c]]) : chain[Dom[c]][i] = c
    BY <1>2 DEF Held
  <2>2. CASE Dom[c] = Dom[b]
    BY <2>1, <2>2, Appended
  <2>3. CASE Dom[c] # Dom[b]
    BY <2>1, <2>3, Appended, DomFacts
  <2> QED BY <2>2, <2>3
<1> QED BY <1>1, <1>2

LEMMA HeldShortened ==
  ASSUME TypeOK, Held, UNCHANGED Dom, NEW b \in Backups, Len(chain[Dom[b]]) > 0,
         chain' = [chain EXCEPT ![Dom[b]] = SubSeq(@, 1, Len(@) - 1)],
         chain[Dom[b]][Len(chain[Dom[b]])] = b, run'[b] \notin Active,
         \A c \in Backups : run'[c] \in Active => run[c] \in Active
  PROVE  Held'
<1> SUFFICES ASSUME NEW c \in Backups, run'[c] \in Active
             PROVE  \E i \in 1..Len(chain'[Dom[c]]) : chain'[Dom[c]][i] = c
  BY DEF Held
<1>1. PICK i \in 1..Len(chain[Dom[c]]) : chain[Dom[c]][i] = c
  BY DEF Held
<1>2. CASE Dom[c] = Dom[b]
  <2>1. i # Len(chain[Dom[b]])
    BY <1>1, <1>2
  <2>2. /\ Len(chain[Dom[b]]) \in Nat /\ Len(chain'[Dom[b]]) = Len(chain[Dom[b]]) - 1
        /\ \A j \in 1..(Len(chain[Dom[b]]) - 1) : chain'[Dom[b]][j] = chain[Dom[b]][j]
    BY Shortened
  <2>3. i \in 1..(Len(chain[Dom[b]]) - 1)
    BY <1>1, <1>2, <2>1, <2>2
  <2>4. i \in 1..Len(chain'[Dom[b]]) /\ chain'[Dom[b]][i] = c
    BY <1>1, <1>2, <2>2, <2>3
  <2> QED BY <1>2, <2>4
<1>3. CASE Dom[c] # Dom[b]
  <2>1. chain'[Dom[c]] = chain[Dom[c]]
    BY <1>3, Shortened, DomFacts
  <2> QED BY <1>1, <2>1
<1> QED BY <1>2, <1>3

----------------------------------------------------------------------------
(* Types *)

LEMMA StepType ==
  ASSUME TypeOK, Placed, Held, [Next]_vars PROVE TypeOK' /\ Placed' /\ Held'
<1> USE BackupsAssumption, BoundsAssumption, SameGroup, DomFacts DEF TypeOK, Placed
<1>1. CASE UNCHANGED vars
  BY <1>1 DEF vars, main, workers, Held
<1>2. CASE Submit
  <2>1. PICK b \in Backups : /\ seen' = seen \cup {Obj[b]} /\ futures' = Append(futures, b)
                             /\ run' = [run EXCEPT ![b] = "queued"]
    BY <1>2 DEF Submit
  <2>2. futures' \in Seq(Backups)
    BY <2>1, AppendProperties
  <2> QED BY <1>2, <2>1, <2>2 DEF Submit, Held, Active
<1>3. CASE Submitted \/ While \/ Join \/ Wait \/ Exit
  BY <1>3 DEF Submitted, While, Join, Wait, Exit, Ended, Held, workers
<1>4. CASE Collect
  BY <1>4 DEF Collect, Ended, Held, workers
<1>5. CASE CancelFuture
  <2>1. CASE pos <= Len(futures) /\ run[futures[pos]] = "queued"
    <3>1. futures[pos] \in Backups /\ run' = [run EXCEPT ![futures[pos]] = "cancelled"]
      BY <1>5, <2>1 DEF CancelFuture
    <3>2. run' \in [Backups -> Running \cup Over \cup {"none", "queued"}]
      BY <3>1 DEF Over
    <3>3. Held'
      BY <1>5, <3>1, <2>1 DEF CancelFuture, Held, Active
    <3> QED BY <1>5, <2>1, <3>2, <3>3 DEF CancelFuture
  <2>2. CASE ~(pos <= Len(futures) /\ run[futures[pos]] = "queued")
    <3>1. run' = run /\ pos' \in Nat
      BY <1>5, <2>2 DEF CancelFuture
    <3> QED BY <1>5, <3>1 DEF CancelFuture, Held
  <2> QED BY <2>1, <2>2
<1>6. CASE SignalBackup
  <2>1. pos' \in Nat \ {0} /\ pc' \in {"signal", "wait"}
    BY <1>6 DEF SignalBackup
  <2>2. flag' \in [Backups -> BOOLEAN]
    <3>1. flag' = flag \/ flag' = [flag EXCEPT ![futures[pos]] = TRUE]
      BY <1>6 DEF SignalBackup
    <3> QED BY <3>1
  <2> QED BY <1>6, <2>1, <2>2 DEF SignalBackup, Held
<1>11. CASE StartNext
  <2>1. pos \in Backups /\ run' = [run EXCEPT ![pos] = "begin"]
    BY <1>11 DEF StartNext, Backups
  <2>2. Held'
    BY <1>11, <2>1 DEF StartNext, SequenceStep, Held, Active
  <2> QED BY <1>11, <2>1, <2>2 DEF StartNext, SequenceStep, Running
<1>12. CASE BackupEnds \/ SequenceEnds
  <2>1. pos \in Nat /\ (BackupEnds => pos \in Backups)
    BY <1>12 DEF BackupEnds, Turn, Over, Backups
  <2>2. pos' \in Nat /\ errors' \in SUBSET Doms
    BY <1>12, <2>1 DEF BackupEnds, SequenceEnds
  <2> QED BY <1>12, <2>2 DEF BackupEnds, SequenceEnds, SequenceStep, Held, Ended
<1>7. CASE Interrupt
  BY <1>7 DEF Interrupt, Held, Ended, workers
<1>8. CASE InterruptSequence
  <2>1. CASE Turn \in Over \cup {"none"}
    BY <1>8, <2>1 DEF InterruptSequence, Held, Ended, Over
  <2>2. CASE Turn \notin Over \cup {"none"}
    <3>1. pos \in Backups /\ Turn = run[pos]
      BY <2>2 DEF Turn, Backups
    <3>2. /\ run' \in [Backups -> Running \cup Over \cup {"none", "queued"}]
          /\ run'[pos] \in Active => run[pos] \in Active
          /\ \A b \in Backups : b # pos => run'[b] = run[b]
      BY <1>8, <2>2, <3>1 DEF InterruptSequence, Running, Over, Active
    <3>5. /\ pc' \in {"sequence", "raised"} /\ exc' \in {"none", "error", "interrupt"}
          /\ interrupts' \in 0..MaxInterrupts
          /\ UNCHANGED <<seen, futures, pos, errors, registrer, flag, fails, lost>>
      BY <1>8, <2>2 DEF InterruptSequence
    <3>6. cut' \in SUBSET Backups
      <4>1. cut' = cut \/ cut' = cut \cup {pos}
        BY <1>8, <2>2 DEF InterruptSequence
      <4> QED BY <3>1, <4>1
    <3>3. CASE chain' = chain
      <4>1. Held'
        BY <3>1, <3>2, <3>3 DEF Held
      <4> QED BY <3>2, <3>3, <3>5, <3>6, <4>1 DEF Ended
    <3>4. CASE chain' = [chain EXCEPT ![Dom[pos]] = Append(@, pos)]
      <4>1. Held' /\ chain' \in [Doms -> Seq(Backups)]
        BY <3>1, <3>2, <3>4, Appended, HeldAppended
      <4> QED BY <3>2, <3>5, <3>6, <4>1 DEF Ended
    <3> QED BY <1>8, <2>2, <3>3, <3>4 DEF InterruptSequence
  <2> QED BY <2>1, <2>2
<1>9. CASE \E b \in Backups : Pick(b)
  <2>1. PICK b \in Backups : Pick(b)
    BY <1>9
  <2>2. UNCHANGED <<main, flag, chain, fails, lost, cut>> /\ run' = [run EXCEPT ![b] = "begin"]
    BY <2>1, PickEffect
  <2>3. run' \in [Backups -> Running \cup Over \cup {"none", "queued"}]
    BY <2>2 DEF Running
  <2>4. Held'
    BY <2>2 DEF Held, Active
  <2> QED BY <2>2, <2>3, <2>4 DEF main
<1>10. CASE \E b \in Backups : Worker(b)
  <2>1. PICK b \in Backups : Worker(b)
    BY <1>10
  <2>2. /\ UNCHANGED <<main, cut>> /\ run[b] \in Running
        /\ run'[b] \in Running \cup {"ok", "failed"} /\ run' = [run EXCEPT ![b] = run'[b]]
    BY <2>1, WorkerEffect
  <2>3. run' \in [Backups -> Running \cup Over \cup {"none", "queued"}]
    BY <2>2 DEF Over
  <2>4. CASE Begin(b) \/ SnapshotFails(b) \/ Copied(b) \/ CopyStops(b)
    <3>1. /\ chain' = chain /\ flag' \in [Backups -> BOOLEAN] /\ lost' \in SUBSET Backups
          /\ fails' \in 0..MaxFails /\ (run'[b] \in Active => run[b] \in Active)
      <4>1. CASE Begin(b) \/ Copied(b)
        BY <4>1 DEF Begin, Copied, Active
      <4>2. CASE SnapshotFails(b) \/ CopyStops(b)
        BY <4>2 DEF SnapshotFails, CopyStops, Active
      <4> QED BY <2>4, <4>1, <4>2
    <3>2. Held'
      BY <2>2, <3>1 DEF Held
    <3> QED BY <2>2, <2>3, <3>1, <3>2 DEF main
  <2>5. CASE Snapshot(b)
    <3>1. chain' = [chain EXCEPT ![Dom[b]] = Append(@, b)] /\ UNCHANGED <<flag, fails, lost>>
      BY <2>5 DEF Snapshot
    <3>2. chain' \in [Doms -> Seq(Backups)]
      BY <3>1, Appended
    <3>3. Held'
      BY <2>2, <3>1, HeldAppended
    <3> QED BY <2>2, <2>3, <3>1, <3>2, <3>3 DEF main
  <2>6. CASE Merge(b)
    <3>1. Len(chain[Dom[b]]) > 0 /\ UNCHANGED <<flag, fails, lost>> /\ run'[b] \notin Active
      BY <2>6 DEF Merge, Held, Active
    <3>2. CASE chain' = chain
      <4>1. Held'
        BY <2>2, <3>1, <3>2 DEF Held
      <4> QED BY <2>2, <2>3, <3>1, <3>2, <4>1 DEF main
    <3>3. CASE /\ chain[Dom[b]][Len(chain[Dom[b]])] = b
               /\ chain' = [chain EXCEPT ![Dom[b]] = SubSeq(@, 1, Len(@) - 1)]
      <4>1. chain' \in [Doms -> Seq(Backups)]
        BY <3>1, <3>3, Shortened
      <4>2. Held'
        BY <2>2, <3>1, <3>3, HeldShortened
      <4> QED BY <2>2, <2>3, <3>1, <4>1, <4>2 DEF main
    <3> QED BY <2>6, <3>2, <3>3 DEF Merge
  <2> QED BY <2>1, <2>4, <2>5, <2>6 DEF Worker
<1> QED
  BY <1>1, <1>2, <1>3, <1>4, <1>5, <1>6, <1>7, <1>8, <1>9, <1>10, <1>11, <1>12
  DEF Next, Main

LEMMA InitType == Init => TypeOK /\ Placed /\ Held
<1> SUFFICES ASSUME Init PROVE TypeOK /\ Placed /\ Held
  OBVIOUS
<1>1. futures \in Seq(Backups) /\ \A m \in Doms : chain[m] \in Seq(Backups)
  BY EmptySeq DEF Init
<1> QED BY <1>1, BoundsAssumption DEF Init, TypeOK, Placed, Held, Ended, Active

\* TypeOK for any group: what Merge looks at is there.
THEOREM TypeCorrect == Spec => []TypeOK
<1>1. TypeOK /\ Placed /\ Held /\ [Next]_vars => (TypeOK /\ Placed /\ Held)'
  BY StepType
<1> QED BY InitType, <1>1, PTL DEF Spec

----------------------------------------------------------------------------
(* Who has been submitted *)

\* What a step of a thread leaves as it is.
LEMMA ThreadStep ==
  ASSUME TypeOK, NEW b \in Backups, Pick(b) \/ Worker(b)
  PROVE  /\ UNCHANGED <<main, cut, group>>
         /\ run[b] \in Running \cup {"queued"} /\ run'[b] \in Running \cup {"ok", "failed"}
         /\ \A c \in Backups : c # b => run'[c] = run[c]
         /\ \A c \in Backups : Aware(c) => Aware(c)'
<1>1. CASE Pick(b)
  BY <1>1, PickEffect DEF TypeOK, Aware, Running, Over
<1>2. CASE Worker(b)
  BY <1>2, WorkerEffect DEF TypeOK, Aware, Running, Over
<1> QED BY <1>1, <1>2

\* The futures are backups of the group.
LEMMA QueueFacts ==
  ASSUME TypeOK
  PROVE  /\ Len(futures) \in Nat /\ Queue \subseteq Backups
         /\ \A i \in 1..Len(futures) : futures[i] \in Backups /\ futures[i] \in Queue
BY LenProperties, ElementOfSeq DEF TypeOK, Queue

\* A future for one backup of an object that has none.
LEMMA SubmitEffect ==
  ASSUME TypeOK, Submit
  PROVE  \E b \in Backups :
           /\ Obj[b] \notin seen /\ seen' = seen \cup {Obj[b]} /\ run' = [run EXCEPT ![b] = "queued"]
           /\ Len(futures') = Len(futures) + 1 /\ futures'[Len(futures) + 1] = b
           /\ \A i \in 1..Len(futures) : futures'[i] = futures[i]
           /\ Queue' = Queue \cup {b}
           /\ pc = "submit"
           /\ UNCHANGED <<pc, pos, exc, errors, registrer, interrupts, flag, chain, fails, lost, cut, group>>
<1>1. PICK first, b \in Backups :
        /\ Obj[first] \notin seen /\ Obj[b] = Obj[first] /\ seen' = seen \cup {Obj[b]}
        /\ futures' = Append(futures, b) /\ run' = [run EXCEPT ![b] = "queued"]
  BY DEF Submit
<1>2. /\ Len(futures') = Len(futures) + 1 /\ futures'[Len(futures) + 1] = b
      /\ \A i \in 1..Len(futures) : futures'[i] = futures[i]
  BY <1>1, AppendProperties DEF TypeOK
<1>3. Queue' = Queue \cup {b}
  BY <1>2, QueueFacts DEF Queue
<1> QED BY <1>1, <1>2, <1>3 DEF Submit

LEMMA StepFutures ==
  ASSUME TypeOK, Placed, FuturesInv, [Next]_vars PROVE FuturesInv'
<1> USE SameGroup, QueueFacts DEF FuturesInv, Placed
<1>1. CASE UNCHANGED vars
  BY <1>1 DEF vars, main, workers, Queue
<1>2. CASE Submit
  <2>1. PICK b \in Backups :
           /\ Obj[b] \notin seen /\ seen' = seen \cup {Obj[b]} /\ run' = [run EXCEPT ![b] = "queued"]
           /\ Len(futures') = Len(futures) + 1 /\ futures'[Len(futures) + 1] = b
           /\ \A i \in 1..Len(futures) : futures'[i] = futures[i]
           /\ Queue' = Queue \cup {b} /\ pc = "submit" /\ pc' = pc /\ group' = group
    BY <1>2, SubmitEffect
  <2>2. group.threads # 1
    BY <2>1 DEF Ended
  <2>3. \A c \in Backups : run'[c] = "none" <=> c \notin Queue'
    BY <2>1, <2>2 DEF TypeOK
  <2>4. \A i \in 1..Len(futures') : i = Len(futures) + 1 \/ i \in 1..Len(futures)
    BY <2>1
  <2>5. \A i, j \in 1..Len(futures') : Obj[futures'[i]] = Obj[futures'[j]] => i = j
    BY <2>1, <2>4
  <2>6. \A i \in 1..Len(futures') : Obj[futures'[i]] \in seen'
    BY <2>1, <2>4
  <2> QED BY <2>1, <2>2, <2>3, <2>5, <2>6
<1>3. CASE Submitted \/ While \/ Join \/ Collect \/ Wait \/ Exit \/ Interrupt \/ SignalBackup
  <2>1. UNCHANGED <<futures, seen, run, group>> /\ pc # "sequence" /\ pc' # "sequence"
    BY <1>3 DEF Submitted, While, Join, Collect, Wait, Exit, Interrupt, SignalBackup, workers
  <2>2. pc \in Ended => pc' \in Ended
    BY <1>3 DEF Submitted, While, Join, Collect, Wait, Exit, Interrupt, SignalBackup, Ended
  <2> QED BY <2>1, <2>2 DEF Queue
<1>4. CASE CancelFuture
  <2>1. /\ UNCHANGED <<futures, seen, group>> /\ pc = "cancel" /\ pc' # "sequence"
        /\ \A b \in Backups : run'[b] # "none" <=> run[b] # "none"
    BY <1>4 DEF CancelFuture, TypeOK
  <2> QED BY <2>1 DEF Queue, Ended
<1>5. CASE StartNext \/ BackupEnds \/ SequenceEnds \/ InterruptSequence
  <2>1. UNCHANGED <<futures, seen, group>> /\ pc = "sequence" /\ pc' \in {"sequence"} \cup Ended
    BY <1>5 DEF StartNext, BackupEnds, SequenceEnds, InterruptSequence, SequenceStep, Ended
  <2>2. \A b \in Backups : run'[b] = run[b] \/ run'[b] \in {"begin", "abort", "failed"}
    BY <1>5 DEF StartNext, BackupEnds, SequenceEnds, InterruptSequence, TypeOK
  <2> QED BY <2>1, <2>2
<1>6. CASE \E b \in Backups : Pick(b) \/ Worker(b)
  <2>1. PICK b \in Backups : Pick(b) \/ Worker(b)
    BY <1>6
  <2>2. /\ UNCHANGED <<futures, seen, pc, group>> /\ \A c \in Backups : c # b => run'[c] = run[c]
        /\ run[b] \notin {"none", "cancelled"} /\ run'[b] \notin {"none", "queued", "cancelled"}
    BY <2>1, ThreadStep DEF main, Running
  <2> QED BY <2>2 DEF Queue
<1> QED BY <1>1, <1>2, <1>3, <1>4, <1>5, <1>6 DEF Next, Main

----------------------------------------------------------------------------
(* The main thread with threads *)

\* What is over stays over: no step is left to it.
LEMMA OverStays ==
  ASSUME TypeOK, FuturesInv, [Next]_vars, UNCHANGED futures
  PROVE  AllOver => AllOver'
<1> USE QueueFacts
<1>1. CASE futures' = futures /\ \A b \in Backups : run[b] \in Over => run'[b] \in Over
  BY <1>1 DEF AllOver
<1>2. CASE \E b \in Backups : Pick(b) \/ Worker(b)
  <2>1. PICK b \in Backups : Pick(b) \/ Worker(b)
    BY <1>2
  <2> QED BY <1>1, <2>1, ThreadStep DEF main, Running, Over
<1>3. CASE CancelFuture
  BY <1>1, <1>3 DEF CancelFuture, Over, TypeOK
<1>4. CASE StartNext \/ BackupEnds \/ SequenceEnds \/ InterruptSequence
  <2>1. futures = <<>> /\ futures' = futures
    BY <1>4 DEF FuturesInv, StartNext, BackupEnds, SequenceEnds, InterruptSequence, SequenceStep,
       Ended
  <2> QED BY <2>1 DEF AllOver
<1>5. CASE \/ UNCHANGED vars \/ Submitted \/ While \/ Join \/ Collect \/ Wait \/ Exit
           \/ Interrupt \/ SignalBackup
  BY <1>1, <1>5 DEF vars, main, workers, Submitted, While, Join, Collect, Wait, Exit, Interrupt,
     SignalBackup
<1>6. ~Submit
  BY SubmitEffect
<1> QED BY <1>2, <1>3, <1>4, <1>5, <1>6 DEF Next, Main

LEMMA StepThreads ==
  ASSUME TypeOK, Placed, FuturesInv, ThreadsInv, [Next]_vars PROVE ThreadsInv'
<1> SUFFICES ASSUME group.threads # 1, group'.threads # 1 PROVE ThreadsInv'
  BY SameGroup DEF ThreadsInv
<1>0. pc # "sequence"
  BY DEF FuturesInv
<1> USE <1>0, OverStays DEF ThreadsInv, TypeOK
<1>1. CASE UNCHANGED vars
  BY <1>1 DEF vars, main, workers, AllOver
<1>2. CASE Submit
  <2>1. PICK b \in Backups : /\ run' = [run EXCEPT ![b] = "queued"] /\ pc = "submit"
                             /\ UNCHANGED <<pc, exc, interrupts>>
    BY <1>2, SubmitEffect
  <2> QED BY <2>1
<1>3. CASE Submitted \/ While
  BY <1>3 DEF Submitted, While, workers
<1>4. CASE Join
  BY <1>4 DEF Join, workers
<1>5. CASE Collect
  BY <1>5 DEF Collect, workers
<1>6. CASE Wait \/ Exit
  BY <1>6 DEF Wait, Exit, workers
<1>7. CASE CancelFuture
  BY <1>7 DEF CancelFuture
<1>8. CASE SignalBackup
  BY <1>8 DEF SignalBackup
<1>9. CASE Interrupt
  BY <1>9 DEF Interrupt, workers, Ended
<1>10. CASE \E b \in Backups : Pick(b) \/ Worker(b)
  <2>1. PICK b \in Backups : Pick(b) \/ Worker(b)
    BY <1>10
  <2>2. /\ UNCHANGED main /\ \A c \in Backups : c # b => run'[c] = run[c]
        /\ run'[b] # "cancelled"
    BY <2>1, ThreadStep DEF Running
  <2>3. AllOver => AllOver'
    BY <2>2 DEF main
  <2> QED BY <2>2, <2>3 DEF main
<1> QED BY <1>1, <1>2, <1>3, <1>4, <1>5, <1>6, <1>7, <1>8, <1>9, <1>10
        DEF Next, Main, StartNext, BackupEnds, SequenceEnds, InterruptSequence

LEMMA StepSignal ==
  ASSUME TypeOK, Placed, FuturesInv, SignalInv, [Next]_vars PROVE SignalInv'
<1> USE SameGroup, QueueFacts DEF SignalInv, TypeOK, Placed
<1>1. CASE UNCHANGED vars
  BY <1>1 DEF vars, main, workers, Aware
<1>2. CASE Submit \/ Submitted \/ While \/ Collect \/ Wait \/ Exit
  <2>1. pc' \notin {"cancel", "signal", "wait", "join", "collect"} \/ (pos' = pos /\ pc = "while")
    BY <1>2 DEF Submit, Submitted, While, Collect, Wait, Exit
  <2> QED BY <1>2, <2>1 DEF Submit, Submitted, While, Collect, Wait, Exit
<1>3. CASE Join
  BY <1>3 DEF Join, workers, FuturesInv, Ended
<1>4. CASE CancelFuture
  <2>1. \A b \in Backups : run'[b] = "queued" => run[b] = "queued"
    BY <1>4 DEF CancelFuture
  <2>2. pos \in 1..Len(futures) => run'[futures[pos]] # "queued"
    BY <1>4 DEF CancelFuture
  <2> QED BY <1>4, <2>1, <2>2 DEF CancelFuture
<1>5. CASE SignalBackup
  <2>1. \A b \in Backups : Aware(b) => Aware(b)'
    BY <1>5 DEF SignalBackup, Aware
  <2>2. \A b \in Backups : pos \in 1..Len(futures) /\ b = futures[pos] => Aware(b)'
    <3> SUFFICES ASSUME NEW b \in Backups, pos \in 1..Len(futures), b = futures[pos]
                 PROVE  Aware(b)'
      OBVIOUS
    <3>1. run[b] \in Running \cup Over /\ run' = run
      BY <1>5 DEF SignalBackup, FuturesInv, Ended
    <3>2. CASE run[b] \in Running
      BY <1>5, <3>1, <3>2 DEF SignalBackup, Aware
    <3>3. CASE run[b] \in Over
      BY <3>1, <3>3 DEF Aware
    <3> QED BY <3>1, <3>2, <3>3
  <2> QED BY <1>5, <2>1, <2>2 DEF SignalBackup
<1>6. CASE Interrupt
  BY <1>6 DEF Interrupt, workers, FuturesInv, Ended
<1>7. CASE StartNext \/ BackupEnds \/ SequenceEnds \/ InterruptSequence
  BY <1>7 DEF StartNext, BackupEnds, SequenceEnds, InterruptSequence, FuturesInv
<1>8. CASE \E b \in Backups : Pick(b) \/ Worker(b)
  <2>1. PICK b \in Backups : Pick(b) \/ Worker(b)
    BY <1>8
  <2>2. /\ UNCHANGED main /\ \A c \in Backups : Aware(c) => Aware(c)'
        /\ \A c \in Backups : run'[c] = "queued" => run[c] = "queued"
    BY <2>1, ThreadStep DEF Running
  <2> QED BY <2>2 DEF main
<1> QED BY <1>1, <1>2, <1>3, <1>4, <1>5, <1>6, <1>7, <1>8 DEF Next, Main

----------------------------------------------------------------------------
(* The main thread without *)

LEMMA StepSequence ==
  ASSUME TypeOK, Placed, FuturesInv, SequenceInv, [Next]_vars PROVE SequenceInv'
<1> SUFFICES ASSUME group.threads = 1, group'.threads = 1 PROVE SequenceInv'
  BY SameGroup DEF SequenceInv
<1>0. pc \in {"sequence"} \cup Ended
  BY DEF FuturesInv
<1> USE <1>0, SameGroup DEF SequenceInv, TypeOK, Placed, Ended, Backups
<1>1. CASE UNCHANGED vars
  BY <1>1 DEF vars, main, workers, NoneRuns
<1>2. CASE Exit
  BY <1>2 DEF Exit, workers, NoneRuns
<1>3. CASE StartNext
  BY <1>3 DEF StartNext, SequenceStep
<1>4. CASE BackupEnds
  <2>1. /\ pos \in Backups /\ run[pos] \in Over /\ pc = "sequence"
        /\ UNCHANGED <<run, exc, interrupts>>
    BY <1>4 DEF BackupEnds, SequenceStep, Turn, Over
  <2>2. CASE exc = "interrupt"
    <3>1. UNCHANGED <<pos, errors>> /\ pc' = "raised"
      BY <1>4, <2>2 DEF BackupEnds
    <3>2. NoneRuns'
      BY <2>1 DEF NoneRuns
    <3> QED BY <2>1, <3>1, <3>2
  <2>3. CASE exc # "interrupt"
    <3>1. /\ pos' = pos + 1 /\ pc' = pc /\ errors \subseteq errors'
          /\ run[pos] = "failed" => Dom[pos] \in errors'
      BY <1>4, <2>3 DEF BackupEnds
    <3>2. \A b \in Backups : b < pos' => b < pos \/ b = pos
      BY <2>1, <3>1
    <3>3. \A b \in Backups : b < pos' => run'[b] \in Over /\ (run'[b] = "failed" => Dom'[b] \in errors')
      BY <2>1, <3>1, <3>2
    <3>4. pos' <= NBackups + 1 /\ \A b \in Backups : b > pos' => run'[b] = "none"
      BY <2>1, <3>1, BackupsAssumption
    <3>5. /\ pc' = "sequence" /\ exc' # "interrupt"
          /\ interrupts' > 0 => \E b \in Backups : run'[b] = "failed"
      BY <2>1, <2>3, <3>1
    <3> QED BY <3>3, <3>4, <3>5
  <2> QED BY <2>2, <2>3
<1>5. CASE SequenceEnds
  <2>1. /\ pos > NBackups /\ UNCHANGED <<run, pos, exc, errors, interrupts>>
        /\ pc' \in {"returned", "failure"}
    BY <1>5 DEF SequenceEnds, SequenceStep
  <2>2. NoneRuns'
    BY <2>1, BackupsAssumption DEF NoneRuns
  <2> QED BY <2>1, <2>2
<1>6. CASE InterruptSequence
  <2>1. pc = "sequence" /\ UNCHANGED <<pos, errors>>
    BY <1>6 DEF InterruptSequence
  <2>2. CASE Turn \in Over \cup {"none"}
    <3>1. pc' = "raised" /\ run' = run
      BY <1>6, <2>2 DEF InterruptSequence, Over
    <3>2. NoneRuns'
      BY <2>2, <3>1 DEF NoneRuns, Turn
    <3> QED BY <2>1, <3>1, <3>2
  <2>3. CASE Turn \notin Over \cup {"none"}
    <3>1. pos \in Backups /\ Turn = run[pos]
      BY <2>3 DEF Turn
    <3>2. CASE Turn \in {"copy", "merge"}
      <4>1. run' = [run EXCEPT ![pos] = "abort"] /\ exc' = "interrupt" /\ pc' = pc
        BY <1>6, <3>2 DEF InterruptSequence, Over
      <4> QED BY <2>1, <3>1, <4>1
    <3>3. CASE Turn \notin {"copy", "merge"}
      <4>1. /\ run' = [run EXCEPT ![pos] = "failed"] /\ exc' \in {exc, "interrupt"}
            /\ pc' = "raised" \/ (pc' = pc /\ exc' = exc)
        BY <1>6, <2>3, <3>3 DEF InterruptSequence
      <4>2. NoneRuns'
        BY <3>1, <4>1 DEF NoneRuns, Over
      <4>3. run'[pos] = "failed" /\ \A b \in Backups : b # pos => run'[b] = run[b]
        BY <3>1, <4>1
      <4> QED BY <2>1, <3>1, <4>1, <4>2, <4>3
    <3> QED BY <3>2, <3>3
  <2> QED BY <2>2, <2>3
<1>7. CASE \E b \in Backups : Pick(b) \/ Worker(b)
  <2>1. PICK b \in Backups : Pick(b) \/ Worker(b)
    BY <1>7
  <2>2. b = pos /\ pc = "sequence"
    BY <2>1, ThreadStep DEF Running, Over, NoneRuns
  <2>3. /\ UNCHANGED main /\ \A c \in Backups : c # b => run'[c] = run[c]
        /\ run[b] # "failed" /\ (run[b] = "abort" => run'[b] = "failed")
    BY <2>1, ThreadStep DEF Running, Pick, Worker, Begin, Snapshot, SnapshotFails, Copied,
       CopyStops, Merge
  <2>4. UNCHANGED <<pos, pc, errors, exc, interrupts>> /\ run[pos] \notin Over \cup {"none"}
    BY <2>1, <2>2, <2>3, ThreadStep DEF main, Running, Over
  <2> QED BY <2>2, <2>3, <2>4
<1> QED BY <1>1, <1>2, <1>3, <1>4, <1>5, <1>6, <1>7
        DEF Next, Main, Submit, Submitted, While, Join, Collect, CancelFuture, SignalBackup, Wait,
            Interrupt

----------------------------------------------------------------------------
(* What follows for the group *)

Scheduled == /\ TypeOK /\ Placed /\ Held
             /\ FuturesInv /\ ThreadsInv /\ SignalInv /\ SequenceInv

LEMMA InitScheduled == Init => Scheduled
<1> SUFFICES ASSUME Init PROVE Scheduled
  OBVIOUS
<1>1. TypeOK /\ Placed /\ Held
  BY InitType
<1>2. futures = <<>> /\ Len(futures) = 0 /\ Queue = {}
  BY EmptySeq DEF Init, Queue
<1>3. FuturesInv /\ ThreadsInv /\ SignalInv
  BY <1>2 DEF Init, FuturesInv, ThreadsInv, SignalInv, Ended
<1>4. SequenceInv
  BY BackupsAssumption DEF Init, SequenceInv, Backups, Ended
<1> QED BY <1>1, <1>3, <1>4 DEF Scheduled

LEMMA StepScheduled == Scheduled /\ [Next]_vars => Scheduled'
BY StepType, StepFutures, StepThreads, StepSignal, StepSequence DEF Scheduled

\* When the group comes back nothing runs and nothing is left to run.
LEMMA NothingRuns == Scheduled => NoneAbandoned
<1> SUFFICES ASSUME Scheduled, pc \in Ended, interrupts < 2 \/ group.threads = 1
             PROVE  NoneRuns
  BY DEF NoneAbandoned
<1>1. CASE group.threads = 1
  BY <1>1 DEF Scheduled, SequenceInv
<1>2. CASE group.threads # 1
  <2>1. AllOver
    BY <1>2, BoundsAssumption DEF Scheduled, ThreadsInv, Ended, TypeOK
  <2>2. \A b \in Backups : run[b] # "none" => \E i \in 1..Len(futures) : futures[i] = b
    BY <1>2 DEF Scheduled, FuturesInv, Queue
  <2> QED BY <2>1, <2>2 DEF AllOver, NoneRuns
<1> QED BY <1>1, <1>2

\* NoneAbandoned: once the group comes back and takes the event registrer away, no
\* backup runs that would wait for its events, nor can one begin, however many
\* backups, threads and failures there are.
THEOREM NoneLeft == Spec => []NoneAbandoned
BY InitScheduled, StepScheduled, NothingRuns, PTL DEF Spec

\* SignalledAll: after its two loops the except clause has reached every backup.
THEOREM AllSignalled == Spec => []SignalledAll
<1>1. Scheduled => SignalledAll
  <2> SUFFICES ASSUME Scheduled, pc = "wait", NEW b \in Backups
               PROVE  run[b] \in Over \cup {"none"} \/ flag[b] \/ b \in lost
    BY DEF SignalledAll
  <2>1. run[b] # "none" => \E i \in 1..Len(futures) : futures[i] = b
    BY DEF Scheduled, FuturesInv, Queue, Ended
  <2> QED BY <2>1 DEF Scheduled, SignalInv, Aware
<1> QED BY <1>1, InitScheduled, StepScheduled, PTL DEF Spec

\* As many futures as backups, of different objects: every backup has one.
LEMMA AllSubmitted ==
  ASSUME TypeOK, FuturesInv, Len(futures) = NBackups PROVE Queue = Backups
<1>1. IsFiniteSet(Backups)
  BY FS_Interval, BackupsAssumption DEF Backups
<1>2. futures \in Injection(Backups, Backups)
  BY LenProperties DEF TypeOK, FuturesInv, Backups, Injection, IsInjective
<1>3. futures \in Surjection(Backups, Backups)
  BY <1>1, <1>2, FS_Injection
<1> QED BY <1>3, QueueFacts DEF Surjection, Queue, Backups

LEMMA StepReported ==
  ASSUME Scheduled, FailuresReported, [Next]_vars PROVE FailuresReported'
<1> USE SameGroup DEF Scheduled, TypeOK
<1>1. CASE Collect
  <2>1. /\ errors' = {Dom[b] : b \in {c \in Backups : run[c] = "failed"}}
        /\ pc' = (IF errors' = {} THEN "returned" ELSE "failure")
        /\ UNCHANGED <<run, interrupts>> /\ pc = "collect"
    BY <1>1 DEF Collect, workers
  <2>2. group.threads # 1 /\ interrupts = 0 /\ AllOver /\ Len(futures) = NBackups
    BY <2>1, BoundsAssumption DEF ThreadsInv, FuturesInv, Ended
  <2>3. \A b \in Backups : \E i \in 1..Len(futures) : futures[i] = b
    BY <2>2, AllSubmitted DEF Queue
  <2>4. \A b \in Backups : run[b] \in {"ok", "failed"}
    BY <2>1, <2>2, <2>3 DEF AllOver, ThreadsInv, Over
  <2>5. \A b \in Backups : run[b] = "failed" => Dom[b] \in errors'
    BY <2>1
  <2> QED BY <2>1, <2>2, <2>4, <2>5 DEF FailuresReported
<1>2. CASE SequenceEnds
  <2>1. /\ pc = "sequence" /\ pos > NBackups /\ UNCHANGED <<run, errors, interrupts>>
        /\ pc' = (IF errors = {} THEN "returned" ELSE "failure")
    BY <1>2 DEF SequenceEnds, SequenceStep
  <2>2. group.threads = 1 /\ \A b \in Backups : run[b] # "cancelled"
    BY <2>1 DEF FuturesInv
  <2>3. \A b \in Backups : run[b] \in {"ok", "failed"} /\ (run[b] = "failed" => Dom[b] \in errors)
    BY <2>1, <2>2, BackupsAssumption DEF SequenceInv, Backups, Over, Placed
  <2>4. interrupts > 0 => \E b \in Backups : run[b] = "failed"
    BY <2>1, <2>2, BackupsAssumption DEF SequenceInv, Placed
  <2> QED BY <2>1, <2>3, <2>4, BoundsAssumption DEF FailuresReported
<1>3. CASE \E b \in Backups : Pick(b) \/ Worker(b)
  <2>1. PICK b \in Backups : Pick(b) \/ Worker(b)
    BY <1>3
  <2>2. UNCHANGED main /\ run[b] \in Running \cup {"queued"}
    BY <2>1, ThreadStep
  <2>3. ~NoneRuns
    BY <2>2 DEF NoneRuns, Running, Over
  <2>4. pc \notin {"returned", "failure"}
    BY <2>3, NothingRuns, BoundsAssumption DEF NoneAbandoned, Ended, ThreadsInv
  <2> QED BY <2>2, <2>4 DEF FailuresReported, main
<1>4. CASE UNCHANGED vars
  BY <1>4 DEF FailuresReported, vars, main, workers
<1>5. CASE \/ StartNext \/ BackupEnds \/ InterruptSequence \/ Submit \/ Submitted \/ While \/ Join
           \/ CancelFuture \/ SignalBackup \/ Wait \/ Exit \/ Interrupt
  <2>1. pc' \notin {"returned", "failure"}
    BY <1>5 DEF StartNext, BackupEnds, InterruptSequence, Submit, Submitted, While, Join,
       CancelFuture, SignalBackup, Wait, Exit, Interrupt
  <2> QED BY <2>1 DEF FailuresReported
<1> QED BY <1>1, <1>2, <1>3, <1>4, <1>5 DEF Next, Main

\* FailuresReported: no failed backup and no Ctrl-C is passed over in silence, by a
\* group that comes back or by the exception it raises.
THEOREM Reported == Spec => []FailuresReported
<1>1. Init => FailuresReported
  BY DEF Init, FailuresReported
<1>2. Scheduled /\ FailuresReported /\ [Next]_vars => FailuresReported'
  BY StepReported
<1> QED BY <1>1, <1>2, InitScheduled, StepScheduled, PTL DEF Spec

----------------------------------------------------------------------------
(* What follows for the domains *)

LEMMA OneRuns == Scheduled /\ OneObject => OneAtATime
<1> SUFFICES ASSUME Scheduled, OneObject, NEW b \in Backups, NEW c \in Backups, b # c,
                    run[b] \in Running, run[c] \in Running
             PROVE  Dom[b] # Dom[c]
  BY DEF OneAtATime
<1>1. CASE group.threads = 1
  <2>1. b = pos /\ c = pos
    BY <1>1 DEF Scheduled, SequenceInv, Placed, Backups, Running, Over
  <2> QED BY <2>1
<1>2. CASE group.threads # 1
  <2>1. PICK i \in 1..Len(futures), j \in 1..Len(futures) : futures[i] = b /\ futures[j] = c
    BY <1>2 DEF Scheduled, FuturesInv, Queue, Running
  <2>2. Obj[b] # Obj[c]
    BY <2>1 DEF Scheduled, FuturesInv
  <2> QED BY <1>2, <2>2 DEF OneObject, Obj, Dom, Scheduled, TypeOK
<1> QED BY <1>1, <1>2

LEMMA StepChain ==
  ASSUME Scheduled, OneAtATime, ChainInv, [Next]_vars PROVE ChainInv'
<1> USE SameGroup DEF Scheduled
<1>1. ASSUME UNCHANGED <<chain, cut>>,
             \A b \in Backups : run[b] \in Active => run'[b] \in Active
      PROVE  ChainInv'
  <2> SUFFICES ASSUME NEW m \in Doms, \A c \in cut : Dom[c] # m
               PROVE  /\ Len(chain[m]) <= 1
                      /\ \A i \in 1..Len(chain[m]) :
                           Dom[chain[m][i]] = m /\ run'[chain[m][i]] \in Active
    BY <1>1 DEF ChainInv
  <2>1. \A i \in 1..Len(chain[m]) : chain[m][i] \in Backups
    BY ElementOfSeq DEF TypeOK
  <2> QED BY <1>1, <2>1 DEF ChainInv
<1>2. CASE \/ UNCHANGED vars \/ Submitted \/ While \/ Join \/ Collect \/ Wait \/ Exit
           \/ Interrupt \/ SignalBackup \/ BackupEnds \/ SequenceEnds
  BY <1>1, <1>2 DEF vars, main, workers, Submitted, While, Join, Collect, Wait, Exit, Interrupt,
     SignalBackup, BackupEnds, SequenceEnds, SequenceStep
<1>3. CASE CancelFuture \/ StartNext
  BY <1>1, <1>3 DEF CancelFuture, StartNext, SequenceStep, TypeOK, Active
<1>4. CASE Submit
  <2>1. PICK b \in Backups : /\ Obj[b] \notin seen /\ run' = [run EXCEPT ![b] = "queued"]
                             /\ pc = "submit" /\ UNCHANGED <<chain, cut>>
    BY <1>4, SubmitEffect
  <2>2. run[b] = "none"
    BY <2>1 DEF FuturesInv, Queue, Ended
  <2> QED BY <1>1, <2>1, <2>2 DEF TypeOK, Active
<1>5. CASE InterruptSequence
  <2>1. CASE Turn \in Over \cup {"none"}
    BY <1>1, <1>5, <2>1 DEF InterruptSequence, Over
  <2>2. CASE Turn \in {"copy", "merge"}
    BY <1>1, <1>5, <2>2 DEF InterruptSequence, TypeOK, Active, Over
  <2>3. CASE Turn = "begin"
    BY <1>1, <1>5, <2>3 DEF InterruptSequence, Turn, TypeOK, Active, Over
  <2>4. CASE Turn \in {"snapshot", "abort"}
    <3>1. /\ pos \in Backups /\ cut' = cut \cup {pos}
          /\ \A b \in Backups : b # pos => run'[b] = run[b]
          /\ \A m \in Doms : m # Dom[pos] => chain'[m] = chain[m]
      <4>1. pos \in Backups
        BY <2>4 DEF Turn, TypeOK, Placed, Backups
      <4>2. /\ cut' = cut \cup {pos} /\ run' = [run EXCEPT ![pos] = "failed"]
            /\ chain' = [chain EXCEPT ![Dom[pos]] = Append(@, pos)] \/ chain' = chain
        BY <1>5, <2>4 DEF InterruptSequence, Over
      <4> QED BY <4>1, <4>2 DEF TypeOK
    <3>2. SUFFICES ASSUME NEW m \in Doms, \A c \in cut' : Dom[c] # m
                   PROVE  /\ Len(chain'[m]) <= 1
                          /\ \A i \in 1..Len(chain'[m]) :
                               Dom[chain'[m][i]] = m /\ run'[chain'[m][i]] \in Active
      BY DEF ChainInv
    <3>3. m # Dom[pos] /\ chain'[m] = chain[m] /\ \A c \in cut : Dom[c] # m
      BY <3>1, <3>2
    <3>4. \A i \in 1..Len(chain[m]) : chain[m][i] \in Backups
      BY ElementOfSeq DEF TypeOK
    <3> QED BY <3>1, <3>3, <3>4 DEF ChainInv
  <2>5. Turn \in Running \cup Over \cup {"none"}
    <3>1. group.threads = 1
      BY <1>5 DEF InterruptSequence, FuturesInv
    <3> QED BY <3>1 DEF Turn, FuturesInv, TypeOK, Placed, Backups
  <2> QED BY <2>1, <2>2, <2>3, <2>4, <2>5 DEF Running
<1>6. ASSUME NEW b \in Backups, Pick(b) \/ Worker(b) PROVE ChainInv'
  <2>1. /\ cut' = cut /\ run[b] \in Running \cup {"queued"}
        /\ \A c \in Backups : c # b => run'[c] = run[c]
    BY <1>6, ThreadStep
  <2>2. CASE Pick(b) \/ Begin(b) \/ SnapshotFails(b) \/ Copied(b) \/ CopyStops(b)
    BY <1>1, <2>1, <2>2 DEF Pick, Begin, SnapshotFails, Copied, CopyStops, TypeOK, Active
  <2>3. CASE Snapshot(b)
    <3>1. /\ run[b] = "snapshot" /\ run'[b] = "copy"
          /\ chain' = [chain EXCEPT ![Dom[b]] = Append(@, b)]
      BY <2>3 DEF Snapshot, TypeOK
    <3>2. SUFFICES ASSUME NEW m \in Doms, \A c \in cut : Dom[c] # m
                   PROVE  /\ Len(chain'[m]) <= 1
                          /\ \A i \in 1..Len(chain'[m]) :
                               Dom[chain'[m][i]] = m /\ run'[chain'[m][i]] \in Active
      BY <2>1 DEF ChainInv
    <3>3. \A i \in 1..Len(chain[m]) : /\ chain[m][i] \in Backups /\ chain[m][i] # b
                                      /\ Dom[chain[m][i]] = m /\ run'[chain[m][i]] \in Active
      BY <2>1, <3>1, <3>2, ElementOfSeq DEF TypeOK, ChainInv, Active
    <3>4. CASE m # Dom[b]
      BY <3>1, <3>2, <3>3, <3>4, Appended DEF ChainInv
    <3>5. CASE m = Dom[b]
      <4>1. Len(chain[m]) = 0
        BY <3>1, <3>2, <3>3, <3>5, Appended DEF ChainInv, OneAtATime, Running, Active
      <4> QED BY <3>1, <3>5, <4>1, Appended DEF Active
    <3> QED BY <3>4, <3>5
  <2>4. CASE Merge(b)
    <3>1. /\ run[b] \in Active /\ Len(chain[Dom[b]]) > 0
      BY <2>4 DEF Merge, Held, Active, TypeOK
    <3>2. SUFFICES ASSUME NEW m \in Doms, \A c \in cut : Dom[c] # m
                   PROVE  /\ Len(chain'[m]) <= 1
                          /\ \A i \in 1..Len(chain'[m]) :
                               Dom[chain'[m][i]] = m /\ run'[chain'[m][i]] \in Active
      BY <2>1 DEF ChainInv
    <3>3. /\ Len(chain[m]) <= 1
          /\ \A i \in 1..Len(chain[m]) : /\ chain[m][i] \in Backups /\ Dom[chain[m][i]] = m
                                         /\ run[chain[m][i]] \in Active
      BY <3>2, ElementOfSeq DEF TypeOK, ChainInv
    <3>4. CASE m # Dom[b]
      <4>1. chain'[m] = chain[m]
        BY <2>4, <3>4 DEF Merge, TypeOK
      <4> QED BY <2>1, <3>3, <3>4, <4>1
    <3>5. CASE m = Dom[b]
      <4>1. Len(chain[m]) = 1 /\ chain[m][1] = b
        <5>1. PICK i \in 1..Len(chain[m]) : chain[m][i] = b
          BY <3>1, <3>5 DEF Held
        <5>2. Len(chain[m]) \in Nat
          BY LenProperties DEF TypeOK
        <5>3. Len(chain[m]) = 1 /\ i = 1
          <6> DEFINE n == Len(chain[m])
          <6>1. n <= 1
            BY <3>3
          <6>2. n \in Nat /\ i \in 1..n
            BY <5>1, <5>2
          <6> HIDE DEF n
          <6>3. n = 1 /\ i = 1
            BY <6>1, <6>2
          <6> QED BY <6>3 DEF n
        <5> QED BY <5>1, <5>3
      <4>2. chain' = [chain EXCEPT ![Dom[b]] = SubSeq(@, 1, Len(@) - 1)]
        BY <2>4, <3>5, <4>1 DEF Merge
      <4>3. Len(chain'[m]) = Len(chain[m]) - 1
        BY <3>1, <3>5, <4>2, Shortened
      <4>4. Len(chain'[m]) = 0
        BY <4>1, <4>3
      <4> QED BY <4>4
    <3> QED BY <3>4, <3>5
  <2> QED BY <1>6, <2>2, <2>3, <2>4 DEF Worker
<1> QED BY <1>2, <1>3, <1>4, <1>5, <1>6 DEF Next, Main

\* OneAtATime: where two backups of a domain hold one virDomain object, as equal
\* keys of backups_by_domain, they never run at once, as docs/backup.rst says.
THEOREM OneDomainOnce == ASSUME OneObject PROVE Spec => []OneAtATime
<1>1. Scheduled => OneAtATime
  BY OneRuns
<1> QED BY <1>1, InitScheduled, StepScheduled, PTL DEF Spec

\* DomainsBackOnDisks: such a group leaves every domain on its own disks, whatever
\* failed, but for domains whose cleaning Ctrl-C has broken off.
THEOREM BackOnDisks == ASSUME OneObject PROVE Spec => []DomainsBackOnDisks
<1>1. Init => ChainInv
  <2> SUFFICES ASSUME Init PROVE ChainInv
    OBVIOUS
  <2>1. \A m \in Doms : chain[m] = <<>> /\ Len(chain[m]) = 0
    BY EmptySeq DEF Init
  <2> QED BY <2>1 DEF ChainInv
<1>2. Scheduled /\ ChainInv /\ [Next]_vars => ChainInv'
  BY OneRuns, StepChain
<1>3. Scheduled /\ ChainInv => DomainsBackOnDisks
  <2> SUFFICES ASSUME Scheduled, ChainInv, NoneRuns, NEW m \in Doms, NEW i \in DOMAIN chain[m]
               PROVE  \E c \in cut : Dom[c] = m
    BY DEF DomainsBackOnDisks
  <2>1. i \in 1..Len(chain[m]) /\ chain[m][i] \in Backups
    BY LenProperties, ElementOfSeq DEF Scheduled, TypeOK
  <2>2. run[chain[m][i]] \notin Active
    BY <2>1 DEF NoneRuns, Over, Active
  <2> QED BY <2>1, <2>2 DEF ChainInv
<1> QED BY <1>1, <1>2, <1>3, InitScheduled, StepScheduled, PTL DEF Spec
=============================================================================
