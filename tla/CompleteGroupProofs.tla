------------------------ MODULE CompleteGroupProofs ------------------------
(***************************************************************************)
(* What TLAPS proves about CompleteGroup, for any backups at any dates, any *)
(* retention policy and any packagers.                                     *)
(***************************************************************************)
EXTENDS CompleteGroup, FiniteSetTheorems, SequenceTheorems, TLAPS

\* Only the removal of the outdated has something to remove.
ControlInv == pc # "delete" => rm = {} /\ cur = 0

\* The removal of the outdated goes from what is listed to what is kept.
RetainInv ==
  /\ pc = "retain" => \A b \in listed : defn[b] # "absent"
  /\ pc = "delete" => /\ rm \cap Kept(listed) = {}
                      /\ \A b \in listed : defn[b] = "absent" <=> b \notin Kept(listed) \cup rm

\* What a clean() has left is what it would keep.
SettledInv ==
  /\ Kept(settled) = settled
  /\ KeptStaysKept

----------------------------------------------------------------------------
(* Types *)

LEMMA StepType == ASSUME TypeOK, ControlInv, [Next]_vars PROVE TypeOK' /\ ControlInv'
<1> USE BoundAssumption DEF TypeOK, ControlInv, files, command, history
<1>1. CASE BackupCompletes \/ BackupDies
  <2>1. PICK b \in Backups, r \in Remains : b > last /\ Leaves(b, r)
    BY <1>1 DEF BackupCompletes, BackupDies, Left, Complete, Remains
  <2>2. faults' \in 0..MaxFaults /\ pc = "idle"
    BY <1>1 DEF BackupCompletes, BackupDies
  <2> QED BY <2>1, <2>2 DEF Leaves, Remains, Backups
<1>2. CASE DomainRestarts
  <2>1. last \in Nat
    BY DEF Backups
  <2> QED BY <1>2, <2>1 DEF DomainRestarts
<1>3. CASE Crash \/ DeleteRaises \/ CleanEnds
  BY <1>3 DEF Crash, DeleteRaises, CleanEnds, Stop
<1>4. CASE Retain
  BY <1>4 DEF Retain
<1>5. CASE DeleteFirst
  BY <1>5 DEF DeleteFirst
<1>6. CASE DeleteLast
  BY <1>6 DEF DeleteLast
<1>7. CASE DeleteDefn
  BY <1>7 DEF DeleteDefn
<1>8. CASE Retained
  BY <1>8 DEF Retained, Stop
<1>9. CASE CleanBroken
  BY <1>9 DEF CleanBroken
<1>10. CASE \E m \in {"all", "broken", "complete"} : Scan(m)
  BY <1>10 DEF Scan
<1>11. CASE UNCHANGED vars
  BY <1>11 DEF vars
<1> QED BY <1>1, <1>2, <1>3, <1>4, <1>5, <1>6, <1>7, <1>8, <1>9, <1>10, <1>11 DEF Next, CleanStep

LEMMA InitType == Init => TypeOK /\ ControlInv
BY BoundAssumption DEF Init, TypeOK, ControlInv

\* TypeOK for any calendar and policy, with the control it needs.
THEOREM TypeCorrect == Spec => []TypeOK
<1>1. TypeOK /\ ControlInv /\ [Next]_vars => (TypeOK /\ ControlInv)'
  BY StepType
<1> QED BY InitType, <1>1, PTL DEF Spec

----------------------------------------------------------------------------
(* Retention is stable *)

LEMMA FiniteBackups == ASSUME NEW S \in SUBSET Backups PROVE IsFiniteSet(S)
<1>1. IsFiniteSet(1..Len(Date))
  BY DateAssumption, FS_Interval
<1> QED BY <1>1, FS_Subset DEF Backups

\* Finitely many backups have finitely many keys.
LEMMA FiniteKeys ==
  ASSUME NEW S \in SUBSET Backups, NEW p PROVE IsFiniteSet({Key[p][b] : b \in S})
<1> DEFINE f == [b \in S |-> Key[p][b]]
           T == {Key[p][b] : b \in S}
<1>1. f \in Surjection(S, T)
  BY DEF Surjection
<1> HIDE DEF f, T
<1>2. IsFiniteSet(T)
  BY <1>1, FiniteBackups, FS_Surjection
<1> QED BY <1>2 DEF T

\* With fewer groups, those among the last stay among the last.
LEMMA LastOfFewer ==
  ASSUME NEW K, IsFiniteSet(K), NEW L \in SUBSET K, NEW n \in Nat,
         NEW k \in L, k \in LastKeys(K, n)
  PROVE  k \in LastKeys(L, n)
<1> DEFINE A == {l \in K : Before(k, l)}
           B == {l \in L : Before(k, l)}
<1>1. IsFiniteSet(A) /\ B \in SUBSET A
  BY FS_Subset
<1>2. Cardinality(A) \in Nat /\ Cardinality(B) \in Nat /\ Cardinality(B) <= Cardinality(A)
  <2> HIDE DEF A, B
  <2>1. IsFiniteSet(B) /\ Cardinality(B) <= Cardinality(A)
    BY <1>1, FS_Subset
  <2> QED BY <1>1, <2>1, FS_CardinalityType
<1>3. Cardinality(A) < n
  BY DEF LastKeys
<1>4. Cardinality(B) < n
  BY <1>2, <1>3
<1> QED BY <1>4 DEF LastKeys

\* keep_backups applied to what it has kept keeps it all.
LEMMA KeptAgain ==
  ASSUME NEW S \in SUBSET Backups PROVE Kept(S) \subseteq S /\ Kept(Kept(S)) = Kept(S)
<1>1. \A T \in SUBSET Backups : Kept(T) \subseteq T
  BY DEF Kept, Periodic
<1>2. ASSUME NEW p \in Periods, NEW b \in Periodic(S, p) PROVE b \in Periodic(Kept(S), p)
  <2> DEFINE T == Kept(S)
             K == {Key[p][c] : c \in S}
             L == {Key[p][c] : c \in T}
  <2>1. b \in T /\ b \in S /\ T \subseteq S
    BY <1>1, <1>2 DEF Kept
  <2>2. Key[p][b] \in LastKeys(K, Keep[p]) /\ \A c \in S : Key[p][c] = Key[p][b] => b <= c
    BY <1>2 DEF Periodic
  <2>3. L \in SUBSET K /\ Key[p][b] \in L
    BY <2>1
  <2>4. IsFiniteSet(K) /\ Keep[p] \in Nat
    BY FiniteKeys, KeepAssumption
  <2> HIDE DEF T, K, L
  <2>5. Key[p][b] \in LastKeys(L, Keep[p])
    BY <2>2, <2>3, <2>4, LastOfFewer
  <2>6. \A c \in T : Key[p][c] = Key[p][b] => b <= c
    BY <2>1, <2>2
  <2> QED BY <2>1, <2>5, <2>6 DEF Periodic, T, L
<1>3. Kept(S) \subseteq Kept(Kept(S))
  BY <1>2 DEF Kept
<1>4. Kept(S) \in SUBSET Backups
  BY <1>1
<1> QED BY <1>1, <1>3, <1>4

LEMMA StepRetain ==
  ASSUME TypeOK, ControlInv, RetainInv, SettledInv, [Next]_vars
  PROVE  RetainInv' /\ SettledInv'
<1> USE DEF files, command, history
<1>1. listed' = listed => Kept(listed)' = Kept(listed)
  BY DEF Kept, Periodic
<1>2. settled' = settled => Kept(settled)' = Kept(settled)
  BY DEF Kept, Periodic
<1>3. CASE BackupCompletes \/ BackupDies \/ DomainRestarts
  <2>1. pc = "idle" /\ pc' = "idle" /\ settled' = settled
    BY <1>3 DEF BackupCompletes, BackupDies, DomainRestarts, Leaves
  <2> QED BY <1>2, <2>1 DEF RetainInv, SettledInv, KeptStaysKept
<1>4. CASE Crash \/ DeleteRaises \/ CleanEnds
  <2>1. pc' = "idle" /\ settled' = settled
    BY <1>4 DEF Crash, DeleteRaises, CleanEnds, Stop
  <2> QED BY <1>2, <2>1 DEF RetainInv, SettledInv, KeptStaysKept
<1>5. CASE Retain
  <2>1. /\ pc = "retain" /\ pc' = "delete" /\ rm' = listed \ Kept(listed)
        /\ listed' = listed /\ settled' = settled /\ defn' = defn
    BY <1>5 DEF Retain
  <2>2. Kept(listed) \subseteq listed
    BY KeptAgain DEF TypeOK
  <2>3. RetainInv'
    BY <1>1, <2>1, <2>2 DEF RetainInv
  <2>4. SettledInv'
    BY <1>2, <2>1 DEF SettledInv, KeptStaysKept
  <2> QED BY <2>3, <2>4
<1>6. CASE DeleteFirst \/ DeleteLast
  <2>1. UNCHANGED <<pc, rm, listed, settled, defn>>
    BY <1>6 DEF DeleteFirst, DeleteLast
  <2> QED BY <1>1, <1>2, <2>1 DEF RetainInv, SettledInv, KeptStaysKept
<1>7. CASE DeleteDefn
  <2>1. /\ pc = "delete" /\ pc' = "delete" /\ cur # 0 /\ rm' = rm \ {cur}
        /\ listed' = listed /\ settled' = settled /\ defn' = [defn EXCEPT ![cur] = "absent"]
    BY <1>7 DEF DeleteDefn
  <2>2. /\ cur \in rm /\ cur \in listed /\ cur \in Backups
        /\ defn \in [Backups -> {"absent", "torn", "early", "final"}]
    BY <2>1 DEF TypeOK
  <2>3. RetainInv'
    BY <1>1, <2>1, <2>2 DEF RetainInv, TypeOK
  <2>4. SettledInv'
    BY <1>2, <2>1 DEF SettledInv, KeptStaysKept
  <2> QED BY <2>3, <2>4
<1>8. CASE Retained
  <2>1. /\ pc = "delete" /\ rm = {} /\ pc' \in {"idle", "broken"}
        /\ settled' = {b \in listed : defn[b] # "absent"}
    BY <1>8 DEF Retained, Stop
  <2>2. Kept(listed) \subseteq listed /\ Kept(Kept(listed)) = Kept(listed)
    BY KeptAgain DEF TypeOK
  <2>3. settled' = Kept(listed)
    BY <2>1, <2>2 DEF RetainInv
  <2>4. Kept(settled)' = Kept(Kept(listed))
    BY <2>3 DEF Kept, Periodic
  <2> QED BY <2>1, <2>2, <2>3, <2>4 DEF RetainInv, SettledInv, KeptStaysKept
<1>9. CASE CleanBroken
  <2>1. pc' = "broken" /\ settled' = settled
    BY <1>9 DEF CleanBroken
  <2> QED BY <1>2, <2>1 DEF RetainInv, SettledInv, KeptStaysKept
<1>10. CASE \E m \in {"all", "broken", "complete"} : Scan(m)
  <2>1. /\ pc' \in {"retain", "broken"} /\ settled' = settled /\ defn' = defn
        /\ listed' = {b \in Backups : defn[b] \in {"early", "final"}}
    BY <1>10 DEF Scan
  <2> QED BY <1>2, <2>1 DEF RetainInv, SettledInv, KeptStaysKept
<1>11. CASE UNCHANGED vars
  BY <1>1, <1>2, <1>11 DEF vars, RetainInv, SettledInv, KeptStaysKept
<1> QED
  BY <1>3, <1>4, <1>5, <1>6, <1>7, <1>8, <1>9, <1>10, <1>11 DEF Next, CleanStep

Settled == TypeOK /\ ControlInv /\ RetainInv /\ SettledInv

LEMMA AlwaysSettled == Spec => []Settled
<1>1. Init => Settled
  <2> SUFFICES ASSUME Init PROVE Settled
    OBVIOUS
  <2>1. Kept({}) = {}
    BY KeptAgain
  <2>2. settled = {} /\ pc = "idle"
    BY DEF Init
  <2>3. Kept(settled) = settled
    BY <2>1, <2>2
  <2> QED BY <2>2, <2>3, InitType DEF Settled, RetainInv, SettledInv, KeptStaysKept
<1>2. Settled /\ [Next]_vars => Settled'
  BY StepType, StepRetain DEF Settled
<1> QED BY <1>1, <1>2, PTL DEF Spec

\* Retention is stable, for any calendar, also the one of December: what one
\* clean() has kept, the next one keeps, unless there are other backups then.
THEOREM Stable == Spec => []KeptStaysKept
<1>1. Settled => KeptStaysKept
  BY DEF Settled, SettledInv
<1> QED BY AlwaysSettled, <1>1, PTL

----------------------------------------------------------------------------
(* What is outdated *)

\* The backups of one month are of one ISO year: only those of the last days of a
\* December and of the first of a January can fail this.
OneIsoYear ==
  \A b \in Backups, c \in Backups :
    Date[b].year = Date[c].year /\ Date[b].month = Date[c].month =>
      IsoYear(Date[b]) = IsoYear(Date[c])

\* The keys are equal, and sorted, as the hours, days, weeks, months and years are.
KeysAgree(p) ==
  \A b \in Backups, c \in Backups :
    /\ Key[p][b] = Key[p][c] <=> Span[b][p] = Span[c][p]
    /\ Before(Key[p][b], Key[p][c]) <=> Span[b][p] < Span[c][p]

LEMMA DateType ==
  ASSUME NEW b \in Backups
  PROVE  /\ Date[b].year \in Nat /\ Date[b].month \in 1..12 /\ Date[b].week \in 1..53
         /\ Date[b].day \in 1..31 /\ Date[b].hour \in 0..23 /\ Date[b].nth \in Nat
<1> DEFINE D == [year : Nat, month : 1..12, week : 1..53, day : 1..31, hour : 0..23, nth : Nat]
<1>1. Date \in Seq(D) /\ b \in 1..Len(Date)
  BY DateAssumption DEF Backups
<1> HIDE DEF D
<1>2. Date[b] \in D
  BY <1>1, ElementOfSeq
<1> QED BY <1>2 DEF D

\* The keys and the numbers of the periods, written out.
LEMMA Spans ==
  ASSUME NEW b \in Backups
  PROVE  /\ Span[b]["hour"] = Date[b].nth * 24 + Date[b].hour
         /\ Span[b]["day"] = Date[b].nth
         /\ Span[b]["week"] = Date[b].nth \div 7 + Date[b].year * 12 + Date[b].month
         /\ Span[b]["month"] = Date[b].year * 12 + Date[b].month
         /\ Span[b]["year"] = Date[b].year
BY DEF Span

LEMMA FirstOf ==
  ASSUME NEW S, NEW s \in Seq(S), NEW t \in Seq(S), Len(t) <= Len(s),
         \A n \in 1..Len(t) : t[n] = s[n]
  PROVE  SubSeq(s, 1, Len(t)) = t
<1>1. Len(t) \in Nat /\ Len(s) \in Nat /\ \A n \in 1..Len(t) : s[n] \in S
  BY ElementOfSeq
<1>2. /\ SubSeq(s, 1, Len(t)) \in Seq(S) /\ Len(SubSeq(s, 1, Len(t))) = Len(t)
      /\ \A n \in 1..Len(t) : SubSeq(s, 1, Len(t))[n] = t[n]
  BY <1>1, SubSeqProperties
<1> QED BY <1>1, <1>2, SeqEqual

LEMMA Keys ==
  ASSUME NEW b \in Backups
  PROVE  LET d == Date[b]
         IN  /\ Key["year"][b] = <<d.year>>
             /\ Key["month"][b] = <<d.year, d.month>>
             /\ Key["week"][b] = <<d.year, d.month, d.week>>
             /\ Key["day"][b] = <<d.year, d.month, d.week, d.day>>
             /\ Key["hour"][b] = <<d.year, d.month, d.week, d.day, d.hour>>
<1> DEFINE d == Date[b]
           long == <<d.year, d.month, d.week, d.day, d.hour>>
<1>1. /\ Key["year"][b] = SubSeq(long, 1, 1) /\ Key["month"][b] = SubSeq(long, 1, 2)
      /\ Key["week"][b] = SubSeq(long, 1, 3) /\ Key["day"][b] = SubSeq(long, 1, 4)
      /\ Key["hour"][b] = SubSeq(long, 1, 5)
  BY DEF Key, Periods
<1>2. d.year \in Nat /\ d.month \in Nat /\ d.week \in Nat /\ d.day \in Nat /\ d.hour \in Nat
  BY DateType
<1> HIDE DEF d
<1>3. long \in Seq(Nat) /\ Len(long) = 5
  BY <1>2
<1>4. SubSeq(long, 1, 1) = <<d.year>>
  <2> DEFINE t == <<d.year>>
  <2>1. t \in Seq(Nat) /\ Len(t) = 1 /\ \A n \in 1..1 : t[n] = long[n]
    BY <1>2
  <2> HIDE DEF t, long
  <2>2. SubSeq(long, 1, Len(t)) = t
    BY <1>3, <2>1, FirstOf
  <2> QED BY <2>1, <2>2 DEF t
<1>5. SubSeq(long, 1, 2) = <<d.year, d.month>>
  <2> DEFINE t == <<d.year, d.month>>
  <2>1. t \in Seq(Nat) /\ Len(t) = 2 /\ \A n \in 1..2 : t[n] = long[n]
    BY <1>2
  <2> HIDE DEF t, long
  <2>2. SubSeq(long, 1, Len(t)) = t
    BY <1>3, <2>1, FirstOf
  <2> QED BY <2>1, <2>2 DEF t
<1>6. SubSeq(long, 1, 3) = <<d.year, d.month, d.week>>
  <2> DEFINE t == <<d.year, d.month, d.week>>
  <2>1. t \in Seq(Nat) /\ Len(t) = 3 /\ \A n \in 1..3 : t[n] = long[n]
    BY <1>2
  <2> HIDE DEF t, long
  <2>2. SubSeq(long, 1, Len(t)) = t
    BY <1>3, <2>1, FirstOf
  <2> QED BY <2>1, <2>2 DEF t
<1>7. SubSeq(long, 1, 4) = <<d.year, d.month, d.week, d.day>>
  <2> DEFINE t == <<d.year, d.month, d.week, d.day>>
  <2>1. t \in Seq(Nat) /\ Len(t) = 4 /\ \A n \in 1..4 : t[n] = long[n]
    BY <1>2
  <2> HIDE DEF t, long
  <2>2. SubSeq(long, 1, Len(t)) = t
    BY <1>3, <2>1, FirstOf
  <2> QED BY <2>1, <2>2 DEF t
<1>8. SubSeq(long, 1, 5) = long
  BY <1>3, SubSeqFull
<1> QED BY <1>1, <1>4, <1>5, <1>6, <1>7, <1>8 DEF d

\* Tuples are compared at the first place where they differ.
LEMMA Before1 == ASSUME NEW x1, NEW y1 PROVE Before(<<x1>>, <<y1>>) <=> x1 < y1
<1>1. DOMAIN <<x1>> = {1} /\ <<x1>>[1] = x1 /\ <<y1>>[1] = y1
  OBVIOUS
<1>2. \A n \in 1..(1 - 1) : <<x1>>[n] = <<y1>>[n]
  OBVIOUS
<1>3. Before(<<x1>>, <<y1>>) <=> \E n \in {1} :
        <<x1>>[n] < <<y1>>[n] /\ \A m \in 1..(n - 1) : <<x1>>[m] = <<y1>>[m]
  BY <1>1 DEF Before
<1> QED BY <1>1, <1>2, <1>3

LEMMA Before2 ==
  ASSUME NEW x1, NEW x2, NEW y1, NEW y2
  PROVE  Before(<<x1, x2>>, <<y1, y2>>) <=> x1 < y1 \/ (x1 = y1 /\ x2 < y2)
BY DEF Before

LEMMA Before3 ==
  ASSUME NEW x1, NEW x2, NEW x3, NEW y1, NEW y2, NEW y3
  PROVE  Before(<<x1, x2, x3>>, <<y1, y2, y3>>) <=>
           \/ x1 < y1 \/ (x1 = y1 /\ x2 < y2)
           \/ x1 = y1 /\ x2 = y2 /\ x3 < y3
BY DEF Before

LEMMA Before4 ==
  ASSUME NEW x1, NEW x2, NEW x3, NEW x4, NEW y1, NEW y2, NEW y3, NEW y4
  PROVE  Before(<<x1, x2, x3, x4>>, <<y1, y2, y3, y4>>) <=>
           \/ x1 < y1 \/ (x1 = y1 /\ x2 < y2)
           \/ x1 = y1 /\ x2 = y2 /\ x3 < y3
           \/ x1 = y1 /\ x2 = y2 /\ x3 = y3 /\ x4 < y4
BY DEF Before

LEMMA Before5 ==
  ASSUME NEW x1, NEW x2, NEW x3, NEW x4, NEW x5, NEW y1, NEW y2, NEW y3, NEW y4, NEW y5
  PROVE  Before(<<x1, x2, x3, x4, x5>>, <<y1, y2, y3, y4, y5>>) <=>
           \/ x1 < y1 \/ (x1 = y1 /\ x2 < y2)
           \/ x1 = y1 /\ x2 = y2 /\ x3 < y3
           \/ x1 = y1 /\ x2 = y2 /\ x3 = y3 /\ x4 < y4
           \/ x1 = y1 /\ x2 = y2 /\ x3 = y3 /\ x4 = y4 /\ x5 < y5
BY DEF Before

\* Hours of days, and months of years, are in the order of both.
LEMMA Months ==
  ASSUME NEW m \in Nat, NEW n \in Nat, NEW k \in 1..12, NEW l \in 1..12
  PROVE  /\ m * 12 + k = n * 12 + l <=> m = n /\ k = l
         /\ m * 12 + k < n * 12 + l <=> m < n \/ (m = n /\ k < l)
<1>1. CASE m < n
  BY <1>1
<1>2. CASE n < m
  BY <1>2
<1>3. CASE m = n
  BY <1>3
<1> QED BY <1>1, <1>2, <1>3

LEMMA Hours ==
  ASSUME NEW m \in Nat, NEW n \in Nat, NEW k \in 0..23, NEW l \in 0..23
  PROVE  /\ m * 24 + k = n * 24 + l <=> m = n /\ k = l
         /\ m * 24 + k < n * 24 + l <=> m < n \/ (m = n /\ k < l)
<1>1. CASE m < n
  BY <1>1
<1>2. CASE n < m
  BY <1>2
<1>3. CASE m = n
  BY <1>3
<1> QED BY <1>1, <1>2, <1>3

\* The keys of months and years agree with them on any calendar.
LEMMA MonthsAgree == KeysAgree("month") /\ KeysAgree("year")
<1> SUFFICES ASSUME NEW b \in Backups, NEW c \in Backups
             PROVE  \A p \in {"month", "year"} :
                      /\ Key[p][b] = Key[p][c] <=> Span[b][p] = Span[c][p]
                      /\ Before(Key[p][b], Key[p][c]) <=> Span[b][p] < Span[c][p]
  BY DEF KeysAgree
<1> DEFINE x == Date[b]
           y == Date[c]
<1>1. x.year \in Nat /\ x.month \in 1..12 /\ y.year \in Nat /\ y.month \in 1..12
  BY DateType
<1> HIDE DEF x, y
<1>2. /\ Key["year"][b] = Key["year"][c] <=> Span[b]["year"] = Span[c]["year"]
      /\ Before(Key["year"][b], Key["year"][c]) <=> Span[b]["year"] < Span[c]["year"]
  <2>1. /\ Key["year"][b] = <<x.year>> /\ Key["year"][c] = <<y.year>>
        /\ Span[b]["year"] = x.year /\ Span[c]["year"] = y.year
    BY Keys, Spans DEF x, y
  <2>2. Before(<<x.year>>, <<y.year>>) <=> x.year < y.year
    BY Before1
  <2> QED BY <2>1, <2>2
<1>3. /\ Key["month"][b] = Key["month"][c] <=> Span[b]["month"] = Span[c]["month"]
      /\ Before(Key["month"][b], Key["month"][c]) <=> Span[b]["month"] < Span[c]["month"]
  <2>1. /\ Key["month"][b] = <<x.year, x.month>> /\ Key["month"][c] = <<y.year, y.month>>
        /\ Span[b]["month"] = x.year * 12 + x.month
        /\ Span[c]["month"] = y.year * 12 + y.month
    BY Keys, Spans DEF x, y
  <2>2. Before(<<x.year, x.month>>, <<y.year, y.month>>) <=>
          x.year < y.year \/ (x.year = y.year /\ x.month < y.month)
    BY Before2
  <2>3. /\ x.year = y.year /\ x.month = y.month <=> x.year * 12 + x.month = y.year * 12 + y.month
        /\ x.year < y.year \/ (x.year = y.year /\ x.month < y.month) <=>
             x.year * 12 + x.month < y.year * 12 + y.month
    BY <1>1, Months
  <2>4. <<x.year, x.month>> = <<y.year, y.month>> <=> x.year = y.year /\ x.month = y.month
    OBVIOUS
  <2> QED BY <2>1, <2>2, <2>3, <2>4
<1> QED BY <1>2, <1>3

\* Those of hours, days and weeks where a month has one ISO year.
LEMMA CalendarAgrees ==
  ASSUME OneIsoYear, NEW p \in Periods PROVE KeysAgree(p)
<1> SUFFICES ASSUME NEW b \in Backups, NEW c \in Backups, p \in {"hour", "day", "week"}
             PROVE  /\ Key[p][b] = Key[p][c] <=> Span[b][p] = Span[c][p]
                    /\ Before(Key[p][b], Key[p][c]) <=> Span[b][p] < Span[c][p]
  BY MonthsAgree DEF KeysAgree, Periods
<1> DEFINE x == Date[b]
           y == Date[c]
           m == x.year * 12 + x.month
           n == y.year * 12 + y.month
           v == x.nth \div 7
           w == y.nth \div 7
<1>1. /\ x.year \in Nat /\ x.month \in 1..12 /\ x.week \in 1..53
      /\ x.day \in 1..31 /\ x.hour \in 0..23 /\ x.nth \in Nat
      /\ y.year \in Nat /\ y.month \in 1..12 /\ y.week \in 1..53
      /\ y.day \in 1..31 /\ y.hour \in 0..23 /\ y.nth \in Nat
  BY DateType
<1>2. x.nth < y.nth <=> \/ x.year < y.year
                        \/ x.year = y.year /\ x.month < y.month
                        \/ x.year = y.year /\ x.month = y.month /\ x.day < y.day
  BY CalendarAssumption
<1>3. y.nth < x.nth <=> \/ y.year < x.year
                        \/ y.year = x.year /\ y.month < x.month
                        \/ y.year = x.year /\ y.month = x.month /\ y.day < x.day
  BY CalendarAssumption
<1>4. x.year = y.year /\ x.month = y.month => /\ x.week < y.week <=> v < w
                                              /\ y.week < x.week <=> w < v
  <2> DEFINE i == IsoYear(x)
             j == IsoYear(y)
  <2>1. i \in Int /\ j \in Int
    BY <1>1 DEF IsoYear
  <2>2. v < w <=> i < j \/ (i = j /\ x.week < y.week)
    BY CalendarAssumption
  <2>3. w < v <=> j < i \/ (j = i /\ y.week < x.week)
    BY CalendarAssumption
  <2>4. x.year = y.year /\ x.month = y.month => i = j
    BY DEF OneIsoYear
  <2> HIDE DEF i, j, v, w, x, y
  <2> QED BY <2>1, <2>2, <2>3, <2>4
<1>5. /\ m \in Nat /\ n \in Nat
      /\ m = n <=> x.year = y.year /\ x.month = y.month
      /\ m < n <=> x.year < y.year \/ (x.year = y.year /\ x.month < y.month)
      /\ n < m <=> y.year < x.year \/ (y.year = x.year /\ y.month < x.month)
  <2> HIDE DEF x, y
  <2>1. m \in Nat /\ n \in Nat
    BY <1>1
  <2> QED BY <1>1, <2>1, Months
<1>6. /\ v \in Nat /\ w \in Nat
      /\ x.nth < y.nth => v <= w
      /\ y.nth < x.nth => w <= v
      /\ x.nth = y.nth => v = w
  BY <1>1
<1> HIDE DEF x, y, m, n, v, w
<1>7. CASE p = "week"
  <2>1. /\ Key[p][b] = <<x.year, x.month, x.week>> /\ Key[p][c] = <<y.year, y.month, y.week>>
        /\ Span[b][p] = v + m /\ Span[c][p] = w + n
    <3>1. /\ Span[b][p] = x.nth \div 7 + x.year * 12 + x.month
          /\ Span[c][p] = y.nth \div 7 + y.year * 12 + y.month
      BY <1>7, Spans DEF x, y
    <3>2. /\ x.nth \div 7 + x.year * 12 + x.month = v + m
          /\ y.nth \div 7 + y.year * 12 + y.month = w + n
      <4>1. x.nth \div 7 \in Nat /\ y.nth \div 7 \in Nat
        BY <1>6 DEF v, w
      <4> QED BY <1>1, <4>1 DEF v, w, m, n
    <3>3. Key[p][b] = <<x.year, x.month, x.week>> /\ Key[p][c] = <<y.year, y.month, y.week>>
      BY <1>7, Keys DEF x, y
    <3> QED BY <3>1, <3>2, <3>3
  <2>2. /\ m < n => v <= w
        /\ n < m => w <= v
    BY <1>1, <1>2, <1>3, <1>5, <1>6
  <2>3. /\ v + m = w + n <=> m = n /\ v = w
        /\ v + m < w + n <=> m < n \/ (m = n /\ v < w)
    BY <1>5, <1>6, <2>2
  <2>4. /\ m = n => (x.week < y.week <=> v < w)
        /\ m = n => (x.week = y.week <=> v = w)
    BY <1>1, <1>4, <1>5, <1>6
  <2>5. Before(<<x.year, x.month, x.week>>, <<y.year, y.month, y.week>>) <=>
          \/ x.year < y.year \/ (x.year = y.year /\ x.month < y.month)
          \/ x.year = y.year /\ x.month = y.month /\ x.week < y.week
    BY Before3
  <2>6. <<x.year, x.month, x.week>> = <<y.year, y.month, y.week>> <=>
          x.year = y.year /\ x.month = y.month /\ x.week = y.week
    OBVIOUS
  <2>7. Key[p][b] = Key[p][c] <=> Span[b][p] = Span[c][p]
    BY <1>5, <2>1, <2>3, <2>4, <2>6
  <2>8. Before(Key[p][b], Key[p][c]) <=> Span[b][p] < Span[c][p]
    BY <1>5, <2>1, <2>3, <2>4, <2>5
  <2> QED BY <2>7, <2>8
<1>8. (x.year = y.year /\ x.month = y.month /\ x.week = y.week /\ x.day = y.day)
       <=> x.nth = y.nth
  BY <1>1, <1>2, <1>3, <1>4, <1>6
<1>9. \/ x.year < y.year \/ (x.year = y.year /\ x.month < y.month)
      \/ x.year = y.year /\ x.month = y.month /\ x.week < y.week
      \/ x.year = y.year /\ x.month = y.month /\ x.week = y.week /\ x.day < y.day
      <=> x.nth < y.nth
  <2>1. CASE x.year = y.year /\ x.month = y.month
    <3>1. x.nth < y.nth <=> x.day < y.day
      BY <1>1, <1>2, <2>1
    <3>2. x.week < y.week => x.nth < y.nth
      BY <1>1, <1>4, <1>6, <2>1
    <3>3. x.nth < y.nth => x.week <= y.week
      BY <1>1, <1>4, <1>6, <2>1
    <3> QED BY <1>1, <2>1, <3>1, <3>2, <3>3
  <2>2. CASE ~(x.year = y.year /\ x.month = y.month)
    BY <1>1, <1>2, <2>2
  <2> QED BY <2>1, <2>2
<1>10. CASE p = "day"
  <2>1. /\ Key[p][b] = <<x.year, x.month, x.week, x.day>>
        /\ Key[p][c] = <<y.year, y.month, y.week, y.day>>
        /\ Span[b][p] = x.nth /\ Span[c][p] = y.nth
    BY <1>10, Keys, Spans DEF x, y
  <2>2. Before(<<x.year, x.month, x.week, x.day>>, <<y.year, y.month, y.week, y.day>>) <=>
          \/ x.year < y.year \/ (x.year = y.year /\ x.month < y.month)
          \/ x.year = y.year /\ x.month = y.month /\ x.week < y.week
          \/ x.year = y.year /\ x.month = y.month /\ x.week = y.week /\ x.day < y.day
    BY Before4
  <2>3. <<x.year, x.month, x.week, x.day>> = <<y.year, y.month, y.week, y.day>> <=>
          x.year = y.year /\ x.month = y.month /\ x.week = y.week /\ x.day = y.day
    OBVIOUS
  <2>4. Key[p][b] = Key[p][c] <=> Span[b][p] = Span[c][p]
    BY <1>8, <2>1, <2>3
  <2>5. Before(Key[p][b], Key[p][c]) <=> Span[b][p] < Span[c][p]
    BY <1>9, <2>1, <2>2
  <2> QED BY <2>4, <2>5
<1>11. CASE p = "hour"
  <2>1. /\ Key[p][b] = <<x.year, x.month, x.week, x.day, x.hour>>
        /\ Key[p][c] = <<y.year, y.month, y.week, y.day, y.hour>>
        /\ Span[b][p] = x.nth * 24 + x.hour /\ Span[c][p] = y.nth * 24 + y.hour
    BY <1>11, Keys, Spans DEF x, y
  <2>2. /\ x.nth * 24 + x.hour = y.nth * 24 + y.hour <=> x.nth = y.nth /\ x.hour = y.hour
        /\ x.nth * 24 + x.hour < y.nth * 24 + y.hour <=>
             x.nth < y.nth \/ (x.nth = y.nth /\ x.hour < y.hour)
    <3>1. PICK i \in Nat, j \in Nat, k \in 0..23, l \in 0..23 :
                 i = x.nth /\ j = y.nth /\ k = x.hour /\ l = y.hour
      BY <1>1
    <3>2. /\ i * 24 + k = j * 24 + l <=> i = j /\ k = l
          /\ i * 24 + k < j * 24 + l <=> i < j \/ (i = j /\ k < l)
      BY Hours
    <3> QED BY <3>1, <3>2
  <2>3. Key[p][b] = Key[p][c] <=> Span[b][p] = Span[c][p]
    BY <1>8, <2>1, <2>2
  <2>4. Before(Key[p][b], Key[p][c]) <=>
          \/ x.year < y.year \/ (x.year = y.year /\ x.month < y.month)
          \/ x.year = y.year /\ x.month = y.month /\ x.week < y.week
          \/ x.year = y.year /\ x.month = y.month /\ x.week = y.week /\ x.day < y.day
          \/ /\ x.year = y.year /\ x.month = y.month /\ x.week = y.week /\ x.day = y.day
             /\ x.hour < y.hour
    <3>1. Before(<<x.year, x.month, x.week, x.day, x.hour>>,
                 <<y.year, y.month, y.week, y.day, y.hour>>) <=>
          \/ x.year < y.year \/ (x.year = y.year /\ x.month < y.month)
          \/ x.year = y.year /\ x.month = y.month /\ x.week < y.week
          \/ x.year = y.year /\ x.month = y.month /\ x.week = y.week /\ x.day < y.day
          \/ /\ x.year = y.year /\ x.month = y.month /\ x.week = y.week /\ x.day = y.day
             /\ x.hour < y.hour
      BY Before5
    <3> QED BY <2>1, <3>1
  <2>5. Before(Key[p][b], Key[p][c]) <=> Span[b][p] < Span[c][p]
    BY <1>8, <1>9, <2>1, <2>2, <2>4
  <2> QED BY <2>3, <2>5
<1> QED BY <1>7, <1>10, <1>11

\* The hypothesis is needed, on every calendar: where a month has days of two ISO
\* years, _group_backup_by_period sorts two of its days the wrong way round.
THEOREM DaysNeedOneIsoYear == KeysAgree("day") <=> OneIsoYear
<1>1. OneIsoYear => KeysAgree("day")
  BY CalendarAgrees DEF Periods
<1>2. ASSUME NEW b \in Backups, NEW c \in Backups, Date[b].year = Date[c].year,
             Date[b].month = Date[c].month, IsoYear(Date[b]) < IsoYear(Date[c])
      PROVE  ~KeysAgree("day")
  <2> DEFINE x == Date[b]
             y == Date[c]
  <2>1. /\ x.year \in Nat /\ x.month \in 1..12 /\ x.week \in 1..53 /\ x.nth \in Nat
        /\ y.year \in Nat /\ y.month \in 1..12 /\ y.week \in 1..53 /\ y.nth \in Nat
    BY DateType
  <2>2. y.week < x.week
    BY <1>2, <2>1 DEF IsoYear
  <2>3. Before(Key["day"][c], Key["day"][b])
    <3>1. /\ Key["day"][c] = <<y.year, y.month, y.week, y.day>>
          /\ Key["day"][b] = <<x.year, x.month, x.week, x.day>>
      BY Keys
    <3>2. x.year = y.year /\ x.month = y.month
      BY <1>2
    <3> HIDE DEF x, y
    <3> QED BY <2>2, <3>1, <3>2, Before4
  <2>4. x.nth \div 7 < y.nth \div 7
    BY <1>2, CalendarAssumption
  <2>5. x.nth < y.nth
    BY <2>1, <2>4
  <2>6. ~(Span[c]["day"] < Span[b]["day"])
    BY <2>1, <2>5, Spans
  <2> QED BY <2>3, <2>6 DEF KeysAgree
<1>3. ASSUME ~OneIsoYear PROVE ~KeysAgree("day")
  <2>1. PICK b \in Backups, c \in Backups :
               /\ Date[b].year = Date[c].year /\ Date[b].month = Date[c].month
               /\ IsoYear(Date[b]) # IsoYear(Date[c])
    BY <1>3 DEF OneIsoYear
  <2>2. IsoYear(Date[b]) \in Int /\ IsoYear(Date[c]) \in Int
    BY DateType DEF IsoYear
  <2>3. IsoYear(Date[b]) < IsoYear(Date[c]) \/ IsoYear(Date[c]) < IsoYear(Date[b])
    BY <2>1, <2>2
  <2> QED BY <1>2, <2>1, <2>3
<1> QED BY <1>1, <1>3

\* Two functions that tell the same elements apart have equally many values.
LEMMA SameCount ==
  ASSUME NEW A, IsFiniteSet(A), NEW f, NEW g,
         \A u \in A, v \in A : f[u] = f[v] <=> g[u] = g[v]
  PROVE  Cardinality({f[u] : u \in A}) = Cardinality({g[u] : u \in A})
<1> DEFINE F == {f[u] : u \in A}
           G == {g[u] : u \in A}
           of(z) == CHOOSE u \in A : f[u] = z
           r == [z \in F |-> g[of(z)]]
           s == [u \in A |-> f[u]]
<1>1. \A z \in F : of(z) \in A /\ f[of(z)] = z
  OBVIOUS
<1>2. r \in [F -> G] /\ \A z \in F : r[z] = g[of(z)]
  BY <1>1
<1>3. \A y \in F, z \in F : r[y] = r[z] => y = z
  <2> HIDE DEF F, of, r
  <2> QED BY <1>1, <1>2
<1>4. \A w \in G : \E z \in F : r[z] = w
  <2>1. \A u \in A : f[u] \in F
    OBVIOUS
  <2> HIDE DEF F, of, r
  <2>2. \A u \in A : r[f[u]] = g[u]
    BY <1>1, <1>2, <2>1
  <2> QED BY <2>1, <2>2
<1>5. s \in Surjection(A, F)
  BY DEF Surjection
<1> HIDE DEF F, G, r, s
<1>6. IsFiniteSet(F)
  BY <1>5, FS_Surjection
<1>7. ExistsBijection(F, G)
  BY <1>2, <1>3, <1>4 DEF ExistsBijection, Bijection, Injection, Surjection, IsInjective
<1>8. Cardinality(F) = Cardinality(G)
  BY <1>6, <1>7, FS_Bijection
<1> QED BY <1>8 DEF F, G

\* Where the keys agree, a backup is kept for a period if and only if it is the
\* first one of one of the last hours, days, ...
LEMMA PeriodicIs ==
  ASSUME NEW p \in Periods, KeysAgree(p), NEW S \in SUBSET Backups, NEW b \in S
  PROVE  b \in Periodic(S, p) <=> FirstOfRecent(b, S, p, Keep[p])
<1> DEFINE A == {c \in S : Span[c][p] > Span[b][p]}
           K == {Key[p][c] : c \in S}
           f == [c \in A |-> Key[p][c]]
           g == [c \in A |-> Span[c][p]]
<1>1. \A c \in S : /\ Key[p][c] = Key[p][b] <=> Span[c][p] = Span[b][p]
                   /\ Before(Key[p][b], Key[p][c]) <=> c \in A
  <2>1. \A c \in S : Span[c][p] > Span[b][p] <=> Span[b][p] < Span[c][p]
    OBVIOUS
  <2> QED BY <2>1 DEF KeysAgree
<1>2. {l \in K : Before(Key[p][b], l)} = {f[c] : c \in A}
  BY <1>1
<1>3. {Span[c][p] : c \in {c \in S : Span[c][p] > Span[b][p]}} = {g[c] : c \in A}
  OBVIOUS
<1>4. \A u \in A, v \in A : f[u] = f[v] <=> g[u] = g[v]
  BY DEF KeysAgree
<1>5. IsFiniteSet(A)
  BY FiniteBackups
<1>6. Cardinality({f[c] : c \in A}) = Cardinality({g[c] : c \in A})
  <2> HIDE DEF A, f, g
  <2> QED BY <1>4, <1>5, SameCount
<1>7. Key[p][b] \in LastKeys(K, Keep[p]) <=> Recent(b, S, p, Keep[p])
  <2>1. Key[p][b] \in LastKeys(K, Keep[p]) <=>
          Cardinality({l \in K : Before(Key[p][b], l)}) < Keep[p]
    BY DEF LastKeys
  <2>2. Recent(b, S, p, Keep[p]) <=> Cardinality({g[c] : c \in A}) < Keep[p]
    BY <1>3 DEF Recent
  <2> HIDE DEF K, A, f, g
  <2> QED BY <1>2, <1>6, <2>1, <2>2
<1> HIDE DEF K, A, f, g
<1> QED BY <1>1, <1>7 DEF Periodic, FirstOfRecent, K

\* What keep_backups has kept is what is left: clean() removes the others.
LEMMA RemovedIs ==
  ASSUME Settled, pc = "delete", NEW b \in listed
  PROVE  Removed(b) <=> ~\E p \in Periods : b \in Periodic(listed, p)
<1>1. Removed(b) <=> b \notin Kept(listed)
  BY DEF Settled, RetainInv, Removed
<1>2. b \in Kept(listed) <=> \E p \in Periods : b \in Periodic(listed, p)
  BY DEF Kept
<1> QED BY <1>1, <1>2

\* Where no month has days of two ISO years, clean() removes exactly the backups that
\* are not the first of one of the last hours, days, weeks, months or years, the
\* weeks ending with their month, for any policy and whatever dies.
THEOREM RemovesOutdated == ASSUME OneIsoYear PROVE Spec => []ExactlyOutdated
<1>1. Settled => ExactlyOutdated
  <2> SUFFICES ASSUME Settled, pc = "delete", NEW b \in listed
               PROVE  Removed(b) <=>
                      ~\E p \in Periods : FirstOfRecent(b, listed, p, Keep[p])
    BY DEF ExactlyOutdated
  <2>1. listed \in SUBSET Backups
    BY DEF Settled, TypeOK
  <2>2. \A p \in Periods : b \in Periodic(listed, p) <=> FirstOfRecent(b, listed, p, Keep[p])
    BY <2>1, CalendarAgrees, PeriodicIs
  <2> QED BY <2>2, RemovedIs
<1> QED BY AlwaysSettled, <1>1, PTL

\* docs/config.rst, of months and years: their first backups stay, which no ISO
\* week can disturb.
MonthsAndYearsKeepFirst ==
  pc = "delete" => \A b \in listed, p \in {"month", "year"} :
    FirstOfRecent(b, listed, p, Keep[p]) => ~Removed(b)

\* On any calendar clean() keeps the first backups of the last months and years, also
\* where it sorts the days and weeks of a December wrongly.
THEOREM KeepsMonthsAndYears == Spec => []MonthsAndYearsKeepFirst
<1>1. Settled => MonthsAndYearsKeepFirst
  <2> SUFFICES ASSUME Settled, pc = "delete", NEW b \in listed, NEW p \in {"month", "year"},
                      FirstOfRecent(b, listed, p, Keep[p])
               PROVE  ~Removed(b)
    BY DEF MonthsAndYearsKeepFirst
  <2>1. listed \in SUBSET Backups /\ p \in Periods
    BY DEF Settled, TypeOK, Periods
  <2>2. KeysAgree(p)
    BY MonthsAgree
  <2>3. b \in Periodic(listed, p)
    BY <2>1, <2>2, PeriodicIs
  <2> QED BY <2>1, <2>3, RemovedIs
<1> QED BY AlwaysSettled, <1>1, PTL

=============================================================================
