-------------------------- MODULE MCCompleteGroup --------------------------
(***************************************************************************)
(* TLC's instances of CompleteGroup: calendars and policies.               *)
(***************************************************************************)
EXTENDS CompleteGroup

On(year, month, week, day, hour, nth) ==
  [year |-> year, month |-> month, week |-> week, day |-> day, hour |-> hour, nth |-> nth]

\* A winter: Thursday, February 1st, 2018 is in the week of January 30th, ISO week 5.
Winter2018 ==
  <<On(2017, 12, 52, 30, 10, 12), On(2018, 1, 5, 30, 10, 43), On(2018, 1, 5, 30, 10, 43),
    On(2018, 1, 5, 30, 11, 43), On(2018, 2, 5, 1, 10, 45)>>

\* The weeks around that one.
Weeks2018 ==
  <<On(2018, 1, 4, 22, 10, 35), On(2018, 1, 5, 30, 10, 43), On(2018, 1, 5, 31, 10, 44),
    On(2018, 2, 5, 1, 10, 45), On(2018, 2, 6, 5, 10, 49)>>

\* The packagers of the backups, in their order.
AllPackagers == <<"directory", "tar", "zstd", "directory", "tar">>

Mixed == [hour |-> 2, day |-> 2, week |-> 2, month |-> 1, year |-> 1]
TwoWeeks == [hour |-> 0, day |-> 0, week |-> 2, month |-> 0, year |-> 0]
=============================================================================
