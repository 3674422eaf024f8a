----------------------------- MODULE MCCalendar -----------------------------
(* Instance of Calendar for TLC: three months with different entries, two  *)
(* of them on one day, one of them on the day the calendar selects by      *)
(* itself; this month is the middle one, and its first day is not today.   *)
EXTENDS Calendar

MCEntries == <<<<2, 1, 2>>, <<2, 1>>, <<1>>>>
=============================================================================
