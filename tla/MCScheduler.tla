---------------------------- MODULE MCScheduler ----------------------------
(* Scheduler on small instances.  A day of three minutes keeps a first, a    *)
(* middle and a last minute, where midnight follows.                         *)
EXTENDS Scheduler, TLC

(* A daily schedule, or one day of the week. *)
EveryDay == {0 .. (WeekLen - 1)}
DailyOrWeekly == EveryDay \cup {{d} : d \in 0 .. (WeekLen - 1)}

(* Tasks are interchangeable. *)
Symm == Permutations(Task)
=============================================================================
