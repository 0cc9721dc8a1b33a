------------------------------ MODULE MCBackup ------------------------------
EXTENDS Backup, TLC

CONSTANTS app, bucket

(* Every configuration backs up one database to one place, without a prefix. *)
(* The retention is one second, so that an old copy is met in three seconds, *)
(* in a day of two minutes of two seconds.                                   *)
OneName == [c \in Cfg |-> app]
OnePlace == [c \in Cfg |-> bucket]
OneUnit == [c \in Cfg |-> 1]
Unrelated == {}
EveryDay == {0 .. (WeekLen - 1)}
Symm == Permutations(Task)
=============================================================================
