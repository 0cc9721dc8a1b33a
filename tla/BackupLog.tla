----------------------------- MODULE BackupLog -----------------------------
(***************************************************************************)
(* What the history of dbmanage's backups promises: a log to which runs    *)
(* are only added, each with its configuration and day, that shows each as *)
(* running until it is given one outcome, for good; and of the runs the    *)
(* ticker made, one for a configuration and a day.  Deleting or changing   *)
(* a configuration, a crash, a failing statement: none takes anything out. *)
(* Module Scheduler implements it.                                         *)
(***************************************************************************)
EXTENDS Naturals

CONSTANTS Run, Cfg, None

VARIABLE log

Absent == [status |-> "none", cfg |-> None, auto |-> FALSE, day |-> 0]

Init == log = [r \in Run |-> Absent]

(* A run is entered. *)
Enter(r) ==
    /\ log[r] = Absent
    /\ log'[r].status = "running"
    /\ log'[r].cfg \in Cfg
    /\ log'[r].day \in Nat
    /\ log'[r].auto => \A s \in Run : log[s].auto /\ log[s].cfg = log'[r].cfg
                                       => log[s].day # log'[r].day
    /\ log' = [log EXCEPT ![r] = log'[r]]

(* It gets its outcome. *)
Settle(r) ==
    /\ log[r].status = "running"
    /\ \E o \in {"success", "failed"} :
          log' = [log EXCEPT ![r] = [status |-> o, cfg |-> @.cfg,
                                     auto |-> @.auto, day |-> @.day]]

Next == \E r \in Run : Enter(r) \/ Settle(r)

Spec == Init /\ [][Next]_log
=============================================================================
