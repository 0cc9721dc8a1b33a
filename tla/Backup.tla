------------------------------- MODULE Backup -------------------------------
(***************************************************************************)
(* A backup of dbmanage from end to end (src/backup.rs): Scheduler, which  *)
(* decides what runs and keeps the history, and BackupFiles, what a run    *)
(* does to the files and the stored objects, joined where run_backup calls *)
(* run_backup_inner and comes back from it.  The scheduler's clock shows   *)
(* minutes, the names and stamps of files seconds, of which a minute has   *)
(* MinLen; a configuration keeps its database, place and retention.        *)
(***************************************************************************)
EXTENDS Naturals, FiniteSets

CONSTANTS
    Cfg, Task, None, DayLen, WeekLen, Times, DaySets, MaxDay, MaxDue,
    PromptTicks, PromptTasks, Crashes, Faults, MinLen,
    NameOf, PlaceOf, StemOf, KeepOf, Begins, Contains, Place, S3, Unfiled, Flaky, MaxNow

VARIABLES
    day, minute, second, mishap, due, phase, tickDay, tickMinute, todo, cfgs, task, hist,
    local, remote, run, sent, cut, doomed,
    uploaded    \* history: when the upload of each run returned

clockwork == <<day, minute, mishap, due, phase, tickDay, tickMinute, todo, cfgs, task, hist>>
history == <<clockwork, second>>
files == <<local, remote, run, sent, cut, doomed, uploaded>>
vars == <<history, files>>

Now == (day * DayLen + minute) * MinLen + second

S == INSTANCE Scheduler
F == INSTANCE BackupFiles WITH now <- Now

ASSUME BackupAssumption ==
    /\ S!CalendarAssumption /\ S!ModeAssumption /\ S!NoneAssumption /\ F!FilesAssumption
    /\ MinLen \in Nat \ {0}

Init ==
    /\ second = 0
    /\ S!Init
    /\ F!Init
    /\ uploaded = [t \in Task |-> 0]

(* Between the return of its upload and its cutoff a run lets less time      *)
(* pass than its retention lasts, of which a day is the least (build_loaded).*)
AtCutoff(t) == task[t].pc = "running" /\ run[t].pc = "retain"

Prompt == \A t \in Task : AtCutoff(t) => Now < uploaded[t] + KeepOf[run[t].cfg]

Second ==
    /\ Prompt
    /\ second < MinLen - 1
    /\ second' = second + 1
    /\ UNCHANGED <<clockwork, uploaded>>
    /\ F!Tick

Minute ==
    /\ Prompt
    /\ second = MinLen - 1
    /\ second' = 0
    /\ UNCHANGED uploaded
    /\ S!Minute
    /\ F!Tick

(* Until its history row is written, a backup touches no file. *)
Control ==
    /\ \/ S!Forms \/ S!Tick \/ S!TickAbort \/ S!Restart
       \/ \E t \in Task : S!Load(t) \/ S!Record(t)
    /\ UNCHANGED <<second, files>>

(* run_backup_inner, of the configuration that load_target read *)
Inner(t) ==
    /\ task[t].pc = "running"
    /\ UNCHANGED history
    /\ F!Start(t, task[t].cfg) \/ F!Work(t)
    /\ uploaded' = IF run[t].pc = "send" THEN [uploaded EXCEPT ![t] = Now] ELSE uploaded

(* Its `?': the errors of the retention are dropped and no way out. *)
Err(t) ==
    \/ run[t].pc = "none" /\ UNCHANGED <<local, remote, run, sent, cut, doomed>>
    \/ run[t].pc \in {"dump", "write", "read", "send"} /\ F!Fail(t)

Ok(t) == F!Succeed(t)

(* Fault: the row is written `success' although the upload failed. *)
ConcludeBlind(t) ==
    /\ UNCHANGED <<second, uploaded>>
    /\ \/ S!Finish(t, "success") /\ (Ok(t) \/ (run[t].pc = "send" /\ Err(t)))
       \/ S!Finish(t, "failed") /\ Err(t)

(* The outcome goes to the history, or that UPDATE fails. *)
Conclude(t) ==
    /\ UNCHANGED <<second, uploaded>>
    /\ \/ S!Finish(t, "success") /\ Ok(t)
       \/ S!Finish(t, "failed") /\ Err(t)
       \/ S!FinishLost(t) /\ (Ok(t) \/ Err(t))

(* The process stops: the runs under way take no further step, and leave    *)
(* behind what they have written.                                           *)
Crash == S!Crash /\ UNCHANGED <<second, files>>

Next ==
    \/ Second
    \/ Minute
    \/ Control
    \/ \E t \in Task : Inner(t) \/ Conclude(t)
    \/ Crash

Spec == Init /\ [][Next]_vars

(***************************************************************************)
(* Properties.                                                             *)
(***************************************************************************)

(* "dump, gzip, upload, retensi, riwayat": a backup that the history calls   *)
(* successful is on disk and at its place as long as its configuration keeps *)
(* it, and what is stored is its own whole dump if no other run got its      *)
(* names (the database and the second): also when the process stopped in the *)
(* middle of other runs, and when the configuration is gone.                 *)
SuccessIsStored ==
    \A t \in Task :
        hist[t].status = "success" /\ Now <= run[t].ts + KeepOf[run[t].cfg] =>
            /\ \E e \in local : e.file = F!Path(t)
            /\ \E o \in remote : o.key = F!KeyOf(t) /\ (F!Alone(t) => o.bytes = {t})

NoNameTwice == \A t \in Task : run[t].pc # "none" => F!Alone(t)

(* As long as no two runs got the same names: after a backup of a database   *)
(* there always is a whole one at that place, however old, and however often *)
(* the runs since then failed or were cut short: a run deletes old copies    *)
(* only when it has stored a new one.                                        *)
NeverWithoutBackup ==
    NoNameTwice =>
        \A t \in Task :
            hist[t].status = "success" =>
                \E o \in remote, u \in Task :
                    /\ o.key[1] = PlaceOf[run[t].cfg]
                    /\ o.bytes = {u}
                    /\ NameOf[run[u].cfg] = NameOf[run[t].cfg]
=============================================================================
