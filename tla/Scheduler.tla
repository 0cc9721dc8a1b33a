----------------------------- MODULE Scheduler -----------------------------
(***************************************************************************)
(* The backup scheduler of dbmanage and the history of its runs            *)
(* (src/backup.rs): the minute ticker, the tick that scans the enabled     *)
(* configurations, the backup tasks it and "Backup Sekarang" spawn, and    *)
(* the forms that change the configurations meanwhile.  What a backup does *)
(* between its two history writes (dump, upload, retention) is a stretch   *)
(* of time here that ends well or badly.                                   *)
(*                                                                         *)
(* Wall-clock time is a day and a minute of that day.  The ticker's        *)
(* deadlines fall one to a minute; `due' counts those not served yet       *)
(* (tokio's default for missed ticks is a burst).                          *)
(***************************************************************************)
EXTENDS Naturals, FiniteSets

CONSTANTS
    Cfg,           \* ids of backup configurations (AUTOINCREMENT)
    Task,          \* spawned backups; each inserts at most one history row
    None,
    DayLen,        \* minutes in a day
    WeekLen,       \* days in a week
    Times,         \* the hh:mm a schedule may name
    DaySets,       \* the days a schedule may name: all of them, or one
    MaxDay,        \* bound: the last day of the horizon
    MaxDue,        \* bound: how many ticker deadlines may be overdue
    PromptTicks,   \* TRUE: no minute ends while a tick is due or at work
    PromptTasks,   \* TRUE: nor between a task's spawn and its history row
    Crashes,       \* TRUE: the process may stop
    Faults         \* TRUE: statements on the internal database may fail

ASSUME CalendarAssumption ==
    /\ DayLen \in Nat \ {0}
    /\ WeekLen \in Nat \ {0}
    /\ Times \subseteq 0 .. (DayLen - 1)
    /\ DaySets \subseteq SUBSET (0 .. (WeekLen - 1))
    /\ MaxDay \in Nat
    /\ MaxDue \in Nat \ {0}
ASSUME ModeAssumption ==
    {PromptTicks, PromptTasks, Crashes, Faults} \subseteq BOOLEAN
ASSUME NoneAssumption == None \notin Cfg

VARIABLES
    day, minute,   \* chrono::Local::now()
    due,           \* ticker deadlines not served
    phase,         \* the scheduler: down, waiting, reading, or scanning rows
    tickDay,       \* `today' of the tick
    tickMinute,    \* `hhmm' of the tick
    todo,          \* rows of the tick's SELECT that match and are still to do
    cfgs,          \* table backup_configs
    task,          \* run_backup tasks
    hist,          \* table backup_history, a row under the task that wrote it
    mishap         \* history: the last day on which the process was down or a
                   \* query of a tick, or of a task before its row, failed

vars == <<day, minute, due, phase, tickDay, tickMinute, todo, cfgs, task, hist,
          mishap>>

clock == <<day, minute, mishap>>
tick == <<phase, tickDay, tickMinute, todo>>

NoTask == [pc |-> "none", cfg |-> None, by |-> "user", day |-> 0]
NoRow == [status |-> "none", cfg |-> None, day |-> 0]

Init ==
    /\ day = 0
    /\ minute = 0
    /\ due = 1                       \* interval's first tick is immediate
    /\ phase = "wait"
    /\ tickDay = 0
    /\ tickMinute = 0
    /\ todo = {}
    /\ cfgs = [c \in Cfg |->
                 [st |-> "absent", on |-> FALSE, at |-> 0, days |-> {}, since |-> 0]]
    /\ task = [t \in Task |-> NoTask]
    /\ hist = [t \in Task |-> NoRow]
    /\ mishap = 0

Live(c) == cfgs[c].st = "live"
Up == phase # "down"

(***************************************************************************)
(* Time.                                                                   *)
(***************************************************************************)

Unrecorded(t) == task[t].pc \in {"new", "loaded"}

(* A minute ends.  The Prompt constants are assumptions that nothing in the *)
(* code ensures: PromptTicks, that it never ends while a tick is due or at  *)
(* work; PromptTasks, nor while a spawned task has its row still to write.  *)
Minute ==
    /\ ~(day = MaxDay /\ minute = DayLen - 1)
    /\ PromptTicks => phase \in {"wait", "down"} /\ due = 0
    /\ PromptTasks => \A t \in Task : ~Unrecorded(t)
    /\ Up => due < MaxDue
    /\ IF minute = DayLen - 1
       THEN minute' = 0 /\ day' = day + 1
       ELSE minute' = minute + 1 /\ day' = day
    /\ due' = IF Up THEN due + 1 ELSE 0
    /\ mishap' = IF Up THEN mishap ELSE day'
    /\ UNCHANGED <<tick, cfgs, task, hist>>

(***************************************************************************)
(* The forms.  `since' is the day the schedule in force was saved.         *)
(***************************************************************************)

Saved(on, at, days) ==
    [st |-> "live", on |-> on, at |-> at, days |-> days, since |-> day]

CreateCfg(c, on, at, days) ==
    /\ Up
    /\ cfgs[c].st = "absent"
    /\ cfgs' = [cfgs EXCEPT ![c] = Saved(on, at, days)]
    /\ UNCHANGED <<clock, due, tick, task, hist>>

UpdateCfg(c, on, at, days) ==
    /\ Up
    /\ Live(c)
    /\ cfgs' = [cfgs EXCEPT ![c] = Saved(on, at, days)]
    /\ UNCHANGED <<clock, due, tick, task, hist>>

(* Fault: the foreign key of the history is ON DELETE CASCADE, too. *)
DeleteCfgCascade(c) ==
    /\ Up
    /\ Live(c)
    /\ cfgs' = [cfgs EXCEPT ![c] = [st |-> "deleted", on |-> FALSE, at |-> @.at,
                                    days |-> @.days, since |-> @.since]]
    /\ hist' = [t \in Task |-> IF hist[t].cfg = c THEN NoRow ELSE hist[t]]
    /\ UNCHANGED <<clock, due, tick, task>>

(* Also what deleting its connection does (ON DELETE CASCADE).  Its history *)
(* stays, with backup_config_id set to NULL.                                *)
DeleteCfg(c) ==
    /\ Up
    /\ Live(c)
    /\ cfgs' = [cfgs EXCEPT ![c] = [st |-> "deleted", on |-> FALSE, at |-> @.at,
                                    days |-> @.days, since |-> @.since]]
    /\ hist' = [t \in Task |->
                  IF hist[t].cfg = c
                  THEN [status |-> hist[t].status, cfg |-> None, day |-> hist[t].day]
                  ELSE hist[t]]
    /\ UNCHANGED <<clock, due, tick, task>>

(* tokio::spawn(run_backup(state, id)) *)
Spawn(t, c, who) ==
    /\ task[t].pc = "none"
    /\ task' = [task EXCEPT ![t] = [pc |-> "new", cfg |-> c, by |-> who, day |-> 0]]

RunNow(t, c) ==
    /\ Up
    /\ Live(c)
    /\ Spawn(t, c, "user")
    /\ UNCHANGED <<clock, due, tick, cfgs, hist>>

(***************************************************************************)
(* scheduler_tick.                                                         *)
(***************************************************************************)

(* hhmm, dow and today are formatted before the first query. *)
TickStart ==
    /\ phase = "wait"
    /\ due > 0
    /\ due' = due - 1
    /\ phase' = "read"
    /\ tickDay' = day
    /\ tickMinute' = minute
    /\ UNCHANGED <<clock, todo, cfgs, task, hist>>

Matches(c) ==
    /\ Live(c)
    /\ cfgs[c].on
    /\ cfgs[c].at = tickMinute
    /\ tickDay % WeekLen \in cfgs[c].days

(* One SELECT of the enabled rows; time and day are compared without       *)
(* another look at the table.                                              *)
TickRead ==
    /\ phase = "read"
    /\ phase' = "scan"
    /\ todo' = {c \in Cfg : Matches(c)}
    /\ UNCHANGED <<clock, due, tickDay, tickMinute, cfgs, task, hist>>

RowsOf(c) == {t \in Task : hist[t].cfg = c}

(* ORDER BY started_at DESC LIMIT 1: the newest row is from `today'. *)
RanToday(c) ==
    /\ \E t \in RowsOf(c) : hist[t].day = tickDay
    /\ \A t \in RowsOf(c) : hist[t].day <= tickDay

(* Fault: the check for a run of the same day is missing. *)
TickCheckUnguarded(c) ==
    /\ phase = "scan"
    /\ c \in todo
    /\ todo' = todo \ {c}
    /\ \E t \in Task : Spawn(t, c, "tick")
    /\ UNCHANGED <<clock, due, phase, tickDay, tickMinute, cfgs, hist>>

(* Fault: any earlier run counts, whatever its day. *)
TickCheckEver(c) ==
    /\ phase = "scan"
    /\ c \in todo
    /\ todo' = todo \ {c}
    /\ IF RowsOf(c) # {} THEN UNCHANGED task ELSE \E t \in Task : Spawn(t, c, "tick")
    /\ UNCHANGED <<clock, due, phase, tickDay, tickMinute, cfgs, hist>>

(* One row: look up the last run, skip or spawn. *)
TickCheck(c) ==
    /\ phase = "scan"
    /\ c \in todo
    /\ todo' = todo \ {c}
    /\ IF RanToday(c) THEN UNCHANGED task ELSE \E t \in Task : Spawn(t, c, "tick")
    /\ UNCHANGED <<clock, due, phase, tickDay, tickMinute, cfgs, hist>>

TickDone ==
    /\ phase = "scan"
    /\ todo = {}
    /\ phase' = "wait"
    /\ UNCHANGED <<clock, due, tickDay, tickMinute, todo, cfgs, task, hist>>

(* A query fails: `?' gives the rest of the tick up. *)
TickAbort ==
    /\ Faults
    /\ phase \in {"read", "scan"}
    /\ phase' = "wait"
    /\ todo' = {}
    /\ mishap' = day
    /\ UNCHANGED <<day, minute, due, tickDay, tickMinute, cfgs, task, hist>>

(***************************************************************************)
(* run_backup.                                                             *)
(***************************************************************************)

At(t, pc) == [pc |-> pc, cfg |-> task[t].cfg, by |-> task[t].by, day |-> task[t].day]
Finished(t) == task' = [task EXCEPT ![t] = At(t, "done")]

(* load_target, and then started = now().  Without a row for the config, or *)
(* when the query or a decryption fails, the task ends and leaves no trace. *)
Load(t) ==
    /\ task[t].pc = "new"
    /\ \/ /\ Live(task[t].cfg)
          /\ task' = [task EXCEPT ![t] = [pc |-> "loaded", cfg |-> @.cfg,
                                          by |-> @.by, day |-> day]]
          /\ UNCHANGED mishap
       \/ /\ ~Live(task[t].cfg)
          /\ Finished(t)
          /\ UNCHANGED mishap
       \/ /\ Faults
          /\ Finished(t)
          /\ mishap' = day
    /\ UNCHANGED <<day, minute, due, tick, cfgs, hist>>

Row(t) == [status |-> "running", cfg |-> task[t].cfg, day |-> task[t].day]

(* Fault: no foreign key guards backup_history.backup_config_id. *)
RecordUnchecked(t) ==
    /\ task[t].pc = "loaded"
    /\ hist' = [hist EXCEPT ![t] = Row(t)]
    /\ task' = [task EXCEPT ![t] = At(t, "running")]
    /\ UNCHANGED <<clock, due, tick, cfgs>>

(* INSERT ... 'running'; the foreign key refuses a deleted configuration. *)
Record(t) ==
    /\ task[t].pc = "loaded"
    /\ \/ /\ Live(task[t].cfg)
          /\ hist' = [hist EXCEPT ![t] = Row(t)]
          /\ task' = [task EXCEPT ![t] = At(t, "running")]
          /\ UNCHANGED mishap
       \/ /\ ~Live(task[t].cfg)
          /\ Finished(t)
          /\ UNCHANGED <<hist, mishap>>
       \/ /\ Faults
          /\ Finished(t)
          /\ mishap' = day
          /\ UNCHANGED hist
    /\ UNCHANGED <<day, minute, due, tick, cfgs>>

Outcome(t, outcome) == [status |-> outcome, cfg |-> hist[t].cfg, day |-> hist[t].day]

(* run_backup_inner is over; its outcome goes to the row, then to audit_log. *)
Finish(t, outcome) ==
    /\ task[t].pc = "running"
    /\ Finished(t)
    /\ hist' = [hist EXCEPT ![t] = Outcome(t, outcome)]
    /\ UNCHANGED <<clock, due, tick, cfgs>>

(* The UPDATE itself fails. *)
FinishLost(t) ==
    /\ Faults
    /\ task[t].pc = "running"
    /\ Finished(t)
    /\ UNCHANGED <<clock, due, tick, cfgs, hist>>

(***************************************************************************)
(* The process.                                                            *)
(***************************************************************************)

Crash ==
    /\ Crashes
    /\ Up
    /\ phase' = "down"
    /\ todo' = {}
    /\ due' = 0
    /\ task' = [t \in Task |->
                  IF task[t].pc = "none" THEN task[t] ELSE At(t, "done")]
    /\ mishap' = day
    /\ UNCHANGED <<day, minute, tickDay, tickMinute, cfgs, hist>>

(* main: the tables are as they were; a fresh ticker ticks at once. *)
Restart ==
    /\ phase = "down"
    /\ phase' = "wait"
    /\ due' = 1
    /\ UNCHANGED <<clock, tickDay, tickMinute, todo, cfgs, task, hist>>

(***************************************************************************)
(* The specification.                                                      *)
(***************************************************************************)

Forms ==
    \E c \in Cfg :
        \/ \E on \in BOOLEAN, at \in Times, days \in DaySets :
              CreateCfg(c, on, at, days) \/ UpdateCfg(c, on, at, days)
        \/ DeleteCfg(c)
        \/ \E t \in Task : RunNow(t, c)

Tick == TickStart \/ TickRead \/ (\E c \in Cfg : TickCheck(c)) \/ TickDone

RunTask(t) ==
    \/ Load(t)
    \/ Record(t)
    \/ \E outcome \in {"success", "failed"} : Finish(t, outcome)
    \/ FinishLost(t)

Next ==
    \/ Minute
    \/ Forms
    \/ Tick
    \/ TickAbort
    \/ \E t \in Task : RunTask(t)
    \/ Crash
    \/ Restart

Spec == Init /\ [][Next]_vars

(***************************************************************************)
(* Properties.                                                             *)
(***************************************************************************)

TypeOK ==
    /\ day \in Nat
    /\ minute \in 0 .. (DayLen - 1)
    /\ due \in Nat
    /\ phase \in {"down", "wait", "read", "scan"}
    /\ tickDay \in Nat
    /\ tickMinute \in 0 .. (DayLen - 1)
    /\ todo \subseteq Cfg
    /\ cfgs \in [Cfg -> [st: {"absent", "live", "deleted"}, on: BOOLEAN,
                         at: 0 .. (DayLen - 1), days: SUBSET (0 .. (WeekLen - 1)),
                         since: Nat]]
    /\ task \in [Task -> [pc: {"none", "new", "loaded", "running", "done"},
                          cfg: Cfg \cup {None}, by: {"tick", "user"}, day: Nat]]
    /\ hist \in [Task -> [status: {"none", "running", "success", "failed"},
                          cfg: Cfg \cup {None}, day: Nat]]
    /\ mishap \in Nat

(* "Jangan jalankan dua kali di hari yang sama": the ticker records at most *)
(* one run of a configuration for a day, whatever was saved, run by hand,   *)
(* crashed or failed in between.                                            *)
AtMostOncePerDay ==
    \A t, u \in Task :
        /\ task[t].by = "tick" /\ task[u].by = "tick"
        /\ hist[t].status # "none" /\ hist[u].status # "none"
        /\ task[t].cfg = task[u].cfg
        /\ hist[t].day = hist[u].day
        => t = u

(* A row of the history with what the task that wrote it knows: the task     *)
(* goes on naming its configuration when that is deleted.                    *)
Entry(t) ==
    IF hist[t].status = "none"
    THEN [status |-> "none", cfg |-> None, auto |-> FALSE, day |-> 0]
    ELSE [status |-> hist[t].status, cfg |-> task[t].cfg,
          auto |-> task[t].by = "tick", day |-> hist[t].day]

Entries == [t \in Task |-> Entry(t)]

History == INSTANCE BackupLog WITH Run <- Task, log <- Entries

(* History is a log: nothing done to configurations, no crash and no failed  *)
(* statement takes a row out of it, changes an outcome, or makes the ticker  *)
(* enter a second run of a day.                                              *)
HistoryIsLog == History!Spec

(* The days a schedule names since it was saved that are over *)
DaysDue(c) == {d \in 1 .. (day - 1) : cfgs[c].since < d /\ d % WeekLen \in cfgs[c].days}

(* "Backup terjadwal harian": when a day named by a schedule is over, there *)
(* is a run of that day, provided the schedule stood all that day, and that *)
(* since it began the process has not been down and no query has failed.    *)
ScheduledDayHasRun ==
    \A c \in Cfg : Live(c) /\ cfgs[c].on =>
        \A d \in DaysDue(c) :
            mishap < d => \E t \in RowsOf(c) : hist[t].day = d

(* "Backup terjadwal harian": a schedule whose tasks all have their rows has  *)
(* at least as many runs since it was saved as it named days that are over:   *)
(* no run stands for two of them, on whatever day its row was written.        *)
EachDayItsOwnRun ==
    \A c \in Cfg :
        /\ Live(c) /\ cfgs[c].on
        /\ \A t \in Task : task[t].cfg = c => ~Unrecorded(t)
        => Cardinality(DaysDue(c))
             <= Cardinality({t \in RowsOf(c) : hist[t].day > cfgs[c].since})

(* The history names only configurations that exist, though a task may      *)
(* insert its row at any time after the configuration was deleted.          *)
HistoryRefersToConfig ==
    \A t \in Task : hist[t].cfg # None => Live(hist[t].cfg)
=============================================================================
