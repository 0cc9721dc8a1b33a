--------------------------- MODULE SchedulerProofs ---------------------------
(***************************************************************************)
(* Theorems about the backup scheduler, for any number of configurations   *)
(* and tasks and any calendar.                                             *)
(*                                                                         *)
(* AtMostOncePerDay needs an account of the runs that are dispatched and   *)
(* not yet in the history, since that is what the ticker cannot see: with  *)
(* ticks and tasks that are prompt, such a run was dispatched in this very *)
(* minute, its configuration is done with in the tick, no other tick is    *)
(* due, and no run of the ticker is on record for the day.                 *)
(***************************************************************************)
EXTENDS Scheduler, TLAPS

Pending(c, t) == task[t].by = "tick" /\ task[t].cfg = c /\ Unrecorded(t)
Recorded(t) == hist[t].status # "none"

(* A history row is written by the task it is filed under, and loses its *)
(* configuration only with the configuration itself.                     *)
RowsSound ==
    \A t \in Task :
        /\ Recorded(t) => /\ task[t].pc \in {"running", "done"}
                          /\ hist[t].day <= day
                          /\ hist[t].cfg = task[t].cfg
                             \/ cfgs[task[t].cfg].st = "deleted"
        /\ hist[t].cfg # None => /\ Recorded(t)
                                 /\ hist[t].cfg = task[t].cfg
                                 /\ Live(hist[t].cfg)

(* A run, dispatched or about to be, is of a configuration that was saved. *)
TasksSound ==
    /\ \A t \in Task :
         /\ task[t].pc # "none" =>
              task[t].cfg \in Cfg /\ cfgs[task[t].cfg].st # "absent"
         /\ task[t].pc = "running" => hist[t].status = "running"
         /\ task[t].day <= day
    /\ \A c \in todo : cfgs[c].st # "absent"

(* A tick is of the present minute, and a task that has read the clock too. *)
Prompt ==
    /\ phase \in {"read", "scan"} => tickDay = day
    /\ due = 0 \/ phase = "wait"
    /\ due <= 1
    /\ \A t \in Task : task[t].pc = "loaded" => task[t].day = day

(* What a dispatched run that is not on record excludes. *)
PendingSound ==
    \A c \in Cfg, t \in Task :
        Pending(c, t) =>
            /\ due = 0
            /\ phase \in {"wait", "scan"}
            /\ c \notin todo
            /\ \A u \in Task : Pending(c, u) => u = t
            /\ Live(c) => \A u \in Task :
                 task[u].by = "tick" /\ task[u].cfg = c /\ Recorded(u)
                   => hist[u].day # day

Base == TypeOK /\ RowsSound /\ TasksSound
Once == Prompt /\ PendingSound /\ AtMostOncePerDay
PromptMode == PromptTicks = TRUE /\ PromptTasks = TRUE

USE CalendarAssumption, ModeAssumption, NoneAssumption

-----------------------------------------------------------------------------

LEMMA InitBase == Init => Base
BY DEF Init, Base, TypeOK, RowsSound, TasksSound, NoTask, NoRow, Recorded, Live

(* One step keeps the types and the history tied to its tasks. *)
LEMMA StepBase == Base /\ [Next]_vars => Base'
<1> SUFFICES ASSUME Base, [Next]_vars PROVE Base'
  OBVIOUS
<1> USE DEF Base, TypeOK, RowsSound, TasksSound, Recorded, Live, Unrecorded,
            clock, tick, Up
<1>1. CASE Minute
  <2>1. /\ day' \in Nat /\ day' >= day
        /\ minute' \in 0 .. (DayLen - 1)
        /\ due' \in Nat /\ mishap' \in Nat
        /\ UNCHANGED <<phase, tickDay, tickMinute, todo, cfgs, task, hist>>
    <3>1. due' = due + 1 \/ due' = 0
      BY <1>1 DEF Minute
    <3>2. CASE minute = DayLen - 1
      BY <1>1, <3>1, <3>2 DEF Minute
    <3>3. CASE minute # DayLen - 1
      BY <1>1, <3>1, <3>3 DEF Minute
    <3> QED BY <3>2, <3>3
  <2>2. TypeOK'
    BY <2>1
  <2>3. RowsSound' /\ TasksSound'
    BY <2>1
  <2> QED BY <2>2, <2>3
<1>2. CASE Forms
  <2>1. ASSUME NEW c \in Cfg, NEW on \in BOOLEAN, NEW at \in Times,
               NEW days \in DaySets, CreateCfg(c, on, at, days) \/ UpdateCfg(c, on, at, days)
        PROVE Base'
    <3>1. Saved(on, at, days) \in [st: {"live"}, on: BOOLEAN, at: 0 .. (DayLen - 1),
                                   days: SUBSET (0 .. (WeekLen - 1)), since: Nat]
      BY DEF Saved
    <3>2. /\ cfgs' = [cfgs EXCEPT ![c] = Saved(on, at, days)]
          /\ cfgs[c].st # "deleted"
          /\ UNCHANGED <<day, minute, due, phase, tickDay, tickMinute, todo, task, hist,
                         mishap>>
      BY <2>1 DEF CreateCfg, UpdateCfg
    <3> QED BY <3>1, <3>2
  <2>2. ASSUME NEW c \in Cfg, DeleteCfg(c) PROVE Base'
    BY <2>2 DEF DeleteCfg
  <2>3. ASSUME NEW c \in Cfg, NEW t \in Task, RunNow(t, c) PROVE Base'
    BY <2>3 DEF RunNow, Spawn
  <2> QED BY <1>2, <2>1, <2>2, <2>3 DEF Forms
<1>3. CASE Tick
  <2>1. CASE TickStart
    BY <2>1 DEF TickStart
  <2>2. CASE TickRead
    BY <2>2 DEF TickRead, Matches
  <2>3. ASSUME NEW c \in Cfg, TickCheck(c) PROVE Base'
    <3>1. CASE RanToday(c)
      BY <2>3, <3>1 DEF TickCheck, RanToday, RowsOf
    <3>2. CASE ~RanToday(c)
      <4>1. PICK t \in Task : Spawn(t, c, "tick")
        BY <2>3, <3>2 DEF TickCheck, RanToday, RowsOf
      <4> QED BY <2>3, <3>2, <4>1 DEF TickCheck, Spawn, RanToday, RowsOf
    <3> QED BY <3>1, <3>2
  <2>4. CASE TickDone
    BY <2>4 DEF TickDone
  <2> QED BY <1>3, <2>1, <2>2, <2>3, <2>4 DEF Tick
<1>4. CASE TickAbort
  BY <1>4 DEF TickAbort
<1>5. ASSUME NEW t \in Task, RunTask(t) PROVE Base'
  <2>1. CASE Load(t)
    <3>1. CASE Live(task[t].cfg) /\ task' = [task EXCEPT ![t] =
                 [pc |-> "loaded", cfg |-> @.cfg, by |-> @.by, day |-> day]]
      BY <2>1, <3>1 DEF Load
    <3>2. CASE Finished(t)
      BY <2>1, <3>2 DEF Load, Finished, At
    <3> QED BY <2>1, <3>1, <3>2 DEF Load
  <2>2. CASE Record(t)
    <3>1. CASE /\ Live(task[t].cfg)
               /\ hist' = [hist EXCEPT ![t] = Row(t)]
               /\ task' = [task EXCEPT ![t] = At(t, "running")]
      <4>1. /\ task[t].pc = "loaded" /\ mishap' \in {mishap, day}
            /\ UNCHANGED <<day, minute, due, phase, tickDay, tickMinute, todo, cfgs>>
        BY <2>2 DEF Record
      <4>2. /\ task'[t].pc = "running" /\ task'[t].cfg = task[t].cfg
            /\ task'[t].day = task[t].day
            /\ hist'[t].status = "running" /\ hist'[t].cfg = task[t].cfg
            /\ hist'[t].day = task[t].day
            /\ \A u \in Task \ {t} : task'[u] = task[u] /\ hist'[u] = hist[u]
        BY <3>1 DEF At, Row
      <4>3. TypeOK'
        BY <3>1, <4>1 DEF At, Row
      <4>4. RowsSound' /\ TasksSound'
        BY <3>1, <4>1, <4>2
      <4> QED BY <4>3, <4>4
    <3>2. CASE Finished(t) /\ UNCHANGED hist
      BY <2>2, <3>2 DEF Record, Finished, At
    <3> QED BY <2>2, <3>1, <3>2 DEF Record
  <2>3. ASSUME NEW outcome \in {"success", "failed"}, Finish(t, outcome) PROVE Base'
    <3>1. /\ task[t].pc = "running"
          /\ task' = [task EXCEPT ![t] = At(t, "done")]
          /\ hist' = [hist EXCEPT ![t] = Outcome(t, outcome)]
          /\ UNCHANGED <<day, minute, due, phase, tickDay, tickMinute, todo, cfgs, mishap>>
      BY <2>3 DEF Finish, Finished
    <3>2. TypeOK'
      BY <3>1 DEF At, Outcome
    <3>3. /\ task'[t].pc = "done" /\ task'[t].cfg = task[t].cfg
          /\ task'[t].day = task[t].day
          /\ hist'[t].status = outcome /\ hist'[t].cfg = hist[t].cfg
          /\ hist'[t].day = hist[t].day
          /\ \A u \in Task \ {t} : task'[u] = task[u] /\ hist'[u] = hist[u]
      BY <3>1 DEF At, Outcome
    <3>4. Recorded(t)
      BY <3>1
    <3>5. RowsSound' /\ TasksSound'
      BY <3>1, <3>3, <3>4
    <3> QED BY <3>2, <3>5
  <2>4. CASE FinishLost(t)
    BY <2>4 DEF FinishLost, Finished, At
  <2> QED BY <1>5, <2>1, <2>2, <2>3, <2>4 DEF RunTask
<1>6. CASE Crash
  BY <1>6 DEF Crash, At
<1>7. CASE Restart
  BY <1>7 DEF Restart
<1>8. CASE UNCHANGED vars
  BY <1>8 DEF vars
<1> QED BY <1>1, <1>2, <1>3, <1>4, <1>5, <1>6, <1>7, <1>8 DEF Next

THEOREM Inductive == Spec => []Base
<1>1. Init => Base
  BY InitBase
<1>2. Base /\ [Next]_vars => Base'
  BY StepBase
<1> QED BY <1>1, <1>2, PTL DEF Spec

(* Every reachable state has its types. *)
THEOREM TypeCorrect == Spec => []TypeOK
<1>1. Base => TypeOK
  BY DEF Base
<1> QED BY <1>1, Inductive, PTL

(* backup_history.backup_config_id never names a configuration that is gone, *)
(* however late run_backup inserts its row.                                  *)
THEOREM HistoryKeepsReference == Spec => []HistoryRefersToConfig
<1>1. Base => HistoryRefersToConfig
  BY DEF Base, RowsSound, HistoryRefersToConfig
<1> QED BY <1>1, Inductive, PTL

-----------------------------------------------------------------------------

(* What a step of a task does to it: no row appears but that of a run that *)
(* has read the clock, and its configuration exists then.                  *)
LEMMA TaskStep ==
    ASSUME Base, NEW t \in Task, RunTask(t)
    PROVE  /\ UNCHANGED <<day, due, phase, tickDay, todo, cfgs>>
           /\ task'[t].by = task[t].by /\ task'[t].cfg = task[t].cfg
           /\ \A u \in Task \ {t} : task'[u] = task[u] /\ hist'[u] = hist[u]
           /\ Unrecorded(t)' => Unrecorded(t)
           /\ task'[t].pc = "loaded" => task'[t].day = day
           /\ Recorded(t) => Recorded(t)' /\ hist'[t].day = hist[t].day
           /\ Recorded(t)' => \/ Recorded(t)
                              \/ /\ task[t].pc = "loaded" /\ task'[t].pc = "running"
                                 /\ Live(task[t].cfg)
                                 /\ hist'[t].day = task[t].day
<1> DEFINE Goal == /\ UNCHANGED <<day, due, phase, tickDay, todo, cfgs>>
                   /\ task'[t].by = task[t].by /\ task'[t].cfg = task[t].cfg
                   /\ \A u \in Task \ {t} : task'[u] = task[u] /\ hist'[u] = hist[u]
                   /\ Unrecorded(t)' => Unrecorded(t)
                   /\ task'[t].pc = "loaded" => task'[t].day = day
                   /\ Recorded(t) => Recorded(t)' /\ hist'[t].day = hist[t].day
                   /\ Recorded(t)' => \/ Recorded(t)
                                      \/ /\ task[t].pc = "loaded" /\ task'[t].pc = "running"
                                         /\ Live(task[t].cfg)
                                         /\ hist'[t].day = task[t].day
<1> USE DEF Base, TypeOK, RowsSound, TasksSound, Recorded, Live, Unrecorded, clock, tick
<1>1. CASE Load(t)
  <2>1. CASE task' = [task EXCEPT ![t] =
               [pc |-> "loaded", cfg |-> @.cfg, by |-> @.by, day |-> day]]
    BY <1>1, <2>1 DEF Load
  <2>2. CASE Finished(t)
    BY <1>1, <2>2 DEF Load, Finished, At
  <2> QED BY <1>1, <2>1, <2>2 DEF Load
<1>2. CASE Record(t)
  <2>1. CASE /\ Live(task[t].cfg)
             /\ hist' = [hist EXCEPT ![t] = Row(t)]
             /\ task' = [task EXCEPT ![t] = At(t, "running")]
    BY <1>2, <2>1 DEF Record, At, Row
  <2>2. CASE Finished(t) /\ UNCHANGED hist
    BY <1>2, <2>2 DEF Record, Finished, At
  <2> QED BY <1>2, <2>1, <2>2 DEF Record
<1>3. ASSUME NEW outcome \in {"success", "failed"}, Finish(t, outcome) PROVE Goal
  <2>1. /\ task[t].pc = "running"
        /\ task' = [task EXCEPT ![t] = At(t, "done")]
        /\ hist' = [hist EXCEPT ![t] = Outcome(t, outcome)]
        /\ UNCHANGED <<day, due, phase, tickDay, todo, cfgs>>
    BY <1>3 DEF Finish, Finished
  <2> QED BY <2>1 DEF At, Outcome
<1>4. CASE FinishLost(t)
  BY <1>4 DEF FinishLost, Finished, At
<1> QED BY <1>1, <1>2, <1>3, <1>4 DEF RunTask

(* With prompt ticks and tasks, one step keeps tick and tasks in the minute. *)
LEMMA StepPrompt ==
    ASSUME PromptMode, Base, Prompt, [Next]_vars
    PROVE  Prompt'
<1> USE DEF PromptMode, Base, TypeOK, Prompt, Unrecorded, clock, tick, Up
<1>1. CASE Minute
  <2>1. /\ phase \in {"wait", "down"} /\ due = 0 /\ phase' = phase /\ task' = task
        /\ \A t \in Task : task[t].pc # "loaded"
    BY <1>1 DEF Minute
  <2>2. CASE phase = "wait"
    BY <1>1, <2>1, <2>2 DEF Minute
  <2>3. CASE phase = "down"
    BY <1>1, <2>1, <2>3 DEF Minute
  <2> QED BY <2>1, <2>2, <2>3
<1>2. CASE Forms
  <2>1. /\ UNCHANGED <<day, due, phase, tickDay>>
        /\ task' = task \/ \E c \in Cfg, t \in Task : Spawn(t, c, "user")
    BY <1>2 DEF Forms, CreateCfg, UpdateCfg, DeleteCfg, RunNow
  <2> QED BY <2>1 DEF Spawn
<1>3. CASE Tick
  <2>1. CASE TickStart
    BY <2>1 DEF TickStart
  <2>2. CASE TickRead
    BY <2>2 DEF TickRead
  <2>3. ASSUME NEW c \in Cfg, TickCheck(c) PROVE Prompt'
    <3>1. CASE RanToday(c)
      BY <2>3, <3>1 DEF TickCheck
    <3>2. CASE ~RanToday(c)
      <4>1. PICK t \in Task : Spawn(t, c, "tick")
        BY <2>3, <3>2 DEF TickCheck
      <4> QED BY <2>3, <4>1 DEF TickCheck, Spawn
    <3> QED BY <3>1, <3>2
  <2>4. CASE TickDone
    BY <2>4 DEF TickDone
  <2> QED BY <1>3, <2>1, <2>2, <2>3, <2>4 DEF Tick
<1>4. CASE TickAbort
  BY <1>4 DEF TickAbort
<1>5. ASSUME NEW t \in Task, RunTask(t) PROVE Prompt'
  <2>1. /\ UNCHANGED <<day, due, phase, tickDay>>
        /\ \A u \in Task \ {t} : task'[u] = task[u]
        /\ task'[t].pc = "loaded" => task'[t].day = day
    BY <1>5, TaskStep
  <2> QED BY <2>1
<1>6. CASE Crash
  BY <1>6 DEF Crash, At
<1>7. CASE Restart
  BY <1>7 DEF Restart
<1>8. CASE UNCHANGED vars
  BY <1>8 DEF vars
<1> QED BY <1>1, <1>2, <1>3, <1>4, <1>5, <1>6, <1>7, <1>8 DEF Next

(* A step of anything but Minute, TickStart, TickRead, TickCheck and the   *)
(* tasks neither adds a pending run nor a row, and keeps what they exclude. *)
LEMMA PendingFrame ==
    ASSUME Base, PendingSound,
           day' = day, todo' \subseteq todo,
           \A c \in Cfg : Live(c)' /\ cfgs[c].st # "live" => cfgs[c].st = "absent",
           \A t \in Task : Unrecorded(t)' => task'[t] = task[t] \/ task'[t].by = "user",
           \A t \in Task : Recorded(t)' =>
               /\ Recorded(t) /\ hist'[t].day = hist[t].day
               /\ task'[t].by = task[t].by /\ task'[t].cfg = task[t].cfg,
           \/ due' = due /\ phase' = phase
           \/ due' = due /\ phase = "scan" /\ phase' = "wait"
           \/ \A t \in Task : ~Unrecorded(t)'
    PROVE  PendingSound'
<1> USE DEF Base, TypeOK, RowsSound, TasksSound, Recorded, Live, Unrecorded
<1> SUFFICES ASSUME NEW c \in Cfg, NEW t \in Task, Pending(c, t)'
             PROVE  /\ due' = 0
                    /\ phase' \in {"wait", "scan"}
                    /\ c \notin todo'
                    /\ \A u \in Task : Pending(c, u)' => u = t
                    /\ Live(c)' => \A u \in Task :
                         task'[u].by = "tick" /\ task'[u].cfg = c /\ Recorded(u)'
                           => hist'[u].day # day'
  BY DEF PendingSound, Pending
<1>1. \A u \in Task : Pending(c, u)' => Pending(c, u)
  BY DEF Pending
<1>2. Pending(c, t)
  BY <1>1
<1>3. /\ due = 0
      /\ phase \in {"wait", "scan"}
      /\ c \notin todo
      /\ \A u \in Task : Pending(c, u) => u = t
      /\ Live(c) => \A u \in Task :
           task[u].by = "tick" /\ task[u].cfg = c /\ Recorded(u) => hist[u].day # day
  BY <1>2 DEF PendingSound
<1>4. due' = 0 /\ phase' \in {"wait", "scan"}
  BY <1>3 DEF Pending
<1>5. Live(c)' => Live(c)
  BY <1>2 DEF Pending
<1>6. \A u \in Task :
        task'[u].by = "tick" /\ task'[u].cfg = c /\ Recorded(u)'
          => /\ task[u].by = "tick" /\ task[u].cfg = c /\ Recorded(u)
             /\ hist'[u].day = hist[u].day
  OBVIOUS
<1> QED BY <1>1, <1>3, <1>4, <1>5, <1>6

(* Rows come from tasks only: any other step leaves the rows there are. *)
LEMMA RowsKept ==
    ASSUME Base, [Next]_vars, ~\E t \in Task : RunTask(t)
    PROVE  \A t \in Task : Recorded(t)' =>
               /\ Recorded(t) /\ hist'[t].day = hist[t].day
               /\ task'[t].by = task[t].by /\ task'[t].cfg = task[t].cfg
<1> DEFINE Kept == \A t \in Task : Recorded(t)' =>
               /\ Recorded(t) /\ hist'[t].day = hist[t].day
               /\ task'[t].by = task[t].by /\ task'[t].cfg = task[t].cfg
<1> USE DEF Base, TypeOK, RowsSound, Recorded
<1>1. ASSUME NEW c \in Cfg, NEW t \in Task, NEW who, Spawn(t, c, who), hist' = hist
      PROVE  Kept
  BY <1>1 DEF Spawn
<1>2. CASE Minute \/ TickAbort \/ Restart \/ UNCHANGED vars
  BY <1>2 DEF Minute, TickAbort, Restart, vars
<1>3. CASE Forms
  <2>1. CASE \E c \in Cfg : DeleteCfg(c)
    BY <2>1 DEF DeleteCfg
  <2>2. CASE \E c \in Cfg, t \in Task : RunNow(t, c)
    BY <2>2, <1>1 DEF RunNow
  <2>3. CASE UNCHANGED <<task, hist>>
    BY <2>3
  <2> QED BY <1>3, <2>1, <2>2, <2>3 DEF Forms, CreateCfg, UpdateCfg
<1>4. CASE Tick
  <2>1. ASSUME NEW c \in Cfg, TickCheck(c) PROVE Kept
    <3>1. CASE RanToday(c)
      BY <2>1, <3>1 DEF TickCheck
    <3>2. CASE ~RanToday(c)
      BY <2>1, <3>2, <1>1 DEF TickCheck
    <3> QED BY <3>1, <3>2
  <2>2. CASE TickStart \/ TickRead \/ TickDone
    BY <2>2 DEF TickStart, TickRead, TickDone
  <2> QED BY <1>4, <2>1, <2>2 DEF Tick
<1>5. CASE Crash
  BY <1>5 DEF Crash, At
<1> QED BY <1>2, <1>3, <1>4, <1>5 DEF Next

(* A run that the tick dispatches is the only one of its configuration that *)
(* is not on record, and the ticker has none on record for today.           *)
LEMMA PendingDispatch ==
    ASSUME Base, Prompt, PendingSound, NEW c \in Cfg, TickCheck(c),
           NEW t \in Task, Spawn(t, c, "tick"), ~RanToday(c)
    PROVE  PendingSound'
<1> USE DEF Base, TypeOK, RowsSound, Recorded, Live, Unrecorded
<1>1. /\ phase = "scan" /\ c \in todo
      /\ todo' = todo \ {c}
      /\ UNCHANGED <<day, due, phase, cfgs, hist>>
  BY DEF TickCheck, clock
<1>2. /\ task[t].pc = "none" /\ task'[t].by = "tick" /\ task'[t].cfg = c
      /\ task'[t].pc = "new"
      /\ \A u \in Task \ {t} : task'[u] = task[u]
  BY DEF Spawn
<1>3. due = 0 /\ tickDay = day
  BY <1>1 DEF Prompt
<1>4. \A u \in Task : ~Pending(c, u)
  BY <1>1 DEF PendingSound
<1>5. \A d \in Cfg, u \in Task : Pending(d, u)' => Pending(d, u) \/ (d = c /\ u = t)
  BY <1>2 DEF Pending
<1>6. \A u \in Task : ~Recorded(t) /\ (Recorded(u)' <=> Recorded(u))
  BY <1>1, <1>2
<1>7. Live(c) => \A u \in Task :
        task[u].by = "tick" /\ task[u].cfg = c /\ Recorded(u) => hist[u].day # day
  BY <1>3 DEF RanToday, RowsOf
<1> SUFFICES ASSUME NEW d \in Cfg, NEW r \in Task, Pending(d, r)'
             PROVE  /\ due' = 0
                    /\ phase' \in {"wait", "scan"}
                    /\ d \notin todo'
                    /\ \A u \in Task : Pending(d, u)' => u = r
                    /\ Live(d)' => \A u \in Task :
                         task'[u].by = "tick" /\ task'[u].cfg = d /\ Recorded(u)'
                           => hist'[u].day # day'
  BY DEF PendingSound, Pending
<1>8. CASE d = c
  BY <1>1, <1>2, <1>3, <1>4, <1>5, <1>6, <1>7, <1>8
<1>9. CASE d # c
  <2>1. Pending(d, r)
    BY <1>5, <1>9
  <2>2. /\ d \notin todo
        /\ \A u \in Task : Pending(d, u) => u = r
        /\ Live(d) => \A u \in Task :
             task[u].by = "tick" /\ task[u].cfg = d /\ Recorded(u) => hist[u].day # day
    BY <2>1 DEF PendingSound
  <2> QED BY <1>1, <1>2, <1>3, <1>5, <1>6, <1>9, <2>2
<1> QED BY <1>8, <1>9

(* A step of a task ends what it excluded when its row is written. *)
LEMMA PendingTask ==
    ASSUME Base, PendingSound, NEW t \in Task, RunTask(t)
    PROVE  PendingSound'
<1>1. /\ UNCHANGED <<day, due, phase, todo, cfgs>>
      /\ task'[t].by = task[t].by /\ task'[t].cfg = task[t].cfg
      /\ \A u \in Task \ {t} : task'[u] = task[u] /\ hist'[u] = hist[u]
      /\ Unrecorded(t)' => Unrecorded(t)
      /\ Recorded(t) => hist'[t].day = hist[t].day
      /\ Recorded(t)' => \/ Recorded(t)
                         \/ /\ task[t].pc = "loaded" /\ task'[t].pc = "running"
  BY TaskStep
<1>2. \A c \in Cfg, u \in Task : Pending(c, u)' => Pending(c, u)
  BY <1>1 DEF Pending, Unrecorded
<1> SUFFICES ASSUME NEW c \in Cfg, NEW r \in Task, Pending(c, r)'
             PROVE  /\ due' = 0
                    /\ phase' \in {"wait", "scan"}
                    /\ c \notin todo'
                    /\ \A u \in Task : Pending(c, u)' => u = r
                    /\ Live(c)' => \A u \in Task :
                         task'[u].by = "tick" /\ task'[u].cfg = c /\ Recorded(u)'
                           => hist'[u].day # day'
  BY DEF PendingSound, Pending
<1>3. /\ due = 0
      /\ phase \in {"wait", "scan"}
      /\ c \notin todo
      /\ \A u \in Task : Pending(c, u) => u = r
      /\ Live(c) => \A u \in Task :
           task[u].by = "tick" /\ task[u].cfg = c /\ Recorded(u) => hist[u].day # day
  BY <1>2 DEF PendingSound
<1>4. \A u \in Task : task'[u].by = "tick" /\ task'[u].cfg = c /\ Recorded(u)'
                        => Recorded(u) /\ task[u].by = "tick" /\ task[u].cfg = c
  <2> SUFFICES ASSUME task'[t].by = "tick", task'[t].cfg = c, Recorded(t)', ~Recorded(t)
               PROVE  FALSE
    BY <1>1 DEF Recorded
  <2>1. task[t].pc = "loaded" /\ task'[t].pc = "running"
    BY <1>1
  <2>2. Pending(c, t)
    BY <1>1, <2>1 DEF Pending, Unrecorded
  <2>3. t = r
    BY <1>3, <2>2
  <2> QED BY <2>1, <2>3 DEF Pending, Unrecorded
<1> QED BY <1>1, <1>2, <1>3, <1>4 DEF Live


LEMMA StepPending ==
    ASSUME PromptMode, Base, Prompt, PendingSound, [Next]_vars
    PROVE  PendingSound'
<1>1. ASSUME NEW t \in Task, RunTask(t) PROVE PendingSound'
  BY <1>1, PendingTask
<1>2. ASSUME ~\E t \in Task : RunTask(t) PROVE PendingSound'
  <2> DEFINE Kept == \A t \in Task : Recorded(t)' =>
                       /\ Recorded(t) /\ hist'[t].day = hist[t].day
                       /\ task'[t].by = task[t].by /\ task'[t].cfg = task[t].cfg
  <2>1. Kept
    BY <1>2, RowsKept
  <2> HIDE DEF Kept
  <2>2. ASSUME day' = day, todo' \subseteq todo,
               \A c \in Cfg : Live(c)' /\ cfgs[c].st # "live" => cfgs[c].st = "absent",
               \A t \in Task : Unrecorded(t)' => task'[t] = task[t] \/ task'[t].by = "user",
               \/ due' = due /\ phase' = phase
               \/ due' = due /\ phase = "scan" /\ phase' = "wait"
               \/ \A t \in Task : ~Unrecorded(t)'
        PROVE  PendingSound'
    BY <2>1, <2>2, PendingFrame DEF Kept
  <2> USE DEF PromptMode, Base, TypeOK, Live, clock, tick, Up
  <2>3. CASE Minute
    <3>1. \A t \in Task : ~Unrecorded(t)'
      BY <2>3 DEF Minute, Unrecorded
    <3> QED BY <3>1 DEF PendingSound, Pending
  <2>4. CASE Forms
    <3>1. ASSUME NEW c \in Cfg, NEW on \in BOOLEAN, NEW at \in Times, NEW days \in DaySets,
                 CreateCfg(c, on, at, days) \/ UpdateCfg(c, on, at, days)
          PROVE  PendingSound'
      BY <3>1, <2>2 DEF CreateCfg, UpdateCfg
    <3>2. ASSUME NEW c \in Cfg, DeleteCfg(c) PROVE PendingSound'
      BY <3>2, <2>2 DEF DeleteCfg
    <3>3. ASSUME NEW c \in Cfg, NEW t \in Task, RunNow(t, c) PROVE PendingSound'
      <4>1. \A u \in Task : task'[u] = task[u] \/ task'[u].by = "user"
        BY <3>3 DEF RunNow, Spawn
      <4> QED BY <3>3, <4>1, <2>2 DEF RunNow
    <3> QED BY <2>4, <3>1, <3>2, <3>3 DEF Forms
  <2>5. CASE TickStart
    BY <2>5 DEF TickStart, PendingSound, Pending, Unrecorded
  <2>6. CASE TickRead
    BY <2>6 DEF TickRead, PendingSound, Pending, Unrecorded
  <2>7. ASSUME NEW c \in Cfg, TickCheck(c) PROVE PendingSound'
    <3>1. CASE RanToday(c)
      BY <2>7, <3>1, <2>2 DEF TickCheck
    <3>2. CASE ~RanToday(c)
      <4>1. PICK t \in Task : Spawn(t, c, "tick")
        BY <2>7, <3>2 DEF TickCheck
      <4> QED BY <2>7, <3>2, <4>1, PendingDispatch
    <3> QED BY <3>1, <3>2
  <2>8. CASE TickDone
    BY <2>8, <2>2 DEF TickDone
  <2>9. CASE TickAbort
    <3>1. CASE phase = "read"
      BY <2>9, <3>1 DEF TickAbort, PendingSound, Pending, Unrecorded
    <3>2. CASE phase = "scan"
      BY <2>9, <3>2, <2>2 DEF TickAbort
    <3> QED BY <2>9, <3>1, <3>2 DEF TickAbort
  <2>10. CASE Crash
    BY <2>10 DEF Crash, At, PendingSound, Pending, Unrecorded
  <2>11. CASE Restart
    BY <2>11 DEF Restart, PendingSound, Pending, Unrecorded
  <2>12. CASE UNCHANGED vars
    BY <2>12, <2>2 DEF vars
  <2> QED BY <1>2, <2>3, <2>4, <2>5, <2>6, <2>7, <2>8, <2>9, <2>10, <2>11, <2>12
             DEF Next, Tick
<1> QED BY <1>1, <1>2

(* Only a run that was pending can add a row of the ticker's. *)
LEMMA StepOncePerDay ==
    ASSUME Base, Prompt, PendingSound, AtMostOncePerDay, [Next]_vars
    PROVE  AtMostOncePerDay'
<1>1. ASSUME ~\E t \in Task : RunTask(t) PROVE AtMostOncePerDay'
  <2>1. \A t \in Task : Recorded(t)' =>
          /\ Recorded(t) /\ hist'[t].day = hist[t].day
          /\ task'[t].by = task[t].by /\ task'[t].cfg = task[t].cfg
    BY <1>1, RowsKept
  <2> QED BY <2>1 DEF AtMostOncePerDay, Recorded
<1>2. ASSUME NEW t \in Task, RunTask(t) PROVE AtMostOncePerDay'
  <2>1. /\ task'[t].by = task[t].by /\ task'[t].cfg = task[t].cfg
        /\ \A u \in Task \ {t} : task'[u] = task[u] /\ hist'[u] = hist[u]
        /\ Recorded(t) => hist'[t].day = hist[t].day
        /\ Recorded(t)' => \/ Recorded(t)
                           \/ /\ task[t].pc = "loaded"
                              /\ Live(task[t].cfg)
                              /\ hist'[t].day = task[t].day
    BY <1>2, TaskStep
  <2>2. CASE Recorded(t) \/ ~Recorded(t)'
    BY <2>1, <2>2 DEF AtMostOncePerDay, Recorded
  <2>3. CASE ~Recorded(t) /\ Recorded(t)'
    <3>1. /\ task[t].pc = "loaded" /\ Live(task[t].cfg)
          /\ hist'[t].day = day
      BY <2>1, <2>3 DEF Prompt
    <3>2. task[t].cfg \in Cfg
      BY <3>1 DEF Base, TasksSound
    <3>3. task[t].by = "tick" =>
            \A u \in Task : task[u].by = "tick" /\ task[u].cfg = task[t].cfg /\ Recorded(u)
                              => hist[u].day # day
      BY <3>1, <3>2 DEF PendingSound, Pending, Unrecorded
    <3> QED BY <2>1, <3>1, <3>3 DEF AtMostOncePerDay, Recorded
  <2> QED BY <2>2, <2>3
<1> QED BY <1>1, <1>2

(* When ticks and the first steps of tasks take less than a minute, the    *)
(* ticker records one run of a configuration a day at most, through        *)
(* crashes, failing statements and any edits.                              *)
THEOREM OncePerDay ==
    ASSUME PromptMode
    PROVE  Spec => []AtMostOncePerDay
<1>1. Init => Base /\ Once
  <2>1. Init => Once
    BY DEF Init, Once, Prompt, PendingSound, Pending, Unrecorded, AtMostOncePerDay,
           NoTask, NoRow
  <2> QED BY <2>1, InitBase
<1>2. Base /\ Once /\ [Next]_vars => (Base /\ Once)'
  BY PromptMode, StepBase, StepPrompt, StepPending, StepOncePerDay DEF Once
<1>3. Base /\ Once => AtMostOncePerDay
  BY DEF Once
<1> QED BY <1>1, <1>2, <1>3, PTL DEF Spec

-----------------------------------------------------------------------------

(* The history refines BackupLog. *)

(* An entry follows from what is on record for it. *)
LEMMA EntryFollows ==
    ASSUME NEW t \in Task, hist'[t].status = hist[t].status, hist'[t].day = hist[t].day,
           Recorded(t) => task'[t].by = task[t].by /\ task'[t].cfg = task[t].cfg
    PROVE  Entry(t)' = Entry(t)
BY DEF Entry, Recorded

(* Anything but a step of a task leaves every entry alone, deletions and   *)
(* crashes included.                                                       *)
LEMMA EntriesKept ==
    ASSUME Base, [Next]_vars, ~\E t \in Task : RunTask(t)
    PROVE  UNCHANGED Entries
<1> DEFINE Kept == \A t \in Task :
               /\ hist'[t].status = hist[t].status /\ hist'[t].day = hist[t].day
               /\ Recorded(t) => task'[t].by = task[t].by /\ task'[t].cfg = task[t].cfg
<1> USE DEF Base, TypeOK, RowsSound, Recorded
<1>1. ASSUME NEW c \in Cfg, NEW t \in Task, NEW who, Spawn(t, c, who), hist' = hist
      PROVE  Kept
  BY <1>1 DEF Spawn
<1>2. ASSUME Minute \/ TickAbort \/ Restart \/ UNCHANGED vars PROVE Kept
  BY <1>2 DEF Minute, TickAbort, Restart, vars
<1>3. ASSUME Forms PROVE Kept
  <2>1. CASE \E c \in Cfg : DeleteCfg(c)
    BY <2>1 DEF DeleteCfg
  <2>2. CASE \E c \in Cfg, t \in Task : RunNow(t, c)
    BY <2>2, <1>1 DEF RunNow
  <2>3. CASE UNCHANGED <<task, hist>>
    BY <2>3
  <2> QED BY <1>3, <2>1, <2>2, <2>3 DEF Forms, CreateCfg, UpdateCfg
<1>4. ASSUME Tick PROVE Kept
  <2>1. ASSUME NEW c \in Cfg, TickCheck(c) PROVE Kept
    <3>1. CASE RanToday(c)
      BY <2>1, <3>1 DEF TickCheck
    <3>2. CASE ~RanToday(c)
      BY <2>1, <3>2, <1>1 DEF TickCheck
    <3> QED BY <3>1, <3>2
  <2>2. CASE TickStart \/ TickRead \/ TickDone
    BY <2>2 DEF TickStart, TickRead, TickDone
  <2> QED BY <1>4, <2>1, <2>2 DEF Tick
<1>5. ASSUME Crash PROVE Kept
  BY <1>5 DEF Crash, At
<1>6. Kept
  BY <1>2, <1>3, <1>4, <1>5 DEF Next
<1> HIDE DEF Kept
<1>7. \A t \in Task : Entry(t)' = Entry(t)
  BY <1>6, EntryFollows DEF Kept
<1> QED BY <1>7 DEF Entries

(* One entry changes. *)
LEMMA EntryChanged ==
    ASSUME NEW t \in Task, \A u \in Task \ {t} : task'[u] = task[u] /\ hist'[u] = hist[u]
    PROVE  Entries' = [Entries EXCEPT ![t] = Entries'[t]]
<1>1. \A u \in Task \ {t} : Entry(u)' = Entry(u)
  BY DEF Entry
<1> QED BY <1>1 DEF Entries

(* run_backup's INSERT enters a run, *)
LEMMA RecordEnters ==
    ASSUME Base, Base', AtMostOncePerDay', NEW t \in Task, task[t].pc = "loaded",
           Live(task[t].cfg),
           hist' = [hist EXCEPT ![t] = Row(t)], task' = [task EXCEPT ![t] = At(t, "running")]
    PROVE  History!Next
<1> USE DEF Base, TypeOK
<1>1. /\ hist'[t].status = "running" /\ hist'[t].day = task[t].day
      /\ task'[t].cfg = task[t].cfg /\ task'[t].by = task[t].by
      /\ \A u \in Task \ {t} : task'[u] = task[u] /\ hist'[u] = hist[u]
  BY DEF Row, At
<1>2. hist[t].status = "none" /\ task[t].cfg \in Cfg /\ task[t].day \in Nat
  BY DEF RowsSound, TasksSound, Recorded
<1>3. Entries[t] = History!Absent
  BY <1>2 DEF Entries, Entry, History!Absent
<1>4. Entries'[t] = [status |-> "running", cfg |-> task[t].cfg,
                     auto |-> task[t].by = "tick", day |-> task[t].day]
  BY <1>1 DEF Entries, Entry
<1>5. ASSUME task[t].by = "tick", NEW u \in Task, Entries[u].auto,
             Entries[u].cfg = task[t].cfg
      PROVE  Entries[u].day # task[t].day
  <2>1. /\ Recorded(u) /\ task[u].by = "tick" /\ task[u].cfg = task[t].cfg
        /\ Entries[u].day = hist[u].day
    BY <1>5 DEF Entries, Entry, Recorded
  <2>2. u # t
    BY <1>2, <2>1 DEF Recorded
  <2> QED BY <1>1, <1>5, <2>1, <2>2 DEF AtMostOncePerDay, Recorded
<1>6. Entries' = [Entries EXCEPT ![t] = Entries'[t]]
  BY <1>1, EntryChanged
<1>7. Entries'[t].auto => task[t].by = "tick"
  <2>1. Entries'[t].auto = (task[t].by = "tick")
    BY <1>4
  <2> QED BY <2>1
<1>8. /\ Entries'[t].status = "running" /\ Entries'[t].cfg = task[t].cfg
      /\ Entries'[t].day = task[t].day
  BY <1>4
<1>9. Entries'[t].auto => \A u \in Task :
        Entries[u].auto /\ Entries[u].cfg = Entries'[t].cfg => Entries[u].day # Entries'[t].day
  BY <1>5, <1>7, <1>8
<1>10. History!Enter(t)
  BY <1>2, <1>3, <1>6, <1>8, <1>9 DEF History!Enter
<1> QED BY <1>10 DEF History!Next

(* and its UPDATE settles it. *)
LEMMA FinishSettles ==
    ASSUME Base, NEW t \in Task, NEW outcome \in {"success", "failed"}, Finish(t, outcome)
    PROVE  [History!Next]_Entries
<1> USE DEF Base, TypeOK
<1>1. /\ task[t].pc = "running"
      /\ task' = [task EXCEPT ![t] = At(t, "done")]
      /\ hist' = [hist EXCEPT ![t] = Outcome(t, outcome)]
  BY DEF Finish, Finished
<1>2. /\ hist'[t].status = outcome /\ hist'[t].day = hist[t].day
      /\ task'[t].cfg = task[t].cfg /\ task'[t].by = task[t].by
      /\ \A u \in Task \ {t} : task'[u] = task[u] /\ hist'[u] = hist[u]
  BY <1>1 DEF At, Outcome
<1>3. Recorded(t) /\ hist[t].status = "running"
  BY <1>1 DEF TasksSound, Recorded
<1>4. Entries[t] = [status |-> "running", cfg |-> task[t].cfg,
                    auto |-> task[t].by = "tick", day |-> hist[t].day]
  BY <1>3 DEF Entries, Entry
<1>5. Entries'[t] = [status |-> outcome, cfg |-> task[t].cfg,
                     auto |-> task[t].by = "tick", day |-> hist[t].day]
  BY <1>2 DEF Entries, Entry
<1>6. Entries' = [Entries EXCEPT ![t] = Entries'[t]]
  BY <1>2, EntryChanged
<1>7. Entries' = [Entries EXCEPT ![t] =
                      [status |-> outcome, cfg |-> Entries[t].cfg,
                       auto |-> Entries[t].auto, day |-> Entries[t].day]]
  <2>1. Entries'[t] = [status |-> outcome, cfg |-> Entries[t].cfg,
                       auto |-> Entries[t].auto, day |-> Entries[t].day]
    BY <1>4, <1>5
  <2> QED BY <1>6, <2>1
<1>8. History!Settle(t)
  <2>1. Entries[t].status = "running"
    BY <1>4
  <2>2. \E o \in {"success", "failed"} :
           Entries' = [Entries EXCEPT ![t] =
                         [status |-> o, cfg |-> Entries[t].cfg,
                          auto |-> Entries[t].auto, day |-> Entries[t].day]]
    BY <1>7, Zenon
  <2> QED BY <2>1, <2>2, Zenon DEF History!Settle
<1> QED BY <1>8 DEF History!Next

(* A step of a task is one of these, or shows nowhere. *)
LEMMA TaskEntries ==
    ASSUME Base, Base', AtMostOncePerDay', NEW t \in Task, RunTask(t)
    PROVE  [History!Next]_Entries
<1> USE DEF Base, TypeOK
<1>1. ASSUME hist' = hist, task'[t].by = task[t].by, task'[t].cfg = task[t].cfg,
             \A u \in Task \ {t} : task'[u] = task[u]
      PROVE  UNCHANGED Entries
  <2>1. \A u \in Task : Entry(u)' = Entry(u)
    BY <1>1, EntryFollows
  <2> QED BY <2>1 DEF Entries
<1>2. /\ task'[t].by = task[t].by /\ task'[t].cfg = task[t].cfg
      /\ \A u \in Task \ {t} : task'[u] = task[u]
  BY TaskStep
<1>3. CASE Load(t) \/ FinishLost(t)
  BY <1>1, <1>2, <1>3 DEF Load, FinishLost
<1>4. CASE Record(t)
  <2>1. CASE /\ Live(task[t].cfg)
             /\ hist' = [hist EXCEPT ![t] = Row(t)]
             /\ task' = [task EXCEPT ![t] = At(t, "running")]
    BY <1>4, <2>1, RecordEnters DEF Record
  <2>2. CASE Finished(t) /\ UNCHANGED hist
    BY <1>1, <1>2, <2>2
  <2> QED BY <1>4, <2>1, <2>2 DEF Record
<1>5. ASSUME NEW outcome \in {"success", "failed"}, Finish(t, outcome)
      PROVE  [History!Next]_Entries
  BY <1>5, FinishSettles
<1> QED BY <1>3, <1>4, <1>5 DEF RunTask

(* The history is a log: with prompt ticks and tasks it only grows by runs, *)
(* of the ticker's one a day and configuration, and each is settled once,   *)
(* whatever is deleted, crashes or fails in between.                        *)
THEOREM HistoryImplementsLog ==
    ASSUME PromptMode
    PROVE  Spec => HistoryIsLog
<1>1. Init => Base /\ Once /\ History!Init
  <2>1. Init => Once
    BY DEF Init, Once, Prompt, PendingSound, Pending, Unrecorded, AtMostOncePerDay,
           NoTask, NoRow
  <2>2. Init => History!Init
    BY DEF Init, History!Init, History!Absent, Entries, Entry, NoRow
  <2> QED BY <2>1, <2>2, InitBase
<1>2. Base /\ Once /\ [Next]_vars => (Base /\ Once)'
  BY PromptMode, StepBase, StepPrompt, StepPending, StepOncePerDay DEF Once
<1>3. Base /\ Base' /\ Once' /\ [Next]_vars => [History!Next]_Entries
  BY EntriesKept, TaskEntries DEF Once
<1> QED BY <1>1, <1>2, <1>3, PTL DEF Spec, HistoryIsLog, History!Spec

-----------------------------------------------------------------------------

(* Each day that a standing schedule names has its run. *)

(* The schedule of c names today, and stood when the day began; nothing has *)
(* gone wrong since then.                                                    *)
Scheduled(c) ==
    /\ Live(c) /\ cfgs[c].on
    /\ cfgs[c].since < day
    /\ mishap < day
    /\ day % WeekLen \in cfgs[c].days

RunOn(c, d) == \E t \in RowsOf(c) : hist[t].day = d

(* A run of c is on its way to the history. *)
Coming(c) == \E t \in Task : task[t].cfg = c /\ Unrecorded(t)

(* The minute of a schedule ends with its run on record: until then the    *)
(* tick is due, has still to read the configurations, or has it in its     *)
(* list.                                                                   *)
Timely ==
    \A c \in Cfg : Scheduled(c) =>
        /\ cfgs[c].at < minute => RunOn(c, day)
        /\ cfgs[c].at = minute =>
             \/ phase = "wait" /\ due > 0
             \/ phase = "read" /\ tickMinute = minute
             \/ phase = "scan" /\ c \in todo
             \/ Coming(c)
             \/ RunOn(c, day)

(* A process that is down is a mishap of today. *)
MishapKnown == mishap <= day /\ (phase = "down" => mishap = day)

Served == MishapKnown /\ Timely /\ ScheduledDayHasRun

(* A run of day d is owed to c. *)
Owed(c, d) ==
    /\ Live(c) /\ cfgs[c].on
    /\ d < day /\ cfgs[c].since < d /\ mishap < d
    /\ d % WeekLen \in cfgs[c].days

LEMMA DaysOwed ==
    ASSUME TypeOK
    PROVE  ScheduledDayHasRun <=> \A c \in Cfg : \A d \in Nat : Owed(c, d) => RunOn(c, d)
<1>1. \A c \in Cfg : cfgs[c].since \in Nat
  BY DEF TypeOK
<1>2. \A c \in Cfg : \A d \in Nat :
        d \in DaysDue(c) <=> /\ d < day /\ cfgs[c].since < d
                            /\ d % WeekLen \in cfgs[c].days
  BY <1>1 DEF DaysDue, TypeOK
<1>3. \A c \in Cfg : DaysDue(c) \subseteq Nat
  BY DEF DaysDue, TypeOK
<1> QED BY <1>2, <1>3 DEF ScheduledDayHasRun, Owed, RunOn

(* A step of the clock, of a crash or of a fault is all that touches mishap. *)
LEMMA MishapStep ==
    ASSUME Base, [Next]_vars, ~Minute
    PROVE  day' = day /\ (mishap' = mishap \/ mishap' = day)
BY DEF Next, vars, clock, Forms, CreateCfg, UpdateCfg, DeleteCfg, RunNow,
       Tick, TickStart, TickRead, TickCheck, TickDone, TickAbort,
       RunTask, Load, Record, Finish, FinishLost, Crash, Restart

(* A row keeps its configuration as long as that is there. *)
LEMMA RowStays ==
    ASSUME Base, [Next]_vars, NEW c \in Cfg, Live(c)', NEW t \in Task, hist[t].cfg = c
    PROVE  hist'[t].cfg = c /\ hist'[t].day = hist[t].day
<1> DEFINE Kept == hist'[t].cfg = c /\ hist'[t].day = hist[t].day
<1> USE DEF Base, TypeOK
<1>1. Recorded(t) /\ task[t].pc \in {"running", "done"}
  BY DEF RowsSound
<1>2. CASE hist' = hist
  BY <1>2
<1>3. ASSUME NEW e \in Cfg, DeleteCfg(e) PROVE Kept
  BY <1>3 DEF DeleteCfg, Live
<1>4. ASSUME NEW u \in Task, Record(u) PROVE Kept
  <2>1. u # t
    BY <1>1, <1>4 DEF Record
  <2> QED BY <1>4, <2>1 DEF Record
<1>5. ASSUME NEW u \in Task, NEW outcome \in {"success", "failed"}, Finish(u, outcome)
      PROVE  Kept
  BY <1>5 DEF Finish, Outcome
<1>6. CASE Forms
  BY <1>2, <1>3, <1>6 DEF Forms, CreateCfg, UpdateCfg, RunNow
<1>7. CASE Tick
  BY <1>2, <1>7 DEF Tick, TickStart, TickRead, TickCheck, TickDone
<1>8. ASSUME NEW u \in Task, RunTask(u) PROVE Kept
  BY <1>2, <1>4, <1>5, <1>8 DEF RunTask, Load, FinishLost
<1>9. CASE Minute \/ TickAbort \/ Crash \/ Restart \/ UNCHANGED vars
  BY <1>2, <1>9 DEF Minute, TickAbort, Crash, Restart, vars
<1> QED BY <1>6, <1>7, <1>8, <1>9 DEF Next

(* What is neither interrupted nor fails reaches the history. *)
LEMMA ComingStays ==
    ASSUME Base, Prompt, [Next]_vars, ~Minute, NEW c \in Cfg, Live(c)', Coming(c),
           mishap' < day'
    PROVE  Coming(c)' \/ RunOn(c, day)'
<1> DEFINE Kept == Coming(c)' \/ RunOn(c, day)'
<1> USE DEF Base, TypeOK, Unrecorded
<1>1. PICK t \in Task : task[t].cfg = c /\ Unrecorded(t)
  BY DEF Coming
<1>2. ASSUME task'[t] = task[t] PROVE Kept
  BY <1>1, <1>2 DEF Coming
<1>3. ASSUME NEW e \in Cfg, NEW u \in Task, NEW who, Spawn(u, e, who) PROVE Kept
  BY <1>1, <1>2, <1>3 DEF Spawn
<1>4. CASE Forms
  BY <1>2, <1>3, <1>4 DEF Forms, CreateCfg, UpdateCfg, DeleteCfg, RunNow
<1>5. CASE Tick
  BY <1>2, <1>3, <1>5 DEF Tick, TickStart, TickRead, TickCheck, TickDone
<1>6. ASSUME NEW u \in Task, RunTask(u) PROVE Kept
  <2>1. CASE u # t
    <3>1. task'[t] = task[t]
      BY <1>6, <2>1, TaskStep
    <3> QED BY <1>2, <3>1
  <2>2. CASE u = t
    <3>1. cfgs' = cfgs /\ day' = day
      BY <1>6, TaskStep
    <3>2. Live(task[t].cfg)
      BY <1>1, <3>1 DEF Live
    <3>3. CASE Load(t)
      <4>1. task' = [task EXCEPT ![t] = [pc |-> "loaded", cfg |-> @.cfg,
                                         by |-> @.by, day |-> day]]
        BY <3>1, <3>2, <3>3 DEF Load
      <4>2. task'[t].cfg = c /\ task'[t].pc = "loaded"
        BY <1>1, <4>1
      <4> QED BY <4>2 DEF Coming
    <3>4. CASE Record(t)
      <4>1. task[t].pc = "loaded" /\ hist' = [hist EXCEPT ![t] = Row(t)]
        BY <3>1, <3>2, <3>4 DEF Record
      <4>2. hist'[t].cfg = c /\ hist'[t].day = day'
        BY <1>1, <3>1, <4>1 DEF Row, Prompt
      <4> QED BY <4>2 DEF RunOn, RowsOf
    <3> QED BY <1>1, <1>6, <2>2, <3>3, <3>4 DEF RunTask, Finish, FinishLost
  <2> QED BY <2>1, <2>2
<1>7. CASE TickAbort \/ Restart \/ UNCHANGED vars
  BY <1>2, <1>7 DEF TickAbort, Restart, vars
<1>8. ~Crash
  BY DEF Crash
<1> QED BY <1>8, <1>4, <1>5, <1>6, <1>7 DEF Next

(* What the schedule asks of the present day stays the same until midnight, *)
(* but for the configurations that a form has just saved.                   *)
LEMMA ScheduledBefore ==
    ASSUME Base, [Next]_vars, ~Minute, NEW c \in Cfg, Scheduled(c)'
    PROVE  Scheduled(c) /\ cfgs'[c] = cfgs[c] /\ UNCHANGED <<day, minute>>
<1> DEFINE Kept == cfgs'[c] = cfgs[c] /\ UNCHANGED <<day, minute>>
<1> USE DEF Base, TypeOK, clock
<1>1. ASSUME NEW e \in Cfg, NEW on \in BOOLEAN, NEW at \in Times, NEW days \in DaySets,
             CreateCfg(e, on, at, days) \/ UpdateCfg(e, on, at, days)
      PROVE  Kept
  <2>1. /\ cfgs' = [cfgs EXCEPT ![e] = Saved(on, at, days)]
        /\ UNCHANGED <<day, minute>>
    BY <1>1 DEF CreateCfg, UpdateCfg
  <2>2. e # c
    <3>1. ASSUME e = c PROVE cfgs'[c].since = day
      BY <2>1, <3>1 DEF Saved
    <3>2. cfgs'[c].since < day' /\ day' = day /\ day \in Nat
      BY <2>1 DEF Scheduled
    <3> QED BY <3>1, <3>2
  <2> QED BY <2>1, <2>2
<1>2. ASSUME NEW e \in Cfg, DeleteCfg(e) PROVE Kept
  BY <1>2 DEF DeleteCfg, Scheduled, Live
<1>3. ASSUME NEW e \in Cfg, NEW t \in Task, RunNow(t, e) PROVE Kept
  BY <1>3 DEF RunNow
<1>4. ASSUME Forms PROVE Kept
  BY <1>1, <1>2, <1>3, <1>4 DEF Forms
<1>5. ASSUME Tick PROVE Kept
  BY <1>5 DEF Tick, TickStart, TickRead, TickCheck, TickDone
<1>6. ASSUME NEW t \in Task, RunTask(t) PROVE Kept
  BY <1>6 DEF RunTask, Load, Record, Finish, FinishLost
<1>7. ASSUME TickAbort \/ Crash \/ Restart \/ UNCHANGED vars PROVE Kept
  BY <1>7 DEF TickAbort, Crash, Restart, vars
<1>8. Kept
  BY <1>4, <1>5, <1>6, <1>7 DEF Next
<1>9. mishap < day
  BY <1>8, MishapStep DEF Scheduled
<1> QED BY <1>8, <1>9 DEF Scheduled, Live

(* Within a minute, the tick hands each schedule on. *)
LEMMA TimelyInMinute ==
    ASSUME Base, Prompt, Served, [Next]_vars, ~Minute
    PROVE  Timely'
<1> SUFFICES ASSUME NEW c \in Cfg, Scheduled(c)'
             PROVE  /\ cfgs'[c].at < minute' => RunOn(c, day)'
                    /\ cfgs'[c].at = minute' =>
                         \/ phase' = "wait" /\ due' > 0
                         \/ phase' = "read" /\ tickMinute' = minute'
                         \/ phase' = "scan" /\ c \in todo'
                         \/ Coming(c)'
                         \/ RunOn(c, day)'
  BY DEF Timely
<1>1. /\ Scheduled(c) /\ cfgs'[c] = cfgs[c] /\ UNCHANGED <<day, minute>>
      /\ Live(c)' /\ mishap' < day'
  BY ScheduledBefore DEF Scheduled
<1>2. RunOn(c, day) => RunOn(c, day)'
  <2>1. RunOn(c, day) => RunOn(c, day')
    BY <1>1
  <2>2. ASSUME RunOn(c, day) PROVE RunOn(c, day)'
    <3>1. PICK t \in Task : hist[t].cfg = c /\ hist[t].day = day
      BY <2>2 DEF RunOn, RowsOf
    <3>2. hist'[t].cfg = c /\ hist'[t].day = day'
      BY <1>1, <3>1, RowStays
    <3> QED BY <3>2 DEF RunOn, RowsOf
  <2> QED BY <2>2
<1>3. Coming(c) => Coming(c)' \/ RunOn(c, day)'
  BY <1>1, ComingStays
<1>4. cfgs[c].at < minute => RunOn(c, day)
  BY <1>1 DEF Served, Timely
<1> SUFFICES ASSUME cfgs[c].at = minute
             PROVE  \/ phase' = "wait" /\ due' > 0
                    \/ phase' = "read" /\ tickMinute' = minute'
                    \/ phase' = "scan" /\ c \in todo'
                    \/ Coming(c)'
                    \/ RunOn(c, day)'
  BY <1>1, <1>2, <1>4
<1>5. \/ phase = "wait" /\ due > 0
      \/ phase = "read" /\ tickMinute = minute
      \/ phase = "scan" /\ c \in todo
      \/ Coming(c)
      \/ RunOn(c, day)
  BY <1>1 DEF Served, Timely
<1> DEFINE Kept == \/ phase' = "wait" /\ due' > 0
                   \/ phase' = "read" /\ tickMinute' = minute'
                   \/ phase' = "scan" /\ c \in todo'
                   \/ Coming(c)'
                   \/ RunOn(c, day)'
<1>6. CASE Coming(c) \/ RunOn(c, day)
  BY <1>2, <1>3, <1>6
<1> SUFFICES ASSUME ~Coming(c), ~RunOn(c, day) PROVE Kept
  BY <1>6
<1>7. ASSUME UNCHANGED <<due, phase, tickMinute, todo>> PROVE Kept
  BY <1>1, <1>5, <1>7
<1>8. CASE TickStart
  BY <1>1, <1>5, <1>8 DEF TickStart
<1>9. CASE TickRead
  <2>1. phase = "read" /\ tickMinute = minute /\ tickDay = day
    BY <1>5, <1>9 DEF TickRead, Prompt
  <2>2. Matches(c)
    BY <1>1, <2>1 DEF Matches, Scheduled
  <2> QED BY <1>9, <2>2 DEF TickRead
<1>10. ASSUME NEW e \in Cfg, TickCheck(e) PROVE Kept
  <2>1. /\ phase = "scan" /\ c \in todo /\ todo' = todo \ {e} /\ phase' = phase
        /\ tickDay = day
    BY <1>5, <1>10 DEF TickCheck, Prompt
  <2>2. CASE e # c
    BY <2>1, <2>2
  <2>3. CASE e = c /\ RanToday(e)
    BY <2>1, <2>3 DEF RanToday, RunOn
  <2>4. CASE e = c /\ ~RanToday(e)
    <3>1. PICK t \in Task : Spawn(t, c, "tick")
      BY <1>10, <2>4 DEF TickCheck
    <3>2. task'[t].cfg = c /\ task'[t].pc = "new"
      BY <3>1 DEF Spawn, Base, TypeOK
    <3> QED BY <3>2 DEF Coming, Unrecorded
  <2> QED BY <2>2, <2>3, <2>4
<1>11. CASE TickDone
  BY <1>5, <1>11 DEF TickDone
<1>12. CASE Forms
  BY <1>7, <1>12 DEF Forms, CreateCfg, UpdateCfg, DeleteCfg, RunNow, tick
<1>13. ASSUME NEW t \in Task, RunTask(t) PROVE Kept
  BY <1>7, <1>13 DEF RunTask, Load, Record, Finish, FinishLost, tick
<1>14. CASE TickAbort \/ Crash \/ Restart
  <2>1. mishap < day /\ mishap' < day /\ mishap \in Nat /\ day \in Nat
    BY <1>1 DEF Scheduled, Base, TypeOK
  <2> QED BY <1>14, <2>1 DEF TickAbort, Crash, Restart, Served, MishapKnown
<1>15. CASE UNCHANGED vars
  BY <1>7, <1>15 DEF vars
<1> QED BY <1>8, <1>9, <1>10, <1>11, <1>12, <1>13, <1>14, <1>15 DEF Next, Tick

(* When a minute is over, what was scheduled for it is on record. *)
LEMMA MinuteServed ==
    ASSUME PromptMode, Base, Served, Minute, NEW c \in Cfg, Scheduled(c),
           cfgs[c].at <= minute
    PROVE  RunOn(c, day)
<1>1. /\ phase = "wait" /\ due = 0
      /\ \A t \in Task : ~Unrecorded(t)
  BY DEF Minute, PromptMode, Served, MishapKnown, Scheduled, Base, TypeOK
<1>2. ~Coming(c)
  BY <1>1 DEF Coming
<1>3. cfgs[c].at \in Nat /\ minute \in Nat
  BY DEF Base, TypeOK
<1> QED BY <1>1, <1>2, <1>3 DEF Served, Timely

(* No day before x comes after x. *)
LEMMA NoneLater ==
    ASSUME NEW x \in Nat
    PROVE  \A d \in 1 .. (x - 1) : ~(x < d)
  OBVIOUS

(* The next minute begins with its tick due, and the next day with every   *)
(* run of the last one on record.                                          *)
LEMMA MinuteTimely ==
    ASSUME PromptMode, Base, Served, Minute
    PROVE  Served'
<1> USE DEF Base, TypeOK
<1>1. /\ UNCHANGED <<phase, tickDay, tickMinute, todo, cfgs, task, hist>>
      /\ day' \in {day, day + 1}
  BY DEF Minute, tick
<1>2. TypeOK'
  BY StepBase DEF Next
<1>3. CASE phase = "down"
  <2>1. phase' = "down" /\ mishap' = day'
    BY <1>1, <1>3 DEF Minute, Up
  <2>2. Timely' /\ MishapKnown'
    BY <1>1, <1>2, <2>1 DEF Timely, Scheduled, MishapKnown
  <2>3. \A d \in 1 .. (day' - 1) : ~(mishap' < d)
    <3>1. day' \in Nat
      BY <1>2
    <3>2. \A d \in 1 .. (day' - 1) : ~(day' < d)
      BY <3>1, NoneLater
    <3> QED BY <2>1, <3>2
  <2>4. \A c \in Cfg : DaysDue(c)' \subseteq 1 .. (day' - 1)
    BY DEF DaysDue
  <2>5. ScheduledDayHasRun'
    BY <2>3, <2>4 DEF ScheduledDayHasRun
  <2> QED BY <2>2, <2>5 DEF Served
<1>4. CASE phase # "down"
  <2>1. phase' = "wait" /\ due' = 1 /\ mishap' = mishap
    BY <1>1, <1>4 DEF Minute, PromptMode, Up
  <2>2. MishapKnown'
    BY <1>1, <2>1 DEF Served, MishapKnown
  <2>3. ASSUME NEW c \in Cfg, NEW d \in Nat, RunOn(c, d) PROVE RunOn(c, d)'
    <3>1. \E t \in RowsOf(c)' : hist'[t].day = d
      BY <1>1, <2>3 DEF RunOn, RowsOf
    <3> QED BY <3>1 DEF RunOn
  <2>4. ASSUME NEW c \in Cfg, Scheduled(c)', day' = day PROVE Scheduled(c)
    BY <1>1, <2>1, <2>4 DEF Scheduled, Live
  <2>5. Timely'
    <3> SUFFICES ASSUME NEW c \in Cfg, Scheduled(c)', cfgs'[c].at < minute'
                 PROVE  RunOn(c, day)'
      BY <2>1 DEF Timely
    <3>1. minute' = minute + 1 /\ day' = day
      BY <1>1 DEF Minute
    <3>2. cfgs[c].at <= minute
      BY <1>1, <3>1
    <3>3. RunOn(c, day)
      BY <2>4, <3>1, <3>2, MinuteServed
    <3>4. \E t \in RowsOf(c)' : hist'[t].day = day'
      BY <1>1, <3>1, <3>3 DEF RunOn, RowsOf
    <3> QED BY <3>4 DEF RunOn
  <2>6. ASSUME NEW c \in Cfg, NEW d \in Nat, Owed(c, d)' PROVE RunOn(c, d)
    <3>1. CASE d < day
      <4>1. Owed(c, d)
        BY <1>1, <2>1, <2>6, <3>1 DEF Owed, Live
      <4> QED BY <4>1, DaysOwed DEF Served
    <3>2. CASE ~(d < day)
      <4>1. d = day /\ day' = day + 1
        <5>1. day \in Nat /\ day' \in {day, day + 1} /\ d < day'
          BY <1>1, <2>6 DEF Owed
        <5> QED BY <3>2, <5>1
      <4>2. minute = DayLen - 1
        BY <4>1 DEF Minute
      <4>3. Scheduled(c)
        BY <1>1, <2>1, <2>6, <4>1 DEF Owed, Scheduled, Live
      <4>4. cfgs[c].at <= minute
        BY <4>2
      <4> QED BY <4>1, <4>3, <4>4, MinuteServed
    <3> QED BY <3>1, <3>2
  <2>7. ScheduledDayHasRun'
    <3> SUFFICES ASSUME NEW c \in Cfg, Live(c)', cfgs'[c].on, NEW d \in DaysDue(c)',
                        mishap' < d
                 PROVE  \E t \in RowsOf(c)' : hist'[t].day = d
      BY DEF ScheduledDayHasRun
    <3>1. d \in 1 .. (day' - 1) /\ cfgs'[c].since < d /\ d % WeekLen \in cfgs'[c].days
      BY DEF DaysDue
    <3>2. day' \in Nat
      BY <1>2
    <3> HIDE DEF Base, TypeOK
    <3>3. d \in Nat /\ d < day'
      <4>1. \A n \in Nat : \A k \in 1 .. (n - 1) : k \in Nat /\ k < n
        OBVIOUS
      <4> QED BY <3>1, <3>2, <4>1
    <3>4. Owed(c, d)'
      BY <3>1, <3>3 DEF Owed
    <3>5. RunOn(c, d)'
      BY <2>3, <2>6, <3>3, <3>4
    <3> QED BY <3>5 DEF RunOn
  <2> QED BY <2>2, <2>5, <2>7 DEF Served
<1> QED BY <1>3, <1>4

(* Days that are over keep their runs, whatever is saved afterwards. *)
LEMMA PastServed ==
    ASSUME Base, Served, [Next]_vars, ~Minute
    PROVE  ScheduledDayHasRun'
<1> USE DEF Base, TypeOK
<1>1. day' = day /\ (mishap' = mishap \/ mishap' = day)
  BY MishapStep
<1> SUFFICES ASSUME NEW c \in Cfg, Live(c)', cfgs'[c].on, NEW d \in DaysDue(c)', mishap' < d
             PROVE  \E t \in RowsOf(c)' : hist'[t].day = d
  BY DEF ScheduledDayHasRun
<1>2. /\ d \in Nat /\ d < day /\ cfgs'[c].since < d /\ d % WeekLen \in cfgs'[c].days
      /\ mishap' = mishap
  BY <1>1 DEF DaysDue
<1>3. cfgs'[c] = cfgs[c]
  <2>1. ASSUME NEW e \in Cfg, NEW on \in BOOLEAN, NEW at \in Times, NEW days \in DaySets,
               cfgs' = [cfgs EXCEPT ![e] = Saved(on, at, days)]
        PROVE  cfgs'[c] = cfgs[c]
    <3>1. ASSUME e = c PROVE cfgs'[c].since = day
      BY <2>1, <3>1 DEF Saved
    <3> QED BY <1>2, <2>1, <3>1
  <2>2. ASSUME NEW e \in Cfg, DeleteCfg(e) PROVE cfgs'[c] = cfgs[c]
    BY <2>2 DEF DeleteCfg, Live
  <2>3. ASSUME Forms PROVE cfgs'[c] = cfgs[c]
    BY <2>1, <2>2, <2>3 DEF Forms, CreateCfg, UpdateCfg, RunNow
  <2> QED
    BY <2>3 DEF Next, vars, Tick, TickStart, TickRead, TickCheck, TickDone, TickAbort,
           RunTask, Load, Record, Finish, FinishLost, Crash, Restart
<1>4. Owed(c, d)
  BY <1>2, <1>3 DEF Owed, Live
<1>5. RunOn(c, d)
  BY <1>2, <1>4, DaysOwed DEF Served
<1>6. PICK t \in Task : hist[t].cfg = c /\ hist[t].day = d
  BY <1>5 DEF RunOn, RowsOf
<1>7. hist'[t].cfg = c /\ hist'[t].day = d
  BY <1>6, RowStays
<1> QED BY <1>7 DEF RowsOf

LEMMA StepServed ==
    ASSUME PromptMode, Base, Prompt, Served, [Next]_vars
    PROVE  Served'
<1>1. CASE Minute
  BY <1>1, MinuteTimely
<1>2. CASE ~Minute
  <2>1. MishapKnown'
    <3>1. day' = day /\ (mishap' = mishap \/ mishap' = day)
      BY <1>2, MishapStep
    <3>2. phase' = "down" => phase = "down" \/ mishap' = day
      BY <1>2 DEF Next, vars, tick, Forms, CreateCfg, UpdateCfg, DeleteCfg,
             RunNow, Tick, TickStart, TickRead, TickCheck, TickDone, TickAbort,
             RunTask, Load, Record, Finish, FinishLost, Crash, Restart
    <3> QED BY <3>1, <3>2 DEF Served, MishapKnown, Base, TypeOK
  <2> QED BY <1>2, <2>1, TimelyInMinute, PastServed DEF Served
<1> QED BY <1>1, <1>2

(* When no minute ends between its tick and the rows of its tasks: every day *)
(* that a standing schedule names has its run, whatever is edited, deleted   *)
(* or run by hand, and whatever crashed or failed on the days before.        *)
THEOREM ScheduledDaysServed ==
    ASSUME PromptMode
    PROVE  Spec => []ScheduledDayHasRun
<1>1. Init => Base /\ Prompt /\ Served
  <2>1. Init => Prompt /\ Served
    BY DEF Init, Prompt, Served, Timely, Scheduled, ScheduledDayHasRun, DaysDue, Live,
           NoTask, MishapKnown
  <2> QED BY <2>1, InitBase
<1>2. Base /\ Prompt /\ Served /\ [Next]_vars => (Base /\ Prompt /\ Served)'
  BY PromptMode, StepBase, StepPrompt, StepServed
<1>3. Served => ScheduledDayHasRun
  BY DEF Served
<1> QED BY <1>1, <1>2, <1>3, PTL DEF Spec
=============================================================================
