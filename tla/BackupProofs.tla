---------------------------- MODULE BackupProofs ----------------------------
(***************************************************************************)
(* Theorems about a backup from end to end, for any number of runs,        *)
(* configurations and places, and any calendar and retention.              *)
(***************************************************************************)
EXTENDS Backup, TLAPS

SP == INSTANCE SchedulerProofs
FP == INSTANCE FilesProofs WITH now <- Now

(***************************************************************************)
(* The modules with the proofs speak of the same program.                  *)
(***************************************************************************)

LEMMA SameWork ==
    ASSUME NEW t
    PROVE  F!Work(t) = FP!Work(t)
BY DEF F!Work, F!Truncate, F!WriteFile, F!ReadFile, F!Upload, F!ListLocal, F!RemoveFile,
       F!RemoveObject, F!ListRemote, F!RetentionDone, F!Store, F!Path, F!DbOf, F!Goto,
       F!BytesAt, F!KeyOf, F!StoredAs, F!Cutoff, F!OldFiles, F!OldObjects, F!Covers,
       F!Finds, F!Stem, F!Old, F!Undoom,
       FP!Work, FP!Truncate, FP!WriteFile, FP!ReadFile, FP!Upload, FP!ListLocal,
       FP!RemoveFile, FP!RemoveObject, FP!ListRemote, FP!RetentionDone, FP!Store, FP!Path,
       FP!DbOf, FP!Goto, FP!BytesAt, FP!KeyOf, FP!StoredAs, FP!Cutoff, FP!OldFiles,
       FP!OldObjects, FP!Covers, FP!Finds, FP!Stem, FP!Old, FP!Undoom

LEMMA SameEnds ==
    ASSUME NEW t
    PROVE  /\ F!Fail(t) = FP!Fail(t)
           /\ F!Succeed(t) = FP!Succeed(t)
           /\ \A c : F!Start(t, c) = FP!Start(t, c)
BY DEF F!Fail, F!Succeed, F!Start, F!Goto, FP!Fail, FP!Succeed, FP!Start, FP!Goto

LEMMA SameNames ==
    ASSUME NEW t
    PROVE  /\ F!Path(t) = FP!Path(t) /\ F!KeyOf(t) = FP!KeyOf(t) /\ F!Alone(t) = FP!Alone(t)
           /\ F!Alone(t)' = FP!Alone(t)'
<1> USE DEF F!Path, F!KeyOf, F!DbOf, F!StoredAs, FP!Path, FP!KeyOf, FP!DbOf, FP!StoredAs
<1>1. \A u : F!Path(u) = FP!Path(u) /\ F!KeyOf(u) = FP!KeyOf(u)
  OBVIOUS
<1>2. \A u : F!Path(u)' = FP!Path(u)' /\ F!KeyOf(u)' = FP!KeyOf(u)'
  OBVIOUS
<1> HIDE DEF F!Path, F!KeyOf, FP!Path, FP!KeyOf
<1> QED BY <1>1, <1>2 DEF F!Alone, FP!Alone

LEMMA SameFiles ==
    /\ F!Init = FP!Init
    /\ F!vars = FP!vars
    /\ F!Tick = FP!Tick
    /\ F!Next = FP!Next
<1>1. F!Tick = FP!Tick
  BY DEF F!Tick, FP!Tick
<1>2. F!Next = FP!Next
  BY <1>1, SameWork, SameEnds DEF F!Next, FP!Next, F!RunTask, FP!RunTask
<1> QED BY <1>1, <1>2 DEF F!Init, FP!Init, F!NoRun, FP!NoRun, F!vars, FP!vars

LEMMA SameScheduler ==
    /\ S!Init = SP!Init
    /\ S!vars = SP!vars
    /\ S!Next = SP!Next
<1>1. S!Minute = SP!Minute
  BY DEF S!Minute, S!Unrecorded, S!Up, S!tick, SP!Minute, SP!Unrecorded, SP!Up, SP!tick
<1>2. S!Forms = SP!Forms
  BY DEF S!Forms, S!CreateCfg, S!UpdateCfg, S!DeleteCfg, S!RunNow, S!Spawn, S!Saved, S!Up,
         S!Live, S!clock, S!tick,
         SP!Forms, SP!CreateCfg, SP!UpdateCfg, SP!DeleteCfg, SP!RunNow, SP!Spawn, SP!Saved,
         SP!Up, SP!Live, SP!clock, SP!tick
<1>3. S!Tick = SP!Tick /\ S!TickAbort = SP!TickAbort
  BY DEF S!Tick, S!TickAbort, S!TickStart, S!TickRead, S!TickCheck, S!TickDone, S!Matches,
         S!RowsOf, S!RanToday, S!Spawn, S!Live, S!clock,
         SP!Tick, SP!TickAbort, SP!TickStart, SP!TickRead, SP!TickCheck, SP!TickDone,
         SP!Matches, SP!RowsOf, SP!RanToday, SP!Spawn, SP!Live, SP!clock
<1>4. \A t : S!RunTask(t) = SP!RunTask(t)
  BY DEF S!RunTask, S!Load, S!Record, S!Finish, S!FinishLost, S!Finished, S!At, S!Row,
         S!Outcome, S!Live, S!clock, S!tick,
         SP!RunTask, SP!Load, SP!Record, SP!Finish, SP!FinishLost, SP!Finished, SP!At,
         SP!Row, SP!Outcome, SP!Live, SP!clock, SP!tick
<1>5. S!Crash = SP!Crash /\ S!Restart = SP!Restart
  BY DEF S!Crash, S!Restart, S!Up, S!At, S!clock, SP!Crash, SP!Restart, SP!Up, SP!At, SP!clock
<1>6. S!Next = SP!Next
  BY <1>1, <1>2, <1>3, <1>4, <1>5 DEF S!Next, SP!Next
<1> QED BY <1>6 DEF S!Init, SP!Init, S!NoTask, SP!NoTask, S!NoRow, SP!NoRow, S!vars, SP!vars

-----------------------------------------------------------------------------

(***************************************************************************)
(* Every step is one of the scheduler and one of the files, or leaves them *)
(* alone.                                                                  *)
(***************************************************************************)

USE BackupAssumption

LEMMA StepScheduler == [Next]_vars => [SP!Next]_(SP!vars)
<1> SUFFICES ASSUME [Next]_vars PROVE S!Next \/ UNCHANGED S!vars
  BY SameScheduler DEF S!vars, SP!vars
<1>7. CASE Second
  BY <1>7 DEF Second, clockwork, S!vars
<1>1. CASE Minute
  BY <1>1 DEF Minute, S!Next
<1>2. CASE Control
  BY <1>2 DEF Control, S!Next, S!RunTask
<1>3. ASSUME NEW t \in Task, Inner(t) PROVE UNCHANGED S!vars
  BY <1>3 DEF Inner, history, clockwork, S!vars
<1>4. ASSUME NEW t \in Task, Conclude(t) PROVE S!Next
  BY <1>4 DEF Conclude, S!Next, S!RunTask
<1>5. CASE Crash
  BY <1>5 DEF Crash, S!Next
<1>6. CASE UNCHANGED vars
  BY <1>6 DEF vars, history, clockwork, S!vars
<1> QED BY <1>1, <1>2, <1>3, <1>4, <1>5, <1>6, <1>7 DEF Next

(* Only a second or a minute that passes moves the clock. *)
LEMMA TimeStays ==
    ASSUME Control \/ (\E t \in Task : Inner(t) \/ Conclude(t)) \/ Crash
    PROVE  Now' = Now
<1> USE DEF Now
<1>1. CASE Control
  BY <1>1 DEF Control, S!Forms, S!CreateCfg, S!UpdateCfg, S!DeleteCfg, S!RunNow, S!Tick,
              S!TickStart, S!TickRead, S!TickCheck, S!TickDone, S!TickAbort, S!Restart,
              S!Load, S!Record, S!clock
<1>2. CASE \E t \in Task : Conclude(t)
  BY <1>2 DEF Conclude, S!Finish, S!FinishLost, S!clock
<1>3. CASE Crash
  BY <1>3 DEF Crash, S!Crash, S!clock
<1>4. CASE \E t \in Task : Inner(t)
  BY <1>4 DEF Inner, history, clockwork
<1> QED BY <1>1, <1>2, <1>3, <1>4

LEMMA StepFilesOrStay ==
    ASSUME SP!Base, [Next]_vars
    PROVE  [FP!Next]_(FP!vars)
<1> SUFFICES F!Next \/ UNCHANGED F!vars
  BY SameFiles DEF F!vars, FP!vars
<1>1. CASE Minute \/ Second
  BY <1>1 DEF Minute, Second, F!Next
<1>2. CASE Control \/ Crash
  BY <1>2, TimeStays DEF Control, Crash, files, F!vars
<1>3. ASSUME NEW t \in Task, Inner(t) PROVE F!Next
  <2>1. task[t].cfg \in Cfg
    BY <1>3 DEF Inner, SP!Base, SP!TasksSound
  <2> QED BY <1>3, <2>1 DEF Inner, F!Next, F!RunTask
<1>4. ASSUME NEW t \in Task, Conclude(t) PROVE F!Next \/ UNCHANGED F!vars
  BY <1>4, TimeStays DEF Conclude, Ok, Err, files, F!vars, F!Next, F!RunTask
<1>6. CASE UNCHANGED vars
  BY <1>6 DEF vars, history, clockwork, files, Now, F!vars
<1> QED BY <1>1, <1>2, <1>3, <1>4, <1>6 DEF Next

-----------------------------------------------------------------------------

(***************************************************************************)
(* Where a run is in its files and where its task is.                      *)
(***************************************************************************)

Linked ==
    \A t \in Task :
        /\ task[t].pc \in {"none", "new", "loaded"} => run[t].pc = "none"
        /\ hist[t].status = "success" => run[t].pc = "success"

(* A run comes to its cutoff within its retention. *)
Punctual ==
    /\ uploaded \in [Task -> Nat]
    /\ \A t \in Task : AtCutoff(t) => Now <= uploaded[t] + KeepOf[run[t].cfg]

Base == SP!Base /\ FP!Types /\ Linked /\ Punctual

LEMMA StepTypes ==
    ASSUME Base, [Next]_vars
    PROVE  /\ SP!Base' /\ FP!Types'
           /\ [SP!Next]_(SP!vars) /\ [FP!Next]_(FP!vars)
<1>1. [SP!Next]_(SP!vars) /\ [FP!Next]_(FP!vars)
  BY StepScheduler, StepFilesOrStay DEF Base
<1>2. SP!Base'
  BY <1>1, SP!StepBase DEF SP!StepBase, Base
<1>3. FP!Types'
  BY <1>1, FP!StepTypes DEF FP!StepTypes, Base
<1> QED BY <1>1, <1>2, <1>3

(* A step of the files is one of a run under way, and changes no other run. *)
LEMMA RunStep ==
    ASSUME FP!Types, NEW t \in Task,
           \/ F!Start(t, task[t].cfg) \/ F!Work(t) \/ F!Fail(t) \/ F!Succeed(t)
    PROVE  /\ \A u \in Task \ {t} : run'[u] = run[u]
           /\ run'[t].pc # "none"
           /\ F!Succeed(t) => run'[t].pc = "success"
           /\ run'[t].pc = "retain" => run[t].pc = "send"
<1> USE DEF FP!Types, FP!TypeOK
<1>1. CASE F!Start(t, task[t].cfg)
  BY <1>1 DEF F!Start, F!Succeed
<1>2. CASE F!Fail(t) \/ F!Succeed(t)
  BY <1>2 DEF F!Fail, F!Succeed, F!Goto
<1>3. CASE F!Work(t)
  BY <1>3 DEF F!Work, F!Truncate, F!WriteFile, F!ReadFile, F!Upload, F!ListLocal,
              F!RemoveFile, F!RemoveObject, F!ListRemote, F!RetentionDone, F!Succeed, F!Goto
<1> QED BY <1>1, <1>2, <1>3

LEMMA StepLinked ==
    ASSUME Base, [Next]_vars
    PROVE  Linked'
<1> USE DEF Base, SP!Base, SP!TypeOK, Linked
<1>1. CASE Minute \/ Second
  BY <1>1 DEF Minute, Second, clockwork, S!Minute, F!Tick
<1>2. CASE Control
  <2>1. run' = run
    BY <1>2 DEF Control, files
  <2>2. CASE S!Forms
    <3>1. PICK c \in Cfg :
            \/ \E on \in BOOLEAN, at \in Times, days \in DaySets :
                  S!CreateCfg(c, on, at, days) \/ S!UpdateCfg(c, on, at, days)
            \/ S!DeleteCfg(c)
            \/ \E t \in Task : S!RunNow(t, c)
      BY <2>2 DEF S!Forms
    <3>2. CASE S!DeleteCfg(c)
      <4>1. task' = task /\ \A t \in Task : hist'[t].status = hist[t].status
        BY <3>2 DEF S!DeleteCfg
      <4> QED BY <2>1, <4>1
    <3>3. CASE \E t \in Task : S!RunNow(t, c)
      BY <2>1, <3>3 DEF S!RunNow, S!Spawn
    <3> QED BY <2>1, <3>1, <3>2, <3>3 DEF S!CreateCfg, S!UpdateCfg
  <2>3. CASE S!Tick \/ S!TickAbort \/ S!Restart
    BY <2>1, <2>3 DEF S!Tick, S!TickStart, S!TickRead, S!TickCheck, S!TickDone, S!Spawn,
                      S!TickAbort, S!Restart
  <2>4. ASSUME NEW t \in Task, S!Load(t) PROVE Linked'
    BY <2>1, <2>4 DEF S!Load, S!Finished, S!At
  <2>5. ASSUME NEW t \in Task, S!Record(t) PROVE Linked'
    BY <2>1, <2>5 DEF S!Record, S!Finished, S!At, S!Row
  <2> QED BY <1>2, <2>2, <2>3, <2>4, <2>5 DEF Control
<1>3. ASSUME NEW t \in Task, Inner(t) PROVE Linked'
  <2>1. hist' = hist /\ task' = task /\ task[t].pc = "running"
    BY <1>3 DEF Inner, history, clockwork
  <2>2. \A u \in Task \ {t} : run'[u] = run[u]
    BY <1>3, RunStep DEF Inner
  <2>3. hist[t].status # "success"
    BY <2>1 DEF SP!TasksSound
  <2> QED BY <2>1, <2>2, <2>3
<1>4. ASSUME NEW t \in Task, Conclude(t) PROVE Linked'
  <2>1. \A u \in Task \ {t} : run'[u] = run[u]
    BY <1>4, RunStep DEF Conclude, Ok, Err
  <2>2. task[t].pc = "running" /\ task' = [task EXCEPT ![t] = S!At(t, "done")]
    BY <1>4 DEF Conclude, S!Finish, S!FinishLost, S!Finished
  <2>3. \/ hist' = [hist EXCEPT ![t] = S!Outcome(t, "failed")]
        \/ hist' = hist
        \/ hist' = [hist EXCEPT ![t] = S!Outcome(t, "success")] /\ run'[t].pc = "success"
    BY <1>4, RunStep DEF Conclude, Ok, S!Finish, S!FinishLost
  <2>4. hist[t].status = "running"
    BY <2>2 DEF SP!TasksSound
  <2>5. \A u \in Task \ {t} : hist'[u] = hist[u] /\ task'[u] = task[u]
    BY <2>2, <2>3
  <2>6. task'[t].pc = "done"
    BY <2>2 DEF S!At
  <2>7. hist'[t].status = "success" => run'[t].pc = "success"
    BY <2>3, <2>4 DEF S!Outcome
  <2> QED BY <2>1, <2>5, <2>6, <2>7
<1>5. CASE Crash
  BY <1>5 DEF Crash, S!Crash, S!At, files
<1>6. CASE UNCHANGED vars
  BY <1>6 DEF vars, history, clockwork, files
<1> QED BY <1>1, <1>2, <1>3, <1>4, <1>5, <1>6 DEF Next

(* A task comes to its files only from its new history row. *)
LEMMA TaskRuns ==
    ASSUME SP!Base, Control
    PROVE  \A t \in Task : task'[t].pc = "running" => task[t].pc \in {"running", "loaded"}
<1> USE DEF SP!Base, SP!TypeOK
<1>1. CASE S!Forms
  <2>1. task' = task \/ \E t \in Task, c \in Cfg : S!Spawn(t, c, "user")
    BY <1>1 DEF S!Forms, S!CreateCfg, S!UpdateCfg, S!DeleteCfg, S!RunNow
  <2> QED BY <2>1 DEF S!Spawn
<1>2. CASE S!Tick \/ S!TickAbort \/ S!Restart
  BY <1>2 DEF S!Tick, S!TickStart, S!TickRead, S!TickCheck, S!TickDone, S!Spawn,
              S!TickAbort, S!Restart
<1>3. ASSUME NEW t \in Task, S!Load(t) \/ S!Record(t)
      PROVE  \A u \in Task : task'[u].pc = "running" => task[u].pc \in {"running", "loaded"}
  <2>1. CASE S!Load(t)
    <3>1. /\ task'[t].pc \in {"loaded", "done"}
          /\ \A u \in Task \ {t} : task'[u] = task[u]
      BY <2>1 DEF S!Load, S!Finished, S!At
    <3> QED BY <3>1
  <2>2. CASE S!Record(t)
    <3>1. /\ task[t].pc = "loaded"
          /\ \A u \in Task \ {t} : task'[u] = task[u]
      BY <2>2 DEF S!Record, S!Finished, S!At
    <3> QED BY <3>1
  <2> QED BY <1>3, <2>1, <2>2
<1> QED BY <1>1, <1>2, <1>3 DEF Control

LEMMA StepPunctual ==
    ASSUME Base, FP!Types', [Next]_vars
    PROVE  Punctual'
<1> USE DEF Base, Punctual, AtCutoff
<1>1. Now \in Nat /\ \A t \in Task : run[t].pc = "retain" => run[t].cfg \in Cfg
  BY DEF FP!Types, FP!TypeOK
<1>2. \A c \in Cfg : KeepOf[c] \in Nat
  BY DEF F!FilesAssumption
<1>3. ASSUME UNCHANGED <<run, uploaded, Now>>,
             \A t \in Task : AtCutoff(t)' => AtCutoff(t)
      PROVE  Punctual'
  BY <1>3
<1>4. CASE Minute \/ Second
  <2>1. /\ UNCHANGED <<run, task, uploaded>> /\ Prompt /\ Now' = Now + 1
    BY <1>4 DEF Minute, Second, S!Minute, F!Tick, clockwork
  <2> QED BY <1>1, <1>2, <2>1 DEF Prompt
<1>5. CASE Control
  <2>1. \A t \in Task : AtCutoff(t)' => AtCutoff(t)
    BY <1>5, TaskRuns DEF Control, files, Linked
  <2> QED BY <1>3, <1>5, <2>1, TimeStays DEF Control, files
<1>6. ASSUME NEW t \in Task, Inner(t) PROVE Punctual'
  <2>1. Now' = Now /\ task' = task
    BY <1>6, TimeStays DEF Inner, history, clockwork
  <2>2. /\ \A u \in Task \ {t} : run'[u] = run[u]
        /\ run'[t].pc = "retain" => run[t].pc = "send"
    BY <1>6, RunStep DEF Inner
  <2>3. /\ uploaded' \in [Task -> Nat]
        /\ \A u \in Task \ {t} : uploaded'[u] = uploaded[u]
        /\ run[t].pc = "send" => uploaded'[t] = Now
    BY <1>1, <1>6 DEF Inner
  <2>4. run'[t].pc = "retain" => KeepOf[run'[t].cfg] \in Nat
    BY <1>2 DEF FP!Types
  <2> QED BY <1>1, <2>1, <2>2, <2>3, <2>4
<1>7. ASSUME NEW t \in Task, Conclude(t) PROVE Punctual'
  <2>1. \A u \in Task \ {t} : run'[u] = run[u]
    BY <1>7, RunStep DEF Conclude, Ok, Err
  <2>2. /\ task'[t].pc = "done" /\ UNCHANGED <<uploaded, Now>>
        /\ \A u \in Task \ {t} : task'[u] = task[u]
    BY <1>7, TimeStays DEF Conclude, S!Finish, S!FinishLost, S!Finished, S!At, SP!Base, SP!TypeOK
  <2> QED BY <2>1, <2>2
<1>8. CASE Crash
  BY <1>3, <1>8, TimeStays DEF Crash, S!Crash, S!At, files, SP!Base, SP!TypeOK
<1>9. CASE UNCHANGED vars
  BY <1>3, <1>9 DEF vars, history, clockwork, files, Now
<1> QED BY <1>4, <1>5, <1>6, <1>7, <1>8, <1>9 DEF Next

LEMMA InitBase == Init => Base
<1> SUFFICES ASSUME Init PROVE Base
  OBVIOUS
<1>1. SP!Base
  BY SameScheduler, SP!InitBase DEF SP!InitBase, Init
<1>2. FP!Types
  BY SameFiles, FP!InitTypes DEF FP!InitTypes, Init
<1>3. Linked
  BY DEF Init, S!Init, F!Init, Linked, F!NoRun, S!NoRow, S!NoTask
<1>4. Punctual
  BY DEF Init, S!Init, Punctual, AtCutoff, S!NoTask
<1> QED BY <1>1, <1>2, <1>3, <1>4 DEF Base

LEMMA StepBase == Base /\ [Next]_vars => Base'
BY StepTypes, StepLinked, StepPunctual DEF Base

LEMMA Inductive == Spec => []Base
<1>1. Base /\ [Next]_vars => Base'
  BY StepBase
<1> QED BY <1>1, InitBase, PTL DEF Spec

(* What is proved of the runs holds under the scheduler, too. *)
LEMMA FilesFollow == Spec => FP!Spec
<1>1. Init => FP!Init
  BY SameFiles DEF Init
<1>2. Base /\ [Next]_vars => [FP!Next]_(FP!vars)
  BY StepTypes
<1> QED BY <1>1, <1>2, Inductive, PTL DEF Spec, FP!Spec

(* When the retentions that select a name agree on how long to keep it: what *)
(* the history calls successful is stored for all of its retention, and is  *)
(* that run's own dump unless another run got its names; whatever fails,    *)
(* stops, is overwritten or deleted meanwhile.                              *)
THEOREM SuccessStored ==
    ASSUME FP!RetentionsAgree
    PROVE  Spec => []SuccessIsStored
<1>1. FP!Spec => []FP!KeptWithinRetention
  BY FP!BackupsAreKept DEF FP!BackupsAreKept
<1>2. FP!Spec => [](FP!Types /\ FP!Own)
  <2>1. FP!Init => FP!Types /\ FP!Own
    BY FP!InitTypes, FP!InitOwn DEF FP!InitTypes, FP!InitOwn
  <2>2. FP!Types /\ FP!Own /\ [FP!Next]_(FP!vars) => (FP!Types /\ FP!Own)'
    BY FP!StepTypes, FP!StepOwn DEF FP!StepTypes, FP!StepOwn
  <2> QED BY <2>1, <2>2, PTL DEF FP!Spec
<1>3. Linked /\ FP!KeptWithinRetention /\ FP!Own => SuccessIsStored
  <2> SUFFICES ASSUME Linked, FP!KeptWithinRetention, FP!Own,
                      NEW t \in Task, hist[t].status = "success",
                      Now <= run[t].ts + KeepOf[run[t].cfg]
               PROVE  /\ \E e \in local : e.file = F!Path(t)
                      /\ \E o \in remote :
                            o.key = F!KeyOf(t) /\ (F!Alone(t) => o.bytes = {t})
    BY DEF SuccessIsStored
  <2>1. run[t].pc = "success"
    BY DEF Linked
  <2>2. /\ \E e \in local : e.file = FP!Path(t)
        /\ \E o \in remote : o.key = FP!KeyOf(t)
    BY <2>1 DEF FP!KeptWithinRetention
  <2>3. FP!Alone(t) => \A o \in remote : o.key = FP!KeyOf(t) => o.bytes = {t}
    BY <2>1 DEF FP!Own, FP!OwnObject, FP!HasObject
  <2> QED BY <2>2, <2>3, SameNames
<1> QED BY <1>1, <1>2, <1>3, FilesFollow, Inductive, PTL DEF Base

-----------------------------------------------------------------------------

(***************************************************************************)
(* NeverWithoutBackup.  A run that has stored its copy, or another run     *)
(* after it, has one at that place that is no older than the run's cutoff; *)
(* what a sweep deletes is older than its own cutoff, so that of the copy  *)
(* that vouches for the sweeping run at least is left.                     *)
(***************************************************************************)

Stored(t) == run[t].pc \in FP!HasObject
Cutting == {"prune", "sweep", "retained", "success"}
SamePlace(t, u) ==
    PlaceOf[run[t].cfg] = PlaceOf[run[u].cfg] /\ StemOf[run[t].cfg] = StemOf[run[u].cfg]

(* Until then the cutoff to come is not past the return of the upload. *)
Bound(t) == IF AtCutoff(t) THEN uploaded[t] ELSE cut[t]

Owned == \A o \in remote : \E u \in Task : Stored(u) /\ o.key = FP!KeyOf(u)

Unique == \A o, p \in remote : o.key = p.key => o = p

Uncut == \A t \in Task : run[t].pc \notin Cutting => cut[t] = 0

Outdated(k, t) ==
    \E u \in Task : /\ Stored(u) /\ SamePlace(u, t) /\ k = FP!KeyOf(u)
                    /\ \A o \in remote : o.key = k => o.stamp < cut[t]

Sweeping == \A t \in Task : run[t].pc = "sweep" => \A k \in doomed[t] : Outdated(k, t)

Vouches(u, o, t) == Stored(u) /\ SamePlace(u, t) /\ o.key = FP!KeyOf(u) /\ o.stamp >= Bound(t)

Survives == \A t \in Task : Stored(t) => \E u \in Task : \E o \in remote : Vouches(u, o, t)

Stock == Owned /\ Unique /\ Uncut /\ Sweeping /\ Survives

LEMMA NowTypes ==
    ASSUME Base
    PROVE  /\ Now \in Nat
           /\ \A t \in Task : Bound(t) \in Nat /\ cut[t] \in Nat
           /\ \A o \in remote : o.stamp \in Nat
<1>1. Now \in Nat
  BY DEF Base, FP!Types, FP!TypeOK
<1> QED BY <1>1 DEF Bound, Base, Punctual, FP!Types, FP!TypeOK

(* A run that is under way keeps its place, its name and its key. *)
LEMMA RunKept ==
    ASSUME FP!RunsMove
    PROVE  /\ \A t \in Task : run[t].pc # "none" => FP!KeyOf(t)' = FP!KeyOf(t)
           /\ \A t, u \in Task : run[t].pc # "none" /\ run[u].pc # "none"
                                   => SamePlace(t, u)' = SamePlace(t, u)
           /\ \A t \in Task : Stored(t) => run[t].pc # "none"
<1>1. ASSUME NEW t \in Task, run[t].pc # "none" PROVE FP!KeyOf(t)' = FP!KeyOf(t)
  BY <1>1, FP!PathStays DEF FP!PathStays
<1>2. \A t \in Task : run[t].pc # "none" => run'[t].cfg = run[t].cfg
  BY DEF FP!RunsMove
<1> QED BY <1>1, <1>2 DEF SamePlace, Stored, FP!HasObject

(* What a step that leaves the objects alone, and moves no cutoff past the   *)
(* copies, does to them.                                                     *)
LEMMA FrameStock ==
    ASSUME FP!RunsMove, Base, Base', remote' = remote,
           \A t \in Task : Stored(t)' = Stored(t),
           \A t \in Task : Stored(t) => Bound(t)' <= Bound(t)
    PROVE  /\ Owned => Owned'
           /\ Survives => Survives'
<1>1. Owned => Owned'
  BY RunKept DEF Owned
<1>2. ASSUME Survives PROVE Survives'
  <2> SUFFICES ASSUME NEW t \in Task, Stored(t)'
               PROVE  \E u \in Task : \E o \in remote' : Vouches(u, o, t)'
    BY DEF Survives
  <2>1. PICK u \in Task, o \in remote : Vouches(u, o, t)
    BY <1>2 DEF Survives
  <2>2. o.stamp \in Nat /\ Bound(t) \in Nat /\ Bound(t)' \in Nat
    <3>1. o.stamp \in Nat /\ Bound(t) \in Nat
      BY NowTypes
    <3>2. Bound(t)' \in Nat
      BY DEF Bound, Base, Punctual, FP!Types, FP!TypeOK
    <3> QED BY <3>1, <3>2
  <2>3. Bound(t)' <= Bound(t)
    OBVIOUS
  <2>4. o.stamp >= Bound(t)'
    BY <2>1, <2>2, <2>3 DEF Vouches
  <2>5. Stored(u)' /\ SamePlace(u, t)' /\ o.key = FP!KeyOf(u)'
    BY <2>1, RunKept DEF Vouches
  <2>6. Vouches(u, o, t)'
    BY <2>4, <2>5 DEF Vouches
  <2> QED BY <2>6
<1> QED BY <1>1, <1>2

LEMMA FrameSweep ==
    ASSUME FP!RunsMove, Sweeping, remote' = remote,
           \A t \in Task : Stored(t) => Stored(t)',
           \A t \in Task : run'[t].pc = "sweep" =>
               run[t].pc = "sweep" /\ doomed'[t] \subseteq doomed[t] /\ cut'[t] = cut[t]
    PROVE  Sweeping'
<1> SUFFICES ASSUME NEW t \in Task, run'[t].pc = "sweep", NEW k \in doomed'[t]
             PROVE  Outdated(k, t)'
  BY DEF Sweeping
<1>1. run[t].pc = "sweep" /\ k \in doomed[t] /\ cut'[t] = cut[t]
  OBVIOUS
<1>2. PICK u \in Task : /\ Stored(u) /\ SamePlace(u, t) /\ k = FP!KeyOf(u)
                        /\ \A o \in remote : o.key = k => o.stamp < cut[t]
  BY <1>1 DEF Sweeping, Outdated
<1>3. Stored(u)' /\ SamePlace(u, t)' /\ k = FP!KeyOf(u)'
  BY <1>1, <1>2, RunKept
<1> QED BY <1>1, <1>2, <1>3 DEF Outdated

(* Steps that touch neither files nor runs. *)
LEMMA QuietStock ==
    ASSUME Base, Base', Stock, FP!RunsMove,
           Second \/ Minute \/ Control \/ Crash \/ UNCHANGED vars
    PROVE  Stock'
<1>1. UNCHANGED <<run, remote, cut, doomed, uploaded>>
  BY DEF Second, Minute, F!Tick, Control, Crash, vars, files
<1>2. \A t \in Task : Stored(t)' = Stored(t)
  BY <1>1 DEF Stored
<1>3. ASSUME NEW t \in Task PROVE Bound(t)' <= Bound(t)
  <2>1. Bound(t) \in Nat /\ cut[t] \in Nat
    BY NowTypes
  <2>2. AtCutoff(t)' => AtCutoff(t)
    <3>1. CASE Second \/ Minute \/ UNCHANGED vars
      BY <3>1, <1>1 DEF Second, Minute, S!Minute, vars, history, clockwork, AtCutoff
    <3>2. CASE Control
      BY <3>2, <1>1, TaskRuns DEF AtCutoff, Base, Linked
    <3>3. CASE Crash
      BY <3>3 DEF Crash, S!Crash, S!At, AtCutoff, Base, SP!Base, SP!TypeOK
    <3> QED BY <3>1, <3>2, <3>3
  <2>3. CASE AtCutoff(t)' <=> AtCutoff(t)
    <3>1. Bound(t)' = Bound(t)
      BY <1>1, <2>3 DEF Bound
    <3> QED BY <2>1, <3>1
  <2>4. CASE AtCutoff(t) /\ ~AtCutoff(t)'
    <3>1. cut[t] = 0
      BY <2>4 DEF Stock, Uncut, Cutting, AtCutoff
    <3>2. Bound(t)' = cut'[t]
      BY <2>4 DEF Bound, AtCutoff
    <3> QED BY <1>1, <2>1, <3>1, <3>2
  <2> QED BY <2>2, <2>3, <2>4
<1>4. Owned' /\ Survives'
  BY <1>1, <1>2, <1>3, FrameStock DEF Stock
<1>5. Sweeping'
  BY <1>1, <1>2, FrameSweep DEF Stock
<1>6. Unique' /\ Uncut'
  BY <1>1 DEF Stock, Unique, Uncut
<1> QED BY <1>4, <1>5, <1>6 DEF Stock

(* Steps of one run that leave the objects alone: it moves on, without       *)
(* coming to have an object or to be without, and clears what it lists.      *)
LEMMA MoveStock ==
    ASSUME Base, Base', Stock, FP!RunsMove, NEW t \in Task, remote' = remote, Now' = Now,
           \A u \in Task \ {t} :
               run'[u] = run[u] /\ cut'[u] = cut[u] /\ doomed'[u] = doomed[u]
                 /\ task'[u] = task[u] /\ uploaded'[u] = uploaded[u],
           Stored(t)' = Stored(t), Bound(t)' <= Bound(t),
           run'[t].pc = "sweep" =>
               run[t].pc = "sweep" /\ doomed'[t] \subseteq doomed[t] /\ cut'[t] = cut[t],
           run'[t].pc \notin Cutting => run[t].pc \notin Cutting /\ cut'[t] = cut[t]
    PROVE  Stock'
<1>1. \A u \in Task : Stored(u)' = Stored(u)
  BY DEF Stored
<1>2. ASSUME NEW u \in Task PROVE Bound(u)' <= Bound(u)
  <2>1. CASE u = t
    BY <2>1
  <2>2. CASE u # t
    <3>1. Bound(u)' = Bound(u)
      BY <2>2 DEF Bound, AtCutoff
    <3> QED BY <3>1, NowTypes
  <2> QED BY <2>1, <2>2
<1>3. Owned' /\ Survives'
  BY <1>1, <1>2, FrameStock DEF Stock
<1>4. Sweeping'
  <2>1. \A u \in Task : run'[u].pc = "sweep" =>
          run[u].pc = "sweep" /\ doomed'[u] \subseteq doomed[u] /\ cut'[u] = cut[u]
    OBVIOUS
  <2> QED BY <1>1, <2>1, FrameSweep DEF Stock
<1>5. Unique' /\ Uncut'
  BY DEF Stock, Unique, Uncut
<1> QED BY <1>3, <1>4, <1>5 DEF Stock

LEMMA ConcludeStock ==
    ASSUME Base, Base', Stock, FP!RunsMove, NEW t \in Task, Conclude(t)
    PROVE  Stock'
<1> USE DEF FP!Types, FP!TypeOK
<1>1. Base
  OBVIOUS
<1>2. /\ task[t].pc = "running" /\ task'[t].pc = "done"
      /\ \A u \in Task \ {t} : task'[u] = task[u]
  BY DEF Conclude, S!Finish, S!FinishLost, S!Finished, S!At, Base, SP!Base, SP!TypeOK
<1>3. Now' = Now
  BY TimeStays
<1>4. /\ UNCHANGED <<remote, cut, doomed, uploaded>>
      /\ \A u \in Task \ {t} : run'[u] = run[u]
      /\ \/ run'[t] = run[t] /\ run[t].pc = "none"
         \/ run[t].pc = "retained" /\ run'[t].pc = "success"
         \/ run[t].pc \in {"dump", "write", "read", "send"} /\ run'[t].pc = "failed"
  BY DEF Conclude, Ok, Err, F!Succeed, F!Fail, F!Goto, Base
<1>5. Stored(t)' = Stored(t) /\ run'[t].pc # "sweep"
  BY <1>4 DEF Stored, FP!HasObject
<1>6. Bound(t)' <= Bound(t)
  <2>1. Bound(t)' = cut[t] /\ Bound(t) = cut[t]
    BY <1>4 DEF Bound, AtCutoff
  <2> QED BY <2>1, NowTypes
<1>7. run'[t].pc \notin Cutting => run[t].pc \notin Cutting
  BY <1>4 DEF Cutting
<1> QED BY ONLY <1>1, <1>2, <1>3, <1>4, <1>5, <1>6, <1>7, MoveStock, Base', Stock, FP!RunsMove,
               t \in Task

(* One key, one run. *)
LEMMA KeyOwner ==
    ASSUME NoNameTwice, NEW t \in Task, NEW u \in Task, run[t].pc # "none",
           run[u].pc # "none", FP!KeyOf(t) = FP!KeyOf(u)
    PROVE  t = u
BY SameNames DEF NoNameTwice, FP!Alone

(* What a step of a run leaves alone of the others and of the time *)
LEMMA InnerFrame ==
    ASSUME NEW t \in Task, Inner(t), Base
    PROVE  /\ Now' = Now /\ task' = task /\ task[t].pc = "running"
           /\ \A u \in Task \ {t} : uploaded'[u] = uploaded[u]
           /\ run[t].pc = "send" => uploaded'[t] = Now
           /\ run[t].pc # "send" => uploaded' = uploaded
BY TimeStays DEF Inner, history, clockwork, Base, Punctual

LEMMA UploadStock ==
    ASSUME NoNameTwice, Base, Base', Stock, FP!RunsMove, NEW t \in Task, Inner(t), FP!Upload(t)
    PROVE  Stock'
<1> DEFINE new == [key |-> FP!KeyOf(t), bytes |-> sent[t], stamp |-> Now]
<1>1. /\ run[t].pc = "send" /\ run'[t].pc = "retain" /\ UNCHANGED <<cut, doomed>>
      /\ \A u \in Task \ {t} : run'[u] = run[u]
      /\ Now' = Now /\ task' = task /\ task[t].pc = "running"
      /\ uploaded'[t] = Now /\ \A u \in Task \ {t} : uploaded'[u] = uploaded[u]
  BY InnerFrame DEF FP!Upload, FP!Goto, Base, FP!Types, FP!TypeOK
<1>2. ~Stored(t) /\ Stored(t)' /\ \A u \in Task \ {t} : Stored(u)' = Stored(u)
  BY <1>1 DEF Stored, FP!HasObject
<1>3. \A u \in Task : Stored(u) => FP!KeyOf(u) # FP!KeyOf(t)
  BY <1>1, <1>2, KeyOwner, RunKept
<1>4. \A o \in remote : o.key # FP!KeyOf(t)
  BY <1>3 DEF Stock, Owned
<1>5. remote' = remote \cup {new}
  BY <1>4 DEF FP!Upload
<1> HIDE DEF new
<1>6. new.key = FP!KeyOf(t) /\ new.stamp = Now
  BY DEF new
<1>7. \A u \in Task : (Stored(u) \/ u = t) =>
        FP!KeyOf(u)' = FP!KeyOf(u) /\ (Stored(u) => Stored(u)')
  BY <1>1, <1>2, RunKept
<1>8. \A u, w \in Task : (Stored(u) \/ u = t) /\ (Stored(w) \/ w = t)
        => SamePlace(u, w)' = SamePlace(u, w)
  BY <1>1, RunKept
<1>9. Owned'
  BY <1>2, <1>5, <1>6, <1>7 DEF Stock, Owned
<1>10. Unique'
  BY <1>4, <1>5, <1>6 DEF Stock, Unique
<1>11. Uncut'
  <2>1. run[t].pc \notin Cutting
    BY <1>1 DEF Cutting
  <2> QED BY <1>1, <2>1 DEF Stock, Uncut
<1>12. Sweeping'
  <2> SUFFICES ASSUME NEW w \in Task, run'[w].pc = "sweep", NEW k \in doomed'[w]
               PROVE  Outdated(k, w)'
    BY DEF Sweeping
  <2>1. w # t /\ run[w].pc = "sweep" /\ k \in doomed[w] /\ cut'[w] = cut[w]
    BY <1>1
  <2>2. PICK u \in Task : /\ Stored(u) /\ SamePlace(u, w) /\ k = FP!KeyOf(u)
                          /\ \A o \in remote : o.key = k => o.stamp < cut[w]
    BY <2>1 DEF Stock, Sweeping, Outdated
  <2>3. Stored(w)
    BY <2>1 DEF Stored, FP!HasObject
  <2>4. \A o \in remote' : o.key = k => o.stamp < cut'[w]
    BY <1>3, <1>5, <1>6, <2>1, <2>2
  <2>5. Stored(u)' /\ SamePlace(u, w)' /\ k = FP!KeyOf(u)'
    BY <1>7, <1>8, <2>2, <2>3
  <2> QED BY <2>4, <2>5 DEF Outdated
<1>13. Survives'
  <2> SUFFICES ASSUME NEW w \in Task, Stored(w)'
               PROVE  \E u \in Task : \E o \in remote' : Vouches(u, o, w)'
    BY DEF Survives
  <2>1. CASE w = t
    <3>1. Bound(t)' = Now /\ Now \in Nat
      BY <1>1, NowTypes DEF Bound, AtCutoff
    <3>2. PICK o \in remote' : o.key = FP!KeyOf(t) /\ o.stamp = Now
      <4>1. new \in remote'
        BY <1>5
      <4> QED BY <1>6, <4>1
    <3>3. Vouches(t, o, t)'
      BY <1>2, <1>7, <3>1, <3>2 DEF Vouches, SamePlace
    <3> QED BY <2>1, <3>3
  <2>2. CASE w # t
    <3>1. Stored(w) /\ Bound(w)' = Bound(w)
      BY <1>1, <1>2, <2>2 DEF Bound, AtCutoff
    <3>2. PICK u \in Task, o \in remote : Vouches(u, o, w)
      BY <3>1 DEF Stock, Survives
    <3>3. Vouches(u, o, w)'
      BY <1>7, <1>8, <3>1, <3>2 DEF Vouches
    <3> QED BY <1>5, <3>3
  <2> QED BY <2>1, <2>2
<1> QED BY <1>9, <1>10, <1>11, <1>12, <1>13 DEF Stock

LEMMA ListLocalStock ==
    ASSUME Base, Base', Stock, FP!RunsMove, NEW t \in Task, Inner(t), FP!ListLocal(t)
    PROVE  Stock'
<1>1. /\ run[t].pc = "retain" /\ run'[t].pc = "prune" /\ remote' = remote
      /\ cut'[t] = FP!Cutoff(run[t].cfg) /\ run[t].cfg \in Cfg
      /\ \A u \in Task \ {t} :
           run'[u] = run[u] /\ cut'[u] = cut[u] /\ doomed'[u] = doomed[u]
      /\ Now' = Now /\ task' = task /\ task[t].pc = "running" /\ uploaded' = uploaded
  BY InnerFrame DEF FP!ListLocal, FP!Goto, Base, FP!Types, FP!TypeOK
<1>2. cut'[t] <= uploaded[t]
  <2>1. KeepOf[run[t].cfg] \in Nat /\ Now \in Nat /\ uploaded[t] \in Nat
    BY <1>1, NowTypes DEF F!FilesAssumption, Base, Punctual
  <2>2. Now <= uploaded[t] + KeepOf[run[t].cfg]
    BY <1>1 DEF Base, Punctual, AtCutoff
  <2> QED BY <1>1, <2>1, <2>2 DEF FP!Cutoff
<1>3. Bound(t)' <= Bound(t)
  BY <1>1, <1>2 DEF Bound, AtCutoff
<1>4. Stored(t)' = Stored(t) /\ run'[t].pc \in Cutting
  BY <1>1 DEF Stored, FP!HasObject, Cutting
<1> QED BY <1>1, <1>3, <1>4, MoveStock

(* The steps of a run before its upload, and those of the retention that    *)
(* delete files or leave it.                                                *)
LEMMA OtherStock ==
    ASSUME Base, Base', Stock, FP!RunsMove, NEW t \in Task,
           Inner(t),
           \/ \E c : FP!Start(t, c)
           \/ FP!Truncate(t) \/ FP!WriteFile(t) \/ FP!ReadFile(t) \/ FP!RetentionDone(t)
           \/ \E x : FP!RemoveFile(t, x)
    PROVE  Stock'
<1>1. /\ UNCHANGED <<remote, cut>>
      /\ \A u \in Task \ {t} : run'[u] = run[u] /\ doomed'[u] = doomed[u]
      /\ doomed'[t] \subseteq doomed[t]
      /\ Now' = Now /\ task' = task /\ uploaded' = uploaded
  BY InnerFrame DEF FP!Start, FP!Truncate, FP!WriteFile, FP!ReadFile, FP!RetentionDone, FP!RemoveFile,
         FP!Undoom, FP!Goto, Base, FP!Types, FP!TypeOK
<1>2. \/ run[t].pc \in {"none", "dump", "write", "read"}
           /\ run'[t].pc \in {"dump", "write", "read", "send"}
      \/ run[t].pc \in {"retain", "prune", "sweep"} /\ run'[t].pc = "retained"
      \/ run'[t] = run[t] /\ run[t].pc = "prune"
  BY DEF FP!Start, FP!Truncate, FP!WriteFile, FP!ReadFile, FP!RetentionDone, FP!RemoveFile,
         FP!Goto, Base, FP!Types, FP!TypeOK
<1>3. Stored(t)' = Stored(t) /\ run'[t].pc # "sweep"
  BY <1>2 DEF Stored, FP!HasObject
<1>4. run'[t].pc \notin Cutting => run[t].pc \notin Cutting
  BY <1>2 DEF Cutting
<1>5. Bound(t)' <= Bound(t)
  <2>1. Bound(t) \in Nat /\ cut[t] \in Nat
    BY NowTypes
  <2>2. Bound(t)' = cut[t]
    BY <1>1, <1>2 DEF Bound, AtCutoff
  <2>3. run[t].pc = "retain" => cut[t] = 0
    BY DEF Stock, Uncut, Cutting
  <2> QED BY <2>1, <2>2, <2>3 DEF Bound, AtCutoff
<1> QED BY ONLY <1>1, <1>3, <1>4, <1>5, MoveStock, Base, Base', Stock, FP!RunsMove, t \in Task

(* At one place no pattern finds another stem than its own, and what is      *)
(* stored there under one stem is of one database.                           *)
PlacesApart ==
    \A c, d \in Cfg : PlaceOf[c] = PlaceOf[d] =>
        /\ StemOf[d] \in FP!Finds(PlaceOf[c], StemOf[c]) => StemOf[c] = StemOf[d]
        /\ StemOf[c] = StemOf[d] => NameOf[c] = NameOf[d]

LEMMA ListRemoteStock ==
    ASSUME PlacesApart, Base, Base', Stock, FP!RunsMove, NEW t \in Task,
           Inner(t), FP!ListRemote(t)
    PROVE  Stock'
<1>1. /\ run[t].pc = "prune" /\ run'[t].pc = "sweep" /\ UNCHANGED <<remote, cut>>
      /\ doomed'[t] = FP!OldObjects(t)
      /\ \A u \in Task \ {t} : run'[u] = run[u] /\ doomed'[u] = doomed[u]
      /\ Now' = Now /\ task' = task /\ uploaded' = uploaded
  BY InnerFrame DEF FP!ListRemote, FP!Goto, Base, FP!Types, FP!TypeOK
<1>2. \A u \in Task : Stored(u)' = Stored(u) /\ Bound(u)' = Bound(u)
  BY <1>1 DEF Stored, FP!HasObject, Bound, AtCutoff
<1>3. Owned' /\ Survives'
  <2>1. \A u \in Task : Bound(u)' <= Bound(u)
    BY <1>2, NowTypes
  <2> QED BY <1>1, <1>2, <2>1, FrameStock DEF Stock
<1>4. Unique' /\ Uncut'
  BY <1>1 DEF Stock, Unique, Uncut, Cutting
<1>5. Sweeping'
  <2> SUFFICES ASSUME NEW w \in Task, run'[w].pc = "sweep", NEW k \in doomed'[w]
               PROVE  Outdated(k, w)'
    BY DEF Sweeping
  <2>1. run[w].pc # "none"
    BY <1>1
  <2>2. PICK u \in Task : /\ Stored(u) /\ SamePlace(u, w) /\ k = FP!KeyOf(u)
                          /\ \A o \in remote : o.key = k => o.stamp < cut[w]
    <3>1. CASE w # t
      BY <1>1, <3>1 DEF Stock, Sweeping, Outdated
    <3>2. CASE w = t
      <4>1. PICK o \in remote : /\ o.key = k
                                /\ k[1] = PlaceOf[run[t].cfg]
                                /\ k[2][1] \in FP!Finds(k[1], FP!StoredAs(t))
                                /\ FP!Old(o.stamp, cut[t])
        BY <1>1, <3>2 DEF FP!OldObjects
      <4>2. PICK u \in Task : Stored(u) /\ k = FP!KeyOf(u)
        BY <4>1 DEF Stock, Owned
      <4>3. k[1] = PlaceOf[run[u].cfg] /\ k[2][1] = StemOf[run[u].cfg]
        BY <4>2 DEF FP!KeyOf, FP!StoredAs
      <4>4. StemOf[run[u].cfg] = StemOf[run[t].cfg]
        <5>1. run[u].cfg \in Cfg /\ run[t].cfg \in Cfg
          BY <1>1, <4>2 DEF Stored, FP!HasObject, Base, FP!Types
        <5> QED BY <4>1, <4>3, <5>1 DEF PlacesApart, FP!StoredAs
      <4>5. \A p \in remote : p.key = k => p.stamp < cut[t]
        BY <4>1 DEF Stock, Unique, FP!Old
      <4>6. SamePlace(u, w)
        BY <3>2, <4>1, <4>3, <4>4 DEF SamePlace
      <4> QED BY <3>2, <4>2, <4>5, <4>6
    <3> QED BY <3>1, <3>2
  <2>3. Stored(u)' /\ SamePlace(u, w)' /\ k = FP!KeyOf(u)'
    BY <1>2, <2>1, <2>2, RunKept
  <2> QED BY <1>1, <2>2, <2>3 DEF Outdated
<1> QED BY <1>3, <1>4, <1>5 DEF Stock

LEMMA RemoveObjectStock ==
    ASSUME NoNameTwice, Base, Base', Stock, FP!RunsMove, NEW t \in Task, NEW k,
           Inner(t), FP!RemoveObject(t, k)
    PROVE  Stock'
<1>1. /\ run[t].pc = "sweep" /\ k \in doomed[t] /\ UNCHANGED <<run, cut>>
      /\ remote' \subseteq remote
      /\ \A o \in remote : o.key # k => o \in remote'
      /\ \A u \in Task : doomed'[u] \subseteq doomed[u]
      /\ Now' = Now /\ task' = task /\ uploaded' = uploaded
  BY InnerFrame DEF FP!RemoveObject, FP!Undoom, Base, FP!Types, FP!TypeOK
<1>2. \A u \in Task : Stored(u)' = Stored(u) /\ Bound(u)' = Bound(u)
  BY <1>1 DEF Stored, Bound, AtCutoff
<1>3. \A u \in Task : Stored(u) => FP!KeyOf(u)' = FP!KeyOf(u)
  BY RunKept
<1>4. \A u, w \in Task : SamePlace(u, w)' = SamePlace(u, w)
  BY <1>1 DEF SamePlace
<1>5. Owned' /\ Unique' /\ Uncut'
  BY <1>1, <1>2, <1>3 DEF Stock, Owned, Unique, Uncut
<1>6. Sweeping'
  BY <1>1, <1>2, <1>3, <1>4 DEF Stock, Sweeping, Outdated
<1>7. Survives'
  <2> SUFFICES ASSUME NEW w \in Task, Stored(w)'
               PROVE  \E u \in Task : \E o \in remote' : Vouches(u, o, w)'
    BY DEF Survives
  <2>1. PICK u \in Task, o \in remote : Vouches(u, o, w)
    BY <1>2 DEF Stock, Survives
  <2>2. \A x \in Task, p \in remote' : Vouches(x, p, w) => Vouches(x, p, w)'
    BY <1>2, <1>3, <1>4 DEF Vouches
  <2>3. CASE o.key # k
    BY <1>1, <2>1, <2>2, <2>3
  <2>4. CASE o.key = k
    <3>1. PICK x \in Task : /\ Stored(x) /\ SamePlace(x, t) /\ k = FP!KeyOf(x)
                            /\ \A p \in remote : p.key = k => p.stamp < cut[t]
      BY <1>1 DEF Stock, Sweeping, Outdated
    <3>2. x = u
      BY <2>1, <2>4, <3>1, KeyOwner, RunKept DEF Vouches
    <3>3. Stored(t) /\ Bound(t) = cut[t]
      BY <1>1 DEF Stored, FP!HasObject, Bound, AtCutoff
    <3>4. PICK v \in Task, p \in remote : Vouches(v, p, t)
      BY <3>3 DEF Stock, Survives
    <3>5. p.stamp >= cut[t] /\ o.stamp < cut[t] /\ o.stamp >= Bound(w)
      BY <2>1, <2>4, <3>1, <3>3, <3>4 DEF Vouches
    <3>6. p.stamp \in Nat /\ o.stamp \in Nat /\ cut[t] \in Nat /\ Bound(w) \in Nat
      BY NowTypes
    <3>7. p.key # k
      BY <3>1, <3>5, <3>6
    <3>8. Vouches(v, p, w)
      BY <2>1, <3>1, <3>2, <3>4, <3>5, <3>6 DEF Vouches, SamePlace
    <3> QED BY <1>1, <2>2, <3>7, <3>8
  <2> QED BY <2>3, <2>4
<1> QED BY <1>5, <1>6, <1>7 DEF Stock

LEMMA StepStock ==
    ASSUME NoNameTwice, PlacesApart, Base, Base', Stock, FP!RunsMove, [Next]_vars
    PROVE  Stock'
<1>1. ASSUME NEW t \in Task, Inner(t) PROVE Stock'
  <2>2. (\E c : FP!Start(t, c)) \/ FP!Work(t)
    BY <1>1, SameWork, SameEnds DEF Inner
  <2>3. CASE \/ \E c : FP!Start(t, c)
             \/ FP!Truncate(t) \/ FP!WriteFile(t) \/ FP!ReadFile(t) \/ FP!RetentionDone(t)
             \/ \E x : FP!RemoveFile(t, x)
    BY <1>1, <2>3, OtherStock
  <2>4. CASE FP!Upload(t)
    BY <1>1, <2>4, UploadStock
  <2>5. CASE FP!ListLocal(t)
    BY <1>1, <2>5, ListLocalStock
  <2>6. CASE FP!ListRemote(t)
    BY <1>1, <2>6, ListRemoteStock
  <2>7. ASSUME NEW k, FP!RemoveObject(t, k) PROVE Stock'
    BY <1>1, <2>7, RemoveObjectStock
  <2> QED BY <2>2, <2>3, <2>4, <2>5, <2>6, <2>7 DEF FP!Work
<1>2. ASSUME NEW t \in Task, Conclude(t) PROVE Stock'
  BY <1>2, ConcludeStock
<1> QED BY <1>1, <1>2, QuietStock DEF Next

(* When at one place no pattern finds another stem than its own: as long as *)
(* no two runs got the same names, after a successful backup there always   *)
(* is a whole one at its place, whatever fails, stops or is deleted later.  *)
THEOREM BackupSurvives ==
    ASSUME PlacesApart
    PROVE  Spec => []NeverWithoutBackup
<1> DEFINE I == Base /\ FP!Own /\ (NoNameTwice => Stock)
<1>1. Init => I
  <2> SUFFICES ASSUME Init PROVE I
    OBVIOUS
  <2>1. Base
    BY InitBase
  <2>2. FP!Init
    BY SameFiles DEF Init
  <2>3. FP!Own
    BY <2>2, FP!InitOwn DEF FP!InitOwn
  <2>4. Stock
    BY <2>2 DEF FP!Init, FP!NoRun, FP!HasObject, Stock, Owned, Unique, Uncut, Sweeping,
                Survives, Stored
  <2> QED BY <2>1, <2>3, <2>4
<1>2. I /\ [Next]_vars => I'
  <2> SUFFICES ASSUME I, [Next]_vars PROVE I'
    OBVIOUS
  <2>1. Base' /\ [FP!Next]_(FP!vars)
    BY StepTypes, StepBase
  <2>2. FP!Own' /\ FP!RunsMove /\ FP!Origins
    BY <2>1, FP!StepOwn DEF FP!StepOwn, Base
  <2>3. NoNameTwice' => NoNameTwice
    <3> SUFFICES ASSUME NoNameTwice', NEW t \in Task, run[t].pc # "none"
                 PROVE  F!Alone(t)
      BY DEF NoNameTwice
    <3>1. run'[t].pc # "none"
      BY <2>2 DEF FP!Origins
    <3>2. F!Alone(t)'
      BY <3>1 DEF NoNameTwice
    <3>3. FP!Alone(t)'
      BY <3>2, SameNames
    <3>4. FP!Alone(t)
      BY <2>2, <3>3, FP!AloneBefore DEF FP!AloneBefore
    <3> QED BY <3>4, SameNames
  <2>4. NoNameTwice' => Stock'
    BY <2>1, <2>2, <2>3, StepStock
  <2> QED BY <2>1, <2>2, <2>4
<1>3. I => NeverWithoutBackup
  <2> SUFFICES ASSUME I, NoNameTwice, NEW t \in Task, hist[t].status = "success"
               PROVE  \E o \in remote, u \in Task :
                          /\ o.key[1] = PlaceOf[run[t].cfg]
                          /\ o.bytes = {u}
                          /\ NameOf[run[u].cfg] = NameOf[run[t].cfg]
    BY DEF NeverWithoutBackup
  <2>1. Stored(t)
    BY DEF Base, Linked, Stored, FP!HasObject
  <2>2. PICK u \in Task, o \in remote : Vouches(u, o, t)
    BY <2>1 DEF Stock, Survives
  <2>3. run[u].pc # "none" /\ run[t].pc # "none"
    BY <2>1, <2>2 DEF Vouches, Stored, FP!HasObject
  <2>4. o.bytes = {u}
    BY <2>2, <2>3, SameNames DEF Vouches, NoNameTwice, FP!Own, FP!OwnObject, Stored
  <2>5. o.key[1] = PlaceOf[run[t].cfg]
    BY <2>2 DEF Vouches, SamePlace, FP!KeyOf
  <2>6. NameOf[run[u].cfg] = NameOf[run[t].cfg]
    <3>1. run[u].cfg \in Cfg /\ run[t].cfg \in Cfg
      BY <2>3 DEF Base, FP!Types
    <3> QED BY <2>2, <3>1 DEF Vouches, SamePlace, PlacesApart
  <2> QED BY <2>4, <2>5, <2>6
<1> QED BY <1>1, <1>2, <1>3, PTL DEF Spec

(* "Backup terjadwal harian", from end to end: when ticks are prompt, each   *)
(* day that a standing schedule names has its run, but for mishaps of that  *)
(* very day, and where a run succeeded there is a whole backup.             *)
THEOREM DailyBackups ==
    ASSUME SP!PromptMode, PlacesApart
    PROVE  Spec => [](S!ScheduledDayHasRun /\ NeverWithoutBackup)
<1>1. Spec => SP!Spec
  <2>1. Init => SP!Init
    BY SameScheduler DEF Init
  <2> QED BY <2>1, StepScheduler, PTL DEF Spec, SP!Spec
<1>2. SP!Spec => []SP!ScheduledDayHasRun
  BY SP!ScheduledDaysServed DEF SP!ScheduledDaysServed
<1>3. SP!ScheduledDayHasRun => S!ScheduledDayHasRun
  BY DEF SP!ScheduledDayHasRun, S!ScheduledDayHasRun, SP!DaysDue, S!DaysDue, SP!Live, S!Live,
         SP!RowsOf, S!RowsOf
<1> QED BY <1>1, <1>2, <1>3, BackupSurvives, PTL
=============================================================================
