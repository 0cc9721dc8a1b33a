---------------------------- MODULE FilesProofs ----------------------------
(***************************************************************************)
(* Theorems about the files of backup runs, for any number of runs,        *)
(* configurations, places and any retention.                               *)
(*                                                                         *)
(* KeptWithinRetention is not inductive: what a retention is about to      *)
(* delete was judged when it listed the directory, and other runs write    *)
(* and delete between.  The invariant says that a name once listed stays   *)
(* out of date whatever is written under it, because no file is older than *)
(* its name says, and that a run has its copies from when it makes them.   *)
(* OnlyOutdatedDeleted is about every copy and needs no assumption: it     *)
(* comes from the same judgement, which KeptWithinRetention then reads for *)
(* retentions that agree.  The last part follows the bytes of a run that   *)
(* has its names to itself; module BackupProofs needs it.                  *)
(***************************************************************************)
EXTENDS BackupFiles, TLAPS

Kept(t) == now <= run[t].ts + KeepOf[run[t].cfg]

HasFile == {"write", "read", "send", "retain", "prune", "sweep", "retained", "success"}
HasObject == {"retain", "prune", "sweep", "retained", "success"}

Doomable == File \cup (Place \X File \X (Task \cup {None}))

Types ==
    /\ TypeOK
    /\ doomed \in [Task -> SUBSET Doomable]
    /\ \A t \in Task : run[t].pc # "none" => run[t].cfg \in Cfg

(* Nothing is stored before the second in its name. *)
Stamped ==
    /\ \A t \in Task : run[t].ts <= now
    /\ \A e \in local : e.file[2] <= e.stamp
    /\ \A o \in remote : o.key[2][2] <= o.stamp

(* What is older than the cutoff is past the retention, now and later. *)
CutSound ==
    \A t \in Task : run[t].pc = "prune" =>
        cut[t] = 0 \/ cut[t] + KeepOf[run[t].cfg] <= now

FileGoes(t, f) == f \in File /\ f[1] \in Covers(DbOf(t)) /\ Outdated(t, f[2])

ObjectGoes(t, k) ==
    /\ k[2] \in File
    /\ k[1] = PlaceOf[run[t].cfg]
    /\ k[2][1] \in Finds(k[1], StoredAs(t))
    /\ Outdated(t, k[2][2])

(* What a retention listed is out of date, whatever is under the name now. *)
DoomedSound ==
    \A t \in Task :
        /\ run[t].pc = "prune" => \A f \in doomed[t] : FileGoes(t, f)
        /\ run[t].pc = "sweep" => \A k \in doomed[t] : ObjectGoes(t, k)

Judged == Types /\ Stamped /\ CutSound /\ DoomedSound

HeldFiles ==
    \A t \in Task : run[t].pc \in HasFile /\ Kept(t) =>
        \E e \in local : e.file = Path(t)

HeldObjects ==
    \A t \in Task : run[t].pc \in HasObject /\ Kept(t) =>
        \E o \in remote : o.key = KeyOf(t)

Inv == Judged /\ HeldFiles /\ HeldObjects

(* Whatever a retention's patterns select it keeps as long as the            *)
(* configurations do that write there: those of one database agree, and so   *)
(* do those of one stem at a place, and another name is selected only by a   *)
(* retention that keeps as long or longer.                                   *)
RetentionsAgree ==
    \A c, d \in Cfg :
        \/ NameOf[c] \in Covers(NameOf[d])
        \/ PlaceOf[c] = PlaceOf[d] /\ StemOf[c] \in Finds(PlaceOf[d], StemOf[d])
        => KeepOf[c] <= KeepOf[d]

USE FilesAssumption

-----------------------------------------------------------------------------

LEMMA KeyParts ==
    ASSUME NEW t \in Task
    PROVE  KeyOf(t)[1] = PlaceOf[run[t].cfg] /\ KeyOf(t)[2] = <<StoredAs(t), run[t].ts>>
BY DEF KeyOf

(* One step keeps the types. *)
LEMMA StepTypes == Types /\ [Next]_vars => Types'
<1> SUFFICES ASSUME Types, [Next]_vars PROVE Types'
  OBVIOUS
<1> USE DEF Types, TypeOK
<1>1. ASSUME NEW t \in Task, NEW step \in Step, Goto(t, step), run[t].pc # "none"
      PROVE  /\ run' \in [Task -> [pc: Step, cfg: Cfg \cup {None}, ts: Nat]]
             /\ \A u \in Task : run'[u].pc # "none" => run'[u].cfg \in Cfg
  BY <1>1 DEF Goto
<1>2. ASSUME NEW t \in Task, run[t].pc # "none"
      PROVE  /\ Path(t) \in File
             /\ KeyOf(t) \in Place \X File \X (Task \cup {None})
  <2>1. run[t].cfg \in Cfg /\ run[t].ts \in Nat
    BY <1>2
  <2>2. Path(t) \in File /\ <<StoredAs(t), run[t].ts>> \in File
    BY <2>1 DEF Path, DbOf, StoredAs, Stem, File
  <2>3. PlaceOf[run[t].cfg] \in Place
    BY <2>1
  <2> QED BY <2>2, <2>3 DEF KeyOf
<1>3. ASSUME NEW f \in File, NEW bytes \in SUBSET Task, Store(f, bytes)
      PROVE  local' \subseteq [file: File, bytes: SUBSET Task, stamp: Nat]
  BY <1>3 DEF Store
<1>4. \A f : BytesAt(f) \subseteq Task
  BY DEF BytesAt
<1>5. CASE Tick
  BY <1>5 DEF Tick
<1>6. ASSUME NEW t \in Task, NEW c \in Cfg, Start(t, c) PROVE Types'
  BY <1>6 DEF Start, Step
<1>7. ASSUME NEW t \in Task, Truncate(t) PROVE Types'
  <2>1. run[t].pc # "none" /\ "write" \in Step /\ Goto(t, "write") /\ Store(Path(t), {})
        /\ UNCHANGED <<now, remote, sent, cut, doomed>>
    BY <1>7 DEF Truncate, Step
  <2>2. local' \subseteq [file: File, bytes: SUBSET Task, stamp: Nat]
    BY <2>1, <1>2, <1>3
  <2> QED BY <2>1, <2>2, <1>1
<1>8. ASSUME NEW t \in Task, WriteFile(t) PROVE Types'
  <2>1. run[t].pc # "none" /\ "read" \in Step /\ Goto(t, "read")
        /\ UNCHANGED <<now, remote, sent, cut, doomed>>
    BY <1>8 DEF WriteFile, Step
  <2>2. \/ Store(Path(t), {t}) \/ Store(Path(t), BytesAt(Path(t)) \cup {t})
        \/ UNCHANGED local
    BY <1>8 DEF WriteFile
  <2>3. BytesAt(Path(t)) \cup {t} \in SUBSET Task /\ {t} \in SUBSET Task
    BY <1>4
  <2>4. local' \subseteq [file: File, bytes: SUBSET Task, stamp: Nat]
    BY <2>1, <2>2, <2>3, <1>2, <1>3
  <2> QED BY <2>1, <2>4, <1>1
<1>9. ASSUME NEW t \in Task, ReadFile(t) PROVE Types'
  <2>1. run[t].pc # "none" /\ "send" \in Step /\ Goto(t, "send")
        /\ sent' = [sent EXCEPT ![t] = BytesAt(Path(t))]
        /\ UNCHANGED <<now, local, remote, cut, doomed>>
    BY <1>9 DEF ReadFile, Step
  <2> QED BY <2>1, <1>1, <1>4
<1>10. ASSUME NEW t \in Task, Upload(t) PROVE Types'
  <2>1. run[t].pc # "none" /\ "retain" \in Step /\ Goto(t, "retain")
        /\ UNCHANGED <<now, local, sent, cut, doomed>>
    BY <1>10 DEF Upload, Step
  <2>2. remote' = {o \in remote : o.key # KeyOf(t)}
                    \cup {[key |-> KeyOf(t), bytes |-> sent[t], stamp |-> now]}
    BY <1>10 DEF Upload
  <2>3. remote' \subseteq [key: Place \X File \X (Task \cup {None}),
                           bytes: SUBSET Task, stamp: Nat]
    BY <2>1, <2>2, <1>2
  <2> QED BY <2>1, <2>3, <1>1
<1>11. ASSUME NEW t \in Task, Fail(t) \/ Succeed(t) PROVE Types'
  BY <1>11, <1>1 DEF Fail, Succeed, Step
<1>12. ASSUME NEW t \in Task, ListLocal(t) PROVE Types'
  <2>1. run[t].pc # "none" /\ "prune" \in Step /\ Goto(t, "prune")
        /\ cut' = [cut EXCEPT ![t] = Cutoff(run[t].cfg)]
        /\ doomed' = [doomed EXCEPT ![t] = OldFiles(t, Cutoff(run[t].cfg))]
        /\ UNCHANGED <<now, local, remote, sent>>
    BY <1>12 DEF ListLocal, Step
  <2>2. KeepOf[run[t].cfg] \in Nat
    BY <2>1
  <2>3. Cutoff(run[t].cfg) \in Nat
    BY <2>2 DEF Cutoff
  <2>4. OldFiles(t, Cutoff(run[t].cfg)) \subseteq Doomable
    BY DEF OldFiles, Doomable
  <2> QED BY <2>1, <2>3, <2>4, <1>1
<1>13. ASSUME NEW t \in Task, NEW x, RemoveFile(t, x) \/ RemoveObject(t, x)
       PROVE  Types'
  <2>1. doomed' \in [Task -> SUBSET Doomable]
    BY <1>13 DEF RemoveFile, RemoveObject, Undoom
  <2>2. local' \subseteq local /\ remote' \subseteq remote
        /\ UNCHANGED <<now, run, sent, cut>>
    BY <1>13 DEF RemoveFile, RemoveObject
  <2> QED BY <2>1, <2>2
<1>14. ASSUME NEW t \in Task, ListRemote(t) PROVE Types'
  <2>1. run[t].pc # "none" /\ "sweep" \in Step /\ Goto(t, "sweep")
        /\ doomed' = [doomed EXCEPT ![t] = OldObjects(t)]
        /\ UNCHANGED <<now, local, remote, sent, cut>>
    BY <1>14 DEF ListRemote, Step
  <2>2. OldObjects(t) \subseteq Doomable
    BY DEF OldObjects, Doomable
  <2> QED BY <2>1, <2>2, <1>1
<1>15. ASSUME NEW t \in Task, RetentionDone(t) PROVE Types'
  <2>1. run[t].pc # "none" /\ "retained" \in Step /\ Goto(t, "retained")
        /\ doomed' = [doomed EXCEPT ![t] = {}]
        /\ UNCHANGED <<now, local, remote, sent, cut>>
    BY <1>15 DEF RetentionDone, Step
  <2> QED BY <2>1, <1>1
<1>16. CASE UNCHANGED vars
  BY <1>16 DEF vars
<1> QED BY <1>5, <1>6, <1>7, <1>8, <1>9, <1>10, <1>11, <1>12, <1>13, <1>14, <1>15, <1>16
        DEF Next, RunTask, Work

LEMMA InitTypes == Init => Types
BY DEF Init, Types, TypeOK, NoRun, Step, Doomable

(* Every reachable state has its types. *)
THEOREM TypeCorrect == Spec => []TypeOK
<1>1. Types => TypeOK
  BY DEF Types
<1> QED BY <1>1, InitTypes, StepTypes, PTL DEF Spec

-----------------------------------------------------------------------------

(* What a step may do to the runs. *)
RunsMove ==
    /\ now' \in Nat /\ now' >= now
    /\ \A u \in Task :
        /\ run[u].pc # "none" => run'[u].cfg = run[u].cfg /\ run'[u].ts = run[u].ts
        /\ run[u].pc = "none" =>
             run'[u] = run[u] \/ (run'[u].pc = "dump" /\ run'[u].ts = now)
        /\ run'[u].pc \in HasFile => run[u].pc \in HasFile \/ Truncate(u)
        /\ run'[u].pc \in HasObject => run[u].pc \in HasObject \/ Upload(u)
        /\ run'[u].pc = "prune" =>
             \/ run[u].pc = "prune" /\ cut'[u] = cut[u] /\ doomed'[u] \subseteq doomed[u]
             \/ ListLocal(u)
        /\ run'[u].pc = "sweep" =>
             \/ run[u].pc = "sweep" /\ doomed'[u] \subseteq doomed[u]
             \/ ListRemote(u)

(* What it may do to the files and objects. *)
FilesMove ==
    /\ \A e \in local' :
         \/ e \in local
         \/ e.stamp = now /\ \E u \in Task : run[u].pc # "none" /\ e.file = Path(u)
    /\ \A e \in local :
         \/ \E x \in local' : x.file = e.file
         \/ \E t \in Task : run[t].pc = "prune" /\ e.file \in doomed[t]

ObjectsMove ==
    /\ \A o \in remote' :
         \/ o \in remote
         \/ o.stamp = now /\ \E u \in Task : run[u].pc # "none" /\ o.key = KeyOf(u)
    /\ \A o \in remote :
         \/ \E x \in remote' : x.key = o.key
         \/ \E t \in Task : run[t].pc = "sweep" /\ o.key \in doomed[t]

LEMMA StepRuns == ASSUME Types, [Next]_vars PROVE RunsMove
<1> USE DEF Types, TypeOK, RunsMove, HasFile, HasObject
<1>1. CASE Tick
  BY <1>1 DEF Tick
<1>2. ASSUME NEW t \in Task, NEW c \in Cfg, Start(t, c) PROVE RunsMove
  BY <1>2 DEF Start
<1>3. ASSUME NEW t \in Task, NEW step, Goto(t, step), now' = now,
             UNCHANGED <<cut, doomed>>,
             \/ step = "write" /\ Truncate(t)
             \/ run[t].pc = "write" /\ step = "read"
             \/ run[t].pc = "read" /\ step = "send"
             \/ step = "retain" /\ Upload(t)
             \/ run[t].pc # "none" /\ step = "failed"
             \/ run[t].pc = "retained" /\ step = "success"
      PROVE  RunsMove
  <2>1. /\ run'[t].pc = step /\ run'[t].cfg = run[t].cfg /\ run'[t].ts = run[t].ts
        /\ \A u \in Task \ {t} : run'[u] = run[u]
        /\ run[t].pc # "none"
        /\ Upload(t) => run[t].pc = "send"
    BY <1>3 DEF Goto, Truncate, Upload
  <2>2. /\ step \notin {"prune", "sweep", "none"}
        /\ step \in HasFile => run[t].pc \in HasFile \/ Truncate(t)
        /\ step \in HasObject => run[t].pc \in HasObject \/ Upload(t)
    BY <1>3, <2>1
  <2>3. now' \in Nat /\ now' >= now /\ cut' = cut /\ doomed' = doomed
    BY <1>3
  <2> HIDE DEF HasFile, HasObject, Types, TypeOK
  <2> QED BY <2>1, <2>2, <2>3
<1>4. ASSUME NEW t \in Task,
             Truncate(t) \/ WriteFile(t) \/ ReadFile(t) \/ Upload(t) \/ Fail(t) \/ Succeed(t)
      PROVE  RunsMove
  <2>1. CASE Truncate(t)
    BY <2>1, <1>3 DEF Truncate
  <2>2. CASE WriteFile(t)
    BY <2>2, <1>3 DEF WriteFile
  <2>3. CASE ReadFile(t)
    BY <2>3, <1>3 DEF ReadFile
  <2>4. CASE Upload(t)
    BY <2>4, <1>3 DEF Upload
  <2>5. CASE Fail(t) \/ Succeed(t)
    BY <2>5, <1>3 DEF Fail, Succeed
  <2> QED BY <1>4, <2>1, <2>2, <2>3, <2>4, <2>5
<1>5. ASSUME NEW t \in Task, ListLocal(t) PROVE RunsMove
  <2>1. /\ run'[t].pc = "prune" /\ run'[t].cfg = run[t].cfg /\ run'[t].ts = run[t].ts
        /\ \A u \in Task \ {t} : run'[u] = run[u] /\ cut'[u] = cut[u] /\ doomed'[u] = doomed[u]
        /\ run[t].pc = "retain" /\ now' = now
    BY <1>5 DEF ListLocal, Goto
  <2> QED BY <1>5, <2>1
<1>6. ASSUME NEW t \in Task, NEW x, RemoveFile(t, x) \/ RemoveObject(t, x) PROVE RunsMove
  BY <1>6 DEF RemoveFile, RemoveObject, Undoom
<1>7. ASSUME NEW t \in Task, ListRemote(t) PROVE RunsMove
  <2>1. /\ run'[t].pc = "sweep" /\ run'[t].cfg = run[t].cfg /\ run'[t].ts = run[t].ts
        /\ \A u \in Task \ {t} : run'[u] = run[u] /\ cut'[u] = cut[u] /\ doomed'[u] = doomed[u]
        /\ run[t].pc = "prune" /\ now' = now
    BY <1>7 DEF ListRemote, Goto
  <2> QED BY <1>7, <2>1
<1>8. ASSUME NEW t \in Task, RetentionDone(t) PROVE RunsMove
  <2>1. /\ run'[t].pc = "retained" /\ run'[t].cfg = run[t].cfg /\ run'[t].ts = run[t].ts
        /\ \A u \in Task \ {t} : run'[u] = run[u] /\ cut'[u] = cut[u] /\ doomed'[u] = doomed[u]
        /\ run[t].pc \in {"retain", "prune", "sweep"} /\ now' = now
    BY <1>8 DEF RetentionDone, Goto
  <2> QED BY <2>1
<1>9. CASE UNCHANGED vars
  BY <1>9 DEF vars
<1> QED BY <1>1, <1>2, <1>4, <1>5, <1>6, <1>7, <1>8, <1>9 DEF Next, RunTask, Work

LEMMA StepFiles == ASSUME Types, [Next]_vars PROVE FilesMove /\ ObjectsMove
<1> USE DEF Types, TypeOK, FilesMove, ObjectsMove
<1>1. ASSUME NEW t \in Task, NEW bytes, run[t].pc # "none", Store(Path(t), bytes)
      PROVE  FilesMove
  <2>1. local' = {e \in local : e.file # Path(t)}
                   \cup {[file |-> Path(t), bytes |-> bytes, stamp |-> now]}
    BY <1>1 DEF Store
  <2>2. \A e \in local' :
          e \in local \/ e = [file |-> Path(t), bytes |-> bytes, stamp |-> now]
    BY <2>1
  <2>3. \E x \in local' : x.file = Path(t)
    <3>1. [file |-> Path(t), bytes |-> bytes, stamp |-> now] \in local'
      BY <2>1
    <3> QED BY <3>1
  <2>4. \A e \in local : e.file # Path(t) => e \in local'
    BY <2>1
  <2> QED BY <1>1, <2>2, <2>3, <2>4
<1>2. ASSUME UNCHANGED local PROVE FilesMove
  BY <1>2
<1>3. ASSUME UNCHANGED remote PROVE ObjectsMove
  BY <1>3
<1>4. ASSUME NEW t \in Task, Truncate(t) \/ WriteFile(t) PROVE FilesMove /\ ObjectsMove
  BY <1>4, <1>1, <1>2, <1>3 DEF Truncate, WriteFile
<1>5. ASSUME NEW t \in Task, Upload(t) PROVE FilesMove /\ ObjectsMove
  <2>1. /\ remote' = {o \in remote : o.key # KeyOf(t)}
                   \cup {[key |-> KeyOf(t), bytes |-> sent[t], stamp |-> now]}
        /\ run[t].pc # "none" /\ UNCHANGED local
    BY <1>5 DEF Upload
  <2>2. \A o \in remote' :
          o \in remote \/ o = [key |-> KeyOf(t), bytes |-> sent[t], stamp |-> now]
    BY <2>1
  <2>3. \E x \in remote' : x.key = KeyOf(t)
    <3>1. [key |-> KeyOf(t), bytes |-> sent[t], stamp |-> now] \in remote'
      BY <2>1
    <3> QED BY <3>1
  <2>4. \A o \in remote : o.key # KeyOf(t) => o \in remote'
    BY <2>1
  <2> QED BY <2>1, <2>2, <2>3, <2>4, <1>2
<1>6. ASSUME NEW t \in Task, NEW f, RemoveFile(t, f) PROVE FilesMove /\ ObjectsMove
  BY <1>6, <1>2, <1>3 DEF RemoveFile
<1>7. ASSUME NEW t \in Task, NEW k, RemoveObject(t, k) PROVE FilesMove /\ ObjectsMove
  BY <1>7, <1>2, <1>3 DEF RemoveObject
<1>8. ASSUME NEW t \in Task, \/ \E c \in Cfg : Start(t, c)
                             \/ ReadFile(t) \/ Fail(t) \/ ListLocal(t)
                             \/ ListRemote(t) \/ RetentionDone(t) \/ Succeed(t)
      PROVE  UNCHANGED <<local, remote>>
  BY <1>8 DEF Start, ReadFile, Fail, ListLocal, ListRemote, RetentionDone, Succeed
<1>9. CASE Tick \/ UNCHANGED vars
  BY <1>9, <1>2, <1>3 DEF Tick, vars
<1> QED BY <1>2, <1>3, <1>4, <1>5, <1>6, <1>7, <1>8, <1>9 DEF Next, RunTask, Work


-----------------------------------------------------------------------------

(* What is out of date for a run stays so. *)
LEMMA OutdatedStays ==
    ASSUME Types, RunsMove, NEW t \in Task, run[t].pc # "none", NEW time \in Nat,
           Outdated(t, time)
    PROVE  Outdated(t, time)'
<1>1. run'[t].cfg = run[t].cfg /\ KeepOf[run[t].cfg] \in Nat
  BY DEF RunsMove, Types
<1>2. now \in Nat /\ now' \in Nat /\ now' >= now
  BY DEF RunsMove, Types, TypeOK
<1> QED BY <1>1, <1>2 DEF Outdated

LEMMA GoesStays ==
    ASSUME Types, RunsMove, NEW t \in Task, run[t].pc # "none"
    PROVE  /\ \A f : FileGoes(t, f) => FileGoes(t, f)'
           /\ \A k : ObjectGoes(t, k) => ObjectGoes(t, k)'
<1>1. run'[t].cfg = run[t].cfg
  BY DEF RunsMove
<1>2. DbOf(t)' = DbOf(t) /\ StoredAs(t)' = StoredAs(t)
  BY <1>1 DEF DbOf, StoredAs
<1>3. \A f \in File : f[2] \in Nat
  BY DEF File
<1>4. ASSUME NEW f, FileGoes(t, f) PROVE FileGoes(t, f)'
  <2>1. Outdated(t, f[2])'
    BY <1>3, <1>4, OutdatedStays DEF FileGoes
  <2> QED BY <1>2, <1>4, <2>1 DEF FileGoes
<1>5. ASSUME NEW k, ObjectGoes(t, k) PROVE ObjectGoes(t, k)'
  <2>1. Outdated(t, k[2][2])'
    BY <1>3, <1>5, OutdatedStays DEF ObjectGoes
  <2> QED BY <1>1, <1>2, <1>5, <2>1 DEF ObjectGoes
<1> QED BY <1>4, <1>5

LEMMA NamedTask ==
    ASSUME Types, NEW t \in Task, run[t].pc # "none"
    PROVE  /\ Path(t) \in File /\ Path(t)[1] = DbOf(t) /\ Path(t)[2] = run[t].ts
           /\ run[t].cfg \in Cfg /\ run[t].ts \in Nat
           /\ KeyOf(t)[1] = PlaceOf[run[t].cfg]
           /\ KeyOf(t)[2][1] = StoredAs(t) /\ KeyOf(t)[2][2] = run[t].ts
<1>1. run[t].cfg \in Cfg /\ run[t].ts \in Nat
  BY DEF Types, TypeOK
<1> QED BY <1>1, KeyParts DEF Path, DbOf, Stem, File

LEMMA StepStamped ==
    ASSUME Types, Stamped, RunsMove, FilesMove, ObjectsMove
    PROVE  Stamped'
<1> USE DEF Types, TypeOK
<1>1. \A t \in Task : run[t].pc # "none" => run[t].ts <= now
  BY DEF Stamped
<1>2. \A t \in Task : run'[t].ts <= now'
  BY DEF Stamped, RunsMove
<1>3. \A e \in local' : e.file[2] <= e.stamp
  BY NamedTask, <1>1 DEF FilesMove, Stamped
<1>4. \A o \in remote' : o.key[2][2] <= o.stamp
  BY NamedTask, <1>1 DEF ObjectsMove, Stamped
<1> QED BY <1>2, <1>3, <1>4 DEF Stamped

(* No file is older than its name says, so what was written before the      *)
(* cutoff was started before it.                                            *)
LEMMA OldIsOutdated ==
    ASSUME Types, NEW t \in Task, run[t].pc # "none", NEW c \in Nat,
           c = 0 \/ c + KeepOf[run[t].cfg] <= now,
           NEW time \in Nat, NEW stamp \in Nat, time <= stamp, Old(stamp, c)
    PROVE  Outdated(t, time)
<1>1. KeepOf[run[t].cfg] \in Nat /\ now \in Nat
  BY DEF Types, TypeOK
<1> QED BY <1>1 DEF Old, Outdated

LEMMA StepCut ==
    ASSUME Types, CutSound, RunsMove
    PROVE  CutSound'
<1> SUFFICES ASSUME NEW t \in Task, run'[t].pc = "prune"
             PROVE  cut'[t] = 0 \/ cut'[t] + KeepOf[run'[t].cfg] <= now'
  BY DEF CutSound
<1> USE DEF Types, TypeOK
<1>1. run[t].pc # "none" /\ run'[t].cfg = run[t].cfg /\ KeepOf[run[t].cfg] \in Nat
  BY DEF RunsMove, ListLocal
<1>2. CASE run[t].pc = "prune" /\ cut'[t] = cut[t]
  BY <1>1, <1>2 DEF CutSound, RunsMove
<1>3. CASE ListLocal(t)
  <2>1. cut'[t] = Cutoff(run[t].cfg) /\ now' = now
    BY <1>3 DEF ListLocal
  <2> QED BY <1>1, <2>1 DEF Cutoff
<1> QED BY <1>2, <1>3 DEF RunsMove

LEMMA StepDoomed ==
    ASSUME Judged, RunsMove
    PROVE  DoomedSound'
<1> USE DEF Judged, Types, TypeOK
<1>1. ASSUME NEW f \in File PROVE f[2] \in Nat
  BY DEF File
<1>2. ASSUME NEW t \in Task, run'[t].pc = "prune", NEW f \in doomed'[t]
      PROVE  FileGoes(t, f)'
  <2>1. CASE run[t].pc = "prune" /\ doomed'[t] \subseteq doomed[t]
    <3>1. FileGoes(t, f)
      BY <1>2, <2>1 DEF DoomedSound
    <3> QED BY <2>1, <3>1, GoesStays
  <2>2. CASE ListLocal(t)
    <3>1. f \in OldFiles(t, Cutoff(run[t].cfg)) /\ run[t].pc = "retain" /\ now' = now
      BY <1>2, <2>2 DEF ListLocal
    <3>2. PICK e \in local : f = e.file /\ e.file[1] \in Covers(DbOf(t))
                             /\ Old(e.stamp, Cutoff(run[t].cfg))
      BY <3>1 DEF OldFiles
    <3>3. f \in File /\ e.stamp \in Nat /\ f[2] <= e.stamp
      BY <3>2 DEF Stamped
    <3>4. /\ Cutoff(run[t].cfg) \in Nat
          /\ Cutoff(run[t].cfg) = 0 \/ Cutoff(run[t].cfg) + KeepOf[run[t].cfg] <= now
      <4>1. KeepOf[run[t].cfg] \in Nat
        BY <3>1
      <4> QED BY <4>1 DEF Cutoff
    <3>5. Outdated(t, f[2])
      BY <1>1, <3>1, <3>2, <3>3, <3>4, OldIsOutdated
    <3>6. FileGoes(t, f)
      BY <3>2, <3>3, <3>5 DEF FileGoes
    <3> QED BY <3>1, <3>6, GoesStays
  <2> QED BY <1>2, <2>1, <2>2 DEF RunsMove
<1>3. ASSUME NEW t \in Task, run'[t].pc = "sweep", NEW k \in doomed'[t]
      PROVE  ObjectGoes(t, k)'
  <2>1. CASE run[t].pc = "sweep" /\ doomed'[t] \subseteq doomed[t]
    <3>1. ObjectGoes(t, k)
      BY <1>3, <2>1 DEF DoomedSound
    <3> QED BY <2>1, <3>1, GoesStays
  <2>2. CASE ListRemote(t)
    <3>1. k \in OldObjects(t) /\ run[t].pc = "prune"
      BY <1>3, <2>2 DEF ListRemote
    <3>2. PICK o \in remote : k = o.key /\ k[1] = PlaceOf[run[t].cfg]
                              /\ k[2][1] \in Finds(k[1], StoredAs(t)) /\ Old(o.stamp, cut[t])
      BY <3>1 DEF OldObjects
    <3>3. k[2] \in File /\ o.stamp \in Nat /\ k[2][2] <= o.stamp
      BY <3>2 DEF Stamped
    <3>4. cut[t] \in Nat /\ (cut[t] = 0 \/ cut[t] + KeepOf[run[t].cfg] <= now)
      BY <3>1 DEF CutSound
    <3>5. Outdated(t, k[2][2])
      BY <1>1, <3>1, <3>2, <3>3, <3>4, OldIsOutdated
    <3>6. ObjectGoes(t, k)
      BY <3>2, <3>3, <3>5 DEF ObjectGoes
    <3> QED BY <3>1, <3>6, GoesStays
  <2> QED BY <1>3, <2>1, <2>2 DEF RunsMove
<1> QED BY <1>2, <1>3 DEF DoomedSound

LEMMA InitJudged == Init => Judged
BY InitTypes DEF Init, Judged, Stamped, CutSound, DoomedSound, NoRun

LEMMA StepJudged ==
    ASSUME Judged, [Next]_vars
    PROVE  Judged' /\ RunsMove /\ FilesMove /\ ObjectsMove
<1>1. Types' /\ RunsMove /\ FilesMove /\ ObjectsMove
  BY StepTypes, StepRuns, StepFiles DEF Judged
<1>2. Stamped' /\ CutSound' /\ DoomedSound'
  BY <1>1, StepStamped, StepCut, StepDoomed DEF Judged
<1> QED BY <1>1, <1>2 DEF Judged

(* A retention deletes of what its patterns select, in its directory and in *)
(* its own bucket or folder, only what is past its days when it goes, though *)
(* it judged the copy before and another run may have written it anew since: *)
(* for every configuration, name, place and load (apply_retention).         *)
THEOREM DeletesOnlyOutdated == Spec => OnlyOutdatedDeleted
<1>1. ASSUME Judged, [Next]_vars PROVE FilesKept /\ ObjectsKept
  <2>1. FilesMove /\ ObjectsMove
    BY <1>1, StepJudged
  <2>2. FilesKept
    BY <1>1, <2>1 DEF FilesKept, FilesMove, Judged, DoomedSound, FileGoes
  <2>3. ObjectsKept
    BY <1>1, <2>1 DEF ObjectsKept, ObjectsMove, Judged, DoomedSound, ObjectGoes
  <2> QED BY <2>2, <2>3
<1>2. Judged /\ [Next]_vars => [FilesKept /\ ObjectsKept]_vars
  BY <1>1
<1>3. Judged /\ [Next]_vars => Judged'
  BY StepJudged
<1> QED BY <1>2, <1>3, InitJudged, PTL DEF Spec, OnlyOutdatedDeleted

-----------------------------------------------------------------------------

(* When retentions agree, what one takes is past what its writer keeps. *)
LEMMA AgreedRetention ==
    ASSUME RetentionsAgree, Types, NEW t \in Task, run[t].pc # "none",
           NEW u \in Task, run[u].pc # "none", Outdated(u, run[t].ts),
           \/ DbOf(t) \in Covers(DbOf(u))
           \/ /\ PlaceOf[run[t].cfg] = PlaceOf[run[u].cfg]
              /\ StoredAs(t) \in Finds(PlaceOf[run[t].cfg], StoredAs(u))
    PROVE  ~Kept(t)
<1>1. run[t].cfg \in Cfg /\ run[u].cfg \in Cfg /\ run[t].ts \in Nat /\ now \in Nat
  BY DEF Types, TypeOK
<1>2. KeepOf[run[t].cfg] <= KeepOf[run[u].cfg]
  BY <1>1 DEF RetentionsAgree, DbOf, StoredAs
<1>3. KeepOf[run[t].cfg] \in Nat /\ KeepOf[run[u].cfg] \in Nat
  BY <1>1
<1> QED BY <1>1, <1>2, <1>3 DEF Outdated, Kept

(* A copy goes only by a retention, which has it down as expired. *)
LEMMA StepHeldFiles ==
    ASSUME RetentionsAgree, Types, DoomedSound, HeldFiles, RunsMove, FilesMove
    PROVE  HeldFiles'
<1> SUFFICES ASSUME NEW t \in Task, run'[t].pc \in HasFile, Kept(t)'
             PROVE  \E e \in local' : e.file = Path(t)'
  BY DEF HeldFiles
<1>1. run[t].pc # "none" /\ run'[t].cfg = run[t].cfg /\ run'[t].ts = run[t].ts
  BY DEF RunsMove, HasFile, Truncate
<1>2. Path(t)' = Path(t)
  BY <1>1 DEF Path, DbOf
<1>3. Path(t)[1] = DbOf(t) /\ Path(t)[2] = run[t].ts /\ run[t].cfg \in Cfg /\ run[t].ts \in Nat
  BY <1>1, NamedTask
<1>4. Kept(t)
  BY <1>1, <1>3 DEF Kept, RunsMove, Types, TypeOK
<1>5. CASE Truncate(t)
  <2>1. [file |-> Path(t), bytes |-> {}, stamp |-> now] \in local'
    BY <1>5 DEF Truncate, Store
  <2> QED BY <1>2, <2>1
<1>6. CASE run[t].pc \in HasFile
  <2>1. PICK e \in local : e.file = Path(t)
    BY <1>4, <1>6 DEF HeldFiles
  <2>2. ASSUME NEW u \in Task, run[u].pc = "prune", e.file \in doomed[u] PROVE FALSE
    <3>1. FileGoes(u, Path(t))
      BY <2>1, <2>2 DEF DoomedSound
    <3>2. DbOf(t) \in Covers(DbOf(u)) /\ Outdated(u, run[t].ts)
      BY <1>3, <3>1 DEF FileGoes
    <3> QED BY <1>1, <1>4, <2>2, <3>2, AgreedRetention
  <2> QED BY <1>2, <2>1, <2>2 DEF FilesMove
<1> QED BY <1>5, <1>6 DEF RunsMove

LEMMA StepHeldObjects ==
    ASSUME RetentionsAgree, Types, DoomedSound, HeldObjects, RunsMove, ObjectsMove
    PROVE  HeldObjects'
<1> SUFFICES ASSUME NEW t \in Task, run'[t].pc \in HasObject, Kept(t)'
             PROVE  \E o \in remote' : o.key = KeyOf(t)'
  BY DEF HeldObjects
<1>1. run[t].pc # "none" /\ run'[t].cfg = run[t].cfg /\ run'[t].ts = run[t].ts
  BY DEF RunsMove, HasObject, Upload
<1>2. KeyOf(t)' = KeyOf(t)
  BY <1>1 DEF KeyOf, StoredAs
<1>3. /\ KeyOf(t)[1] = PlaceOf[run[t].cfg]
      /\ KeyOf(t)[2][1] = StoredAs(t) /\ KeyOf(t)[2][2] = run[t].ts
      /\ run[t].cfg \in Cfg /\ run[t].ts \in Nat
  BY <1>1, NamedTask
<1>4. Kept(t)
  BY <1>1, <1>3 DEF Kept, RunsMove, Types, TypeOK
<1>5. CASE Upload(t)
  <2>1. [key |-> KeyOf(t), bytes |-> sent[t], stamp |-> now] \in remote'
    BY <1>5 DEF Upload
  <2> QED BY <1>2, <2>1
<1>6. CASE run[t].pc \in HasObject
  <2>1. PICK o \in remote : o.key = KeyOf(t)
    BY <1>4, <1>6 DEF HeldObjects
  <2>2. ASSUME NEW u \in Task, run[u].pc = "sweep", o.key \in doomed[u] PROVE FALSE
    <3>1. ObjectGoes(u, KeyOf(t))
      BY <2>1, <2>2 DEF DoomedSound
    <3>2. /\ PlaceOf[run[t].cfg] = PlaceOf[run[u].cfg]
          /\ StoredAs(t) \in Finds(PlaceOf[run[t].cfg], StoredAs(u))
          /\ Outdated(u, run[t].ts)
      BY <1>3, <3>1 DEF ObjectGoes
    <3> QED BY <1>1, <1>4, <2>2, <3>2, AgreedRetention
  <2> QED BY <1>2, <2>1, <2>2 DEF ObjectsMove
<1> QED BY <1>5, <1>6 DEF RunsMove

(* When the retentions that select a name agree on how long to keep it,     *)
(* a successful run's file and object are there for all of that retention,  *)
(* whatever other runs write, overwrite and delete, and wherever they fail. *)
THEOREM BackupsAreKept ==
    ASSUME RetentionsAgree
    PROVE  Spec => []KeptWithinRetention
<1>1. Init => Inv
  BY InitJudged DEF Init, Inv, HeldFiles, HeldObjects, HasFile, HasObject, NoRun
<1>2. ASSUME Inv, [Next]_vars PROVE Inv'
  <2>1. Judged' /\ RunsMove /\ FilesMove /\ ObjectsMove
    BY <1>2, StepJudged DEF Inv
  <2>2. HeldFiles' /\ HeldObjects'
    BY <1>2, <2>1, StepHeldFiles, StepHeldObjects DEF Inv, Judged
  <2> QED BY <2>1, <2>2 DEF Inv
<1>3. Inv /\ [Next]_vars => Inv'
  BY <1>2
<1>4. Inv => KeptWithinRetention
  BY DEF Inv, Judged, HeldFiles, HeldObjects, HasFile, HasObject, Kept, KeptWithinRetention
<1> QED BY <1>1, <1>3, <1>4, PTL DEF Spec

-----------------------------------------------------------------------------

(***************************************************************************)
(* The bytes of a run that has its names to itself: what is under them is  *)
(* what that run wrote.                                                    *)
(***************************************************************************)

(* A file is under the name of some run. *)
NamesOwned == \A e \in local : \E u \in Task : run[u].pc # "none" /\ e.file = Path(u)

OwnFile ==
    \A t \in Task : run[t].pc # "none" /\ Alone(t) =>
        \A e \in local : e.file = Path(t) =>
            /\ run[t].pc # "dump"
            /\ run[t].pc = "write" => e.bytes = {}
            /\ run[t].pc = "read" => e.bytes = {t}

OwnBytes == \A t \in Task : run[t].pc = "send" /\ Alone(t) => sent[t] = {t}

OwnObject ==
    \A t \in Task : run[t].pc \in HasObject /\ Alone(t) =>
        \A o \in remote : o.key = KeyOf(t) => o.bytes = {t}

Own == NamesOwned /\ OwnFile /\ OwnBytes /\ OwnObject

(* Who may bring a run, a file or an object where they are. *)
Origins ==
    /\ \A u \in Task :
        /\ run[u].pc = "none" /\ run'[u].pc # "none" => \E c \in Cfg : Start(u, c)
        /\ run[u].pc # "none" => run'[u].pc # "none"
        /\ run'[u].pc \in {"dump", "write", "read"} =>
             \/ run[u].pc = run'[u].pc
             \/ \E c \in Cfg : Start(u, c)
             \/ Truncate(u)
             \/ WriteFile(u)
        /\ run'[u].pc = "send" =>
             \/ run[u].pc = "send" /\ sent'[u] = sent[u]
             \/ ReadFile(u)
    /\ \A e \in local' :
         e \in local \/ \E u \in Task : e.file = Path(u) /\ (Truncate(u) \/ WriteFile(u))
    /\ \A o \in remote' :
         o \in remote \/ \E u \in Task : o.key = KeyOf(u) /\ Upload(u)

LEMMA StepOrigins == ASSUME Types, [Next]_vars PROVE Origins
<1> USE DEF Types, TypeOK, Origins
<1>1. CASE Tick \/ UNCHANGED vars
  BY <1>1 DEF Tick, vars
<1>2. ASSUME NEW t \in Task, NEW c \in Cfg, Start(t, c) PROVE Origins
  <2>1. /\ run' = [run EXCEPT ![t] = [pc |-> "dump", cfg |-> c, ts |-> now]]
        /\ UNCHANGED <<local, remote, sent>>
    BY <1>2 DEF Start
  <2> QED BY <1>2, <2>1
<1>3. ASSUME NEW t \in Task, NEW step, Goto(t, step), run[t].pc # "none", sent' = sent,
             UNCHANGED remote \/ Upload(t), UNCHANGED local \/ Truncate(t) \/ WriteFile(t),
             \A o \in remote' : o \in remote \/ o.key = KeyOf(t),
             \A e \in local' : e \in local \/ e.file = Path(t),
             \/ step = "write" /\ Truncate(t)
             \/ step = "read" /\ WriteFile(t)
             \/ step \in {"retain", "prune", "sweep", "retained", "success", "failed"}
      PROVE  Origins
  <2>1. /\ run'[t].pc = step
        /\ \A u \in Task \ {t} : run'[u] = run[u]
    BY <1>3 DEF Goto
  <2> QED BY <1>3, <2>1
<1>4. ASSUME NEW t \in Task, Truncate(t) PROVE Origins
  <2>1. \A e \in local' : e \in local \/ e.file = Path(t)
    BY <1>4 DEF Truncate, Store
  <2>2. Goto(t, "write") /\ run[t].pc # "none" /\ UNCHANGED <<remote, sent>>
    BY <1>4 DEF Truncate
  <2> QED BY <1>4, <2>1, <2>2, <1>3
<1>5. ASSUME NEW t \in Task, WriteFile(t) PROVE Origins
  <2>1. \A e \in local' : e \in local \/ e.file = Path(t)
    BY <1>5 DEF WriteFile, Store
  <2>2. Goto(t, "read") /\ run[t].pc # "none" /\ UNCHANGED <<remote, sent>>
    BY <1>5 DEF WriteFile
  <2> QED BY <1>5, <2>1, <2>2, <1>3
<1>6. ASSUME NEW t \in Task, ReadFile(t) PROVE Origins
  <2>1. /\ run'[t].pc = "send"
        /\ \A u \in Task \ {t} : run'[u] = run[u] /\ sent'[u] = sent[u]
        /\ run[t].pc # "none" /\ UNCHANGED <<local, remote>>
    BY <1>6 DEF ReadFile, Goto
  <2> QED BY <1>6, <2>1
<1>7. ASSUME NEW t \in Task, Upload(t) PROVE Origins
  <2>1. \A o \in remote' : o \in remote \/ o.key = KeyOf(t)
    BY <1>7 DEF Upload
  <2>2. Goto(t, "retain") /\ run[t].pc # "none" /\ UNCHANGED <<local, sent>>
    BY <1>7 DEF Upload
  <2> QED BY <1>7, <2>1, <2>2, <1>3
<1>8. ASSUME NEW t \in Task, NEW x, RemoveFile(t, x) \/ RemoveObject(t, x) PROVE Origins
  BY <1>8 DEF RemoveFile, RemoveObject
<1>9. ASSUME NEW t \in Task,
             Fail(t) \/ ListLocal(t) \/ ListRemote(t) \/ RetentionDone(t) \/ Succeed(t)
      PROVE  Origins
  <2>1. /\ UNCHANGED <<local, remote, sent>> /\ run[t].pc # "none"
        /\ \E step \in {"prune", "sweep", "retained", "success", "failed"} : Goto(t, step)
    BY <1>9 DEF Fail, ListLocal, ListRemote, RetentionDone, Succeed
  <2> QED BY <2>1, <1>3
<1> QED BY <1>1, <1>2, <1>4, <1>5, <1>6, <1>7, <1>8, <1>9 DEF Next, RunTask, Work


(* What keeps its name through a step. *)
LEMMA PathStays ==
    ASSUME RunsMove, NEW t \in Task, run[t].pc # "none"
    PROVE  Path(t)' = Path(t) /\ KeyOf(t)' = KeyOf(t)
BY DEF RunsMove, Path, KeyOf, DbOf, StoredAs

(* A run that is alone was so before. *)
LEMMA AloneBefore ==
    ASSUME RunsMove, Origins, NEW t \in Task, run[t].pc # "none", Alone(t)'
    PROVE  Alone(t)
<1> SUFFICES ASSUME NEW u \in Task \ {t}, run[u].pc # "none"
             PROVE  Path(u) # Path(t) /\ KeyOf(u) # KeyOf(t)
  BY DEF Alone
<1>1. run'[u].pc # "none"
  BY DEF Origins
<1>2. Path(u)' # Path(t)' /\ KeyOf(u)' # KeyOf(t)'
  BY <1>1 DEF Alone
<1> QED BY <1>2, PathStays

(* Nothing is yet under the name that a run has to itself. *)
LEMMA StartIsNew ==
    ASSUME Types, NamesOwned, NEW t \in Task, NEW c \in Cfg, Start(t, c), Alone(t)'
    PROVE  \A e \in local' : e.file # Path(t)'
<1>1. /\ run[t].pc = "none" /\ local' = local
      /\ \A u \in Task \ {t} : run'[u] = run[u]
  BY DEF Start, Types, TypeOK
<1> SUFFICES ASSUME NEW e \in local PROVE e.file # Path(t)'
  BY <1>1
<1>2. PICK u \in Task : run[u].pc # "none" /\ e.file = Path(u)
  BY DEF NamesOwned
<1>3. u \in Task \ {t} /\ run'[u] = run[u]
  BY <1>1, <1>2
<1>4. Path(u)' = Path(u)
  BY <1>3 DEF Path, DbOf
<1>5. Path(u)' # Path(t)'
  BY <1>2, <1>3 DEF Alone
<1> QED BY <1>2, <1>4, <1>5

LEMMA StepNames ==
    ASSUME NamesOwned, RunsMove, Origins
    PROVE  NamesOwned'
<1>1. ASSUME NEW e \in local' PROVE \E u \in Task : run'[u].pc # "none" /\ e.file = Path(u)'
  <2>1. \E u \in Task : run[u].pc # "none" /\ e.file = Path(u)
    BY DEF Origins, NamesOwned, Truncate, WriteFile
  <2> QED BY <2>1, PathStays DEF Origins
<1> QED BY <1>1 DEF NamesOwned

LEMMA StepOwnFile ==
    ASSUME Types, NamesOwned, OwnFile, RunsMove, Origins
    PROVE  OwnFile'
<1> SUFFICES ASSUME NEW t \in Task, run'[t].pc # "none", Alone(t)',
                    NEW e \in local', e.file = Path(t)'
             PROVE  /\ run'[t].pc # "dump"
                    /\ run'[t].pc = "write" => e.bytes = {}
                    /\ run'[t].pc = "read" => e.bytes = {t}
  BY DEF OwnFile
<1>1. ASSUME NEW c \in Cfg, Start(t, c) PROVE FALSE
  BY <1>1, StartIsNew
<1>2. CASE run[t].pc # "none"
  <2>1. e.file = Path(t) /\ Alone(t)
    BY <1>2, PathStays, AloneBefore
  <2>2. CASE Truncate(t)
    <3>1. e = [file |-> Path(t), bytes |-> {}, stamp |-> now]
      BY <2>1, <2>2 DEF Truncate, Store
    <3>2. run'[t].pc = "write"
      BY <2>2 DEF Truncate, Goto, Types, TypeOK
    <3> QED BY <3>1, <3>2
  <2>3. CASE WriteFile(t)
    <3>1. BytesAt(Path(t)) = {}
      BY <2>1, <2>3 DEF BytesAt, OwnFile, WriteFile
    <3>2. e.bytes = {t}
      <4>1. CASE \E x \in local : x.file = Path(t)
        <5>1. e = [file |-> Path(t), bytes |-> {t}, stamp |-> now]
          BY <2>1, <2>3, <3>1, <4>1 DEF WriteFile, Store
        <5> QED BY <5>1
      <4>2. CASE ~\E x \in local : x.file = Path(t)
        BY <2>1, <2>3, <4>2 DEF WriteFile
      <4> QED BY <4>1, <4>2
    <3>3. run'[t].pc = "read"
      BY <2>3 DEF WriteFile, Goto, Types, TypeOK
    <3> QED BY <3>2, <3>3
  <2>4. CASE ~Truncate(t) /\ ~WriteFile(t)
    <3>1. e \in local
      <4> SUFFICES ASSUME e \notin local PROVE FALSE
        OBVIOUS
      <4>1. PICK u \in Task : e.file = Path(u) /\ (Truncate(u) \/ WriteFile(u))
        BY DEF Origins
      <4>2. run[u].pc # "none"
        BY <4>1 DEF Truncate, WriteFile
      <4>3. u = t
        BY <2>1, <4>1, <4>2 DEF Alone
      <4> QED BY <2>4, <4>1, <4>3
    <3>2. run'[t].pc \in {"dump", "write", "read"} => run[t].pc = run'[t].pc
      BY <1>1, <2>4 DEF Origins
    <3> QED BY <1>2, <2>1, <3>1, <3>2 DEF OwnFile
  <2> QED BY <2>2, <2>3, <2>4
<1>3. CASE run[t].pc = "none"
  BY <1>1, <1>3 DEF Origins
<1> QED BY <1>2, <1>3

LEMMA StepOwnObject ==
    ASSUME Types, OwnFile, OwnBytes, OwnObject, RunsMove, Origins
    PROVE  OwnBytes' /\ OwnObject'
<1>1. ASSUME NEW t \in Task, run'[t].pc = "send", Alone(t)' PROVE sent'[t] = {t}
  <2>1. CASE ReadFile(t)
    <3>1. run[t].pc = "read" /\ Alone(t)
      BY <1>1, <2>1, AloneBefore DEF ReadFile
    <3>2. BytesAt(Path(t)) = {t}
      BY <2>1, <3>1 DEF ReadFile, OwnFile, BytesAt
    <3> QED BY <2>1, <3>2 DEF ReadFile, Types, TypeOK
  <2>2. CASE run[t].pc = "send" /\ sent'[t] = sent[t]
    BY <1>1, <2>2, AloneBefore DEF OwnBytes
  <2> QED BY <1>1, <2>1, <2>2 DEF Origins
<1>2. ASSUME NEW t \in Task, run'[t].pc \in HasObject, Alone(t)',
             NEW o \in remote', o.key = KeyOf(t)'
      PROVE  o.bytes = {t}
  <2>1. run[t].pc # "none"
    BY <1>2 DEF RunsMove, HasObject, Upload
  <2>2. o.key = KeyOf(t) /\ Alone(t)
    BY <1>2, <2>1, PathStays, AloneBefore
  <2>3. CASE Upload(t)
    <3>1. o = [key |-> KeyOf(t), bytes |-> sent[t], stamp |-> now] /\ run[t].pc = "send"
      BY <2>2, <2>3 DEF Upload
    <3> QED BY <2>2, <3>1 DEF OwnBytes
  <2>4. CASE ~Upload(t)
    <3>1. o \in remote
      <4> SUFFICES ASSUME o \notin remote PROVE FALSE
        OBVIOUS
      <4>1. PICK u \in Task : o.key = KeyOf(u) /\ Upload(u)
        BY <1>2 DEF Origins
      <4>2. run[u].pc # "none"
        BY <4>1 DEF Upload
      <4>3. u = t
        BY <2>2, <4>1, <4>2 DEF Alone
      <4> QED BY <2>4, <4>1, <4>3
    <3>2. run[t].pc \in HasObject
      BY <1>2, <2>4 DEF RunsMove
    <3> QED BY <2>2, <3>1, <3>2 DEF OwnObject
  <2> QED BY <2>3, <2>4
<1> QED BY <1>1, <1>2 DEF OwnBytes, OwnObject

(* In every step, whatever else runs, fails and deletes *)
LEMMA StepOwn ==
    ASSUME Types, Own, [Next]_vars
    PROVE  Own' /\ RunsMove /\ Origins
<1>1. RunsMove /\ Origins
  BY StepRuns, StepOrigins
<1> QED BY <1>1, StepNames, StepOwnFile, StepOwnObject DEF Own

LEMMA InitOwn == Init => Own
BY DEF Init, Own, NamesOwned, OwnFile, OwnBytes, OwnObject, HasObject, NoRun

-----------------------------------------------------------------------------

(***************************************************************************)
(* OldBackupsGone: what a retention has to delete is on its list until it  *)
(* is deleted, and what others store meanwhile is not old.                 *)
(***************************************************************************)

Clearing(t) == run[t].pc \in {"prune", "sweep", "retained"}

OldFile(t, e) == e.file[1] = DbOf(t) /\ Old(e.stamp, cut[t])
OldObject(t, o) ==
    o.key[1] = PlaceOf[run[t].cfg] /\ o.key[2][1] = StoredAs(t) /\ Old(o.stamp, cut[t])

Listed ==
    \A t \in Task \ Flaky :
        /\ Clearing(t) => cut[t] <= now
        /\ run[t].pc = "prune" => \A e \in local : OldFile(t, e) => e.file \in doomed[t]
        /\ run[t].pc \in {"sweep", "retained"} => \A e \in local : ~OldFile(t, e)
        /\ run[t].pc = "sweep" => \A o \in remote : OldObject(t, o) => o.key \in doomed[t]
        /\ run[t].pc = "retained" => \A o \in remote : ~OldObject(t, o)

(* Every Google Drive configuration names its folder. *)
Filed == \A c \in Cfg : PlaceOf[c] \notin Unfiled

(* A run is at its retention by a step of its own, or was there before. *)
LEMMA StepClearing ==
    ASSUME Types, [Next]_vars, NEW t \in Task, Clearing(t)'
    PROVE  \/ run'[t] = run[t] /\ cut'[t] = cut[t] /\ doomed'[t] = doomed[t]
           \/ ListLocal(t) \/ ListRemote(t) \/ RetentionDone(t)
           \/ \E x \in doomed[t] : RemoveFile(t, x) \/ RemoveObject(t, x)
<1> DEFINE Same(u) == run'[u] = run[u] /\ cut'[u] = cut[u] /\ doomed'[u] = doomed[u]
<1> USE DEF Types, TypeOK
<1>1. CASE Tick \/ UNCHANGED vars
  BY <1>1 DEF Tick, vars
<1>2. ASSUME NEW u \in Task, RunTask(u), u # t PROVE Same(t)
  <2>1. CASE \/ \E c \in Cfg : Start(u, c)
             \/ Truncate(u) \/ WriteFile(u) \/ ReadFile(u) \/ Upload(u) \/ Fail(u)
             \/ Succeed(u)
    BY <1>2, <2>1 DEF Start, Truncate, WriteFile, ReadFile, Upload, Fail, Succeed, Goto
  <2>2. CASE ListLocal(u) \/ ListRemote(u) \/ RetentionDone(u)
    BY <1>2, <2>2 DEF ListLocal, ListRemote, RetentionDone, Goto
  <2>3. CASE \E x \in doomed[u] : RemoveFile(u, x) \/ RemoveObject(u, x)
    BY <1>2, <2>3 DEF RemoveFile, RemoveObject, Undoom
  <2> QED BY <1>2, <2>1, <2>2, <2>3 DEF RunTask, Work
<1>3. CASE RunTask(t)
  <2>1. ASSUME \/ \E c \in Cfg : Start(t, c)
               \/ Truncate(t) \/ WriteFile(t) \/ ReadFile(t) \/ Upload(t) \/ Fail(t)
               \/ Succeed(t)
        PROVE  FALSE
    <3>1. run'[t].pc \in {"dump", "write", "read", "send", "retain", "failed", "success"}
      BY <2>1 DEF Start, Truncate, WriteFile, ReadFile, Upload, Fail, Succeed, Goto
    <3> QED BY <3>1 DEF Clearing
  <2> QED BY <1>3, <2>1 DEF RunTask, Work
<1> QED BY <1>1, <1>2, <1>3 DEF Next

(* What others do adds nothing old. *)
LEMMA OthersAddNew ==
    ASSUME Types, Listed, NEW t \in Task \ Flaky, FilesMove, ObjectsMove,
           cut'[t] = cut[t], run'[t].cfg = run[t].cfg, cut[t] <= now
    PROVE  /\ \A e \in local' : OldFile(t, e)' => e \in local /\ OldFile(t, e)
           /\ \A o \in remote' : OldObject(t, o)' => o \in remote /\ OldObject(t, o)
<1> USE DEF Types, TypeOK
<1>1. DbOf(t)' = DbOf(t) /\ StoredAs(t)' = StoredAs(t) /\ cut[t] \in Nat /\ now \in Nat
  BY DEF DbOf, StoredAs
<1>2. ASSUME NEW e \in local', OldFile(t, e)' PROVE e \in local /\ OldFile(t, e)
  <2>1. e.stamp # now
    BY <1>1, <1>2 DEF OldFile, Old
  <2> QED BY <1>1, <1>2, <2>1 DEF FilesMove, OldFile
<1>3. ASSUME NEW o \in remote', OldObject(t, o)' PROVE o \in remote /\ OldObject(t, o)
  <2>1. o.stamp # now
    BY <1>1, <1>3 DEF OldObject, Old
  <2> QED BY <1>1, <1>3, <2>1 DEF ObjectsMove, OldObject
<1> QED BY <1>2, <1>3

LEMMA StepListed ==
    ASSUME Filed, Types, Types', Listed, [Next]_vars, RunsMove, FilesMove, ObjectsMove
    PROVE  Listed'
<1> SUFFICES ASSUME NEW t \in Task \ Flaky, Clearing(t)'
             PROVE  /\ cut'[t] <= now'
                    /\ run'[t].pc = "prune" =>
                         \A e \in local' : OldFile(t, e)' => e.file \in doomed'[t]
                    /\ run'[t].pc \in {"sweep", "retained"} =>
                         \A e \in local' : ~OldFile(t, e)'
                    /\ run'[t].pc = "sweep" =>
                         \A o \in remote' : OldObject(t, o)' => o.key \in doomed'[t]
                    /\ run'[t].pc = "retained" => \A o \in remote' : ~OldObject(t, o)'
  BY DEF Listed, Clearing
<1> USE DEF Types, TypeOK
<1>1. now \in Nat /\ now' \in Nat /\ now' >= now /\ cut[t] \in Nat /\ cut'[t] \in Nat
  BY DEF RunsMove
<1>2. ASSUME Clearing(t), cut'[t] = cut[t], run'[t].cfg = run[t].cfg
      PROVE  /\ cut'[t] <= now'
             /\ \A e \in local' : OldFile(t, e)' => e \in local /\ OldFile(t, e)
             /\ \A o \in remote' : OldObject(t, o)' => o \in remote /\ OldObject(t, o)
  <2>1. cut[t] <= now
    BY <1>2 DEF Listed
  <2> QED BY <1>1, <1>2, <2>1, OthersAddNew
<1>3. CASE run'[t] = run[t] /\ cut'[t] = cut[t] /\ doomed'[t] = doomed[t]
  <2>1. Clearing(t)
    BY <1>3 DEF Clearing
  <2> QED BY <1>2, <1>3, <2>1 DEF Listed
<1>4. CASE ListLocal(t)
  <2>1. /\ run'[t].pc = "prune" /\ run'[t].cfg = run[t].cfg /\ UNCHANGED <<now, local>>
        /\ cut'[t] = Cutoff(run[t].cfg)
        /\ doomed'[t] = OldFiles(t, Cutoff(run[t].cfg)) /\ run[t].pc # "none"
    BY <1>4 DEF ListLocal, Goto
  <2>2. Cutoff(run[t].cfg) <= now
    <3>1. KeepOf[run[t].cfg] \in Nat
      BY <2>1
    <3> QED BY <1>1, <3>1 DEF Cutoff
  <2>3. DbOf(t)' = DbOf(t) /\ DbOf(t) \in Covers(DbOf(t))
    BY <2>1 DEF DbOf, Covers
  <2>4. \A e \in local : e.file[1] = DbOf(t) /\ Old(e.stamp, Cutoff(run[t].cfg))
                           => e.file \in OldFiles(t, Cutoff(run[t].cfg))
    BY <2>3 DEF OldFiles
  <2>5. \A e \in local' : OldFile(t, e)' => e.file \in doomed'[t]
    BY <2>1, <2>3, <2>4 DEF OldFile, Old
  <2> QED BY <2>1, <2>2, <2>5
<1>5. CASE ListRemote(t)
  <2>1. /\ run[t].pc = "prune" /\ doomed[t] = {} /\ UNCHANGED <<local, remote>>
        /\ run'[t].pc = "sweep" /\ run'[t].cfg = run[t].cfg /\ cut' = cut
        /\ doomed'[t] = OldObjects(t) /\ Clearing(t) /\ run[t].cfg \in Cfg
    BY <1>5 DEF ListRemote, Goto, Clearing
  <2>2. /\ StoredAs(t) \in Finds(PlaceOf[run[t].cfg], StoredAs(t))
        /\ PlaceOf[run[t].cfg] \notin Unfiled
    BY <2>1 DEF Finds, Covers, Filed
  <2>3. \A o \in remote : OldObject(t, o) => o.key \in OldObjects(t)
    BY <2>2 DEF OldObjects, OldObject
  <2>4. \A e \in local : ~OldFile(t, e)
    BY <2>1 DEF Listed
  <2> QED BY <1>2, <2>1, <2>3, <2>4
<1>6. CASE RetentionDone(t)
  <2>1. /\ run[t].pc = "sweep" /\ doomed[t] = {} /\ cut' = cut
        /\ run'[t].pc = "retained" /\ run'[t].cfg = run[t].cfg /\ Clearing(t)
    BY <1>6 DEF RetentionDone, Goto, Clearing
  <2>2. (\A e \in local : ~OldFile(t, e)) /\ \A o \in remote : ~OldObject(t, o)
    BY <2>1 DEF Listed
  <2> QED BY <1>2, <2>1, <2>2
<1>7. ASSUME NEW x \in doomed[t], RemoveFile(t, x)
      PROVE  /\ cut'[t] <= now' /\ run'[t].pc = "prune"
             /\ \A e \in local' : OldFile(t, e)' => e.file \in doomed'[t]
  <2>1. /\ run[t].pc = "prune" /\ run' = run /\ cut' = cut /\ Clearing(t)
        /\ doomed'[t] = doomed[t] \ {x}
        /\ local' = {e \in local : e.file # x}
    BY <1>7 DEF RemoveFile, Undoom, Clearing
  <2>2. \A e \in local : OldFile(t, e) => e.file \in doomed[t]
    BY <2>1 DEF Listed
  <2> QED BY <1>2, <2>1, <2>2
<1>8. ASSUME NEW x \in doomed[t], RemoveObject(t, x)
      PROVE  /\ cut'[t] <= now' /\ run'[t].pc = "sweep"
             /\ \A e \in local' : ~OldFile(t, e)'
             /\ \A o \in remote' : OldObject(t, o)' => o.key \in doomed'[t]
  <2>1. /\ run[t].pc = "sweep" /\ run' = run /\ cut' = cut /\ Clearing(t)
        /\ doomed'[t] = doomed[t] \ {x}
        /\ remote' = {o \in remote : o.key # x}
    BY <1>8 DEF RemoveObject, Undoom, Clearing
  <2>2. /\ \A e \in local : ~OldFile(t, e)
        /\ \A o \in remote : OldObject(t, o) => o.key \in doomed[t]
    BY <2>1 DEF Listed
  <2> QED BY <1>2, <2>1, <2>2
<1> QED BY StepClearing, <1>3, <1>4, <1>5, <1>6, <1>7, <1>8

(* "Retensi: hapus backup > N hari": after a retention that nothing failed  *)
(* in, no older copy of the database is left, here or at the run's place,   *)
(* whatever other runs store and delete meanwhile (apply_retention).        *)
THEOREM RetentionComplete ==
    ASSUME Filed
    PROVE  Spec => []OldBackupsGone
<1>1. Init => Types /\ Listed
  BY InitTypes DEF Init, Listed, Clearing, NoRun
<1>2. Types /\ Listed /\ [Next]_vars => (Types /\ Listed)'
  BY Filed, StepTypes, StepRuns, StepFiles, StepListed
<1>3. Listed => OldBackupsGone
  BY DEF Listed, OldBackupsGone, OldFile, OldObject
<1> QED BY <1>1, <1>2, <1>3, PTL DEF Spec
=============================================================================
