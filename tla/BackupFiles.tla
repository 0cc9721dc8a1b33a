---------------------------- MODULE BackupFiles ----------------------------
(***************************************************************************)
(* What a backup run of dbmanage does between its two history writes       *)
(* (src/backup.rs: run_backup_inner): dump the database to a file in       *)
(* data/backups, upload it, and delete what is older than the retention.   *)
(* All runs share that directory, and those of one bucket or folder share  *)
(* what is stored there.  A file is named by a text, a stem, and the time  *)
(* of the dump.  The stem is the database's name; of an S3 key, the prefix *)
(* and that name, joined without a separator.                              *)
(*                                                                         *)
(* Time is in seconds, the resolution of file names and of time stamps.    *)
(* The bytes of a file are the set of runs whose dump they come from: {t}  *)
(* is t's dump, {} a truncated file, {t, u} a mixture.                     *)
(***************************************************************************)
EXTENDS Naturals, FiniteSets

CONSTANTS
    Task,          \* backup runs
    Cfg,           \* configurations, with what load_target reads of them:
    NameOf,        \*   the database,
    PlaceOf,       \*   the bucket or the Drive folder,
    StemOf,        \*   the stem under which it stores there,
    KeepOf,        \*   and the retention
    Begins,        \* <<n, m>>: the stem m starts with n and an underscore
    Contains,      \* <<n, m>>: Drive finds m when it looks for n and that
    Place,
    S3,            \* the places on S3
    Unfiled,       \* the places on Google Drive without a folder_id
    None,
    Flaky,         \* the runs whose listing and deleting may fail
    MaxNow         \* bound: the clock stops there

Stem == {NameOf[c] : c \in Cfg} \cup {StemOf[c] : c \in Cfg}

ASSUME FilesAssumption ==
    /\ PlaceOf \in [Cfg -> Place]
    /\ \A c \in Cfg : PlaceOf[c] \notin S3 => StemOf[c] = NameOf[c]
    /\ KeepOf \in [Cfg -> Nat]
    /\ None \notin Task
    /\ Flaky \subseteq Task
    /\ MaxNow \in Nat

VARIABLES
    now,      \* session::now(), and Utc::now() in the file name
    local,    \* the directory data/backups
    remote,   \* the objects stored at the places
    run,      \* where each run is, its configuration and the time in its name
    sent,     \* the bytes it read for the upload
    cut,      \* `cutoff' of its retention
    doomed    \* the listed files, then objects, it has still to delete

vars == <<now, local, remote, run, sent, cut, doomed>>

Step == {"none", "dump", "write", "read", "send", "retain", "prune",
         "sweep", "retained", "success", "failed"}
File == Stem \X Nat
NoRun == [pc |-> "none", cfg |-> None, ts |-> 0]

Init ==
    /\ now = 0
    /\ local = {}
    /\ remote = {}
    /\ run = [t \in Task |-> NoRun]
    /\ sent = [t \in Task |-> {}]
    /\ cut = [t \in Task |-> 0]
    /\ doomed = [t \in Task |-> {}]

Goto(t, step) == run' = [run EXCEPT ![t] = [pc |-> step, cfg |-> @.cfg, ts |-> @.ts]]

DbOf(t) == NameOf[run[t].cfg]

Path(t) == <<DbOf(t), run[t].ts>>

StoredAs(t) == StemOf[run[t].cfg]

(* An S3 key is the prefix and the file name; Drive gives each file an id. *)
KeyOf(t) ==
    LET p == PlaceOf[run[t].cfg]
    IN  <<p, <<StoredAs(t), run[t].ts>>, IF p \in S3 THEN None ELSE t>>

(***************************************************************************)
(* dump_database.                                                          *)
(***************************************************************************)

(* run_backup comes here from the history row; the name is made first. *)
Start(t, c) ==
    /\ run[t].pc = "none"
    /\ run' = [run EXCEPT ![t] = [pc |-> "dump", cfg |-> c, ts |-> now]]
    /\ UNCHANGED <<now, local, remote, sent, cut, doomed>>

Store(f, bytes) ==
    local' = {e \in local : e.file # f} \cup {[file |-> f, bytes |-> bytes, stamp |-> now]}

BytesAt(f) == UNION {e.bytes : e \in {x \in local : x.file = f}}

(* mysqldump or pg_dump is done; fs::write opens the file and truncates it. *)
Truncate(t) ==
    /\ run[t].pc = "dump"
    /\ Store(Path(t), {})
    /\ Goto(t, "write")
    /\ UNCHANGED <<now, remote, sent, cut, doomed>>

(* Then it writes from the start.  The tail of a longer dump, which another *)
(* run wrote meanwhile, stays; an unlinked file is written to no avail.     *)
WriteFile(t) ==
    /\ run[t].pc = "write"
    /\ IF \E e \in local : e.file = Path(t)
       THEN Store(Path(t), {t}) \/ Store(Path(t), BytesAt(Path(t)) \cup {t})
       ELSE UNCHANGED local
    /\ Goto(t, "read")
    /\ UNCHANGED <<now, remote, sent, cut, doomed>>

(***************************************************************************)
(* upload_s3, upload_gdrive.                                               *)
(***************************************************************************)

ReadFile(t) ==
    /\ run[t].pc = "read"
    /\ \E e \in local : e.file = Path(t)
    /\ sent' = [sent EXCEPT ![t] = BytesAt(Path(t))]
    /\ Goto(t, "send")
    /\ UNCHANGED <<now, local, remote, cut, doomed>>

(* Fault: an upload that fails is only logged, like the retention's errors. *)
UploadLogged(t) ==
    /\ run[t].pc = "send"
    /\ \/ UNCHANGED remote
       \/ remote' = {o \in remote : o.key # KeyOf(t)}
                      \cup {[key |-> KeyOf(t), bytes |-> sent[t], stamp |-> now]}
    /\ Goto(t, "retain")
    /\ UNCHANGED <<now, local, sent, cut, doomed>>

Upload(t) ==
    /\ run[t].pc = "send"
    /\ remote' = {o \in remote : o.key # KeyOf(t)}
                   \cup {[key |-> KeyOf(t), bytes |-> sent[t], stamp |-> now]}
    /\ Goto(t, "retain")
    /\ UNCHANGED <<now, local, sent, cut, doomed>>

(* A `?' before the retention, the read of a file that is gone among them;  *)
(* or, at any step, the process stops.  What is stored stays.               *)
Fail(t) ==
    /\ run[t].pc \notin {"none", "success", "failed"}
    /\ Goto(t, "failed")
    /\ UNCHANGED <<now, local, remote, sent, cut, doomed>>

(***************************************************************************)
(* apply_retention: its errors are dropped, so the run succeeds all the    *)
(* same.                                                                   *)
(***************************************************************************)

(* What starts with n and an underscore, as read_dir and S3 are asked for *)
Covers(n) == {n} \cup {m \in Stem : <<n, m>> \in Begins}

(* Drive is asked for what contains it. *)
Finds(p, n) ==
    Covers(n) \cup IF p \in S3 THEN {} ELSE {m \in Stem : <<n, m>> \in Contains}

(* Fault: a copy exactly as old as the retention goes as well. *)
OldInclusive(stamp, cutoff) == stamp <= cutoff

Old(stamp, cutoff) == stamp < cutoff

(* now - retention_days; nothing is older than 0 *)
Cutoff(c) == IF now >= KeepOf[c] THEN now - KeepOf[c] ELSE 0

OldFiles(t, cutoff) ==
    {e.file : e \in {x \in local : x.file[1] \in Covers(DbOf(t)) /\ Old(x.stamp, cutoff)}}

ListLocal(t) ==
    /\ run[t].pc = "retain"
    /\ cut' = [cut EXCEPT ![t] = Cutoff(run[t].cfg)]
    /\ doomed' = [doomed EXCEPT ![t] = OldFiles(t, Cutoff(run[t].cfg))]
    /\ Goto(t, "prune")
    /\ UNCHANGED <<now, local, remote, sent>>

Undoom(t, x) == doomed' = [doomed EXCEPT ![t] = @ \ {x}]

RemoveFile(t, f) ==
    /\ run[t].pc = "prune"
    /\ f \in doomed[t]
    /\ Undoom(t, f)
    /\ \/ local' = {e \in local : e.file # f}
       \/ t \in Flaky /\ UNCHANGED local
    /\ UNCHANGED <<now, remote, run, sent, cut>>

(* Fault: only local files are looked at. *)
ListRemoteNever(t) ==
    /\ run[t].pc = "prune"
    /\ doomed[t] = {}
    /\ Goto(t, "sweep")
    /\ UNCHANGED <<now, local, remote, sent, cut, doomed>>

(* Fault: the listing is not restricted to the folder. *)
OldObjectsAnywhere(t) ==
    {o.key : o \in {x \in remote : /\ PlaceOf[run[t].cfg] \notin Unfiled
                                   /\ x.key[2][1] \in Finds(PlaceOf[run[t].cfg], StoredAs(t))
                                   /\ Old(x.stamp, cut[t])}}

(* retention_gdrive returns at once when there is no folder to look in. *)
OldObjects(t) ==
    {o.key : o \in {x \in remote : /\ x.key[1] = PlaceOf[run[t].cfg]
                                   /\ x.key[1] \notin Unfiled
                                   /\ x.key[2][1] \in Finds(x.key[1], StoredAs(t))
                                   /\ Old(x.stamp, cut[t])}}

ListRemote(t) ==
    /\ run[t].pc = "prune"
    /\ doomed[t] = {}
    /\ doomed' = [doomed EXCEPT ![t] = OldObjects(t)]
    /\ Goto(t, "sweep")
    /\ UNCHANGED <<now, local, remote, sent, cut>>

RemoveObject(t, k) ==
    /\ run[t].pc = "sweep"
    /\ k \in doomed[t]
    /\ Undoom(t, k)
    /\ \/ remote' = {o \in remote : o.key # k}
       \/ t \in Flaky /\ UNCHANGED remote
    /\ UNCHANGED <<now, local, run, sent, cut>>

RetentionDone(t) ==
    /\ \/ run[t].pc = "sweep" /\ doomed[t] = {}
       \/ t \in Flaky /\ run[t].pc \in {"retain", "prune", "sweep"}
    /\ doomed' = [doomed EXCEPT ![t] = {}]
    /\ Goto(t, "retained")
    /\ UNCHANGED <<now, local, remote, sent, cut>>

(* Back in run_backup: the history row gets the name and the location. *)
Succeed(t) ==
    /\ run[t].pc = "retained"
    /\ Goto(t, "success")
    /\ UNCHANGED <<now, local, remote, sent, cut, doomed>>

(***************************************************************************)
(* The specification.                                                      *)
(***************************************************************************)

Tick ==
    /\ now < MaxNow
    /\ now' = now + 1
    /\ UNCHANGED <<local, remote, run, sent, cut, doomed>>

(* run_backup_inner, between its start and its outcome *)
Work(t) ==
    \/ Truncate(t)
    \/ WriteFile(t)
    \/ ReadFile(t)
    \/ Upload(t)
    \/ ListLocal(t)
    \/ \E x \in doomed[t] : RemoveFile(t, x) \/ RemoveObject(t, x)
    \/ ListRemote(t)
    \/ RetentionDone(t)

RunTask(t) ==
    \/ \E c \in Cfg : Start(t, c)
    \/ Work(t)
    \/ Fail(t)
    \/ Succeed(t)

Next == Tick \/ \E t \in Task : RunTask(t)

Spec == Init /\ [][Next]_vars

(***************************************************************************)
(* Properties.                                                             *)
(***************************************************************************)

TypeOK ==
    /\ now \in Nat
    /\ local \subseteq [file: File, bytes: SUBSET Task, stamp: Nat]
    /\ remote \subseteq [key: Place \X File \X (Task \cup {None}),
                         bytes: SUBSET Task, stamp: Nat]
    /\ run \in [Task -> [pc: Step, cfg: Cfg \cup {None}, ts: Nat]]
    /\ sent \in [Task -> SUBSET Task]
    /\ cut \in [Task -> Nat]

(* "Retensi: hapus backup > N hari": a backup that the history shows as     *)
(* successful is still there, on disk and at its location, for the N days   *)
(* of its configuration, although every other run deletes files too.        *)
KeptWithinRetention ==
    \A t \in Task :
        run[t].pc = "success" /\ now <= run[t].ts + KeepOf[run[t].cfg] =>
            /\ \E e \in local : e.file = Path(t)
            /\ \E o \in remote : o.key = KeyOf(t)

(* Of a time longer ago than t's configuration keeps copies *)
Outdated(t, time) == time + KeepOf[run[t].cfg] < now

(* A step takes a name off the disk, or a key from its place, only as a     *)
(* retention whose pattern it has and whose days are over for it.           *)
FilesKept ==
    \A e \in local :
        \/ \E x \in local' : x.file = e.file
        \/ \E t \in Task : /\ run[t].pc = "prune"
                           /\ e.file[1] \in Covers(DbOf(t))
                           /\ Outdated(t, e.file[2])

ObjectsKept ==
    \A o \in remote :
        \/ \E x \in remote' : x.key = o.key
        \/ \E t \in Task : /\ run[t].pc = "sweep"
                           /\ o.key[1] = PlaceOf[run[t].cfg]
                           /\ o.key[2][1] \in Finds(o.key[1], StoredAs(t))
                           /\ Outdated(t, o.key[2][2])

(* "Retensi: hapus backup > N hari": no copy, of whatever run, that failed,  *)
(* is under way or succeeded, is deleted by a retention before that          *)
(* retention's days are over for it, though it judged the copy earlier and   *)
(* another run may have written it anew since; and none in another bucket or *)
(* folder.  Whose copies a pattern finds there is another question: also     *)
(* those of other databases and prefixes that begin alike.                   *)
OnlyOutdatedDeleted == [][FilesKept /\ ObjectsKept]_vars

(* No other run writes the file that t does, or the object. *)
Alone(t) ==
    \A u \in Task \ {t} :
        run[u].pc # "none" => Path(u) # Path(t) /\ KeyOf(u) # KeyOf(t)

(* "Retensi: hapus backup > N hari": when a run is done with the retention  *)
(* and none of it failed, no older backup of its database is left, on disk or  *)
(* where the run stored its own.                                            *)
OldBackupsGone ==
    \A t \in Task \ Flaky :
        run[t].pc = "retained" =>
            /\ \A e \in local : e.file[1] = DbOf(t) => ~Old(e.stamp, cut[t])
            /\ \A o \in remote :
                 o.key[1] = PlaceOf[run[t].cfg] /\ o.key[2][1] = StoredAs(t)
                 => ~Old(o.stamp, cut[t])
=============================================================================
