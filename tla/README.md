# dbmanage in TLA+

dbmanage is a single-binary web application (Rust, axum, sqlx, askama) with which
one administrator manages MariaDB and PostgreSQL servers and their backups. Its
own state is a SQLite database, a registry of open connection pools, a map of
failed logins, and files in `data/backups`. Everything in it runs as tasks of one
multi-threaded tokio runtime: request handlers, the scheduler's ticker, and one
task per backup. There are no transactions around a handler; every `.await` is a
point where any other task may run and where a handler may be dropped with its
client. What is hard about this code is what happens between those points.

Paths below are the repository's (`src/pools.rs` is the file of that name in the
crate). Line references of every definition are in `PROJECT.json` ("map").

## 1. Inventory

| Component | Source | State | Operations | Who calls it |
|---|---|---|---|---|
| Connection-pool registry | `src/pools.rs` | `pools` (main pool per connection), `db_pools` (PostgreSQL sub-pool per connection and database), each under a `RwLock` | `get`, `insert`, `remove`, `pg_pool`, `close_pg_db`, `create_pool`, `ping` | connection forms, explorer |
| Connection forms | `src/connections.rs` | table `connections` | `list` (pings all connections concurrently), `create`, `update`, `delete`, `test` | browser |
| Explorer | `src/explorer.rs` | none of its own; the managed servers | `load_conn`, `pool_for`, `dbr_for`; databases, users, tables, grid, row edits, SQL editor, `drop_database` | browser |
| Audit | `src/explorer.rs` and the forms | table `audit_log` | an INSERT after each write | every handler that writes |
| Backup scheduler | `src/backup.rs` | the ticker | `spawn_scheduler`, `scheduler_tick` | `main` |
| Backup configurations | `src/backup.rs` | table `backup_configs` | `create`, `update`, `delete`, `run_now` | browser |
| Backup runs, history | `src/backup.rs` | table `backup_history` | `run_backup`, `load_target` | scheduler, `run_now` |
| Backup files | `src/backup.rs` | `data/backups`, S3 or Google Drive | `dump_database`, `upload_s3`, `upload_gdrive`, `apply_retention` | `run_backup` |
| Sessions | `src/session.rs` | table `sessions` | `root`, `session_resolver` (expire, touch) | every request |
| Setup, login, lock, 2FA | `src/auth.rs` | table `users`, the map `ATTEMPTS` in memory | `setup_submit`, `login_submit`, `totp_submit`, `logout` | browser |
| Internal schema | `src/db.rs` | SQLite | migrations; keys, UNIQUE, ON DELETE rules | start-up |
| Metadata and dialects | `src/metadata.rs` | none; the managed servers | `execute`, `create_database`, `drop_database`, `create_user`, `drop_user`; queries of information schemas | explorer |
| Encryption, TOTP, configuration, errors, templates | `src/crypto.rs`, `src/totp.rs`, `src/config.rs`, `src/error.rs`, `src/templates.rs` | none | wrappers | all |

How they interact:

* The explorer reads a connection's row, looks for its pool in the registry, and if
  there is none connects and *publishes* the new pool. `connections::update` and
  `delete` write the row and then *evict* its pools. The row and the registry are
  two pieces of state that no lock covers together.
* `insert`, `remove` and `close_pg_db` close a pool that other handlers may hold a
  clone of, and wait for their statements to end; the last two do so with the write
  lock of the registry in their hands.
* A page's statement goes to the managed server first and its audit row to SQLite after
  that, and the page that reports success comes last. MariaDB's sessions return to the
  pool with the default database that their last `USE` left.
* The ticker reads the configurations once per tick and spawns tasks; what it
  decides by, the history, is written by those tasks, later.
* All backup runs share one directory and a flat name space of files.
* Every request carries a *copy* of its session's row, made by the resolver.

What makes each component correct:

* Registry: what it serves is open, is that connection's, and comes from the row as
  it is now; evictors leave nothing running; its locks never deadlock.
* Scheduler: each day a schedule names has a run of its own; no more than one by the
  ticker; the history refers to what exists.
* Backup files: a successful run's copies stay for the retention; older ones go; what a
  retention judged is still so when it deletes.
* Explorer: the pages and `audit_log` agree on what was done; a statement runs in the
  database the page is about.
* History and files together: what is called successful is stored; failing runs never use
  up the copies there are.
* Sessions and login: an authenticated session has a user; a deleted session stays
  so; the lock counts and lasts as promised; there is one administrator.

The hazards, each at its line, are in `PROJECT.json` ("hazards").

## 2. Plan

| | Module | State |
|---|---|---|
| 1 | `Pools` – registry, connection forms, explorer's connection side | done |
| 2 | `PoolsProofs` – types, both registry invariants, drained evictions, no deadlock | done |
| 3 | `Scheduler` – ticker, configurations, runs, history | done |
| 4 | `SchedulerProofs` – types, history, at most and at least once per day | done |
| 5 | `Auth` – sessions, setup, login, lock, 2FA | done |
| 6 | `AuthProofs` – types, sessions, lock, counter, the end of setup | done |
| 7 | `BackupFiles` – dump, upload, retention | done |
| 8 | `FilesProofs` – types, retention both ways, what it may delete | done |
| 9 | `Explorer` – row edits, statements, SQL editor, audit rows; `ExplorerProofs` | done |
| 10 | `Registry`, what the pool registry promises, which `Pools` implements; `BackupLog`, what the history promises, which `Scheduler` implements | done, both refinements checked and proved |
| 11 | `Backup` – `Scheduler` and `BackupFiles` joined in the task they share; `BackupProofs` | done, the properties that need both parts |
| 12 | what row forms carry of cells; page arithmetic; a connection form that writes back a stale password | not done, see section 6 |

Modules that have theorems use no RECURSIVE operator. Invariants are conjunctions of
named parts; constants carry named assumptions in the module that declares them.

## 3. Modules

`MCPools`, `MCScheduler`, `MCBackupFiles`, `MCAuth`, `MCExplorer` and `MCBackup` only add the values and the
symmetry that TLC needs. Definitions whose comment starts with "Fault:" are faulty
variants of the definition that follows them. No specification uses them; a property
is worth checking if it fails when one of them takes the place of the original.

### Pools

One action per stretch of a handler between two awaits. `pc[r]` is where handler `r`
is, `job[r]` what it was asked and the version of the row it loaded, `held[r]` its
`PoolHandle`, `drain[r]` the pool whose `close()` it awaits. A row is a version: every
UPDATE makes a new one, in place of host, credentials and `db_type` (`PgVersions` says
which versions are PostgreSQL). `pools` and `dbPools` are the two maps; `lock` and
`dbLock` are their write locks where the code holds them across an await. Elsewhere a
lock is taken and released within one action, which is enabled only if it is free.

`BrowseServer` stands for every page that goes through `pool_for`, `BrowseDatabase` for
every page that goes through `dbr_for`. `Acquire`/`EndStatement` are the statements they
run, any number of them. `Cancel` is a client that goes away: axum drops the future, and
with it its guards. A pool whose last clone is gone is dropped (`DropPool`) and its
identity may be used again.

`Registry` is the abstract registry: a slot for each connection and each of its databases
that is empty or serves one version of that connection's row, and steps that concern one
slot at a time. `ServesLikeRegistry` maps a slot of `Pools` to the version its pool was
made from, if that pool is open and of the same connection; to a value `Registry` does not
have, if not. Which handlers run, hold, close and drop pools does not show there.

### Scheduler

Time is a day and a minute. The ticker's deadlines come one to a minute, and `due`
counts those it has not served, because tokio's interval catches up in a burst.
`TickStart` formats the clock; `TickRead` is the one SELECT; `TickCheck` looks one row's
last run up and spawns or skips; `Load`, `Record` and `Finish` are `run_backup` at its
database steps. The forms run at any point between. `DeleteCfg` includes what the schema
does (history's reference becomes NULL). A configuration remembers the day its schedule
was saved, and `mishap` the last day on which the process was down or a query of a tick, or
of a task before its row, failed; only properties look at them.

Two constants state assumptions rather than describe the program. `PromptTicks`: the
clock's minute never ends while a tick is due or at work. `PromptTasks`: nor between a
task's spawn and its history row. A tick that takes less than a minute is not enough for
either, since it may start at a minute's end, and nothing in the code ensures them. The
interval of `src/backup.rs` line 934 is not tied to the clock's minutes: its deadlines,
60 s apart, may also drift over a minute's boundary and leave one out, whose schedules are
then not served that day. The model has a deadline in every minute. With `PromptTasks`
FALSE, `SchedulerMidnight` shows what goes wrong, and section 4 what else.

A task that is running may stay so: a dump and an upload have no timeout
(`src/backup.rs` lines 609-628, 678, 725), and a crash leaves its row as it is. No
property says that a run ends.

`BackupLog` is the abstract history: runs are only added, by the ticker one for a
configuration and a day, and each gets one outcome for good. `HistoryIsLog` maps a task of
`Scheduler` to an entry with the configuration and the day it was made for, which the
deletion of the configuration does not change.

### BackupFiles

What happens inside `run_backup_inner`, in seconds. A file name is a *stem* and the second
in it; the stem is the database's name on disk and on Drive, and on S3 the prefix and that
name joined, as the code joins them, without a separator (`StemOf`). `Begins` says which stem
is another one, an underscore, and something more, which is what retention asks `read_dir`
and S3 for; `Contains` says which stem has another one with an underscore anywhere in it,
which is what Drive's query finds. So a prefix that runs into a database's name shows.
Left out is that a database may be called `app_` and a date, whose pattern would find the
files that `app` wrote on that date.

Contents are the set of runs whose bytes are in a file, so a file that two runs wrote at
once shows; two runs may have one name and one second. `Truncate` and `WriteFile` are the
two halves of `fs::write`. `ListLocal` and `ListRemote` list what is older than the
cutoff, `RemoveFile` and `RemoveObject` delete one each, so other runs act between.
`Fail` is any `?`, or the end of the process. `Flaky` runs may fail to list or delete,
which the code ignores. Time stops at `MaxNow`.

Google Drive's folders and S3's buckets are places; an object on Drive has an id of its
own, an S3 key is overwritten. What these services do is external.

### Backup

`Scheduler` and `BackupFiles`, instantiated with the tasks and configurations they share.
The clock of `Scheduler` shows minutes and that of `BackupFiles` seconds, of which `Now`
makes one number; `Second` passes within a minute, `Minute` ends it. `Inner` is
`run_backup_inner` at work, without effect on the history; `Conclude` is the return from
it to `run_backup`, which writes the outcome, or fails to; `Control` is everything that
runs while no file is touched; `Crash` stops all runs and leaves what they wrote.
`BackupFiles` lets a run fail at any step, since it may be stopped at any; here `Err` says
where `?` can return an error at all, which is before the retention only.

One assumption, `Prompt`, is on both clock actions: between the return of a run's upload
(`uploaded`) and the cutoff it computes next, less time passes than its retention lasts.
The form takes retentions from 1 to 365 days (`src/backup.rs` lines 313 to 318), and one
statement follows the other, so a violation needs a process that stands still for a day.

### Explorer

One server with one table of the same name in each database, and the browser tabs that
work on it. A row is its primary key and a table has a set of columns; what the cells hold
is left out, and with it every conversion between a row and a form. `pc[r]` is where the
handler of tab `r` is, `job[r]` the form or query it was given and the columns it has read,
`form[r]` the row whose form the tab shows. Each statement is an action: `ReadColumns`
(`get_columns`), `ReadKey` (`get_pk`), `ShowForm`, `ReadExport`, `RowUpdate`, `RowInsert`,
`RowDelete`, `QueryRun`, `AdminRun`, `Grant`, `Flush`, `Audit`; `Reply` is the page at the
end. A statement needs the columns it names, of the table where it runs.

`Current` is the database an unqualified table name means: the page's on PostgreSQL, whose
sub-pool is bound to it, and `default[l]` on MariaDB, where session `l` has what the last
`USE` left. A PostgreSQL server refuses the `?` placeholders of `get_columns` and `get_pk`,
so both are for MariaDB only. `UseWorks` says whether the server takes `USE` as a prepared
statement; if it does not, row edits on MariaDB find no database at all.

`log`, `done` and `told` are history: every statement that wrote or exported, also one
that the SQL editor took for a read by its first word; those of which each part ran (a
user is created, granted to and flushed); those whose page reported success. `audit` has
the entries with a row in `audit_log`. A client that goes away, a crash, or a connection
that is deleted meanwhile may come between any two of these.

### Auth

`Resolve`, `Expire` and `Touch` are `session_resolver`; `req[r]` is the `SessionCtx` the
handler then works on. Every query of `login_submit`, `setup_submit` and `totp_submit` is
an action, and a bcrypt check lies between some of them. `attempts` is `ATTEMPTS`, lost at
`Restart`. UPDATE and DELETE of a session that is gone do nothing (`UpdateSession`).
Whether a password or code is right is left open.

## 4. Runs

| Run | Instance | Shows |
|---|---|---|
| `PoolsShared` | 1 connection, 2 databases, 2 requests, 4 pools, 2 row versions (MariaDB, then PostgreSQL), disconnects, restarts | `RegisteredPoolsOpen`, `RegisteredUnderOwnConn`, `ServesLikeRegistry`, `WaitsEnd` |
| `PoolsLive` | 2 requests, 3 pools, fairness | `EveryRequestFinishes`, `EvictedPoolsQuiet` |
| `PoolsStale` | 2 requests, 2 versions | `CachedPoolCurrent` fails |
| `SchedulerDays` | 1 configuration, 2 tasks, 3 minutes a day, 2 days a week, days 0 to 2, daily or weekly, crashes and failing statements, prompt ticks and tasks | `ScheduledDayHasRun`, `AtMostOncePerDay`, `HistoryRefersToConfig`, `HistoryIsLog` |
| `SchedulerMidnight` | 3 tasks, days 0 to 3, a schedule for the last minute, a task's first steps may be late | `EachDayItsOwnRun` fails |
| `FilesShared` | 2 runs, 3 configurations (`prod` in a bucket, `prod` in a Drive folder, `app` with prefix `prod_` in that bucket), retention of 1 second, 5 instants, one run's deletes fail | `KeptWithinRetention`, `OldBackupsGone`, `OnlyOutdatedDeleted` |
| `FilesPrefix` | databases `app` in a bucket and `app_old` on Drive without a folder, retentions 1 and 2 | `KeptWithinRetention` fails |
| `AuthShared` | 1 session, 2 usernames, 2 requests, limit 2, lock of 1 second, 3 instants | `AuthenticatedHasUser`, `GoneStaysGone`, `FailuresBounded`, `LockHolds`, `SetupCloses` |
| `AuthSetup` | the same | `SingleAdmin` fails |
| `ExplorerShared` | 1 database, 2 keys, 2 columns (one added later), 2 tabs, 1 session, 1 row to a page, 3 statements, failures, disconnects, restarts | `AuditTruthful` |
| `ExplorerUnbound` | 2 databases, 1 tab, 1 session | `DbRefBound` fails |
| `BackupEndToEnd` | 1 configuration, 2 tasks, a day of 2 minutes of 2 seconds, 3 instants, retention of 1 second, crashes, failing statements | `SuccessIsStored`, `NeverWithoutBackup` |

Why the bounds are enough. *Two requests*: each property of the registry relates one
publisher, one evictor or one user of a pool to another; the theorems take the number
away for the safety of the registry. *Four pools*: two that are registered (a main pool
and a sub-pool) and one per request that is on its way. *Two databases*: a sub-pool that
is dropped with its database and one that must stay. *Two row versions*: before and
after an update that also changes `db_type`.
*Three minutes a day*: a first, a middle and a last, which midnight follows. *Days 0 to
2*: day 1 is the first that a schedule stands for from start to end, and day 2 the first
on which it is over; a run on day 0 is the "earlier run" that must not count. *Two tasks*
in `SchedulerDays`: a run of day 0, by hand or by the ticker, and one of day 1, or one run
lost to a crash and its successor; three in `SchedulerMidnight`, where late runs of two
days precede a third. *Retention of one second*: with five
instants a copy can be younger, as old as, and older than it. *Three configurations*: two
of one database and the same name, at an S3 and a Drive place, and one whose stored name
the first one's pattern finds. *A limit of two failures*:
one below it, one on it, and one request beyond. *Two usernames*: two setups that
overlap and a login under another name. *Two tabs*: one at work while the other alters,
drops or runs a `USE`; *three statements*: a `USE`, an edit, and another tab's in between.
*One session*: a pool only adds sessions on which less has happened. *Three instants over
two minutes* in `BackupEndToEnd`: the second run may have the first one's names or later
ones, its retention meets the first one's copy when it is within, on and past its time, and
either run may crash or fail. Symmetry is used for requests, pools,
connections, databases, tasks, sessions and usernames where a configuration has it, all interchangeable, and never in a run with a liveness
property; `FilesShared` has none because one run is flaky.

Deadlock is checked except where the clock's bound ends every behaviour (`Scheduler`,
`BackupFiles`, `Backup`).

### Fairness

`PoolsLive` assumes strong fairness of a request's steps and, apart, of its decision to
end, and weak fairness of dropping a pool that nobody refers to. Strong, because a request
may find a lock taken again and again; tokio's `RwLock` queues its waiters in order and
the runtime polls every ready task, so one that can go on time and again does. Apart, because a handler runs finitely many statements. Statements
are assumed to end, as they do under the server's and sqlx's timeouts. Starting requests,
disconnecting and restarting are not fair. No other
run assumes fairness: `ScheduledDayHasRun` is a statement about days that are over, and
nothing in the code bounds how long a backup runs.

### What the violation runs say

* `PoolsStale`: a handler loads the row, an update writes it and evicts, the handler
  publishes a pool with the old credentials. It stays cached until the next update. The
  same run with one request, two versions and `Disconnects = TRUE` fails as well: a client
  that goes away after the UPDATE takes the eviction with it.
* `SchedulerMidnight`: `started_at` is read by the task. A run scheduled for 23:59 may
  be recorded for the next day, whose own tick takes it for that day's and skips: one
  row, two days of a daily schedule, with no task outstanding, crash or failure.
* `FilesPrefix`: the retention of `app` deletes `app_old_*`.
* `AuthSetup`: two setup forms both count no users before either inserts, and both
  usernames become administrators.
* `ExplorerUnbound`: on MariaDB a row edit about `d1` runs after the SQL editor sent `USE d2`
  on the same session, and writes to `d2`.

Further divergences, seen with other values or while modelling and not kept as runs.

* `AtMostOncePerDay` fails with `PromptTicks = FALSE` and `MaxDue = 2` on the instance of
  `SchedulerDays`: two ticks in one minute (a late one, and its successor in the
  interval's burst), both before the first one's task has inserted its row. The comment at
  `src/backup.rs` line 968 says "Jangan jalankan dua kali di hari yang sama".
* Two configurations of one database with the same time, 02:00 by default, are spawned by
  one tick and may dump into the same file in the same second (`src/backup.rs` line 603).
  One then uploads the other's dump, a truncated one or a mixture, and is called
  successful. `SuccessIsStored` and `NeverWithoutBackup` claim whole dumps only where no
  other run got the names.
* `OldBackupsGone` fails with a place in `Unfiled`: without a `folder_id` nothing on
  Drive is ever deleted. A database whose uploads all fail piles up files on disk, since
  the retention comes after the upload.
* With two requests a page may open a sub-pool again between `close_pg_db` and DROP
  DATABASE, which then fails.
* `PRD.md` line 552 has the lock "per IP"; the code counts per username.
* A failed run counts as the run of its day, where `PRD.md` line 17 has "Backup terjadwal
  harian + manual, retry gagal"; nothing retries it.
* `PRD.md` lines 557, 627 and 649 want all writes in `audit_log`. What the SQL editor takes
  for reading, by the first word, may write (EXPLAIN ANALYZE, a function with effects):
  it needs no write mode and is not audited. A write is not on record either when the
  client leaves or the process stops before the INSERT, when the connection is deleted
  meanwhile (the foreign key refuses the row), or when a GRANT fails after CREATE USER: the
  user stays. `AuditTruthful` is what holds: no page then reports a success.
* The comment on top of `src/metadata.rs` says that values are escaped rather than bound,
  so that one builder works for both dialects; its PostgreSQL queries bind with `?`, which
  that server does not parse, so tables of PostgreSQL cannot be opened.
* On MariaDB the grid, the export and row edits name a table without its database, and
  the pool's sessions have none: they fail until a `USE` was run on the session they get,
  and after one they may be in the wrong database (`DbRefBound`).
* The Edit button drops the page and the filter from the address, so a row that is not on
  the first page has no form; and the address that a row edit returns to gets a second
  `?`, so its message is lost.
* A row form sends back every cell as the text it was shown as, so one that is saved as it
  is changes cells nobody touched: a binary becomes "(n byte)", a value that no text could be
  got of "(?)" (`src/explorer.rs` lines 802-815), an empty text that may be NULL becomes
  NULL, a FLOAT loses digits in its CAST to text, and an input of one line drops line breaks
  (`templates/table.html` line 141). It also undoes what others changed meanwhile.

## 5. Proofs

All theorems are of the specification as it stands, for every value of the constants that
the modules' named assumptions allow.

**PoolsProofs.** `TypeCorrect`, `NeverServesClosed` (`RegisteredPoolsOpen`) and
`ServesOwnConnection` (`RegisteredUnderOwnConn`). `Base` has the types, that a working
request has a job on a version its connection had, and where its handle is set. `Slots`
has the two properties, that no pool is registered twice, and `NewPoolsPrivate`: until it
is published, a new pool is open, unregistered and held by its creator alone. The last is
what the properties lack to be inductive. Publishing is the step that could put a closed
pool, or one pool twice, into a map. `EvictionWaits` (`EvictedPoolsQuiet`): a closed pool
with a statement on it has a handler that drains it; only `Cancel` could part the two.
`NoDeadlock` (`WaitsEnd`) rests on `LocksSound`: a registry lock belongs to a handler if and
only if that handler is at a `close()` it awaits under it. A holder is then past its own
lock, waits for statements alone, and no handler holds both. This is the safety behind
`EveryRequestFinishes`, for any number of handlers and pools; that statements end, and that
a ready handler goes on, is the fairness TLC assumes.

**RegistryProofs.** `PoolsImplementRegistry` (`ServesLikeRegistry`). Under the invariants
above no slot maps to the value `Registry` lacks. Each action of `Pools` then is one of
`Registry` or leaves all slots as they serve: publishing is `Publish` or `PublishSub`,
closing and dropping touch only pools that no slot holds any more.

**SchedulerProofs.** `TypeCorrect`, `HistoryKeepsReference` (`HistoryRefersToConfig`)
and `OncePerDay` (`AtMostOncePerDay`, under `PromptMode`: both Prompt constants TRUE).
`Base` ties history rows to tasks and to live configurations: a row keeps its
configuration unless that is deleted. `Once` adds `Prompt` (tick and task are of the
present day, no second tick is due while one runs) and `PendingSound`, the heart of it:
a run the ticker has dispatched and that is not on record excludes another, is not in the
tick's list any more, no other tick is due, and nothing of the ticker is on record for
today. It is needed because the check reads the history, where such a run does not
show. Crashes and faults are included: they only end pending runs. `HistoryImplementsLog`
(`HistoryIsLog`, same assumption) maps each step to `Enter`, `Settle` or a stutter;
`PendingSound` is what allows `Enter`, and that a row stands only with its task is what
allows `Settle` once.

`ScheduledDaysServed` (`ScheduledDayHasRun`) is under `PromptMode`, with crashes and
faults; the property leaves out the days for which `mishap` says that since they began the
process was down or a query failed, either of which can lose the day. Its invariant
`Timely` says of each schedule that names today, stood when the day began and met no mishap
of today: past its minute, today has a run; in its minute, the tick is due, or has still to
read, or has the configuration on its list, or its task is coming, or the run is there.
`Coming` is a task on its way to the INSERT, of today. The clock cannot leave the minute
while any of these stands, so at midnight every schedule of the day is past its minute, and
the day has its run. `MishapKnown` (a process that is down is a mishap of today) lets the
next day start clean only if the process is up. `Served` adds the property itself, for the days
before: a row keeps its configuration as long as that is there (`RowStays`). The calendar is any:
minutes in a day, days in a week, times and sets of days.

**FilesProofs.** `TypeCorrect`, and theorems on what a retention may delete. It
deletes what it judged when it listed, so the invariant `Judged` says that what is listed
stays outdated (`DoomedSound`). This rests on `Stamped`, no file being older than the second in
its name, whoever wrote it last, and `CutSound`. `DeletesOnlyOutdated` (`OnlyOutdatedDeleted`)
follows for every step and any stems, `Begins` and `Contains`: what a retention deletes its
pattern selects, in its bucket or folder, and it is older than that retention's days at the
deletion, not only at the listing. Whose copies a pattern selects, the theorem does not say,
since the code lets it be another's. `BackupsAreKept` (`KeptWithinRetention`) is about the days
of the run that made the copy, so it needs `RetentionsAgree`: a retention whose pattern finds
a copy keeps at least as long as that copy's own, which two retentions that find each other's
must agree on. This is necessary: `FilesPrefix` refutes the theorem where
`app` keeps shorter than `app_old`, and two retentions of one database refute it likewise.
Both hold for flaky runs and for dumps of one name in the same second.
`RetentionComplete` (`OldBackupsGone`, under `Filed`: every place has a folder) has what is
still old be on the run's list, from the listing to the end of the deletes; a copy stored
meanwhile is younger than the cutoff.

**BackupProofs.** That a step of the composition is one of `BackupFiles` and one of
`Scheduler`, or leaves the part alone, holds by its construction and is used as a lemma
(`FilesFollow`, `StepScheduler`).
`SuccessStored` (`SuccessIsStored`, under `RetentionsAgree`) takes `BackupsAreKept` and
adds `Linked`, which relates a row's status to where its run is: a row says success only
when its run has come to its end. Its second half follows a run's bytes from the file, which is
empty between the two halves of the write, through what was read to what is stored, for a run
that is alone with its names (`Own`). `BackupSurvives` (`NeverWithoutBackup`, under
`PlacesApart`: at one place no pattern finds another stem than its own) needs an argument
of its own, since retentions do delete old copies, and is about behaviours without two runs of the
same names. Its invariant finds, for each run past its upload, a copy of that database at that
place which is not older than the run's cutoff, so that its retention leaves it (before the
cutoff is computed, than its upload; `Punctual` carries `Prompt` along). The parts are that a
stored object is some run's and is there once (`Owned`, `Unique`), that only expired objects are
on a run's list (`Uncut`, `Sweeping`), and that such a copy survives (`Survives`): when a
retention with a later cutoff deletes it, the copy that retention leaves takes its part.
`DailyBackups` puts both ends together: under `PromptMode` and `PlacesApart`, each day a
schedule names has its run, the days of a mishap apart, and where one succeeded there is a
whole backup.

**ExplorerProofs.** `TypeCorrect`, and `AuditTells` (`AuditTruthful`). Its invariant `Trail`
adds to the property what each handler may rely on (`Known`): from its statement on, its entry
is on the log; at the INSERT, every part of it ran; at the page, it is on record or is what
the editor took for a read. That entries stay as they are, whatever is appended, carries the
knowledge of one handler through the steps of the others.

**AuthProofs.** `TypeCorrect`, `SessionsHaveUsers` (`AuthenticatedHasUser`) and
`DeletedForGood` (`GoneStaysGone`). `UsersKnown` says that the copy of `user_id` a request
works on was set only if the row's is, that the row's is never cleared, and that a user
stays. `LockKept` (`LockHolds`) goes through the steps that write a counter.
`FailuresLimited` (`FailuresBounded`) counts a request that has passed the check together
with the failures: a step that adds a failure takes one such request away, and the check
lets a request through only below the limit. `SetupEnds` (`SetupCloses`): with a user there, a setup's count lets nobody
through, and a setup that is not through adds no user.

Model-checked only: liveness (`EveryRequestFinishes`), which needs
ENABLED, out of the prover's reach. Every other property of the passing runs is a theorem.
`CachedPoolCurrent`, `SingleAdmin` and `DbRefBound` do not hold, nor `EachDayItsOwnRun` with
late tasks or `KeptWithinRetention` where retentions disagree.
No model needs a recursive definition; what recursion over data computes could not be
proved with the provers at hand.

## 6. Not modelled

* In the explorer: what the columns of a row hold and the conversions between it and a
  form (`cast_expr`, `grid_cell`, `build_values`; section 4 lists what they change), filters
  and sorting, pages after the first, tables whose primary key is
  not one column (row edits refuse them), and the pages that only show what a query of an
  information schema returns (relations, DDL, indexes, the ERD). They read, and change no
  state. The product `page * PAGE_SIZE` at `src/explorer.rs` line 898 can overflow; it is
  one expression, and a test of it says more than a model. The text of CSV and JSON and the
  quoting of names and values.
* Which of its fields an UPDATE of `connections` carries over (`src/connections.rs` line
  326): a row is one version in `Pools`.
* Encryption and TOTP: stateless wrappers of libraries, taken at their word. Templates:
  data for HTML.
* The wording, layout and validation messages of forms; environment variables; the text of
  migrations beyond the constraints the models rest on.
* The protocols of S3 and Drive, and page limits of their listings: a listing is complete
  in the model, in the code it is the first page.
* Changes of the time zone or the clock being set back.
