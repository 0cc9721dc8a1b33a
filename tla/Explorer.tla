------------------------------ MODULE Explorer ------------------------------
(***************************************************************************)
(* The explorer of dbmanage (src/explorer.rs) with the statements it sends *)
(* to one registered server (src/metadata.rs): the data grid and its row   *)
(* forms, export, the SQL editor, databases and users, and the audit row   *)
(* that follows each.  How a handler gets its pool is module Pools.        *)
(*                                                                         *)
(* The server has one table of the same name in each database.  A row is   *)
(* its primary key; what its other columns hold is left out.               *)
(***************************************************************************)
EXTENDS Naturals, Sequences, FiniteSets

CONSTANTS
    Db,           \* databases on the server
    Key,          \* primary keys
    Col,          \* the columns the table may have
    OldCol,       \* those it has at first
    Tables,       \* the rows a table may have at first
    Link,         \* sessions of the MariaDB pool
    Req,          \* browser tabs; each waits for its handler
    None,
    PageSize,
    Queries,      \* statements the SQL editor is given
    UseWorks,     \* TRUE: the server takes USE as a prepared statement
    Interrupts,   \* TRUE: clients go away, the process restarts
    MaxLog        \* bound: statements that ran

(* What the SQL editor may be given: a statement that deletes a row, one   *)
(* that adds a column, or USE; `on' is the database it names, if any; it   *)
(* `reads' if its first word is SELECT, SHOW, DESCRIBE, DESC or EXPLAIN,   *)
(* which EXPLAIN ANALYZE DELETE and a SELECT of a function that writes do. *)
Sql == [does: {"delete", "alter", "use"}, on: Db \cup {None}, key: Key, col: Col,
        reads: BOOLEAN]

ASSUME TableAssumption ==
    /\ OldCol \subseteq Col
    /\ OldCol # {}
    /\ Key \subseteq Nat
    /\ Tables \subseteq SUBSET Key
    /\ PageSize \in Nat
    /\ Queries \subseteq Sql
    /\ \A q \in Queries : q.does = "use" => q.on # None /\ ~q.reads
ASSUME ModeAssumption == {UseWorks, Interrupts} \subseteq BOOLEAN

VARIABLES
    kind,      \* db_type of the connection
    live,      \* its row is in table connections
    cols,      \* the columns of each database's table
    table,     \* the rows of each database's table
    default,   \* the default database of each MariaDB session
    pc,        \* where the handler of each tab is
    job,       \* its form or query, and what it has read so far
    form,      \* the row form a tab shows
    log,       \* history: what wrote or was exported on the server
    audit,     \* the entries of log that have their row in audit_log
    told,      \* history: those whose page reported success
    done       \* history: those of which every statement ran

vars == <<kind, live, cols, table, default, pc, job, form, log, audit, told, done>>

connection == <<kind, live>>
server == <<cols, table, default>>
trail == <<log, audit, told, done>>

RowOp == {"insert", "update", "delete"}
Op == RowOp \cup {"edit", "export", "sql", "admin", "drop", "user"}
Step == {"idle", "columns", "key", "rows", "execute", "grant", "granted", "audit", "reply"}

Job == [op: Op, db: Db, key: Key \cup {None}, newkey: Key \cup {None},
        sql: Sql \cup {None}, cols: SUBSET Col, n: Nat]
Form == [db: Db, key: Key]
Entry == [op: Op \cup {"use"}, db: Db, at: Db \cup {None}, reads: BOOLEAN]

ASSUME NoneAssumption ==
    /\ None \notin Db /\ None \notin Key
    /\ None \notin Sql /\ None \notin Job /\ None \notin Form

Init ==
    /\ kind \in {"mariadb", "postgresql"}
    /\ live = TRUE
    /\ cols = [d \in Db |-> OldCol]
    /\ table \in [Db -> Tables]
    /\ default = [l \in Link |-> None]
    /\ pc = [r \in Req |-> "idle"]
    /\ job = [r \in Req |-> None]
    /\ form = [r \in Req |-> None]
    /\ log = <<>>
    /\ audit = {}
    /\ told = {}
    /\ done = {}

(***************************************************************************)
(* Control of a handler.                                                   *)
(***************************************************************************)

(* load_conn found the row; the tab leaves the page it showed. *)
Begin(r, s) ==
    /\ pc[r] = "idle"
    /\ live
    /\ Len(log) + Cardinality({q \in Req : pc[q] # "idle"}) < MaxLog
    /\ pc' = [pc EXCEPT ![r] = s]
    /\ form' = [form EXCEPT ![r] = None]
    /\ UNCHANGED <<connection, server, trail>>

Ask(r, j) == job' = [job EXCEPT ![r] = j]

Goto(r, s) == pc' = [pc EXCEPT ![r] = s]

End(r) ==
    /\ Goto(r, "idle")
    /\ job' = [job EXCEPT ![r] = None]

(* The statement ran, on database `at'; s is what the handler does next,    *)
(* which is to show the result at once of what it took for a read.          *)
Ran(r, op, at, s) ==
    /\ log' = Append(log, [op |-> op, db |-> job[r].db, at |-> at, reads |-> s = "reply"])
    /\ job' = [job EXCEPT ![r].n = Len(log) + 1]
    /\ done' = IF s \in {"audit", "reply"} THEN done \cup {Len(log) + 1} ELSE done
    /\ Goto(r, s)
    /\ UNCHANGED <<connection, form, audit, told>>

(***************************************************************************)
(* Requests.                                                               *)
(***************************************************************************)

NewJob(op, d, k, into, q) ==
    [op |-> op, db |-> d, key |-> k, newkey |-> into, sql |-> q, cols |-> {}, n |-> 0]

Plain(op, d, k) == NewJob(op, d, k, k, None)

(* table_detail with tab=data&edit=k, what a row's Edit button links to *)
EditForm(r, d, k) == Begin(r, "columns") /\ Ask(r, Plain("edit", d, k))

ExportTable(r, d) == Begin(r, "columns") /\ Ask(r, Plain("export", d, None))

(* row_update of the form the tab shows, whose user may change the key *)
SubmitUpdate(r, k) ==
    /\ form[r] # None
    /\ Begin(r, "columns")
    /\ Ask(r, NewJob("update", form[r].db, form[r].key, k, None))

(* row_insert of the form behind "+ Tambah Baris" *)
SubmitInsert(r, d, k) == Begin(r, "columns") /\ Ask(r, Plain("insert", d, k))

(* row_delete, from any page that showed the row once; it asks for no columns *)
SubmitDelete(r, d, k) == Begin(r, "key") /\ Ask(r, Plain("delete", d, k))

(* query_run, in write mode unless the statement reads *)
SubmitSql(r, d, q) ==
    Begin(r, "execute") /\ Ask(r, NewJob("sql", d, None, None, q))

(* create_database and drop_user; drop_database; create_user *)
Administer(r, op, d) == Begin(r, "execute") /\ Ask(r, Plain(op, d, None))

(***************************************************************************)
(* Statements.                                                             *)
(***************************************************************************)

(* The table of the page as information_schema has it.  For PostgreSQL both *)
(* queries have `?' placeholders, which that server does not parse; a table *)
(* that is gone has neither columns nor key, and the handler gives up.      *)
Described(r) == kind = "mariadb" /\ cols[job[r].db] # {}

(* get_columns: an insert and an export need no more, an edit and an update *)
(* ask for the key next.                                                    *)
ReadColumns(r) ==
    /\ pc[r] = "columns"
    /\ Described(r)
    /\ job' = [job EXCEPT ![r].cols = cols[job[r].db]]
    /\ Goto(r, CASE job[r].op = "insert" -> "execute"
                 [] job[r].op = "export" -> "rows"
                 [] OTHER -> "key")
    /\ UNCHANGED <<connection, server, form, trail>>

(* get_pk *)
ReadKey(r) ==
    /\ pc[r] = "key"
    /\ Described(r)
    /\ Goto(r, IF job[r].op = "edit" THEN "rows" ELSE "execute")
    /\ UNCHANGED <<connection, server, job, form, trail>>

(* The database in which an unqualified name is looked up: a PostgreSQL     *)
(* sub-pool is bound to its database; a MariaDB session has the default its *)
(* last USE left, since create_pool names none.                             *)
Current(r, l) == IF kind = "postgresql" THEN job[r].db ELSE default[l]

(* The statement finds its table and the columns it names there.  A         *)
(* database that was dropped has no table.                                  *)
OnTable(r, l, s) ==
    /\ pc[r] = s
    /\ Current(r, l) # None
    /\ cols[Current(r, l)] # {}
    /\ job[r].cols \subseteq cols[Current(r, l)]

(* Without ORDER BY the server answers in the order of the key. *)
FirstPage(rows) == {k \in rows : Cardinality({i \in rows : i < k}) < PageSize}

(* build_grid, on the first page; the form appears if its row is on it. *)
ShowForm(r, l) ==
    /\ OnTable(r, l, "rows")
    /\ job[r].op = "edit"
    /\ form' = [form EXCEPT ![r] =
         IF job[r].key \in FirstPage(table[Current(r, l)])
         THEN [db |-> job[r].db, key |-> job[r].key] ELSE None]
    /\ End(r)
    /\ UNCHANGED <<connection, server, trail>>

ReadExport(r, l) ==
    /\ OnTable(r, l, "rows")
    /\ job[r].op = "export"
    /\ Ran(r, "export", Current(r, l), "audit")
    /\ UNCHANGED server

(* UPDATE ... SET every column of the table: no row with the key is no     *)
(* error, another row with the new key is.                                 *)
RowUpdate(r, l) ==
    /\ OnTable(r, l, "execute")
    /\ job[r].op = "update"
    /\ LET d == Current(r, l)
           k == job[r].key
           into == job[r].newkey
       IN /\ k \in table[d] /\ into # k => into \notin table[d]
          /\ table' = [table EXCEPT ![d] = IF k \in @ THEN (@ \ {k}) \cup {into} ELSE @]
    /\ Ran(r, "update", Current(r, l), "audit")
    /\ UNCHANGED <<cols, default>>

RowInsert(r, l) ==
    /\ OnTable(r, l, "execute")
    /\ job[r].op = "insert"
    /\ job[r].key \notin table[Current(r, l)]
    /\ table' = [table EXCEPT ![Current(r, l)] = @ \cup {job[r].key}]
    /\ Ran(r, "insert", Current(r, l), "audit")
    /\ UNCHANGED <<cols, default>>

RowDelete(r, l) ==
    /\ OnTable(r, l, "execute")
    /\ job[r].op = "delete"
    /\ table' = [table EXCEPT ![Current(r, l)] = @ \ {job[r].key}]
    /\ Ran(r, "delete", Current(r, l), "audit")
    /\ UNCHANGED <<cols, default>>

RunsOn(r, l) ==
    IF job[r].sql.on # None /\ kind = "mariadb" THEN job[r].sql.on ELSE Current(r, l)

(* What a statement of the SQL editor does. *)
DeleteRow(d, q) ==
    /\ q.does = "delete"
    /\ table' = [table EXCEPT ![d] = @ \ {q.key}]
    /\ UNCHANGED <<cols, default>>
AddColumn(d, q) ==
    /\ q.does = "alter"
    /\ cols' = [cols EXCEPT ![d] = @ \cup {q.col}]
    /\ UNCHANGED <<table, default>>
Use(l, q) ==
    /\ q.does = "use"
    /\ UseWorks
    /\ kind = "mariadb"
    /\ default' = [default EXCEPT ![l] = q.on]
    /\ UNCHANGED <<cols, table>>

(* query_run: what is read by its first word is shown and not audited. *)
QueryRun(r, l) ==
    /\ pc[r] = "execute"
    /\ job[r].op = "sql"
    /\ LET q == job[r].sql
           d == RunsOn(r, l)
       IN
         /\ d # None
         /\ cols[d] # {}
         /\ DeleteRow(d, q) \/ AddColumn(d, q) \/ Use(l, q)
         /\ Ran(r, IF q.does = "use" THEN "use" ELSE "sql", d,
                IF q.reads THEN "reply" ELSE "audit")

(* create_database and drop_user are one statement, and so is               *)
(* drop_database, which takes the tables along; create_user is CREATE USER, *)
(* a GRANT if a database was chosen, and FLUSH PRIVILEGES on MariaDB.       *)
AdminRun(r) ==
    /\ pc[r] = "execute"
    /\ \/ /\ job[r].op = "admin"
          /\ Ran(r, "admin", None, "audit")
          /\ UNCHANGED server
       \/ /\ job[r].op = "drop"
          /\ Ran(r, "drop", None, "audit")
          /\ cols' = [cols EXCEPT ![job[r].db] = {}]
          /\ table' = [table EXCEPT ![job[r].db] = {}]
          /\ UNCHANGED default
       \/ /\ job[r].op = "user"
          /\ \E s \in {"grant", "granted"} : Ran(r, "user", None, s)
          /\ UNCHANGED server

Grant(r) ==
    /\ pc[r] = "grant"
    /\ Goto(r, "granted")
    /\ UNCHANGED <<connection, server, job, form, trail>>

Flush(r) ==
    /\ pc[r] = "granted"
    /\ Goto(r, "audit")
    /\ done' = done \cup {job[r].n}
    /\ UNCHANGED <<connection, server, job, form, log, audit, told>>

(***************************************************************************)
(* audit, and the page that reports success.                               *)
(***************************************************************************)

(* Fault: the result of the INSERT is ignored. *)
AuditIgnored(r) ==
    /\ pc[r] = "audit"
    /\ audit' = IF live THEN audit \cup {job[r].n} ELSE audit
    /\ Goto(r, "reply")
    /\ UNCHANGED <<connection, server, job, form, log, told, done>>

(* The INSERT names the connection: its foreign key refuses one that is     *)
(* gone, and the handler ends in an error.                                  *)
Audit(r) ==
    /\ pc[r] = "audit"
    /\ \/ /\ live
          /\ audit' = audit \cup {job[r].n}
          /\ Goto(r, "reply")
          /\ UNCHANGED job
       \/ /\ ~live
          /\ End(r)
          /\ UNCHANGED audit
    /\ UNCHANGED <<connection, server, form, log, told, done>>

Reply(r) ==
    /\ pc[r] = "reply"
    /\ told' = told \cup {job[r].n}
    /\ End(r)
    /\ UNCHANGED <<connection, server, form, log, audit, done>>

(***************************************************************************)
(* Failures and the surroundings.                                          *)
(***************************************************************************)

(* A statement fails, there is none to send, or no pool: the handler says   *)
(* so.  Of a user what ran before the failing statement stays.              *)
Fail(r) ==
    /\ pc[r] \in {"columns", "key", "rows", "execute", "grant"}
          \cup (IF kind = "mariadb" THEN {"granted"} ELSE {})
    /\ End(r)
    /\ UNCHANGED <<connection, server, form, trail>>

(* The client goes away, or audit_log cannot be written. *)
Cancel(r) ==
    /\ Interrupts
    /\ pc[r] # "idle"
    /\ End(r)
    /\ UNCHANGED <<connection, server, form, trail>>

(* connections::delete *)
DeleteConnection ==
    /\ live
    /\ live' = FALSE
    /\ UNCHANGED <<kind, server, pc, job, form, trail>>

(* sqlx closes a session that is idle or old and opens another. *)
Recycle(l) ==
    /\ default' = [default EXCEPT ![l] = None]
    /\ UNCHANGED <<connection, cols, table, pc, job, form, trail>>

Restart ==
    /\ Interrupts
    /\ default' = [l \in Link |-> None]
    /\ pc' = [r \in Req |-> "idle"]
    /\ job' = [r \in Req |-> None]
    /\ UNCHANGED <<connection, cols, table, form, trail>>

(***************************************************************************)
(* The specification.                                                      *)
(***************************************************************************)

Submit(r) ==
    \/ \E d \in Db :
          \/ \E k \in Key : EditForm(r, d, k) \/ SubmitInsert(r, d, k) \/ SubmitDelete(r, d, k)
          \/ ExportTable(r, d)
          \/ \E q \in Queries : SubmitSql(r, d, q)
          \/ \E op \in {"admin", "drop", "user"} : Administer(r, op, d)
    \/ \E k \in Key : SubmitUpdate(r, k)

Statements(r, l) ==
    \/ ShowForm(r, l)
    \/ ReadExport(r, l)
    \/ RowUpdate(r, l)
    \/ RowInsert(r, l)
    \/ RowDelete(r, l)
    \/ QueryRun(r, l)

Advance(r) ==
    \/ ReadColumns(r)
    \/ ReadKey(r)
    \/ \E l \in Link : Statements(r, l)
    \/ AdminRun(r)
    \/ Grant(r)
    \/ Flush(r)
    \/ Audit(r)
    \/ Reply(r)
    \/ Fail(r)
    \/ Cancel(r)

Next ==
    \/ \E r \in Req : Submit(r) \/ Advance(r)
    \/ \E l \in Link : Recycle(l)
    \/ DeleteConnection
    \/ Restart

Spec == Init /\ [][Next]_vars

(***************************************************************************)
(* Properties.                                                             *)
(***************************************************************************)

TypeOK ==
    /\ kind \in {"mariadb", "postgresql"}
    /\ live \in BOOLEAN
    /\ cols \in [Db -> SUBSET Col]
    /\ table \in [Db -> SUBSET Key]
    /\ default \in [Link -> Db \cup {None}]
    /\ pc \in [Req -> Step]
    /\ job \in [Req -> Job \cup {None}]
    /\ form \in [Req -> Form \cup {None}]
    /\ log \in Seq(Entry)
    /\ audit \subseteq Nat
    /\ told \subseteq Nat
    /\ done \subseteq Nat

(* audit_log and the pages agree on what happened: it names nothing that    *)
(* was not done to the end, and no page reports a success that it does not  *)
(* name, though the connection may go between the statement and its row.    *)
(* What the editor takes for a read is outside of it, even if it writes.    *)
AuditTruthful ==
    /\ audit \subseteq done
    /\ \A i \in told : log[i].reads \/ i \in audit

(* "DbRef terikat ke satu database tertentu": what a page does to a table   *)
(* is done in the database the page is about, whatever session it gets.     *)
DbRefBound ==
    \A i \in DOMAIN log :
        log[i].op \in RowOp \cup {"export"} => log[i].at = log[i].db
=============================================================================
