--------------------------- MODULE ExplorerProofs ---------------------------
(***************************************************************************)
(* Proofs about the explorer: its types, and that audit_log and the pages  *)
(* agree, for every server, pool and number of tabs.                       *)
(***************************************************************************)
EXTENDS Explorer, TLAPS

(***************************************************************************)
(* Types.                                                                  *)
(***************************************************************************)

LEMMA NewJobType ==
    ASSUME NEW op \in Op, NEW d \in Db, NEW k \in Key \cup {None},
           NEW into \in Key \cup {None}, NEW q \in Sql \cup {None}
    PROVE  NewJob(op, d, k, into, q) \in Job
  BY DEF NewJob, Job

LEMMA PlainType ==
    ASSUME NEW op \in Op, NEW d \in Db, NEW k \in Key \cup {None}
    PROVE  Plain(op, d, k) \in Job
  BY NewJobType DEF Plain

LEMMA BeginType ==
    ASSUME TypeOK, NEW r \in Req, NEW s \in Step, NEW j \in Job,
           Begin(r, s), Ask(r, j)
    PROVE  TypeOK'
  <1>1. pc' \in [Req -> Step] /\ form' \in [Req -> Form \cup {None}]
    BY DEF TypeOK, Begin
  <1>2. job' \in [Req -> Job \cup {None}]
    BY DEF TypeOK, Ask
  <1> QED
    BY <1>1, <1>2 DEF TypeOK, Begin, connection, server, trail

LEMMA EndType ==
    ASSUME TypeOK, NEW r \in Req, End(r)
    PROVE  pc' \in [Req -> Step] /\ job' \in [Req -> Job \cup {None}]
  BY DEF TypeOK, End, Goto, Step

LEMMA RanType ==
    ASSUME TypeOK, NEW r \in Req, job[r] # None, NEW op \in Op \cup {"use"},
           NEW at \in Db \cup {None}, NEW s \in Step, Ran(r, op, at, s)
    PROVE  /\ pc' \in [Req -> Step]
           /\ job' \in [Req -> Job \cup {None}]
           /\ log' \in Seq(Entry)
           /\ done' \subseteq Nat
           /\ UNCHANGED <<kind, live, form, audit, told>>
  <1>1. job[r] \in Job
    BY DEF TypeOK
  <1>2. [op |-> op, db |-> job[r].db, at |-> at, reads |-> s = "reply"] \in Entry
    BY <1>1 DEF Job, Entry
  <1>3. log' \in Seq(Entry)
    BY <1>2 DEF TypeOK, Ran
  <1>4. Len(log) + 1 \in Nat
    BY DEF TypeOK
  <1>5. [job[r] EXCEPT !.n = Len(log) + 1] \in Job
    BY <1>1, <1>4 DEF Job
  <1>6. job' \in [Req -> Job \cup {None}]
    BY <1>5 DEF TypeOK, Ran
  <1>7. done' \subseteq Nat
    BY <1>4 DEF TypeOK, Ran
  <1> QED
    BY <1>3, <1>6, <1>7 DEF TypeOK, Ran, Goto, connection

(* Only an idle tab has no job; a row statement names its row, and the SQL  *)
(* editor sends one of the queries.                                         *)
JobFits ==
    \A r \in Req :
        /\ pc[r] = "idle" <=> job[r] = None
        /\ job[r] # None =>
             /\ job[r].op \in RowOp \cup {"edit"} =>
                  job[r].key \in Key /\ job[r].newkey \in Key
             /\ job[r].op = "sql" => job[r].sql \in Queries

IInv == TypeOK /\ JobFits

LEMMA CurrentType ==
    ASSUME TypeOK, NEW r \in Req, NEW l \in Link, job[r] # None
    PROVE  Current(r, l) \in Db \cup {None}
  <1>1. job[r] \in Job
    BY DEF TypeOK
  <1> QED
    BY <1>1 DEF TypeOK, Current, Job

LEMMA OnTableType ==
    ASSUME IInv, NEW r \in Req, NEW l \in Link, NEW s \in Step \ {"idle"}, OnTable(r, l, s)
    PROVE  job[r] \in Job /\ Current(r, l) \in Db
  <1>1. job[r] # None
    BY DEF IInv, JobFits, OnTable
  <1>2. job[r] \in Job
    BY <1>1 DEF IInv, TypeOK
  <1> QED
    BY <1>1, <1>2, CurrentType DEF IInv, OnTable

(***************************************************************************)
(* The invariant of types and jobs, step by step.                          *)
(***************************************************************************)

(* The server keeps its types. *)
Served == /\ cols \in [Db -> SUBSET Col]
          /\ table \in [Db -> SUBSET Key]
          /\ default \in [Link -> Db \cup {None}]

LEMMA ServedUnchanged ==
    ASSUME IInv, UNCHANGED server
    PROVE  Served'
  BY DEF IInv, TypeOK, Served, server

LEMMA BeginInv ==
    ASSUME IInv, NEW r \in Req, NEW s \in Step \ {"idle"}, NEW j \in Job,
           Begin(r, s), Ask(r, j),
           j.op \in RowOp \cup {"edit"} => j.key \in Key /\ j.newkey \in Key,
           j.op = "sql" => j.sql \in Queries
    PROVE  IInv'
  <1>1. TypeOK'
    BY BeginType DEF IInv
  <1>2. /\ pc' = [pc EXCEPT ![r] = s]
        /\ job' = [job EXCEPT ![r] = j]
    BY DEF Begin, Ask
  <1>3. JobFits'
    BY <1>2, NoneAssumption DEF IInv, TypeOK, JobFits
  <1> QED
    BY <1>1, <1>3 DEF IInv

LEMMA EndInv ==
    ASSUME IInv, NEW r \in Req, End(r), UNCHANGED <<connection, server>>,
           form' \in [Req -> Form \cup {None}], log' \in Seq(Entry),
           audit' \subseteq Nat, told' \subseteq Nat, done' \subseteq Nat
    PROVE  IInv'
  <1>1. pc' \in [Req -> Step] /\ job' \in [Req -> Job \cup {None}]
    BY EndType DEF IInv
  <1>2. /\ pc' = [pc EXCEPT ![r] = "idle"]
        /\ job' = [job EXCEPT ![r] = None]
    BY DEF End, Goto
  <1>3. JobFits'
    BY <1>2 DEF IInv, TypeOK, JobFits
  <1> QED
    BY <1>1, <1>3, ServedUnchanged DEF IInv, TypeOK, Served, connection

LEMMA RanInv ==
    ASSUME IInv, NEW r \in Req, job[r] # None, NEW op \in Op \cup {"use"},
           NEW at \in Db \cup {None}, NEW s \in Step \ {"idle"},
           Ran(r, op, at, s), Served'
    PROVE  IInv'
  <1>1. /\ pc' \in [Req -> Step]
        /\ job' \in [Req -> Job \cup {None}]
        /\ log' \in Seq(Entry)
        /\ done' \subseteq Nat
        /\ UNCHANGED <<kind, live, form, audit, told>>
    BY RanType DEF IInv
  <1>2. TypeOK'
    BY <1>1 DEF IInv, TypeOK, Served
  <1>3. job[r] \in Job
    BY DEF IInv, TypeOK
  <1> DEFINE n == Len(log) + 1
             j == [job[r] EXCEPT !.n = n]
  <1>4. /\ pc' = [pc EXCEPT ![r] = s]
        /\ job' = [job EXCEPT ![r] = j]
    BY DEF Ran, Goto, IInv, TypeOK
  <1>5. n \in Nat
    BY DEF IInv, TypeOK
  <1> HIDE DEF n
  <1>6. /\ j \in Job
        /\ j.op = job[r].op /\ j.key = job[r].key
        /\ j.newkey = job[r].newkey /\ j.sql = job[r].sql
    BY <1>3, <1>5 DEF Job
  <1> HIDE DEF j
  <1>7. JobFits'
    BY <1>1, <1>4, <1>6, NoneAssumption DEF IInv, TypeOK, JobFits
  <1> QED
    BY <1>2, <1>7 DEF IInv

(* The tab goes on to s with the job it has. *)
LEMMA GotoInv ==
    ASSUME IInv, NEW r \in Req, job[r] # None, NEW s \in Step \ {"idle"},
           Goto(r, s), UNCHANGED <<connection, server, job, form, log, told>>,
           audit' \subseteq Nat, done' \subseteq Nat
    PROVE  IInv'
  <1>1. pc' = [pc EXCEPT ![r] = s]
    BY DEF Goto
  <1>2. TypeOK'
    BY <1>1 DEF IInv, TypeOK, connection, server
  <1>3. JobFits'
    BY <1>1 DEF IInv, TypeOK, JobFits
  <1> QED
    BY <1>2, <1>3 DEF IInv

LEMMA ReadColumnsInv ==
    ASSUME IInv, NEW r \in Req, ReadColumns(r)
    PROVE  IInv'
  <1> DEFINE C == cols[job[r].db]
             s == CASE job[r].op = "insert" -> "execute"
                    [] job[r].op = "export" -> "rows"
                    [] OTHER -> "key"
             j == [job[r] EXCEPT !.cols = C]
  <1>1. job[r] \in Job
    BY DEF IInv, JobFits, TypeOK, ReadColumns
  <1>2. C \in SUBSET Col
    BY <1>1 DEF IInv, TypeOK, Job
  <1>3. s \in {"execute", "rows", "key"}
    OBVIOUS
  <1> HIDE DEF C
  <1>4. /\ pc' = [pc EXCEPT ![r] = s]
        /\ job' = [job EXCEPT ![r] = j]
        /\ UNCHANGED <<connection, server, form, trail>>
    BY DEF ReadColumns, Goto, IInv, TypeOK, C
  <1>5. /\ j \in Job
        /\ j.op = job[r].op /\ j.key = job[r].key
        /\ j.newkey = job[r].newkey /\ j.sql = job[r].sql
    BY <1>1, <1>2 DEF Job
  <1>6. pc[r] = "columns"
    BY DEF ReadColumns
  <1> HIDE DEF j, s
  <1>7. TypeOK'
    BY <1>3, <1>4, <1>5 DEF IInv, TypeOK, Step, connection, server, trail
  <1>8. JobFits'
    BY <1>1, <1>3, <1>4, <1>5, <1>6, NoneAssumption DEF IInv, TypeOK, JobFits
  <1> QED
    BY <1>7, <1>8 DEF IInv

LEMMA SubmitInv ==
    ASSUME IInv, NEW r \in Req, Submit(r)
    PROVE  IInv'
  <1>1. ASSUME NEW d \in Db, NEW k \in Key, NEW op \in {"edit", "insert", "delete"},
               NEW s \in {"columns", "key"}, Begin(r, s), Ask(r, Plain(op, d, k))
        PROVE  IInv'
    <2> DEFINE j == Plain(op, d, k)
    <2>1. j \in Job
      BY PlainType DEF Op, RowOp
    <2>2. j.op = op /\ j.key = k /\ j.newkey = k
      BY DEF Plain, NewJob
    <2> HIDE DEF j
    <2>3. Begin(r, s) /\ Ask(r, j)
      BY <1>1 DEF j
    <2> QED
      BY <2>1, <2>2, <2>3, BeginInv DEF Step
  <1>2. ASSUME NEW d \in Db, NEW op \in {"export", "admin", "drop", "user"},
               NEW s \in {"columns", "execute"}, Begin(r, s), Ask(r, Plain(op, d, None))
        PROVE  IInv'
    <2> DEFINE j == Plain(op, d, None)
    <2>1. j \in Job
      BY PlainType DEF Op
    <2>2. j.op = op
      BY DEF Plain, NewJob
    <2> HIDE DEF j
    <2>3. Begin(r, s) /\ Ask(r, j)
      BY <1>2 DEF j
    <2> QED
      BY <2>1, <2>2, <2>3, BeginInv DEF Step, RowOp
  <1>3. ASSUME NEW d \in Db, NEW q \in Queries, SubmitSql(r, d, q) PROVE IInv'
    <2> DEFINE j == NewJob("sql", d, None, None, q)
    <2>1. j \in Job
      BY NewJobType, TableAssumption DEF Op
    <2>2. j.op = "sql" /\ j.sql = q
      BY DEF NewJob
    <2>3. Begin(r, "execute") /\ Ask(r, j)
      BY <1>3 DEF SubmitSql
    <2> HIDE DEF j
    <2> QED
      BY <2>1, <2>2, <2>3, BeginInv DEF Step, RowOp
  <1>4. ASSUME NEW k \in Key, SubmitUpdate(r, k)
        PROVE  IInv'
    <2>1. form[r] \in Form
      BY <1>4 DEF SubmitUpdate, IInv, TypeOK
    <2> DEFINE j == NewJob("update", form[r].db, form[r].key, k, None)
    <2>2. form[r].db \in Db /\ form[r].key \in Key
      BY <2>1 DEF Form
    <2>3. j \in Job
      BY <2>2, NewJobType DEF Op, RowOp
    <2>4. j.op = "update" /\ j.key \in Key /\ j.newkey \in Key
      BY <2>2 DEF NewJob
    <2>5. Begin(r, "columns") /\ Ask(r, j)
      BY <1>4 DEF SubmitUpdate
    <2> HIDE DEF j
    <2> QED
      BY <2>3, <2>4, <2>5, BeginInv DEF Step
  <1> QED
    BY <1>1, <1>2, <1>3, <1>4
    DEF Submit, EditForm, SubmitInsert, SubmitDelete, ExportTable, Administer

LEMMA ShowFormInv ==
    ASSUME IInv, NEW r \in Req, NEW l \in Link, ShowForm(r, l)
    PROVE  IInv'
  <1> DEFINE f == [db |-> job[r].db, key |-> job[r].key]
  <1>1. job[r] \in Job
    BY OnTableType DEF ShowForm, Step
  <1>2. job[r].key \in Key
    BY <1>1, NoneAssumption DEF IInv, JobFits, ShowForm
  <1>3. f \in Form
    BY <1>1, <1>2 DEF Form, Job
  <1>4. form'[r] \in {None, f} /\ \A q \in Req \ {r} : form'[q] = form[q]
    BY DEF ShowForm, IInv, TypeOK
  <1>5. form' \in [Req -> Form \cup {None}]
    BY <1>3, <1>4 DEF ShowForm, IInv, TypeOK
  <1> QED
    BY <1>5, EndInv DEF ShowForm, trail, IInv, TypeOK

LEMMA QueryServed ==
    ASSUME IInv, NEW l \in Link, NEW d \in Db, NEW q \in Queries,
           DeleteRow(d, q) \/ AddColumn(d, q) \/ Use(l, q)
    PROVE  Served'
  <1>1. q.col \in Col /\ q.on \in Db \cup {None}
    BY TableAssumption DEF Sql
  <1>2. CASE DeleteRow(d, q)
    BY <1>2 DEF DeleteRow, IInv, TypeOK, Served
  <1>3. CASE AddColumn(d, q)
    BY <1>1, <1>3 DEF AddColumn, IInv, TypeOK, Served
  <1>4. CASE Use(l, q)
    BY <1>1, <1>4 DEF Use, IInv, TypeOK, Served
  <1> QED
    BY <1>2, <1>3, <1>4

LEMMA QueryRunInv ==
    ASSUME IInv, NEW r \in Req, NEW l \in Link, QueryRun(r, l)
    PROVE  IInv'
  <1> DEFINE q == job[r].sql
             d == RunsOn(r, l)
             op == IF q.does = "use" THEN "use" ELSE "sql"
             s == IF q.reads THEN "reply" ELSE "audit"
  <1>1. job[r] # None /\ job[r].op = "sql"
    BY DEF IInv, JobFits, QueryRun
  <1>2. q \in Queries
    BY <1>1 DEF IInv, JobFits
  <1>3. d \in Db
    <2>1. q.on \in Db \cup {None}
      BY <1>2, TableAssumption DEF Sql
    <2> QED
      BY <1>1, <2>1, CurrentType DEF IInv, RunsOn, QueryRun
  <1>4. Served'
    BY <1>2, <1>3, QueryServed DEF QueryRun
  <1>5. Ran(r, op, d, s)
    BY DEF QueryRun
  <1>6. op \in Op \cup {"use"} /\ s \in Step \ {"idle"}
    BY DEF Op, Step
  <1> HIDE DEF op, d, s
  <1> QED
    BY <1>1, <1>3, <1>4, <1>5, <1>6, RanInv

LEMMA RowStatementInv ==
    ASSUME IInv, NEW r \in Req, NEW l \in Link,
           ReadExport(r, l) \/ RowUpdate(r, l) \/ RowInsert(r, l) \/ RowDelete(r, l)
    PROVE  IInv'
  <1> DEFINE d == Current(r, l)
  <1>1. job[r] \in Job /\ job[r] # None /\ d \in Db
    BY OnTableType, NoneAssumption DEF ReadExport, RowUpdate, RowInsert, RowDelete, Step
  <1>2. job[r].op \in RowOp => job[r].key \in Key /\ job[r].newkey \in Key
    BY <1>1 DEF IInv, JobFits
  <1>3. \E op \in RowOp \cup {"export"} : Ran(r, op, d, "audit")
    BY DEF ReadExport, RowUpdate, RowInsert, RowDelete, RowOp
  <1>4. Served'
    <2>1. CASE ReadExport(r, l)
      BY <2>1, ServedUnchanged DEF ReadExport
    <2>2. CASE RowUpdate(r, l)
      <3>1. job[r].newkey \in Key
        BY <1>2, <2>2 DEF RowUpdate, RowOp
      <3> QED
        BY <1>1, <2>2, <3>1 DEF RowUpdate, IInv, TypeOK, Served
    <2>3. CASE RowInsert(r, l)
      <3>1. job[r].key \in Key
        BY <1>2, <2>3 DEF RowInsert, RowOp
      <3> QED
        BY <1>1, <2>3, <3>1 DEF RowInsert, IInv, TypeOK, Served
    <2>4. CASE RowDelete(r, l)
      BY <1>1, <2>4 DEF RowDelete, IInv, TypeOK, Served
    <2> QED
      BY <2>1, <2>2, <2>3, <2>4
  <1> HIDE DEF d
  <1> QED
    BY <1>1, <1>3, <1>4, RanInv DEF Op, Step

LEMMA AdminInv ==
    ASSUME IInv, NEW r \in Req, AdminRun(r)
    PROVE  IInv'
  <1>1. job[r] # None /\ job[r] \in Job
    BY DEF IInv, TypeOK, JobFits, AdminRun
  <1>2. ASSUME Ran(r, "admin", None, "audit"), UNCHANGED server PROVE IInv'
    BY <1>1, <1>2, RanInv, ServedUnchanged DEF Op, Step
  <1>3. ASSUME Ran(r, "drop", None, "audit"),
               cols' = [cols EXCEPT ![job[r].db] = {}],
               table' = [table EXCEPT ![job[r].db] = {}],
               UNCHANGED default
        PROVE  IInv'
    <2>1. Served'
      BY <1>3 DEF IInv, TypeOK, Served
    <2> QED
      BY <1>1, <1>3, <2>1, RanInv DEF Op, Step
  <1>4. ASSUME NEW s \in {"grant", "granted"}, Ran(r, "user", None, s), UNCHANGED server
        PROVE  IInv'
    BY <1>1, <1>4, RanInv, ServedUnchanged DEF Op, Step
  <1> QED
    BY <1>2, <1>3, <1>4 DEF AdminRun

LEMMA GoOnInv ==
    ASSUME IInv, NEW r \in Req,
           ReadKey(r) \/ Grant(r) \/ Flush(r) \/ (Audit(r) /\ Goto(r, "reply") /\ UNCHANGED job)
    PROVE  IInv'
  <1>1. job[r] # None
    BY DEF ReadKey, Grant, Flush, Audit, IInv, JobFits
  <1>2. job[r].n \in Nat
    BY <1>1 DEF IInv, TypeOK, Job
  <1>3. /\ UNCHANGED <<connection, server, job, form, log, told>>
        /\ audit' \subseteq Nat /\ done' \subseteq Nat
    BY <1>2 DEF ReadKey, Grant, Flush, Audit, trail, IInv, TypeOK
  <1>4. \E s \in Step \ {"idle"} : Goto(r, s)
    BY DEF ReadKey, Grant, Flush, Step
  <1> QED
    BY <1>1, <1>3, <1>4, GotoInv

LEMMA FinishInv ==
    ASSUME IInv, NEW r \in Req,
           (Audit(r) /\ End(r)) \/ Reply(r) \/ Fail(r) \/ Cancel(r)
    PROVE  IInv'
  <1>1. /\ pc[r] # "idle" /\ End(r)
        /\ UNCHANGED <<connection, server, form, log, done>>
    BY DEF Audit, Reply, Fail, Cancel, trail
  <1>2. job[r].n \in Nat
    BY <1>1 DEF IInv, TypeOK, JobFits, Job
  <1>3. audit' \subseteq Nat /\ told' \subseteq Nat
    BY <1>2 DEF Audit, Reply, Fail, Cancel, trail, IInv, TypeOK
  <1> QED
    BY <1>1, <1>3, EndInv DEF IInv, TypeOK

LEMMA SurroundingsInv ==
    ASSUME IInv, Restart \/ DeleteConnection \/ \E l \in Link : Recycle(l)
    PROVE  IInv'
  <1>1. CASE DeleteConnection
    BY <1>1 DEF DeleteConnection, IInv, TypeOK, JobFits, server, trail
  <1>2. ASSUME NEW l \in Link, Recycle(l) PROVE IInv'
    BY <1>2 DEF Recycle, IInv, TypeOK, JobFits, connection, trail
  <1>3. CASE Restart
    BY <1>3 DEF Restart, IInv, TypeOK, JobFits, Step, connection, trail
  <1> QED
    BY <1>1, <1>2, <1>3

LEMMA InitInv == Init => IInv
  <1> SUFFICES ASSUME Init PROVE IInv
    OBVIOUS
  <1>1. log \in Seq(Entry)
    BY DEF Init
  <1>2. table \in [Db -> SUBSET Key]
    BY TableAssumption DEF Init
  <1> QED
    BY <1>1, <1>2, TableAssumption DEF Init, IInv, TypeOK, JobFits, Step

LEMMA NextInv == IInv /\ [Next]_vars => IInv'
  <1> SUFFICES ASSUME IInv, [Next]_vars PROVE IInv'
    OBVIOUS
  <1>1. ASSUME NEW r \in Req, Submit(r) PROVE IInv'
    BY <1>1, SubmitInv
  <1>2. ASSUME NEW r \in Req, Advance(r) PROVE IInv'
    <2>1. ASSUME NEW l \in Link, Statements(r, l) PROVE IInv'
      BY <2>1, ShowFormInv, RowStatementInv, QueryRunInv DEF Statements
    <2>2. CASE Audit(r)
      BY <2>2, GoOnInv, FinishInv DEF Audit
    <2> QED
      BY <1>2, <2>1, <2>2, ReadColumnsInv, AdminInv, GoOnInv, FinishInv DEF Advance
  <1>3. CASE UNCHANGED vars
    BY <1>3 DEF vars, IInv, TypeOK, JobFits
  <1> QED
    BY <1>1, <1>2, <1>3, SurroundingsInv DEF Next

(* Every variable keeps its type. *)
THEOREM TypeCorrect == Spec => []TypeOK
  <1>1. IInv => TypeOK
    BY DEF IInv
  <1> QED
    BY <1>1, InitInv, NextInv, PTL DEF Spec

(***************************************************************************)
(* The audit trail.                                                        *)
(***************************************************************************)

(* What a tab's handler knows of its entry at each step after its (first)  *)
(* statement: it is in the log; at "audit" all of its statements ran; at   *)
(* "reply" it has its row as well, or is shown as a read.                  *)
Known(r) ==
    /\ pc[r] \in {"grant", "granted", "audit", "reply"} => job[r].n \in DOMAIN log
    /\ pc[r] \in {"audit", "reply"} => job[r].n \in done
    /\ pc[r] = "reply" => log[job[r].n].reads \/ job[r].n \in audit

Trail ==
    /\ audit \subseteq done
    /\ told \subseteq DOMAIN log
    /\ \A i \in told : log[i].reads \/ i \in audit
    /\ \A r \in Req : Known(r)

(* A step that writes no history: its tab learns nothing and forgets. *)
LEMMA TrailQuiet ==
    ASSUME Trail, UNCHANGED trail,
           \A r \in Req : \/ pc'[r] \in {"idle", "columns", "key", "rows", "execute"}
                          \/ UNCHANGED <<pc[r], job[r]>>
    PROVE  Trail'
  <1>1. ASSUME NEW r \in Req PROVE Known(r)'
    BY DEF Trail, Known, trail
  <1> QED
    BY <1>1 DEF Trail, trail

LEMMA TrailRan ==
    ASSUME IInv, Trail, NEW r \in Req, pc[r] # "idle", NEW op, NEW at,
           NEW s \in {"grant", "granted", "audit", "reply"}, Ran(r, op, at, s)
    PROVE  Trail'
  <1> DEFINE n == Len(log) + 1
             e == [op |-> op, db |-> job[r].db, at |-> at, reads |-> s = "reply"]
  <1>1. job[r] \in Job
    BY DEF IInv, JobFits, TypeOK
  <1>2. log \in Seq(Entry) /\ log' = Append(log, e)
    BY DEF Ran, IInv, TypeOK
  <1>3. /\ n \in Nat
        /\ DOMAIN log' = DOMAIN log \cup {n}
        /\ n \notin DOMAIN log
        /\ log'[n] = e
        /\ \A i \in DOMAIN log : log'[i] = log[i]
    BY <1>2
  <1>4. e.reads <=> s = "reply"
    OBVIOUS
  <1>5. pc'[r] = s /\ job'[r] = [job[r] EXCEPT !.n = n]
    BY DEF Ran, Goto, IInv, TypeOK
  <1>6. done' = IF s \in {"audit", "reply"} THEN done \cup {n} ELSE done
    BY DEF Ran
  <1> HIDE DEF n, e
  <1>7. job'[r].n = n
    BY <1>1, <1>3, <1>5 DEF Job
  <1>8. UNCHANGED <<audit, told>> /\ \A q \in Req \ {r} : UNCHANGED <<pc[q], job[q]>>
    BY DEF Ran, Goto, IInv, TypeOK
  <1>9. Known(r)'
    BY <1>3, <1>4, <1>5, <1>6, <1>7 DEF Known
  <1>10. ASSUME NEW q \in Req \ {r} PROVE Known(q)'
    BY <1>3, <1>6, <1>8 DEF Trail, Known
  <1> QED
    BY <1>3, <1>6, <1>8, <1>9, <1>10 DEF Trail

(* The steps after the statement. *)
LEMMA TrailSettle ==
    ASSUME IInv, Trail, NEW r \in Req, Grant(r) \/ Flush(r) \/ Audit(r) \/ Reply(r)
    PROVE  Trail'
  <1>1. Known(r) /\ UNCHANGED log
    BY DEF Trail, Grant, Flush, Audit, Reply, trail
  <1>2. audit \subseteq audit' /\ done \subseteq done'
    BY DEF Grant, Flush, Audit, Reply, trail
  <1>3. \A q \in Req \ {r} : UNCHANGED <<pc[q], job[q]>>
    BY DEF Grant, Flush, Audit, Reply, End, Goto, IInv, TypeOK
  <1>4. ASSUME NEW q \in Req \ {r} PROVE Known(q)'
    BY <1>1, <1>2, <1>3 DEF Trail, Known
  <1>5. CASE Grant(r)
    <2>1. pc'[r] = "granted" /\ pc[r] = "grant" /\ UNCHANGED <<job, trail>>
      BY <1>5 DEF Grant, Goto, IInv, TypeOK
    <2>2. Known(r)'
      BY <1>1, <2>1 DEF Known
    <2> QED
      BY <1>4, <2>1, <2>2 DEF Trail, trail
  <1>6. CASE Flush(r)
    <2>1. /\ pc'[r] = "audit" /\ pc[r] = "granted" /\ UNCHANGED <<job, audit, told>>
          /\ done' = done \cup {job[r].n}
      BY <1>6 DEF Flush, Goto, IInv, TypeOK
    <2>2. Known(r)'
      BY <1>1, <2>1 DEF Known
    <2> QED
      BY <1>1, <1>4, <2>1, <2>2 DEF Trail
  <1>7. CASE Audit(r)
    <2>1. pc[r] = "audit" /\ UNCHANGED <<told, done>>
      BY <1>7 DEF Audit
    <2>2. \/ pc'[r] = "reply" /\ UNCHANGED job /\ audit' = audit \cup {job[r].n}
          \/ pc'[r] = "idle" /\ UNCHANGED audit
      BY <1>7 DEF Audit, End, Goto, IInv, TypeOK
    <2>3. Known(r)'
      BY <1>1, <2>1, <2>2 DEF Known
    <2>4. audit' \subseteq done'
      BY <1>1, <2>1, <2>2 DEF Trail, Known
    <2> QED
      BY <1>1, <1>2, <1>4, <2>1, <2>3, <2>4 DEF Trail
  <1>8. CASE Reply(r)
    <2>1. /\ pc[r] = "reply" /\ pc'[r] = "idle" /\ UNCHANGED <<audit, done>>
          /\ told' = told \cup {job[r].n}
      BY <1>8 DEF Reply, End, Goto, IInv, TypeOK
    <2>2. Known(r)'
      BY <2>1 DEF Known
    <2>3. \A i \in told' : i \in DOMAIN log' /\ (log'[i].reads \/ i \in audit')
      BY <1>1, <2>1 DEF Trail, Known
    <2> QED
      BY <1>4, <2>1, <2>2, <2>3 DEF Trail
  <1> QED
    BY <1>5, <1>6, <1>7, <1>8

LEMMA TrailStatement ==
    ASSUME IInv, Trail, NEW r \in Req, NEW l \in Link, Statements(r, l)
    PROVE  Trail'
  <1>1. CASE ShowForm(r, l)
    <2>1. /\ UNCHANGED trail /\ pc'[r] = "idle"
          /\ \A q \in Req \ {r} : UNCHANGED <<pc[q], job[q]>>
      BY <1>1 DEF ShowForm, End, Goto, IInv, TypeOK
    <2> QED
      BY <2>1, TrailQuiet
  <1>2. CASE ~ShowForm(r, l)
    <2>1. pc[r] # "idle"
      BY <1>2 DEF Statements, ReadExport, RowUpdate, RowInsert, RowDelete, QueryRun, OnTable
    <2>2. \E op, at : \E s \in {"audit", "reply"} : Ran(r, op, at, s)
      BY <1>2 DEF Statements, ReadExport, RowUpdate, RowInsert, RowDelete, QueryRun
    <2> QED
      BY <2>1, <2>2, TrailRan
  <1> QED
    BY <1>1, <1>2

LEMMA TrailSubmit ==
    ASSUME IInv, Trail, NEW r \in Req, Submit(r)
    PROVE  Trail'
  <1>1. \E s \in {"columns", "key", "execute"} : \E j : Begin(r, s) /\ Ask(r, j)
    BY DEF Submit, EditForm, SubmitDelete, SubmitInsert, ExportTable, SubmitSql,
           Administer, SubmitUpdate
  <1>2. /\ UNCHANGED trail /\ pc'[r] \in {"columns", "key", "execute"}
        /\ \A q \in Req \ {r} : UNCHANGED <<pc[q], job[q]>>
    BY <1>1 DEF Begin, Ask, IInv, TypeOK
  <1> QED
    BY <1>2, TrailQuiet

LEMMA TrailNext == IInv /\ Trail /\ [Next]_vars => Trail'
  <1> SUFFICES ASSUME IInv, Trail, [Next]_vars PROVE Trail'
    OBVIOUS
  <1>1. ASSUME NEW r \in Req, Submit(r) PROVE Trail'
    BY <1>1, TrailSubmit
  <1>2. ASSUME NEW r \in Req, Advance(r) PROVE Trail'
    <2>1. CASE ReadColumns(r)
      <3>1. /\ UNCHANGED trail
            /\ pc'[r] \in {"execute", "rows", "key"}
            /\ \A q \in Req \ {r} : UNCHANGED <<pc[q], job[q]>>
        BY <2>1 DEF ReadColumns, Goto, IInv, TypeOK
      <3> QED
        BY <3>1, TrailQuiet
    <2>2. CASE ReadKey(r)
      <3>1. /\ UNCHANGED trail
            /\ pc'[r] \in {"execute", "rows"}
            /\ \A q \in Req \ {r} : UNCHANGED <<pc[q], job[q]>>
        BY <2>2 DEF ReadKey, Goto, IInv, TypeOK
      <3> QED
        BY <3>1, TrailQuiet
    <2>3. CASE AdminRun(r)
      <3>1. pc[r] = "execute"
        BY <2>3 DEF AdminRun
      <3>2. \E op, at : \E s \in {"grant", "granted", "audit"} : Ran(r, op, at, s)
        BY <2>3 DEF AdminRun
      <3> QED
        BY <3>1, <3>2, TrailRan
    <2>4. CASE Fail(r) \/ Cancel(r)
      <3>1. /\ UNCHANGED trail /\ pc'[r] = "idle"
            /\ \A q \in Req \ {r} : UNCHANGED <<pc[q], job[q]>>
        BY <2>4 DEF Fail, Cancel, End, Goto, IInv, TypeOK
      <3> QED
        BY <3>1, TrailQuiet
    <2> QED
      BY <1>2, <2>1, <2>2, <2>3, <2>4, TrailStatement, TrailSettle DEF Advance
  <1>3. CASE DeleteConnection
    BY <1>3, TrailQuiet DEF DeleteConnection
  <1>4. ASSUME NEW l \in Link, Recycle(l) PROVE Trail'
    BY <1>4, TrailQuiet DEF Recycle
  <1>5. CASE Restart
    BY <1>5, TrailQuiet DEF Restart
  <1>6. CASE UNCHANGED vars
    BY <1>6, TrailQuiet DEF vars, trail
  <1> QED
    BY <1>1, <1>2, <1>3, <1>4, <1>5, <1>6 DEF Next

LEMMA TrailInit == Init => Trail
  BY DEF Init, Trail, Known

(* audit_log names only what was done to the end, and no page reports a    *)
(* success it does not name, whatever fails, is cut or deleted meanwhile.  *)
THEOREM AuditTells == Spec => []AuditTruthful
  <1>1. Trail => AuditTruthful
    BY DEF Trail, AuditTruthful
  <1> QED
    BY <1>1, InitInv, NextInv, TrailInit, TrailNext, PTL DEF Spec
=============================================================================
