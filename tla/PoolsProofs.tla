---------------------------- MODULE PoolsProofs ----------------------------
(***************************************************************************)
(* Safety of the pool registry for every number of connections, databases, *)
(* requests and pool objects: what Pools's runs check on small instances.  *)
(***************************************************************************)
EXTENDS Pools, TLAPS

(***************************************************************************)
(* The inductive invariant.                                                *)
(***************************************************************************)

Publishing(r) == pc[r] \in {"publish", "publishdb"}
Closing(r) == pc[r] \in {"replaced", "removed", "sweep", "unshared"}

RowsNumbered == \A c \in Conn : row[c].live => row[c].ver >= 1

(* A working request has a job, on a version its connection really had. *)
JobsSound ==
    \A r \in Req : pc[r] # "idle" =>
        job[r] \in Job /\ job[r].ver \in 1 .. row[job[r].conn].ver

(* Handles and awaited pools are there where the code uses them. *)
LocalsSound ==
    \A r \in Req :
        /\ pc[r] \in {"publish", "publishdb", "replaced", "ready", "query"}
             => held[r] \in Pool
        /\ pc[r] \in {"replaced", "removed", "unshared"} => drain[r] \in Pool
        /\ drain[r] # None => Closing(r)

Base == TypeOK /\ RowsNumbered /\ JobsSound /\ LocalsSound

MainSlots ==
    \A c \in Conn : pools[c] # None =>
        /\ pool[pools[c]].st = "open"
        /\ pool[pools[c]].conn = c
        /\ pool[pools[c]].ver \in 1 .. row[c].ver

SubSlots ==
    \A k \in Conn \X Db : dbPools[k] # None =>
        /\ pool[dbPools[k]].st = "open"
        /\ pool[dbPools[k]].conn = k[1]
        /\ pool[dbPools[k]].ver \in 1 .. row[k[1]].ver
        /\ IsPg(pool[dbPools[k]].ver)

(* No pool is registered twice. *)
SlotsApart ==
    /\ \A c \in Conn, k \in Conn \X Db : pools[c] # None => dbPools[k] # pools[c]
    /\ \A k, l \in Conn \X Db : dbPools[k] # None /\ dbPools[k] = dbPools[l] => k = l

(* Until insert publishes it, a new pool is known to its creator only. *)
NewPoolsPrivate ==
    \A r \in Req : Publishing(r) =>
        /\ pool[held[r]] = [st |-> "open", conn |-> job[r].conn, ver |-> job[r].ver]
        /\ pc[r] = "publishdb" => IsPg(job[r].ver)
        /\ \A c \in Conn : pools[c] # held[r]
        /\ \A k \in Conn \X Db : dbPools[k] # held[r]
        /\ \A q \in Req \ {r} : Publishing(q) => held[q] # held[r]

Slots == MainSlots /\ SubSlots /\ SlotsApart /\ NewPoolsPrivate

(***************************************************************************)
(* Types and the locals of a request.                                      *)
(***************************************************************************)

(* Initially nothing is registered and nobody works. *)
LEMMA InitBase == Init => Base
BY NoneAssumption DEF Init, Base, TypeOK, RowsNumbered, JobsSound, LocalsSound, FreePool,
   Step, Closing

(* A handler's first part gives it a job on the version it read. *)
LEMMA StartBase ==
    ASSUME Base, NEW r \in Req, Start(r)
    PROVE  Base'
<1>1. PICK c \in Conn, d \in Db, op \in Op, s \in {"get", "getdb", "connect", "unshare", "write"} :
          Begin(r, op, c, d, s)
  BY DEF Start, BrowseServer, BrowseDatabase, DropDatabase, Test, Update, Delete, Op
<1> DEFINE j == [op |-> op, conn |-> c, db |-> d, ver |-> row[c].ver]
<1>2. j \in Job /\ j.ver \in 1 .. row[c].ver /\ j.conn = c
  BY <1>1 DEF Begin, Base, TypeOK, RowsNumbered, Job
<1>3. /\ pc[r] = "idle" /\ pc' = [pc EXCEPT ![r] = s] /\ job' = [job EXCEPT ![r] = j]
      /\ UNCHANGED <<row, pool, pools, dbPools, lock, dbLock, held, drain>>
  BY <1>1 DEF Begin, Goto, registry, locks
<1> HIDE DEF j
<1>4. TypeOK'
  BY <1>2, <1>3 DEF Base, TypeOK, Step
<1>5. RowsNumbered'
  BY <1>3 DEF Base, RowsNumbered
<1>6. JobsSound'
  BY <1>2, <1>3 DEF Base, TypeOK, JobsSound
<1>7. LocalsSound'
  BY <1>3 DEF Base, TypeOK, LocalsSound, Closing
<1> QED BY <1>4, <1>5, <1>6, <1>7 DEF Base

(* A handler that returns leaves nothing of its own behind. *)
LEMMA EndBase ==
    ASSUME Base, NEW r \in Req, End(r), UNCHANGED <<row, pool, registry, locks>>
    PROVE  Base'
BY DEF End, Goto, Base, TypeOK, RowsNumbered, JobsSound, LocalsSound, Step, Closing,
   registry, locks

(* Nor is there anything to lose where it drains no pool and goes on with   *)
(* none, or with one.                                                       *)
LEMMA GoOnBase ==
    ASSUME Base, NEW r \in Req, NEW s \in Step, Goto(r, s),
           ~Closing(r), pc[r] # "idle", UNCHANGED <<row, pool, registry, locks, job, drain>>,
           held' \in [Req -> Pool \cup {None}],
           \A q \in Req \ {r} : held'[q] = held[q],
           s \in {"connect", "ready", "query"},
           s # "connect" => held'[r] \in Pool
    PROVE  Base'
BY DEF Goto, Base, TypeOK, RowsNumbered, JobsSound, LocalsSound, Closing, registry, locks

(* Lookups, connecting and statements: what a request does on its own. *)
LEMMA LookupBase ==
    ASSUME Base, NEW r \in Req, Get(r) \/ GetDb(r)
    PROVE  Base'
<1> DEFINE Rest == UNCHANGED <<row, pool, registry, locks>>
           Found(p) == p \in Pool /\ held' = [held EXCEPT ![r] = p] /\ Goto(r, "ready")
                       /\ UNCHANGED <<job, drain>>
<1>1. ~Closing(r) /\ pc[r] # "idle" /\ Rest
  BY DEF Get, GetDb, Closing
<1>2. Continue(r, "connect") \/ (\E p : Found(p)) \/ End(r)
  <2>1. job[r].conn \in Conn /\ Key(r) \in Conn \X Db
    BY <1>1 DEF Base, JobsSound, Job, Key
  <2>2. pools[job[r].conn] \in Pool \cup {None} /\ dbPools[Key(r)] \in Pool \cup {None}
    BY <2>1 DEF Base, TypeOK
  <2> QED BY <2>2 DEF Get, GetDb
<1>3. CASE Continue(r, "connect")
  BY <1>1, <1>3, GoOnBase DEF Continue, Base, TypeOK, Step
<1>4. CASE \E p : Found(p)
  BY <1>1, <1>4, GoOnBase DEF Base, TypeOK, Step
<1> QED BY <1>1, <1>2, <1>3, <1>4, EndBase

LEMMA ConnectBase ==
    ASSUME Base, NEW r \in Req, Connect(r) \/ ConnectFail(r)
    PROVE  Base'
<1>1. CASE Connect(r)
  BY <1>1 DEF Connect, Base, TypeOK, RowsNumbered, JobsSound, LocalsSound, Job, Step, Closing,
     Goto, registry, locks
<1>2. CASE ConnectFail(r)
  <2>1. CASE job[r].op = "test"
    <3>1. Continue(r, "evict") /\ pc[r] = "connect" /\ UNCHANGED <<row, pool, registry, locks>>
      BY <1>2, <2>1 DEF ConnectFail
    <3> QED BY <3>1 DEF Goto, Continue, registry, locks, Base, TypeOK, RowsNumbered, JobsSound, LocalsSound, Job, Step,
       Closing
  <2>2. CASE job[r].op # "test"
    <3>1. End(r) /\ pc[r] = "connect" /\ UNCHANGED <<row, pool, registry, locks>>
      BY <1>2, <2>2 DEF ConnectFail
    <3> QED BY <3>1 DEF Goto, End, registry, locks, Base, TypeOK, RowsNumbered, JobsSound, LocalsSound, Job, Step,
       Closing
  <2> QED BY <2>1, <2>2
<1> QED BY <1>1, <1>2

(* The two ways on from insert. *)
LEMMA AfterInsertCases ==
    ASSUME NEW r, AfterInsert(r)
    PROVE  \/ End(r)
           \/ Goto(r, "ready") /\ drain' = [drain EXCEPT ![r] = None] /\ UNCHANGED <<job, held>>
BY DEF AfterInsert

(* Marking a pool closed keeps every other pool, and what this one was for. *)
LEMMA CloseFacts ==
    ASSUME pool \in [Pool -> [st: {"free", "open", "closed"}, conn: Conn \cup {None}, ver: Nat]],
           NEW p \in Pool, Close(p)
    PROVE  /\ pool' \in [Pool -> [st: {"free", "open", "closed"}, conn: Conn \cup {None}, ver: Nat]]
           /\ pool'[p].st = "closed"
           /\ \A q \in Pool : q # p => pool'[q] = pool[q]
BY DEF Close

LEMMA InsertBase ==
    ASSUME Base, NEW r \in Req, Insert(r) \/ InsertClosed(r) \/ InsertDb(r)
    PROVE  Base'
<1>1. CASE Insert(r)
  <2> DEFINE c == job[r].conn
  <2>1. c \in Conn /\ held[r] \in Pool /\ pc[r] = "publish"
    BY <1>1 DEF Insert, Base, JobsSound, LocalsSound, Job
  <2>2. pools' = [pools EXCEPT ![c] = held[r]] /\ UNCHANGED <<row, dbPools, dbLock>>
    BY <1>1 DEF Insert
  <2>3. CASE pools[c] = None /\ AfterInsert(r) /\ UNCHANGED <<pool, lock>>
    <3>1. CASE End(r)
      BY <2>1, <2>2, <2>3, <3>1 DEF Goto, End, Base, TypeOK, RowsNumbered, JobsSound, LocalsSound, Job, Step,
       Closing
    <3>2. CASE Goto(r, "ready") /\ drain' = [drain EXCEPT ![r] = None] /\ UNCHANGED <<job, held>>
      BY <2>1, <2>2, <2>3, <3>2 DEF Goto, Base, TypeOK, RowsNumbered, JobsSound, LocalsSound, Job, Step,
       Closing
    <3> QED BY <2>3, <3>1, <3>2, AfterInsertCases
  <2>4. CASE /\ pools[c] # None /\ Close(pools[c]) /\ drain' = [drain EXCEPT ![r] = pools[c]]
             /\ lock' = r /\ Goto(r, "replaced") /\ UNCHANGED <<job, held>>
    <3>1. pools[c] \in Pool
      BY <2>1, <2>4 DEF Base, TypeOK
    <3>2. pool' \in [Pool -> [st: {"free", "open", "closed"}, conn: Conn \cup {None}, ver: Nat]]
      BY <3>1, <2>4, CloseFacts DEF Base, TypeOK
    <3> QED BY <2>1, <2>2, <2>4, <3>1, <3>2 DEF Goto, Base, TypeOK, RowsNumbered, JobsSound, LocalsSound, Job, Step,
       Closing
  <2> QED BY <1>1, <2>3, <2>4 DEF Insert
<1>2. CASE InsertClosed(r)
  <2>1. pc[r] = "replaced" /\ AfterInsert(r) /\ lock' = None /\ UNCHANGED <<row, pool, pools, dbPools, dbLock>>
    BY <1>2 DEF InsertClosed, registry
  <2>2. CASE End(r)
    BY <2>1, <2>2 DEF Goto, End, Base, TypeOK, RowsNumbered, JobsSound, LocalsSound, Job, Step,
       Closing
  <2>3. CASE Goto(r, "ready") /\ drain' = [drain EXCEPT ![r] = None] /\ UNCHANGED <<job, held>>
    BY <2>1, <2>3 DEF Goto, Base, TypeOK, RowsNumbered, JobsSound, LocalsSound, Job, Step,
       Closing
  <2> QED BY <2>1, <2>2, <2>3, AfterInsertCases
<1>3. CASE InsertDb(r)
  BY <1>3 DEF InsertDb, Base, TypeOK, RowsNumbered, JobsSound, LocalsSound,
     Job, Step, Closing, Goto, Continue, locks, Key
<1> QED BY <1>1, <1>2, <1>3

LEMMA StatementBase ==
    ASSUME Base, NEW r \in Req,
           Acquire(r) \/ AcquireFail(r) \/ EndStatement(r) \/ EndRequest(r)
    PROVE  Base'
<1> DEFINE Rest == UNCHANGED <<row, pool, registry, locks>>
<1>1. CASE Acquire(r) \/ EndStatement(r)
  <2>1. /\ pc[r] \in {"ready", "query"} /\ ~Closing(r) /\ Rest
        /\ Continue(r, "query") \/ Continue(r, "ready")
    BY <1>1 DEF Acquire, EndStatement, Closing
  <2>2. held[r] \in Pool
    BY <2>1 DEF Base, LocalsSound
  <2> QED BY <2>1, <2>2, GoOnBase DEF Continue, Base, TypeOK, Step
<1>2. CASE AcquireFail(r) \/ EndRequest(r)
  BY <1>2, EndBase DEF AcquireFail, EndRequest
<1> QED BY <1>1, <1>2

(* The row's version only grows, so the versions in flight stay real. *)
LEMMA WriteBase ==
    ASSUME Base, NEW r \in Req, Write(r)
    PROVE  Base'
<1> DEFINE c == job[r].conn
<1>1. c \in Conn /\ row[c] \in [live: BOOLEAN, ver: Nat]
  BY DEF Write, Base, TypeOK, JobsSound, Job
<1>2. WriteRow(job[r].op, c)
  BY DEF Write
<1>3. /\ row' \in [Conn -> [live: BOOLEAN, ver: Nat]]
      /\ \A d \in Conn : row'[d].ver >= row[d].ver
      /\ \A d \in Conn : row'[d].live => row[d].live
  <2>1. CASE UNCHANGED row
    BY <2>1 DEF Base, TypeOK
  <2>2. CASE job[r].op = "update" /\ row[c].live
    <3>1. row' = [row EXCEPT ![c] = [live |-> TRUE, ver |-> row[c].ver + 1]]
      BY <1>2, <2>2 DEF WriteRow
    <3> QED BY <1>1, <2>2, <3>1 DEF Base, TypeOK
  <2>3. CASE job[r].op # "update" /\ row[c].live
    <3>1. row' = [row EXCEPT ![c] = [live |-> FALSE, ver |-> row[c].ver]]
      BY <1>2, <2>3 DEF WriteRow
    <3> QED BY <1>1, <3>1 DEF Base, TypeOK
  <2> QED BY <1>2, <2>1, <2>2, <2>3 DEF WriteRow
<1>4. /\ pc[r] = "write" /\ pc' = [pc EXCEPT ![r] = "evict"]
      /\ UNCHANGED <<pool, pools, dbPools, lock, dbLock, job, held, drain>>
  BY DEF Write, Continue, Goto, registry, locks
<1> HIDE DEF c
<1>5. TypeOK'
  BY <1>3, <1>4 DEF Base, TypeOK, Step
<1>6. RowsNumbered'
  BY <1>3 DEF Base, TypeOK, RowsNumbered
<1>7. JobsSound'
  BY <1>3, <1>4 DEF Base, TypeOK, JobsSound, Job
<1>8. LocalsSound'
  BY <1>4 DEF Base, TypeOK, LocalsSound, Closing
<1> QED BY <1>5, <1>6, <1>7, <1>8 DEF Base

LEMMA RemoveBase ==
    ASSUME Base, NEW r \in Req,
           \/ RemoveMain(r) \/ RemoveMainClosed(r) \/ RemoveDbLock(r)
           \/ (\E d \in Db : RemoveDb(r, d)) \/ RemoveDone(r)
    PROVE  Base'
<1>1. CASE RemoveMain(r)
  <2> DEFINE c == job[r].conn
  <2>1. c \in Conn /\ pc[r] = "evict" /\ UNCHANGED <<row, dbPools, dbLock>>
    BY <1>1 DEF RemoveMain, Base, JobsSound, Job
  <2>2. CASE pools[c] = None /\ Continue(r, "evictdb") /\ UNCHANGED <<pool, pools, lock>>
    BY <2>1, <2>2 DEF Goto, Continue, Base, TypeOK, RowsNumbered, JobsSound, LocalsSound, Job, Step,
       Closing
  <2>3. CASE /\ pools[c] # None /\ pools' = [pools EXCEPT ![c] = None] /\ Close(pools[c])
             /\ drain' = [drain EXCEPT ![r] = pools[c]]
             /\ lock' = r /\ Goto(r, "removed") /\ UNCHANGED <<job, held>>
    <3>1. pools[c] \in Pool
      BY <2>1, <2>3 DEF Base, TypeOK
    <3>2. pool' \in [Pool -> [st: {"free", "open", "closed"}, conn: Conn \cup {None}, ver: Nat]]
      BY <3>1, <2>3, CloseFacts DEF Base, TypeOK
    <3> QED BY <2>1, <2>3, <3>1, <3>2 DEF Goto, Base, TypeOK, RowsNumbered, JobsSound, LocalsSound, Job, Step,
       Closing
  <2> QED BY <1>1, <2>2, <2>3 DEF RemoveMain
<1>2. CASE RemoveMainClosed(r)
  BY <1>2 DEF RemoveMainClosed, Base, TypeOK, RowsNumbered, JobsSound, LocalsSound, Job, Step,
     Closing, Goto, registry
<1>3. CASE RemoveDbLock(r)
  BY <1>3 DEF RemoveDbLock, Base, TypeOK, RowsNumbered, JobsSound, LocalsSound, Job, Step,
     Closing, Goto, Continue, registry
<1>4. ASSUME NEW d \in Db, RemoveDb(r, d) PROVE Base'
  BY <1>4 DEF RemoveDb, SweepReady, Close, Base, TypeOK, RowsNumbered, JobsSound, LocalsSound,
     Job, Step, Closing, locks
<1>5. CASE RemoveDone(r)
  BY <1>5 DEF RemoveDone, Base, TypeOK, RowsNumbered, JobsSound, LocalsSound,
     Job, Step, Closing, Goto, End, registry
<1> QED BY <1>1, <1>2, <1>3, <1>4, <1>5

LEMMA ClosePgDbBase ==
    ASSUME Base, NEW r \in Req, ClosePgDb(r) \/ ClosePgDbDone(r)
    PROVE  Base'
<1>1. CASE ClosePgDb(r)
  <2> DEFINE k == Key(r)
  <2>1. k \in Conn \X Db /\ pc[r] = "unshare" /\ UNCHANGED <<row, pools, lock>>
    BY <1>1 DEF ClosePgDb, Key, Base, JobsSound, Job
  <2>2. CASE Continue(r, "get") /\ UNCHANGED <<pool, dbPools, dbLock>>
    BY <2>1, <2>2 DEF Goto, Continue, Base, TypeOK, RowsNumbered, JobsSound, LocalsSound, Job, Step,
       Closing
  <2>3. CASE /\ dbPools[k] # None /\ dbPools' = [dbPools EXCEPT ![k] = None] /\ Close(dbPools[k])
             /\ drain' = [drain EXCEPT ![r] = dbPools[k]]
             /\ dbLock' = r /\ Goto(r, "unshared") /\ UNCHANGED <<job, held>>
    <3>1. dbPools[k] \in Pool
      BY <2>1, <2>3 DEF Base, TypeOK
    <3>2. pool' \in [Pool -> [st: {"free", "open", "closed"}, conn: Conn \cup {None}, ver: Nat]]
      BY <3>1, <2>3, CloseFacts DEF Base, TypeOK
    <3> QED BY <2>1, <2>3, <3>1, <3>2 DEF Goto, Base, TypeOK, RowsNumbered, JobsSound, LocalsSound, Job, Step,
       Closing
  <2> QED BY <1>1, <2>2, <2>3 DEF ClosePgDb
<1>2. CASE ClosePgDbDone(r)
  BY <1>2 DEF ClosePgDbDone, Base, TypeOK, RowsNumbered, JobsSound, LocalsSound, Job, Step,
     Closing, Goto, registry
<1> QED BY <1>1, <1>2

LEMMA EnvironmentBase ==
    ASSUME Base,
           \/ \E c \in Conn : CreateConnection(c)
           \/ \E r \in Req : Cancel(r)
           \/ \E p \in Pool : DropPool(p)
           \/ Restart
           \/ UNCHANGED vars
    PROVE  Base'
<1>1. ASSUME NEW c \in Conn, CreateConnection(c) PROVE Base'
  BY <1>1 DEF CreateConnection, Base, TypeOK, RowsNumbered, JobsSound, LocalsSound, Job,
     Closing, registry, locks
<1>2. ASSUME NEW r \in Req, Cancel(r) PROVE Base'
  BY <1>2 DEF Cancel, Release, Base, TypeOK, RowsNumbered, JobsSound, LocalsSound, Job, Step,
     Closing, Goto, End, registry
<1>3. ASSUME NEW p \in Pool, DropPool(p) PROVE Base'
  BY <1>3 DEF DropPool, FreePool, Base, TypeOK, RowsNumbered, JobsSound, LocalsSound, Job,
     Closing, registry, locks
<1>4. CASE Restart
  BY <1>4, NoneAssumption DEF Restart, FreePool, Base, TypeOK, RowsNumbered, JobsSound,
     LocalsSound, Step, Closing
<1>5. CASE UNCHANGED vars
  BY <1>5 DEF vars, Base, TypeOK, RowsNumbered, JobsSound, LocalsSound, Job, Closing
<1> QED BY <1>1, <1>2, <1>3, <1>4, <1>5

LEMMA NextBase == Base /\ [Next]_vars => Base'
<1> SUFFICES ASSUME Base, [Next]_vars PROVE Base'
  OBVIOUS
<1>1. ASSUME NEW r \in Req, Start(r) PROVE Base'
  BY <1>1, StartBase
<1>2. ASSUME NEW r \in Req, Advance(r) PROVE Base'
  BY <1>2, LookupBase, ConnectBase, InsertBase, StatementBase, WriteBase, RemoveBase,
     ClosePgDbBase DEF Advance
<1> QED BY <1>1, <1>2, EnvironmentBase DEF Next

(* Types, and what a request keeps: every handler finds a handle where it   *)
(* dereferences one (src/explorer.rs load_conn, pool_for, dbr_for).         *)
THEOREM TypeCorrect == Spec => []TypeOK
<1>1. Base => TypeOK
  BY DEF Base
<1> QED BY <1>1, InitBase, NextBase, PTL DEF Spec

(***************************************************************************)
(* What the registry holds.                                                *)
(***************************************************************************)

LEMMA InitSlots == Init => Slots
BY NoneAssumption DEF Init, Slots, MainSlots, SubSlots, SlotsApart, NewPoolsPrivate, Publishing

(* A step that leaves the registry and the pools alone, and takes nobody    *)
(* to publishing, keeps Slots: row versions only grow.                      *)
LEMMA QuietSlots ==
    ASSUME Base, Base', Slots,
           UNCHANGED <<pool, pools, dbPools>>,
           \A c \in Conn : row'[c].ver >= row[c].ver,
           \A q \in Req : Publishing(q)' =>
               pc'[q] = pc[q] /\ held'[q] = held[q] /\ job'[q] = job[q]
    PROVE  Slots'
<1>1. MainSlots'
  BY DEF Base, TypeOK, Slots, MainSlots
<1>2. SubSlots'
  BY DEF Base, TypeOK, Slots, SubSlots, IsPg
<1>3. SlotsApart'
  BY DEF Slots, SlotsApart
<1>4. NewPoolsPrivate'
  BY DEF Slots, NewPoolsPrivate, Publishing, IsPg
<1> QED BY <1>1, <1>2, <1>3, <1>4 DEF Slots

(* The steps of a request that are quiet in this sense. *)
LEMMA QuietSteps ==
    ASSUME Base, Base', Slots, NEW r \in Req,
           \/ Start(r) \/ Get(r) \/ GetDb(r) \/ ConnectFail(r) \/ InsertClosed(r)
           \/ Acquire(r) \/ AcquireFail(r) \/ EndStatement(r) \/ EndRequest(r)
           \/ RemoveMainClosed(r) \/ RemoveDbLock(r) \/ RemoveDone(r)
           \/ ClosePgDbDone(r) \/ Cancel(r)
    PROVE  Slots'
<1>1. UNCHANGED <<pool, pools, dbPools, row>>
  BY DEF Start, BrowseServer, BrowseDatabase, DropDatabase, Test, Update, Delete, Begin, Get,
     GetDb, ConnectFail, InsertClosed, Acquire, AcquireFail, EndStatement, EndRequest,
     RemoveMainClosed, RemoveDbLock, RemoveDone, ClosePgDbDone, Cancel, registry
<1>2. \E s \in Step \ {"publish", "publishdb"} : pc' = [pc EXCEPT ![r] = s]
  <2>1. CASE Start(r)
    BY <2>1 DEF Start, BrowseServer, BrowseDatabase, DropDatabase, Test, Update, Delete, Begin,
       Goto, Step
  <2>2. CASE Get(r) \/ GetDb(r)
    BY <2>2 DEF Get, GetDb, Continue, Goto, End, Step
  <2>3. CASE ConnectFail(r)
    <3>1. Continue(r, "evict") \/ End(r)
      BY <2>3 DEF ConnectFail
    <3> QED BY <3>1 DEF Continue, Goto, End, Step
  <2>4. CASE InsertClosed(r)
    <3>1. End(r) \/ Goto(r, "ready")
      BY <2>4, AfterInsertCases DEF InsertClosed
    <3> QED BY <3>1 DEF Goto, End, Step
  <2>5. CASE Acquire(r) \/ AcquireFail(r) \/ EndStatement(r) \/ EndRequest(r)
    BY <2>5 DEF Acquire, AcquireFail, EndStatement, EndRequest, Continue, Goto, End, Step
  <2>6. CASE RemoveMainClosed(r) \/ RemoveDbLock(r) \/ RemoveDone(r) \/ ClosePgDbDone(r) \/ Cancel(r)
    BY <2>6 DEF RemoveMainClosed, RemoveDbLock, RemoveDone, ClosePgDbDone, Cancel, Continue,
       Goto, End, Step
  <2> QED BY <2>1, <2>2, <2>3, <2>4, <2>5, <2>6
<1>3. \A q \in Req \ {r} : held'[q] = held[q] /\ job'[q] = job[q]
  <2>1. \/ UNCHANGED held
        \/ \E h : held' = [held EXCEPT ![r] = h]
    <3>1. CASE InsertClosed(r)
      BY <3>1, AfterInsertCases DEF InsertClosed, End
    <3>2. CASE ConnectFail(r)
      <4>1. Continue(r, "evict") \/ End(r)
        BY <3>2 DEF ConnectFail
      <4> QED BY <4>1 DEF Continue, End
    <3> QED BY <3>1, <3>2 DEF Start, BrowseServer, BrowseDatabase, DropDatabase, Test, Update,
       Delete, Begin, Get, GetDb, Acquire, AcquireFail, EndStatement, EndRequest,
       RemoveMainClosed, RemoveDbLock, RemoveDone, ClosePgDbDone, Cancel, Continue, End
  <2>2. \/ UNCHANGED job
        \/ \E j : job' = [job EXCEPT ![r] = j]
    <3>1. CASE InsertClosed(r)
      BY <3>1, AfterInsertCases DEF InsertClosed, End
    <3>2. CASE ConnectFail(r)
      <4>1. Continue(r, "evict") \/ End(r)
        BY <3>2 DEF ConnectFail
      <4> QED BY <4>1 DEF Continue, End
    <3> QED BY <3>1, <3>2 DEF Start, BrowseServer, BrowseDatabase, DropDatabase, Test, Update,
       Delete, Begin, Get, GetDb, Acquire, AcquireFail, EndStatement, EndRequest,
       RemoveMainClosed, RemoveDbLock, RemoveDone, ClosePgDbDone, Cancel, Continue, End
  <2> QED BY <2>1, <2>2 DEF Base, TypeOK
<1>4. \A q \in Req : Publishing(q)' => pc'[q] = pc[q] /\ held'[q] = held[q] /\ job'[q] = job[q]
  BY <1>2, <1>3 DEF Publishing, Base, TypeOK
<1>5. \A c \in Conn : row'[c].ver >= row[c].ver
  BY <1>1 DEF Base, TypeOK
<1> QED BY <1>1, <1>4, <1>5, QuietSlots

LEMMA WriteSlots ==
    ASSUME Base, Base', Slots, NEW r \in Req, Write(r)
    PROVE  Slots'
<1>1. /\ pc' = [pc EXCEPT ![r] = "evict"]
      /\ WriteRow(job[r].op, job[r].conn)
      /\ UNCHANGED <<pool, pools, dbPools, job, held>>
  BY DEF Write, Continue, Goto, registry
<1>2. \A c \in Conn : row'[c].ver >= row[c].ver
  <2>1. job[r].conn \in Conn
    BY DEF Write, Base, JobsSound, Job
  <2>2. CASE UNCHANGED row
    BY <2>2 DEF Base, TypeOK
  <2>3. CASE job[r].op = "update" /\ row[job[r].conn].live
    <3>1. row' = [row EXCEPT ![job[r].conn] = [live |-> TRUE, ver |-> row[job[r].conn].ver + 1]]
      BY <1>1, <2>3 DEF WriteRow
    <3> QED BY <2>1, <3>1 DEF Base, TypeOK
  <2>4. CASE job[r].op # "update" /\ row[job[r].conn].live
    <3>1. row' = [row EXCEPT ![job[r].conn] = [live |-> FALSE, ver |-> row[job[r].conn].ver]]
      BY <1>1, <2>4 DEF WriteRow
    <3> QED BY <2>1, <3>1 DEF Base, TypeOK
  <2> QED BY <1>1, <2>2, <2>3, <2>4 DEF WriteRow
<1>3. \A q \in Req : Publishing(q)' => pc'[q] = pc[q] /\ held'[q] = held[q] /\ job'[q] = job[q]
  BY <1>1 DEF Publishing, Base, TypeOK
<1> QED BY <1>1, <1>2, <1>3, QuietSlots

(* A new pool was nobody's: free pools are in no slot. *)
LEMMA ConnectSlots ==
    ASSUME Base, Base', Slots, NEW r \in Req, Connect(r)
    PROVE  Slots'
<1>1. PICK p \in Pool :
        /\ pool[p].st = "free"
        /\ pool' = [pool EXCEPT ![p] =
                      [st |-> "open", conn |-> job[r].conn, ver |-> job[r].ver]]
        /\ held' = [held EXCEPT ![r] = p]
  BY DEF Connect
<1>2. /\ UNCHANGED <<row, pools, dbPools, job>>
      /\ \E s \in {"publish", "publishdb"} :
            pc' = [pc EXCEPT ![r] = s] /\ (s = "publishdb" => IsPg(job[r].ver))
  BY DEF Connect, registry, Goto, UsesSubPool
<1>3. /\ \A c \in Conn : pools[c] # p
      /\ \A k \in Conn \X Db : dbPools[k] # p
      /\ \A q \in Req : Publishing(q) => held[q] # p
  <2>1. p # None
    BY NoneAssumption
  <2>2. \A c \in Conn : pools[c] # p
    BY <1>1, <2>1 DEF Slots, MainSlots
  <2>3. \A k \in Conn \X Db : dbPools[k] # p
    <3>1. \A k \in Conn \X Db : dbPools[k] # None => pool[dbPools[k]].st = "open"
      BY DEF Slots, SubSlots
    <3> QED BY <1>1, <2>1, <3>1
  <2>4. \A q \in Req : Publishing(q) => pool[held[q]].st = "open"
    <3> SUFFICES ASSUME NEW q \in Req, Publishing(q) PROVE pool[held[q]].st = "open"
      OBVIOUS
    <3>1. pool[held[q]] = [st |-> "open", conn |-> job[q].conn, ver |-> job[q].ver]
      BY DEF Slots, NewPoolsPrivate
    <3> QED BY <3>1
  <2> QED BY <1>1, <2>2, <2>3, <2>4
<1>4. \A q \in Pool : q # p => pool'[q] = pool[q]
  BY <1>1 DEF Base, TypeOK
<1>5. MainSlots'
  BY <1>2, <1>3, <1>4 DEF Base, TypeOK, Slots, MainSlots
<1>6. SubSlots'
  BY <1>2, <1>3, <1>4 DEF Base, TypeOK, Slots, SubSlots, IsPg
<1>7. SlotsApart'
  BY <1>2 DEF Slots, SlotsApart
<1>8. NewPoolsPrivate'
  <2> SUFFICES ASSUME NEW q \in Req, Publishing(q)'
               PROVE  /\ pool'[held'[q]] = [st |-> "open", conn |-> job'[q].conn, ver |-> job'[q].ver]
                      /\ pc'[q] = "publishdb" => IsPg(job'[q].ver)
                      /\ \A c \in Conn : pools'[c] # held'[q]
                      /\ \A k \in Conn \X Db : dbPools'[k] # held'[q]
                      /\ \A o \in Req \ {q} : Publishing(o)' => held'[o] # held'[q]
    BY DEF NewPoolsPrivate, Publishing, IsPg
  <2>1. CASE q = r
    BY <1>1, <1>2, <1>3, <2>1 DEF Base, TypeOK, Publishing
  <2>2. CASE q # r
    <3>1. Publishing(q) /\ held'[q] = held[q] /\ pc'[q] = pc[q] /\ job'[q] = job[q]
      BY <1>1, <1>2, <2>2 DEF Base, TypeOK, Publishing
    <3>2. held[q] \in Pool /\ held[q] # p
      BY <1>3, <3>1 DEF Base, LocalsSound, Publishing
    <3>3. pool'[held[q]] = pool[held[q]]
      BY <1>4, <3>2
    <3>4. \A o \in Req \ {q} : Publishing(o)' => held'[o] # held[q]
      <4> SUFFICES ASSUME NEW o \in Req \ {q}, Publishing(o)' PROVE held'[o] # held[q]
        OBVIOUS
      <4>1. CASE o = r
        BY <1>1, <3>2, <4>1 DEF Base, TypeOK
      <4>2. CASE o # r
        <5>1. Publishing(o) /\ held'[o] = held[o]
          BY <1>1, <1>2, <4>2 DEF Base, TypeOK, Publishing
        <5> QED BY <3>1, <5>1 DEF Slots, NewPoolsPrivate
      <4> QED BY <4>1, <4>2
    <3>5. /\ pool[held[q]] = [st |-> "open", conn |-> job[q].conn, ver |-> job[q].ver]
          /\ pc[q] = "publishdb" => IsPg(job[q].ver)
          /\ \A c \in Conn : pools[c] # held[q]
          /\ \A k \in Conn \X Db : dbPools[k] # held[q]
      BY <3>1 DEF Slots, NewPoolsPrivate
    <3> QED BY <1>2, <3>1, <3>3, <3>4, <3>5
  <2> QED BY <2>1, <2>2
<1> QED BY <1>5, <1>6, <1>7, <1>8 DEF Slots

(* Publishing replaces one slot by a pool no other slot holds; the pool     *)
(* that is closed, if one is, has left its only slot.                       *)
LEMMA InsertSlots ==
    ASSUME Base, Base', Slots, NEW r \in Req, Insert(r)
    PROVE  Slots'
<1> DEFINE c == job[r].conn
           p == held[r]
<1>1. c \in Conn /\ p \in Pool /\ Publishing(r) /\ job[r].ver \in 1 .. row[c].ver
  BY DEF Insert, Base, JobsSound, LocalsSound, Job, Publishing
<1>2. pools' = [pools EXCEPT ![c] = p] /\ UNCHANGED <<row, dbPools>>
  BY DEF Insert
<1>3. /\ pool[p] = [st |-> "open", conn |-> c, ver |-> job[r].ver]
      /\ \A d \in Conn : pools[d] # p
      /\ \A k \in Conn \X Db : dbPools[k] # p
      /\ \A q \in Req \ {r} : Publishing(q) => held[q] # p
  BY <1>1 DEF Slots, NewPoolsPrivate
<1>4. \A q \in Pool : q # pools[c] => pool'[q] = pool[q]
  <2>1. CASE UNCHANGED pool
    BY <2>1
  <2>2. CASE pools[c] # None /\ Close(pools[c])
    BY <1>1, <2>2, CloseFacts DEF Base, TypeOK
  <2> QED BY <2>1, <2>2 DEF Insert
<1>5. \A q \in Req : Publishing(q)' =>
         Publishing(q) /\ q # r /\ pc'[q] = pc[q] /\ held'[q] = held[q] /\ job'[q] = job[q]
  <2>1. CASE AfterInsert(r)
    <3>1. CASE End(r)
      BY <3>1 DEF End, Goto, Publishing, Base, TypeOK
    <3>2. CASE Goto(r, "ready") /\ UNCHANGED <<job, held>>
      BY <3>2 DEF Goto, Publishing, Base, TypeOK
    <3> QED BY <2>1, <3>1, <3>2, AfterInsertCases
  <2>2. CASE Goto(r, "replaced") /\ UNCHANGED <<job, held>>
    BY <2>2 DEF Goto, Publishing, Base, TypeOK
  <2> QED BY <2>1, <2>2 DEF Insert
<1>6. pools[c] # None =>
         /\ pools[c] \in Pool
         /\ \A d \in Conn : d # c => pools[d] # pools[c]
         /\ \A k \in Conn \X Db : dbPools[k] # pools[c]
         /\ \A q \in Req : Publishing(q) => held[q] # pools[c]
  <2>1. pools[c] # None => pools[c] \in Pool
    BY <1>1 DEF Base, TypeOK
  <2>2. \A d \in Conn : d # c /\ pools[c] # None => pools[d] # pools[c]
    BY <1>1 DEF Slots, MainSlots
  <2>3. pools[c] # None => \A k \in Conn \X Db : dbPools[k] # pools[c]
    BY <1>1 DEF Slots, SlotsApart
  <2>4. \A q \in Req : Publishing(q) => held[q] # pools[c]
    BY <1>1 DEF Slots, NewPoolsPrivate
  <2> QED BY <2>1, <2>2, <2>3, <2>4
<1> HIDE DEF c, p
<1>7. MainSlots'
  BY <1>1, <1>2, <1>3, <1>4, <1>6 DEF Base, TypeOK, Slots, MainSlots
<1>8. SubSlots'
  BY <1>1, <1>2, <1>4, <1>6 DEF Base, TypeOK, Slots, SubSlots, IsPg
<1>9. SlotsApart'
  BY <1>1, <1>2, <1>3 DEF Base, TypeOK, Slots, SlotsApart
<1>10. NewPoolsPrivate'
  <2> SUFFICES ASSUME NEW q \in Req, Publishing(q)'
               PROVE  /\ pool'[held'[q]] = [st |-> "open", conn |-> job'[q].conn, ver |-> job'[q].ver]
                      /\ pc'[q] = "publishdb" => IsPg(job'[q].ver)
                      /\ \A d \in Conn : pools'[d] # held'[q]
                      /\ \A k \in Conn \X Db : dbPools'[k] # held'[q]
                      /\ \A o \in Req \ {q} : Publishing(o)' => held'[o] # held'[q]
    BY DEF NewPoolsPrivate, Publishing, IsPg
  <2>1. Publishing(q) /\ q # r /\ pc'[q] = pc[q] /\ held'[q] = held[q] /\ job'[q] = job[q]
    BY <1>5
  <2>2. held[q] \in Pool /\ held[q] # p /\ (pools[c] # None => held[q] # pools[c])
    BY <1>3, <1>6, <2>1 DEF Base, LocalsSound, Publishing
  <2>3. held[q] # pools[c]
    BY <1>1, <2>1 DEF Slots, NewPoolsPrivate
  <2>4. pool'[held[q]] = pool[held[q]]
    BY <1>4, <2>2, <2>3
  <2>5. /\ pool[held[q]] = [st |-> "open", conn |-> job[q].conn, ver |-> job[q].ver]
        /\ pc[q] = "publishdb" => IsPg(job[q].ver)
        /\ \A d \in Conn : pools[d] # held[q]
        /\ \A k \in Conn \X Db : dbPools[k] # held[q]
        /\ \A o \in Req \ {q} : Publishing(o) => held[o] # held[q]
    BY <2>1 DEF Slots, NewPoolsPrivate
  <2>6. \A d \in Conn : pools'[d] # held[q]
    BY <1>1, <1>2, <2>2, <2>5 DEF Base, TypeOK
  <2>7. \A o \in Req \ {q} : Publishing(o)' => held'[o] # held[q]
    BY <1>5, <2>5
  <2> QED BY <1>2, <2>1, <2>4, <2>5, <2>6, <2>7
<1> QED BY <1>7, <1>8, <1>9, <1>10 DEF Slots

(* pg_pool publishes the same way, and closes nothing. *)
LEMMA InsertDbSlots ==
    ASSUME Base, Base', Slots, NEW r \in Req, InsertDb(r)
    PROVE  Slots'
<1> DEFINE k == Key(r)
           p == held[r]
<1>1. /\ k \in Conn \X Db /\ k[1] = job[r].conn
      /\ p \in Pool /\ Publishing(r) /\ pc[r] = "publishdb"
      /\ job[r].ver \in 1 .. row[job[r].conn].ver
  BY DEF InsertDb, Key, Base, JobsSound, LocalsSound, Job, Publishing
<1>2. /\ dbPools' = [dbPools EXCEPT ![k] = p]
      /\ pc' = [pc EXCEPT ![r] = "ready"]
      /\ UNCHANGED <<row, pool, pools, job, held>>
  BY DEF InsertDb, Continue, Goto
<1>3. /\ pool[p] = [st |-> "open", conn |-> job[r].conn, ver |-> job[r].ver]
      /\ IsPg(job[r].ver)
      /\ \A c \in Conn : pools[c] # p
      /\ \A l \in Conn \X Db : dbPools[l] # p
      /\ \A q \in Req \ {r} : Publishing(q) => held[q] # p
  BY <1>1 DEF Slots, NewPoolsPrivate
<1> HIDE DEF k, p
<1>4. MainSlots'
  BY <1>2 DEF Slots, MainSlots
<1>5. SubSlots'
  BY <1>1, <1>2, <1>3 DEF Base, TypeOK, Slots, SubSlots, IsPg
<1>6. SlotsApart'
  BY <1>1, <1>2, <1>3 DEF Base, TypeOK, Slots, SlotsApart
<1>7. NewPoolsPrivate'
  <2>1. \A q \in Req : Publishing(q)' => Publishing(q) /\ q # r /\ pc'[q] = pc[q]
    BY <1>2 DEF Publishing, Base, TypeOK
  <2>2. \A l \in Conn \X Db : dbPools'[l] = dbPools[l] \/ dbPools'[l] = p
    BY <1>2 DEF Base, TypeOK
  <2>3. \A q \in Req : Publishing(q)' => \A l \in Conn \X Db : dbPools'[l] # held[q]
    <3> SUFFICES ASSUME NEW q \in Req, Publishing(q)', NEW l \in Conn \X Db
                 PROVE  dbPools'[l] # held[q]
      OBVIOUS
    <3>1. Publishing(q) /\ q # r
      BY <2>1
    <3>2. dbPools[l] # held[q]
      BY <3>1 DEF Slots, NewPoolsPrivate
    <3>3. p # held[q]
      BY <1>3, <3>1
    <3> QED BY <2>2, <3>2, <3>3
  <2> QED BY <1>2, <2>1, <2>3 DEF Slots, NewPoolsPrivate, IsPg
<1> QED BY <1>4, <1>5, <1>6, <1>7 DEF Slots

(* remove and close_pg_db: a pool leaves its only slot and is then closed. *)
LEMMA EvictSlots ==
    ASSUME Base, Base', Slots, NEW p \in Pool, Close(p),
           UNCHANGED row,
           \A c \in Conn : pools'[c] = pools[c] \/ pools'[c] = None,
           \A k \in Conn \X Db : dbPools'[k] = dbPools[k] \/ dbPools'[k] = None,
           \A c \in Conn : pools'[c] # p,
           \A k \in Conn \X Db : dbPools'[k] # p,
           \A q \in Req : Publishing(q) => held[q] # p,
           \A q \in Req : Publishing(q)' =>
               Publishing(q) /\ pc'[q] = pc[q] /\ held'[q] = held[q] /\ job'[q] = job[q]
    PROVE  Slots'
<1>1. \A q \in Pool : q # p => pool'[q] = pool[q]
  BY CloseFacts DEF Base, TypeOK
<1>2. \A c \in Conn : pools'[c] # None =>
         pools'[c] = pools[c] /\ pools[c] \in Pool /\ pool'[pools[c]] = pool[pools[c]]
  BY <1>1 DEF Base, TypeOK
<1>3. \A k \in Conn \X Db : dbPools'[k] # None =>
         dbPools'[k] = dbPools[k] /\ dbPools[k] \in Pool /\ pool'[dbPools[k]] = pool[dbPools[k]]
  BY <1>1 DEF Base, TypeOK
<1>4. MainSlots'
  BY <1>2 DEF Slots, MainSlots
<1>5. SubSlots'
  BY <1>3 DEF Slots, SubSlots, IsPg
<1>6. SlotsApart'
  <2>1. \A c \in Conn, k \in Conn \X Db : pools'[c] # None => dbPools'[k] # pools'[c]
    BY <1>2, <1>3 DEF Slots, SlotsApart
  <2>2. \A k, l \in Conn \X Db : dbPools'[k] # None /\ dbPools'[k] = dbPools'[l] => k = l
    BY <1>3 DEF Slots, SlotsApart
  <2> QED BY <2>1, <2>2 DEF SlotsApart
<1>7. NewPoolsPrivate'
  <2> SUFFICES ASSUME NEW q \in Req, Publishing(q)'
               PROVE  /\ pool'[held'[q]] = [st |-> "open", conn |-> job'[q].conn, ver |-> job'[q].ver]
                      /\ pc'[q] = "publishdb" => IsPg(job'[q].ver)
                      /\ \A d \in Conn : pools'[d] # held'[q]
                      /\ \A k \in Conn \X Db : dbPools'[k] # held'[q]
                      /\ \A o \in Req \ {q} : Publishing(o)' => held'[o] # held'[q]
    BY DEF NewPoolsPrivate, Publishing, IsPg
  <2>1. Publishing(q) /\ pc'[q] = pc[q] /\ held'[q] = held[q] /\ job'[q] = job[q]
    OBVIOUS
  <2>2. held[q] \in Pool /\ held[q] # p /\ held[q] # None
    BY <2>1, NoneAssumption DEF Base, LocalsSound, Publishing
  <2>3. /\ pool[held[q]] = [st |-> "open", conn |-> job[q].conn, ver |-> job[q].ver]
        /\ pc[q] = "publishdb" => IsPg(job[q].ver)
        /\ \A d \in Conn : pools[d] # held[q]
        /\ \A k \in Conn \X Db : dbPools[k] # held[q]
        /\ \A o \in Req \ {q} : Publishing(o) => held[o] # held[q]
    BY <2>1 DEF Slots, NewPoolsPrivate
  <2>4. \A d \in Conn : pools'[d] # held[q]
    BY <2>2, <2>3
  <2>5. \A k \in Conn \X Db : dbPools'[k] # held[q]
    BY <2>2, <2>3
  <2>6. \A o \in Req \ {q} : Publishing(o)' => held'[o] # held[q]
    BY <2>3
  <2> QED BY <1>1, <2>1, <2>2, <2>3, <2>4, <2>5, <2>6
<1> QED BY <1>4, <1>5, <1>6, <1>7 DEF Slots

(* A pool in a slot is not one that waits to be published. *)
LEMMA RegisteredNotNew ==
    ASSUME Slots
    PROVE  /\ \A c \in Conn : \A q \in Req : Publishing(q) => held[q] # pools[c]
           /\ \A k \in Conn \X Db : \A q \in Req : Publishing(q) => held[q] # dbPools[k]
BY DEF Slots, NewPoolsPrivate

LEMMA RemoveMainSlots ==
    ASSUME Base, Base', Slots, NEW r \in Req, RemoveMain(r)
    PROVE  Slots'
<1> DEFINE c == job[r].conn
<1>1. c \in Conn /\ UNCHANGED <<row, dbPools>>
  BY DEF RemoveMain, Base, JobsSound, Job
<1>2. CASE pools[c] = None /\ Continue(r, "evictdb") /\ UNCHANGED <<pool, pools, lock>>
  <2>1. \A q \in Req : Publishing(q)' => pc'[q] = pc[q] /\ held'[q] = held[q] /\ job'[q] = job[q]
    BY <1>2 DEF Continue, Goto, Publishing, Base, TypeOK
  <2>2. \A d \in Conn : row'[d].ver >= row[d].ver
    BY <1>1 DEF Base, TypeOK
  <2> QED BY <1>1, <1>2, <2>1, <2>2, QuietSlots
<1>3. CASE /\ pools[c] # None /\ pools' = [pools EXCEPT ![c] = None] /\ Close(pools[c])
           /\ Goto(r, "removed") /\ UNCHANGED <<job, held>>
  <2>1. pools[c] \in Pool /\ pools[c] # None
    BY <1>1, <1>3 DEF Base, TypeOK
  <2>2. \A d \in Conn : pools'[d] = IF d = c THEN None ELSE pools[d]
    BY <1>1, <1>3 DEF Base, TypeOK
  <2>3. \A d \in Conn : pools'[d] # pools[c]
    BY <1>1, <2>1, <2>2 DEF Slots, MainSlots
  <2>4. \A k \in Conn \X Db : dbPools'[k] # pools[c]
    BY <1>1, <2>1 DEF Slots, SlotsApart
  <2>5. \A q \in Req : Publishing(q)' =>
           Publishing(q) /\ pc'[q] = pc[q] /\ held'[q] = held[q] /\ job'[q] = job[q]
    BY <1>3 DEF Goto, Publishing, Base, TypeOK
  <2>6. \A d \in Conn : pools'[d] = pools[d] \/ pools'[d] = None
    BY <2>2
  <2>7. \A q \in Req : Publishing(q) => held[q] # pools[c]
    BY <1>1, RegisteredNotNew
  <2> HIDE DEF c
  <2> QED BY <1>1, <1>3, <2>1, <2>3, <2>4, <2>5, <2>6, <2>7, EvictSlots
<1> QED BY <1>2, <1>3 DEF RemoveMain

(* The two ways a sub-pool is taken out of the registry. *)
LEMMA TakeSubPoolSlots ==
    ASSUME Base, Base', Slots, NEW k \in Conn \X Db,
           dbPools[k] # None, dbPools' = [dbPools EXCEPT ![k] = None], Close(dbPools[k]),
           UNCHANGED <<row, pools>>,
           \A q \in Req : Publishing(q)' =>
               Publishing(q) /\ pc'[q] = pc[q] /\ held'[q] = held[q] /\ job'[q] = job[q]
    PROVE  Slots'
<1>1. dbPools[k] \in Pool
  BY DEF Base, TypeOK
<1>2. \A l \in Conn \X Db : dbPools'[l] = IF l = k THEN None ELSE dbPools[l]
  BY DEF Base, TypeOK
<1>3. \A l \in Conn \X Db : dbPools'[l] = dbPools[l] \/ dbPools'[l] = None
  BY <1>2
<1>4. \A l \in Conn \X Db : dbPools'[l] # dbPools[k]
  BY <1>2 DEF Slots, SlotsApart
<1>5. \A c \in Conn : pools'[c] # dbPools[k]
  BY DEF Slots, SlotsApart
<1>6. \A q \in Req : Publishing(q) => held[q] # dbPools[k]
  BY RegisteredNotNew
<1> QED BY <1>1, <1>3, <1>4, <1>5, <1>6, EvictSlots

LEMMA RemoveDbSlots ==
    ASSUME Base, Base', Slots, NEW r \in Req, NEW d \in Db, RemoveDb(r, d)
    PROVE  Slots'
<1> DEFINE k == <<job[r].conn, d>>
<1>1. k \in Conn \X Db
  BY DEF RemoveDb, SweepReady, Base, JobsSound, Job
<1>2. /\ dbPools[k] # None /\ dbPools' = [dbPools EXCEPT ![k] = None] /\ Close(dbPools[k])
      /\ UNCHANGED <<row, pools, pc, job, held>>
  BY DEF RemoveDb
<1>3. \A q \in Req : Publishing(q)' =>
         Publishing(q) /\ pc'[q] = pc[q] /\ held'[q] = held[q] /\ job'[q] = job[q]
  BY <1>2 DEF Publishing
<1> HIDE DEF k
<1> QED BY <1>1, <1>2, <1>3, TakeSubPoolSlots

LEMMA ClosePgDbSlots ==
    ASSUME Base, Base', Slots, NEW r \in Req, ClosePgDb(r)
    PROVE  Slots'
<1> DEFINE k == Key(r)
<1>1. k \in Conn \X Db /\ UNCHANGED <<row, pools>>
  BY DEF ClosePgDb, Key, Base, JobsSound, Job
<1>2. CASE Continue(r, "get") /\ UNCHANGED <<pool, dbPools>>
  <2>1. \A q \in Req : Publishing(q)' => pc'[q] = pc[q] /\ held'[q] = held[q] /\ job'[q] = job[q]
    BY <1>2 DEF Continue, Goto, Publishing, Base, TypeOK
  <2>2. \A d \in Conn : row'[d].ver >= row[d].ver
    BY <1>1 DEF Base, TypeOK
  <2> QED BY <1>1, <1>2, <2>1, <2>2, QuietSlots
<1>3. CASE /\ dbPools[k] # None /\ dbPools' = [dbPools EXCEPT ![k] = None] /\ Close(dbPools[k])
           /\ Goto(r, "unshared") /\ UNCHANGED <<job, held>>
  <2>1. \A q \in Req : Publishing(q)' =>
           Publishing(q) /\ pc'[q] = pc[q] /\ held'[q] = held[q] /\ job'[q] = job[q]
    BY <1>3 DEF Goto, Publishing, Base, TypeOK
  <2> HIDE DEF k
  <2> QED BY <1>1, <1>3, <2>1, TakeSubPoolSlots
<1> QED BY <1>2, <1>3 DEF ClosePgDb

LEMMA EnvironmentSlots ==
    ASSUME Base, Base', Slots,
           \/ \E c \in Conn : CreateConnection(c)
           \/ \E p \in Pool : DropPool(p)
           \/ Restart
           \/ UNCHANGED vars
    PROVE  Slots'
<1>1. ASSUME NEW c \in Conn, CreateConnection(c) PROVE Slots'
  <2>1. UNCHANGED <<pool, pools, dbPools, pc, held, job>>
    BY <1>1 DEF CreateConnection, registry
  <2>2. \A d \in Conn : row'[d].ver >= row[d].ver
    BY <1>1 DEF CreateConnection, Base, TypeOK
  <2> QED BY <2>1, <2>2, QuietSlots
<1>2. ASSUME NEW p \in Pool, DropPool(p) PROVE Slots'
  <2>1. /\ pool' = [pool EXCEPT ![p] = FreePool] /\ ~Referenced(p)
        /\ UNCHANGED <<row, pools, dbPools, pc, held, job>>
    BY <1>2 DEF DropPool, registry
  <2>2. \A q \in Pool : q # p => pool'[q] = pool[q]
    BY <2>1 DEF Base, TypeOK
  <2>3. /\ \A c \in Conn : pools[c] # p
        /\ \A k \in Conn \X Db : dbPools[k] # p
        /\ \A q \in Req : held[q] # p
    BY <2>1 DEF Referenced
  <2>4. MainSlots'
    BY <2>1, <2>2, <2>3 DEF Base, TypeOK, Slots, MainSlots
  <2>5. SubSlots'
    BY <2>1, <2>2, <2>3 DEF Base, TypeOK, Slots, SubSlots, IsPg
  <2>6. SlotsApart'
    BY <2>1 DEF Slots, SlotsApart
  <2>7. \A q \in Req : Publishing(q) => held[q] \in Pool
    BY DEF Publishing, Base, LocalsSound
  <2>8. NewPoolsPrivate'
    BY <2>1, <2>2, <2>3, <2>7 DEF Slots, NewPoolsPrivate, Publishing, IsPg
  <2> QED BY <2>4, <2>5, <2>6, <2>8 DEF Slots
<1>3. CASE Restart
  BY <1>3, NoneAssumption DEF Restart, Slots, MainSlots, SubSlots, SlotsApart, NewPoolsPrivate,
     Publishing
<1>4. CASE UNCHANGED vars
  BY <1>4 DEF vars, Slots, MainSlots, SubSlots, SlotsApart, NewPoolsPrivate, Publishing, IsPg
<1> QED BY <1>1, <1>2, <1>3, <1>4

LEMMA NextSlots == Base /\ Base' /\ Slots /\ [Next]_vars => Slots'
<1> SUFFICES ASSUME Base, Base', Slots, [Next]_vars PROVE Slots'
  OBVIOUS
<1>1. ASSUME NEW r \in Req, Start(r) \/ Advance(r) \/ Cancel(r) PROVE Slots'
  <2>1. ASSUME NEW d \in Db, RemoveDb(r, d) PROVE Slots'
    BY <2>1, RemoveDbSlots
  <2> QED BY <1>1, <2>1, QuietSteps, ConnectSlots, InsertSlots, InsertDbSlots, WriteSlots,
     RemoveMainSlots, ClosePgDbSlots DEF Advance
<1> QED BY <1>1, EnvironmentSlots DEF Next

LEMMA AlwaysSlots == Spec => [](Base /\ Slots)
BY InitBase, NextBase, InitSlots, NextSlots, PTL DEF Spec

(* The registry never serves a closed pool, for any number of requests and  *)
(* with clients that may leave at any await (PoolManager::get, pg_pool).    *)
THEOREM NeverServesClosed == Spec => []RegisteredPoolsOpen
<1>1. Slots => RegisteredPoolsOpen
  BY DEF Slots, MainSlots, SubSlots, RegisteredPoolsOpen
<1> QED BY <1>1, AlwaysSlots, PTL

(* A cached pool belongs to the connection it is cached for, comes from a   *)
(* row that connection had, and sits in one slot only.                      *)
THEOREM ServesOwnConnection == Spec => []RegisteredUnderOwnConn
<1>1. Slots => RegisteredUnderOwnConn
  BY DEF Slots, MainSlots, SubSlots, SlotsApart, RegisteredUnderOwnConn
<1> QED BY <1>1, AlwaysSlots, PTL

(***************************************************************************)
(* Closed pools and those who wait for them.                               *)
(***************************************************************************)

Awaited ==
    \A p \in Pool : pool[p].st = "closed" /\ ~Drained(p) => \E r \in Req : drain[r] = p

(* A step closes a pool only to wait for it, starts no statement on a       *)
(* closed pool, and gives up waiting only when the last statement is over.  *)
Waits ==
    /\ \A p \in Pool : pool'[p].st = "closed" =>
         pool[p].st = "closed" \/ \E r \in Req : drain'[r] = p
    /\ \A q \in Req : pc'[q] = "query" /\ held'[q] \in Pool /\ pool'[held'[q]].st = "closed"
         => pc[q] = "query" /\ held[q] = held'[q]
    /\ \A r \in Req : drain[r] # None => drain'[r] = drain[r] \/ Drained(drain[r])

LEMMA WaitsKeepAwaited ==
    ASSUME Base, Base', Awaited, Waits
    PROVE  Awaited'
<1> SUFFICES ASSUME NEW p \in Pool, pool'[p].st = "closed", ~Drained(p)'
             PROVE  \E r \in Req : drain'[r] = p
  BY DEF Awaited
<1>1. PICK q \in Req : pc'[q] = "query" /\ held'[q] = p
  BY DEF Drained
<1>2. ~Drained(p)
  BY <1>1 DEF Waits, Drained
<1>3. CASE pool[p].st = "closed"
  <2>1. PICK r \in Req : drain[r] = p
    BY <1>2, <1>3 DEF Awaited
  <2>2. drain[r] # None
    BY <2>1, NoneAssumption
  <2>3. drain'[r] = p
    BY <1>2, <2>1, <2>2 DEF Waits
  <2> QED BY <2>3
<1>4. CASE pool[p].st # "closed"
  BY <1>4 DEF Waits
<1> QED BY <1>3, <1>4

(* Steps that close nothing and end no wait. *)
LEMMA CalmWaits ==
    ASSUME Base, NEW r \in Req,
           \/ Start(r) \/ Get(r) \/ GetDb(r) \/ ConnectFail(r) \/ Acquire(r)
           \/ AcquireFail(r) \/ EndStatement(r) \/ EndRequest(r) \/ Write(r)
           \/ InsertDb(r) \/ RemoveDbLock(r)
    PROVE  Waits
<1>1. UNCHANGED pool
  BY DEF Start, BrowseServer, BrowseDatabase, DropDatabase, Test, Update, Delete, Begin,
     Get, GetDb, ConnectFail, Acquire, AcquireFail, EndStatement, EndRequest, Write,
     InsertDb, RemoveDbLock
<1>2. \A q \in Req : q # r => pc'[q] = pc[q] /\ held'[q] = held[q] /\ drain'[q] = drain[q]
  BY DEF Start, BrowseServer, BrowseDatabase, DropDatabase, Test, Update, Delete, Begin,
     Get, GetDb, ConnectFail, Acquire, AcquireFail, EndStatement, EndRequest, Write,
     InsertDb, RemoveDbLock, Goto, End, Continue, Base, TypeOK
<1>3. pc'[r] # "query" \/ (pool[held[r]].st = "open" /\ held' = held)
  BY DEF Start, BrowseServer, BrowseDatabase, DropDatabase, Test, Update, Delete, Begin,
     Get, GetDb, ConnectFail, Acquire, AcquireFail, EndStatement, EndRequest, Write,
     InsertDb, RemoveDbLock, Goto, End, Continue, Base, TypeOK
<1>4. drain[r] = None
  BY DEF Start, BrowseServer, BrowseDatabase, DropDatabase, Test, Update, Delete, Begin,
     Get, GetDb, ConnectFail, Acquire, AcquireFail, EndStatement, EndRequest, Write,
     InsertDb, RemoveDbLock, Base, LocalsSound, Closing
<1> QED BY <1>1, <1>2, <1>3, <1>4 DEF Waits

(* Steps that take pools out, and those that end the wait for them. *)
LEMMA ClosingWaits ==
    ASSUME Base, NEW r \in Req, NEW p \in Pool, Close(p), drain' = [drain EXCEPT ![r] = p],
           held' = held, \A q \in Req : pc'[q] = "query" => pc[q] = "query",
           drain[r] = None \/ Drained(drain[r])
    PROVE  Waits
<1>1. \A q \in Pool : q # p => pool'[q] = pool[q]
  BY CloseFacts DEF Base, TypeOK
<1>2. drain'[r] = p /\ \A q \in Req : q # r => drain'[q] = drain[q]
  BY DEF Base, TypeOK
<1> QED BY <1>1, <1>2 DEF Waits

LEMMA DrainedWaits ==
    ASSUME Base, NEW r \in Req,
           InsertClosed(r) \/ RemoveMainClosed(r) \/ RemoveDone(r) \/ ClosePgDbDone(r)
    PROVE  Waits
<1>1. UNCHANGED pool /\ (drain[r] = None \/ Drained(drain[r]))
  BY DEF InsertClosed, RemoveMainClosed, RemoveDone, SweepReady, ClosePgDbDone
<1>2. CASE End(r)
  BY <1>1, <1>2 DEF End, Goto, Waits, Base, TypeOK
<1>3. CASE drain' = [drain EXCEPT ![r] = None] /\ held' = held
           /\ \E s \in {"ready", "evictdb", "get"} : Goto(r, s)
  BY <1>1, <1>3 DEF Goto, Waits, Base, TypeOK
<1> QED BY <1>2, <1>3 DEF InsertClosed, RemoveMainClosed, RemoveDone, ClosePgDbDone,
   AfterInsert

LEMMA TakeOutWaits ==
    ASSUME Base, NEW r \in Req,
           \/ Insert(r) \/ RemoveMain(r) \/ ClosePgDb(r)
           \/ \E d \in Db : RemoveDb(r, d)
    PROVE  Waits
<1>0. job[r] \in Job /\ (pc[r] \in {"publish", "evict", "unshare"} => drain[r] = None)
  BY DEF Insert, RemoveMain, ClosePgDb, RemoveDb, SweepReady, Base, JobsSound, LocalsSound,
     Closing
<1>1. CASE Insert(r)
  <2>1. CASE pools[job[r].conn] = None
    <3>1. AfterInsert(r) /\ UNCHANGED pool /\ drain[r] = None
      BY <1>0, <1>1, <2>1 DEF Insert
    <3>2. CASE End(r)
      BY <3>1, <3>2 DEF End, Goto, Waits, Base, TypeOK
    <3>3. CASE Goto(r, "ready") /\ drain' = [drain EXCEPT ![r] = None] /\ held' = held
      BY <3>1, <3>3 DEF Goto, Waits, Base, TypeOK
    <3> QED BY <3>1, <3>2, <3>3, AfterInsertCases
  <2>2. CASE pools[job[r].conn] # None
    <3>1. /\ Close(pools[job[r].conn]) /\ drain' = [drain EXCEPT ![r] = pools[job[r].conn]]
          /\ Goto(r, "replaced") /\ held' = held /\ drain[r] = None
      BY <1>0, <1>1, <2>2 DEF Insert
    <3>2. pools[job[r].conn] \in Pool
      BY <1>0, <2>2 DEF Job, Base, TypeOK
    <3>3. \A q \in Req : pc'[q] = "query" => pc[q] = "query"
      BY <3>1 DEF Goto, Base, TypeOK
    <3> QED BY <3>1, <3>2, <3>3, ClosingWaits
  <2> QED BY <2>1, <2>2
<1>2. CASE RemoveMain(r)
  <2>1. CASE pools[job[r].conn] = None
    BY <1>2, <2>1 DEF RemoveMain, Continue, Goto, Waits, Base, TypeOK
  <2>2. CASE pools[job[r].conn] # None
    <3>1. /\ Close(pools[job[r].conn]) /\ drain' = [drain EXCEPT ![r] = pools[job[r].conn]]
          /\ Goto(r, "removed") /\ held' = held /\ drain[r] = None
      BY <1>0, <1>2, <2>2 DEF RemoveMain
    <3>2. pools[job[r].conn] \in Pool
      BY <1>0, <2>2 DEF Job, Base, TypeOK
    <3>3. \A q \in Req : pc'[q] = "query" => pc[q] = "query"
      BY <3>1 DEF Goto, Base, TypeOK
    <3> QED BY <3>1, <3>2, <3>3, ClosingWaits
  <2> QED BY <2>1, <2>2
<1>3. CASE ClosePgDb(r)
  <2>1. CASE dbPools[Key(r)] = None
    BY <1>3, <2>1 DEF ClosePgDb, Continue, Goto, Waits, Base, TypeOK
  <2>2. CASE dbPools[Key(r)] # None
    <3>1. /\ Close(dbPools[Key(r)]) /\ drain' = [drain EXCEPT ![r] = dbPools[Key(r)]]
          /\ Goto(r, "unshared") /\ held' = held /\ drain[r] = None
      BY <1>0, <1>3, <2>2 DEF ClosePgDb
    <3>2. dbPools[Key(r)] \in Pool
      BY <1>0, <2>2 DEF Key, Job, Base, TypeOK
    <3>3. \A q \in Req : pc'[q] = "query" => pc[q] = "query"
      BY <3>1 DEF Goto, Base, TypeOK
    <3> QED BY <3>1, <3>2, <3>3, ClosingWaits
  <2> QED BY <2>1, <2>2
<1>4. ASSUME NEW d \in Db, RemoveDb(r, d) PROVE Waits
  <2> DEFINE p == dbPools[<<job[r].conn, d>>]
  <2>1. /\ p # None /\ Close(p) /\ drain' = [drain EXCEPT ![r] = p]
        /\ UNCHANGED <<pc, held>> /\ (drain[r] = None \/ Drained(drain[r]))
    BY <1>4 DEF RemoveDb, SweepReady
  <2>2. p \in Pool
    BY <1>0, <2>1 DEF Job, Base, TypeOK
  <2> QED BY <2>1, <2>2, ClosingWaits
<1> QED BY <1>1, <1>2, <1>3, <1>4

LEMMA NextAwaited ==
    ASSUME Disconnects = FALSE, Base, Base', Awaited, [Next]_vars
    PROVE  Awaited'
<1>1. ASSUME NEW r \in Req, Connect(r) PROVE Waits
  <2>1. PICK p \in Pool :
          /\ pool[p].st = "free"
          /\ pool' = [pool EXCEPT ![p] =
                       [st |-> "open", conn |-> job[r].conn, ver |-> job[r].ver]]
          /\ held' = [held EXCEPT ![r] = p]
    BY <1>1 DEF Connect
  <2>2. pc[r] = "connect" /\ pc'[r] # "query" /\ UNCHANGED drain
        /\ \A q \in Req : q # r => pc'[q] = pc[q] /\ held'[q] = held[q]
    BY <1>1, <2>1 DEF Connect, Goto, Base, TypeOK
  <2>3. \A q \in Pool : pool'[q].st = "closed" => pool[q].st = "closed"
    BY <2>1 DEF Base, TypeOK
  <2> QED BY <2>2, <2>3 DEF Waits
<1>2. ASSUME NEW r \in Req, Start(r) \/ Advance(r) \/ Cancel(r) PROVE Waits
  <2>1. ~Cancel(r)
    BY DEF Cancel
  <2> QED BY <1>1, <1>2, <2>1, CalmWaits, DrainedWaits, TakeOutWaits DEF Advance
<1>3. ASSUME NEW c \in Conn, CreateConnection(c) PROVE Waits
  BY <1>3 DEF CreateConnection, Waits
<1>4. ASSUME NEW p \in Pool, DropPool(p) PROVE Waits
  BY <1>4 DEF DropPool, FreePool, Waits, Base, TypeOK
<1>5. CASE Restart
  BY <1>5 DEF Restart, FreePool, Awaited
<1>6. ASSUME UNCHANGED vars PROVE Waits
  BY <1>6 DEF vars, Waits
<1> QED BY <1>2, <1>3, <1>4, <1>5, <1>6, WaitsKeepAwaited DEF Next

(* insert, remove and close_pg_db do not return while a statement runs on   *)
(* the pool they took out, as long as no client goes away.                  *)
THEOREM EvictionWaits == Spec => []EvictedPoolsQuiet
<1>1. CASE Disconnects = FALSE
  <2>1. Init => Awaited
    BY DEF Init, Awaited, FreePool
  <2>2. Base /\ Base' /\ Awaited /\ [Next]_vars => Awaited'
    BY <1>1, NextAwaited
  <2>3. Awaited => EvictedPoolsQuiet
    BY DEF Awaited, EvictedPoolsQuiet
  <2> QED BY <2>1, <2>2, <2>3, AlwaysSlots, PTL DEF Spec
<1>2. CASE Disconnects # FALSE
  <2>1. EvictedPoolsQuiet
    BY <1>2 DEF EvictedPoolsQuiet
  <2> QED BY <2>1, PTL
<1> QED BY <1>1, <1>2

(***************************************************************************)
(* Who waits for whom.                                                     *)
(***************************************************************************)

HoldsMain(s) == s \in {"replaced", "removed"}
HoldsSub(s) == s \in {"sweep", "unshared"}

(* A write lock is held by the handler that awaits a close() under it, and  *)
(* by nobody else: no guard outlives its part of the code.                  *)
LocksSound ==
    \A r \in Req :
        /\ lock = r <=> HoldsMain(pc[r])
        /\ dbLock = r <=> HoldsSub(pc[r])

(* The three things a step of r can do to a lock l. *)
Keeps(l, m, before, after) == m = l /\ (before <=> after)
Takes(l, m, r, after) == l = None /\ m = r /\ after
Gives(m, before, after) == m = None /\ before /\ ~after

LEMMA LockStep ==
    ASSUME Base, LocksSound, NEW r \in Req, NEW s \in Step,
           pc' = [pc EXCEPT ![r] = s],
           \/ Keeps(lock, lock', HoldsMain(pc[r]), HoldsMain(s))
           \/ Takes(lock, lock', r, HoldsMain(s))
           \/ Gives(lock', HoldsMain(pc[r]), HoldsMain(s)),
           \/ Keeps(dbLock, dbLock', HoldsSub(pc[r]), HoldsSub(s))
           \/ Takes(dbLock, dbLock', r, HoldsSub(s))
           \/ Gives(dbLock', HoldsSub(pc[r]), HoldsSub(s))
    PROVE  LocksSound'
<1>1. pc'[r] = s /\ \A q \in Req : q # r => pc'[q] = pc[q]
  BY DEF Base, TypeOK
<1>2. \A q \in Req : lock' = q <=> HoldsMain(pc'[q])
  BY <1>1, NoneAssumption DEF LocksSound, Keeps, Takes, Gives
<1>3. \A q \in Req : dbLock' = q <=> HoldsSub(pc'[q])
  BY <1>1, NoneAssumption DEF LocksSound, Keeps, Takes, Gives
<1> QED BY <1>2, <1>3 DEF LocksSound

(* Most steps neither take a lock nor give one back. *)
LEMMA FreeStep ==
    ASSUME Base, LocksSound, NEW r \in Req, NEW s \in Step,
           pc' = [pc EXCEPT ![r] = s], UNCHANGED locks,
           ~HoldsMain(pc[r]), ~HoldsSub(pc[r]), ~HoldsMain(s), ~HoldsSub(s)
    PROVE  LocksSound'
BY LockStep DEF Keeps, locks

LEMMA PlainLocks ==
    ASSUME Base, LocksSound, NEW r \in Req,
           \/ Start(r) \/ Get(r) \/ GetDb(r) \/ Connect(r) \/ ConnectFail(r) \/ InsertDb(r)
           \/ Acquire(r) \/ AcquireFail(r) \/ EndStatement(r) \/ EndRequest(r) \/ Write(r)
    PROVE  LocksSound'
<1> DEFINE plain == Step \ {"replaced", "removed", "sweep", "unshared"}
<1>1. pc[r] \in plain /\ UNCHANGED locks
  BY DEF Start, BrowseServer, BrowseDatabase, DropDatabase, Test, Update, Delete, Begin, Get,
     GetDb, Connect, ConnectFail, InsertDb, Acquire, AcquireFail, EndStatement, EndRequest,
     Write, Step, locks
<1>2. \E s \in plain : pc' = [pc EXCEPT ![r] = s]
  <2>1. CASE Start(r)
    BY <2>1 DEF Start, BrowseServer, BrowseDatabase, DropDatabase, Test, Update, Delete, Begin,
       Goto, Step
  <2>2. CASE Get(r) \/ GetDb(r)
    BY <2>2 DEF Get, GetDb, Continue, Goto, End, Step
  <2>3. CASE Connect(r)
    BY <2>3 DEF Connect, Goto, Step
  <2>4. CASE ConnectFail(r)
    <3>1. Continue(r, "evict") \/ End(r)
      BY <2>4 DEF ConnectFail
    <3> QED BY <3>1 DEF Continue, Goto, End, Step
  <2>5. CASE InsertDb(r) \/ Acquire(r) \/ AcquireFail(r) \/ EndStatement(r) \/ EndRequest(r) \/ Write(r)
    BY <2>5 DEF InsertDb, Acquire, AcquireFail, EndStatement, EndRequest, Write, Continue, Goto,
       End, Step
  <2> QED BY <2>1, <2>2, <2>3, <2>4, <2>5
<1>3. PICK s \in plain : pc' = [pc EXCEPT ![r] = s]
  BY <1>2
<1> QED BY <1>1, <1>3, FreeStep DEF HoldsMain, HoldsSub, Step

(* insert: the lock is taken for a close() and given back after it. *)
LEMMA InsertLocks ==
    ASSUME Base, LocksSound, NEW r \in Req, Insert(r) \/ InsertClosed(r)
    PROVE  LocksSound'
<1>1. CASE Insert(r)
  <2>1. pc[r] = "publish" /\ lock = None /\ UNCHANGED dbLock
    BY <1>1 DEF Insert
  <2>2. CASE AfterInsert(r) /\ UNCHANGED lock
    <3>1. PICK s \in {"idle", "ready"} : pc' = [pc EXCEPT ![r] = s]
      BY <2>2, AfterInsertCases DEF End, Goto
    <3> QED BY <2>1, <2>2, <3>1, FreeStep DEF HoldsMain, HoldsSub, Step, locks
  <2>3. CASE lock' = r /\ Goto(r, "replaced")
    BY <2>1, <2>3, LockStep DEF Takes, Keeps, HoldsMain, HoldsSub, Step, Goto
  <2> QED BY <1>1, <2>2, <2>3 DEF Insert
<1>2. CASE InsertClosed(r)
  <2>1. pc[r] = "replaced" /\ lock' = None /\ UNCHANGED dbLock
    BY <1>2 DEF InsertClosed
  <2>2. PICK s \in {"idle", "ready"} : pc' = [pc EXCEPT ![r] = s]
    BY <1>2, AfterInsertCases DEF InsertClosed, End, Goto
  <2> QED BY <2>1, <2>2, LockStep DEF Gives, Keeps, HoldsMain, HoldsSub, Step
<1> QED BY <1>1, <1>2

(* remove: first the one lock, then the other, never both. *)
LEMMA RemoveLocks ==
    ASSUME Base, LocksSound, NEW r \in Req,
           \/ RemoveMain(r) \/ RemoveMainClosed(r) \/ RemoveDbLock(r)
           \/ (\E d \in Db : RemoveDb(r, d)) \/ RemoveDone(r)
    PROVE  LocksSound'
<1>1. CASE RemoveMain(r)
  <2>1. pc[r] = "evict" /\ lock = None /\ UNCHANGED dbLock
    BY <1>1 DEF RemoveMain
  <2>2. CASE Continue(r, "evictdb") /\ UNCHANGED lock
    BY <2>1, <2>2, FreeStep DEF Continue, Goto, HoldsMain, HoldsSub, Step, locks
  <2>3. CASE lock' = r /\ Goto(r, "removed")
    BY <2>1, <2>3, LockStep DEF Takes, Keeps, HoldsMain, HoldsSub, Step, Goto
  <2> QED BY <1>1, <2>2, <2>3 DEF RemoveMain
<1>2. CASE RemoveMainClosed(r)
  BY <1>2, LockStep DEF RemoveMainClosed, Gives, Keeps, HoldsMain, HoldsSub, Step, Goto
<1>3. CASE RemoveDbLock(r)
  BY <1>3, LockStep DEF RemoveDbLock, Takes, Keeps, HoldsMain, HoldsSub, Step, Continue, Goto
<1>4. ASSUME NEW d \in Db, RemoveDb(r, d) PROVE LocksSound'
  BY <1>4 DEF RemoveDb, LocksSound, locks
<1>5. CASE RemoveDone(r)
  BY <1>5, LockStep DEF RemoveDone, SweepReady, Gives, Keeps, HoldsMain, HoldsSub, Step, End, Goto
<1> QED BY <1>1, <1>2, <1>3, <1>4, <1>5

LEMMA ClosePgDbLocks ==
    ASSUME Base, LocksSound, NEW r \in Req, ClosePgDb(r) \/ ClosePgDbDone(r)
    PROVE  LocksSound'
<1>1. CASE ClosePgDb(r)
  <2>1. pc[r] = "unshare" /\ dbLock = None /\ UNCHANGED lock
    BY <1>1 DEF ClosePgDb
  <2>2. CASE Continue(r, "get") /\ UNCHANGED dbLock
    BY <2>1, <2>2, FreeStep DEF Continue, Goto, HoldsMain, HoldsSub, Step, locks
  <2>3. CASE dbLock' = r /\ Goto(r, "unshared")
    BY <2>1, <2>3, LockStep DEF Takes, Keeps, HoldsMain, HoldsSub, Step, Goto
  <2> QED BY <1>1, <2>2, <2>3 DEF ClosePgDb
<1>2. CASE ClosePgDbDone(r)
  BY <1>2, LockStep DEF ClosePgDbDone, Gives, Keeps, HoldsMain, HoldsSub, Step, Goto
<1> QED BY <1>1, <1>2

(* A handler that is dropped drops its guards with it. *)
LEMMA EnvironmentLocks ==
    ASSUME Base, LocksSound,
           \/ \E c \in Conn : CreateConnection(c)
           \/ \E r \in Req : Cancel(r)
           \/ \E p \in Pool : DropPool(p)
           \/ Restart
           \/ UNCHANGED vars
    PROVE  LocksSound'
<1>1. ASSUME NEW c \in Conn, CreateConnection(c) PROVE LocksSound'
  BY <1>1 DEF CreateConnection, LocksSound, locks
<1>2. ASSUME NEW r \in Req, Cancel(r) PROVE LocksSound'
  <2>1. /\ pc' = [pc EXCEPT ![r] = "idle"]
        /\ lock' = Release(lock, r) /\ dbLock' = Release(dbLock, r)
    BY <1>2 DEF Cancel, End, Goto
  <2>2. (lock = r <=> HoldsMain(pc[r])) /\ (dbLock = r <=> HoldsSub(pc[r]))
    BY DEF LocksSound
  <2> QED BY <2>1, <2>2, LockStep DEF Release, Keeps, Gives, HoldsMain, HoldsSub, Step
<1>3. ASSUME NEW p \in Pool, DropPool(p) PROVE LocksSound'
  BY <1>3 DEF DropPool, LocksSound, locks
<1>4. CASE Restart
  BY <1>4, NoneAssumption DEF Restart, LocksSound, HoldsMain, HoldsSub
<1>5. CASE UNCHANGED vars
  BY <1>5 DEF vars, LocksSound
<1> QED BY <1>1, <1>2, <1>3, <1>4, <1>5

LEMMA NextLocks == Base /\ LocksSound /\ [Next]_vars => LocksSound'
<1> SUFFICES ASSUME Base, LocksSound, [Next]_vars PROVE LocksSound'
  OBVIOUS
<1>1. ASSUME NEW r \in Req, Start(r) \/ Advance(r) PROVE LocksSound'
  BY <1>1, PlainLocks, InsertLocks, RemoveLocks, ClosePgDbLocks DEF Advance
<1> QED BY <1>1, EnvironmentLocks DEF Next

(* No circle of handlers that wait for each other, however many there are:  *)
(* behind a lock of the registry there is a handler at work, and behind     *)
(* that one only statements that run.                                       *)
THEOREM NoDeadlock == Spec => []WaitsEnd
<1>1. Init => LocksSound
  BY NoneAssumption DEF Init, LocksSound, HoldsMain, HoldsSub
<1>2. ASSUME LocksSound PROVE WaitsEnd
  <2> SUFFICES ASSUME NEW r \in Req, NEW q \in WaitsFor(r)
               PROVE  /\ pc[q] # "idle"
                      /\ \A s \in WaitsFor(q) : pc[s] = "query"
    BY DEF WaitsEnd
  <2>1. pc[q] \in {"query", "replaced", "removed", "sweep", "unshared"}
    BY <1>2 DEF WaitsFor, LocksSound, HoldsMain, HoldsSub
  <2> QED BY <2>1 DEF WaitsFor
<1>3. Base /\ LocksSound /\ [Next]_vars => LocksSound'
  BY NextLocks
<1> QED BY <1>1, <1>2, <1>3, InitBase, NextBase, PTL DEF Spec
=============================================================================
