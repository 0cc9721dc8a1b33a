------------------------------- MODULE Pools -------------------------------
(***************************************************************************)
(* The connection-pool registry of dbmanage (src/pools.rs) together with   *)
(* the request handlers that use it: the connection forms                  *)
(* (src/connections.rs) and everything of the explorer that goes through   *)
(* load_conn, pool_for and dbr_for (src/explorer.rs).                      *)
(*                                                                         *)
(* A handler is cut at its await points: between two actions of a request  *)
(* any other request may run.  The row of a connection carries a version   *)
(* that every UPDATE increments, in place of host, port, user, password    *)
(* and db_type; a pool remembers the version its options were built from.  *)
(***************************************************************************)
EXTENDS Naturals, FiniteSets

CONSTANTS
    Conn,         \* ids of connections (AUTOINCREMENT: never reused)
    Db,           \* names of databases on a server
    Req,          \* concurrent tasks: requests, and the branches of the list page
    Pool,         \* identities of pool objects; one is reused after it is dropped
    None,
    MaxVer,       \* bound: no UPDATE is started beyond this row version
    PgVersions,   \* the row versions whose db_type is postgresql
    Disconnects   \* TRUE: a client may go away, which drops its handler

ASSUME NoneAssumption ==
    /\ None \notin Pool
    /\ None \notin Req
    /\ None \notin Conn
ASSUME VersionAssumption ==
    /\ MaxVer \in Nat
    /\ PgVersions \subseteq Nat
    /\ Disconnects \in BOOLEAN

VARIABLES
    row,       \* table connections: is the row there, and its version
    pool,      \* the sqlx pool objects
    pools,     \* PoolManager.pools
    dbPools,   \* PoolManager.db_pools
    lock,      \* who holds the write lock of pools across an await
    dbLock,    \* who holds the write lock of db_pools across an await
    pc,        \* where each handler is
    job,       \* its operation and the row version it loaded
    held,      \* its PoolHandle
    drain      \* the pool whose close() it awaits

vars == <<row, pool, pools, dbPools, lock, dbLock, pc, job, held, drain>>

registry == <<pools, dbPools>>
locks == <<lock, dbLock>>

Op == {"server", "database", "drop", "test", "update", "delete"}
Job == [op: Op, conn: Conn, db: Db, ver: Nat]
Step == {"idle", "get", "getdb", "connect", "publish", "publishdb", "replaced",
         "ready", "query", "write", "evict", "removed", "evictdb", "sweep",
         "unshare", "unshared"}

FreePool == [st |-> "free", conn |-> None, ver |-> 0]
IsPg(v) == v \in PgVersions

(* Fault: dbr_for forgets to look at db_type. *)
UsesSubPoolAlways(j) == j.op = "database"

(* Does this request work on a PostgreSQL sub-pool (dbr_for's second arm)? *)
UsesSubPool(j) == j.op = "database" /\ IsPg(j.ver)

Init ==
    /\ row = [c \in Conn |-> [live |-> FALSE, ver |-> 0]]
    /\ pool = [p \in Pool |-> FreePool]
    /\ pools = [c \in Conn |-> None]
    /\ dbPools = [k \in Conn \X Db |-> None]
    /\ lock = None
    /\ dbLock = None
    /\ pc = [r \in Req |-> "idle"]
    /\ job = [r \in Req |-> None]
    /\ held = [r \in Req |-> None]
    /\ drain = [r \in Req |-> None]

(***************************************************************************)
(* Control of one request.                                                 *)
(***************************************************************************)

Goto(r, s) == pc' = [pc EXCEPT ![r] = s]

(* The handler returns: its locals, the handle among them, are dropped. *)
End(r) ==
    /\ Goto(r, "idle")
    /\ job' = [job EXCEPT ![r] = None]
    /\ held' = [held EXCEPT ![r] = None]
    /\ drain' = [drain EXCEPT ![r] = None]

Continue(r, s) == Goto(r, s) /\ UNCHANGED <<job, held, drain>>

(* The handler has read the row (load_conn or its own SELECT).  A missing  *)
(* row ends it with a flash message, which changes nothing here.           *)
Begin(r, op, c, d, s) ==
    /\ pc[r] = "idle"
    /\ row[c].live
    /\ job' = [job EXCEPT ![r] =
                 [op |-> op, conn |-> c, db |-> d, ver |-> row[c].ver]]
    /\ Goto(r, s)
    /\ UNCHANGED <<row, pool, registry, locks, held, drain>>

(* close() marks the pool closed at once and then waits for its connections *)
Close(p) ==
    pool' = [pool EXCEPT ![p] = [st |-> "closed", conn |-> @.conn, ver |-> @.ver]]
Drained(p) == \A q \in Req : ~(pc[q] = "query" /\ held[q] = p)

(***************************************************************************)
(* Handlers: the first part, up to the row.                                *)
(***************************************************************************)

(* connections::create.  Ids are fresh, so a deleted id never comes back. *)
CreateConnection(c) ==
    /\ row[c].ver = 0
    /\ row' = [row EXCEPT ![c] = [live |-> TRUE, ver |-> 1]]
    /\ UNCHANGED <<pool, registry, locks, pc, job, held, drain>>

(* databases, create_database, the users pages, and a branch of list *)
BrowseServer(r, c, d) == Begin(r, "server", c, d, "get")

(* everything that calls dbr_for: tables, erd, query, grid, export, row edits *)
BrowseDatabase(r, c, d) ==
    Begin(r, "database", c, d, IF IsPg(row[c].ver) THEN "getdb" ELSE "get")

DropDatabase(r, c, d) ==
    Begin(r, "drop", c, d, IF IsPg(row[c].ver) THEN "unshare" ELSE "get")

Test(r, c, d) == Begin(r, "test", c, d, "connect")

Update(r, c, d) ==
    /\ row[c].ver + Cardinality({q \in Req : pc[q] = "write"}) < MaxVer
    /\ Begin(r, "update", c, d, "write")

Delete(r, c, d) == Begin(r, "delete", c, d, "write")

(***************************************************************************)
(* pool_for: get, create_pool, insert.                                     *)
(***************************************************************************)

(* dbr_for refuses a PostgreSQL handle for a row it read as MariaDB. *)
Mismatch(r, p) == job[r].op = "database" /\ IsPg(pool[p].ver)

Get(r) ==
    /\ pc[r] = "get"
    /\ lock = None
    /\ LET p == pools[job[r].conn] IN
         \/ /\ p = None
            /\ Continue(r, "connect")
         \/ /\ p # None
            /\ ~Mismatch(r, p)
            /\ held' = [held EXCEPT ![r] = p]
            /\ Goto(r, "ready")
            /\ UNCHANGED <<job, drain>>
         \/ /\ p # None
            /\ Mismatch(r, p)
            /\ End(r)
    /\ UNCHANGED <<row, pool, registry, locks>>

(* create_pool (and, for test, the ping on the new pool), or connect_with  *)
(* inside pg_pool.  No lock is held while the server answers.              *)
Connect(r) ==
    /\ pc[r] = "connect"
    /\ \E p \in Pool :
         /\ pool[p].st = "free"
         /\ pool' = [pool EXCEPT ![p] =
                       [st |-> "open", conn |-> job[r].conn, ver |-> job[r].ver]]
         /\ held' = [held EXCEPT ![r] = p]
    /\ Goto(r, IF UsesSubPool(job[r]) THEN "publishdb" ELSE "publish")
    /\ UNCHANGED <<row, registry, locks, job, drain>>

(* The server refuses: test evicts what is cached, the others report it. *)
ConnectFail(r) ==
    /\ pc[r] = "connect"
    /\ IF job[r].op = "test" THEN Continue(r, "evict") ELSE End(r)
    /\ UNCHANGED <<row, pool, registry, locks>>

(* test returns after insert, the others go on to use their handle *)
AfterInsert(r) ==
    IF job[r].op = "test" THEN End(r)
    ELSE Goto(r, "ready") /\ drain' = [drain EXCEPT ![r] = None] /\ UNCHANGED <<job, held>>

(* PoolManager::insert: the guard in the scrutinee of `if let' lives until *)
(* the old pool is closed.                                                 *)
Insert(r) ==
    /\ pc[r] = "publish"
    /\ lock = None
    /\ LET c == job[r].conn IN
         /\ pools' = [pools EXCEPT ![c] = held[r]]
         /\ \/ /\ pools[c] = None
               /\ AfterInsert(r)
               /\ UNCHANGED <<pool, lock>>
            \/ /\ pools[c] # None
               /\ Close(pools[c])
               /\ drain' = [drain EXCEPT ![r] = pools[c]]
               /\ lock' = r
               /\ Goto(r, "replaced")
               /\ UNCHANGED <<job, held>>
    /\ UNCHANGED <<row, dbPools, dbLock>>

InsertClosed(r) ==
    /\ pc[r] = "replaced"
    /\ Drained(drain[r])
    /\ lock' = None
    /\ AfterInsert(r)
    /\ UNCHANGED <<row, pool, registry, dbLock>>

(***************************************************************************)
(* PoolManager::pg_pool: the same shape, but an overwritten sub-pool is    *)
(* not closed: it lives on in the handles that still refer to it.          *)
(***************************************************************************)

Key(r) == <<job[r].conn, job[r].db>>

GetDb(r) ==
    /\ pc[r] = "getdb"
    /\ dbLock = None
    /\ LET p == dbPools[Key(r)] IN
         \/ /\ p = None
            /\ Continue(r, "connect")
         \/ /\ p # None
            /\ held' = [held EXCEPT ![r] = p]
            /\ Goto(r, "ready")
            /\ UNCHANGED <<job, drain>>
    /\ UNCHANGED <<row, pool, registry, locks>>

InsertDb(r) ==
    /\ pc[r] = "publishdb"
    /\ dbLock = None
    /\ dbPools' = [dbPools EXCEPT ![Key(r)] = held[r]]
    /\ Continue(r, "ready")
    /\ UNCHANGED <<row, pool, pools, locks>>

(***************************************************************************)
(* Statements on a handle.                                                 *)
(***************************************************************************)

Acquire(r) ==
    /\ pc[r] = "ready"
    /\ pool[held[r]].st = "open"
    /\ Continue(r, "query")
    /\ UNCHANGED <<row, pool, registry, locks>>

(* PoolClosed, or the five seconds of acquire_timeout *)
AcquireFail(r) ==
    /\ pc[r] = "ready"
    /\ End(r)
    /\ UNCHANGED <<row, pool, registry, locks>>

(* The connection goes back to the pool; the handler runs another statement *)
EndStatement(r) ==
    /\ pc[r] = "query"
    /\ Continue(r, "ready")
    /\ UNCHANGED <<row, pool, registry, locks>>

EndRequest(r) ==
    /\ pc[r] = "query"
    /\ End(r)
    /\ UNCHANGED <<row, pool, registry, locks>>

(***************************************************************************)
(* update and delete: write the row, then PoolManager::remove.             *)
(***************************************************************************)

(* The row read at the start may be gone: then UPDATE and DELETE hit none, *)
(* and the handler goes on all the same.                                   *)
WriteRow(op, c) ==
    \/ ~row[c].live /\ UNCHANGED row
    \/ row[c].live /\ row' = [row EXCEPT ![c] =
         IF op = "update" THEN [live |-> TRUE, ver |-> @.ver + 1]
                          ELSE [live |-> FALSE, ver |-> @.ver]]

Write(r) ==
    /\ pc[r] = "write"
    /\ WriteRow(job[r].op, job[r].conn)
    /\ Continue(r, "evict")
    /\ UNCHANGED <<pool, registry, locks>>

RemoveMain(r) ==
    /\ pc[r] = "evict"
    /\ lock = None
    /\ LET c == job[r].conn IN
         \/ /\ pools[c] = None
            /\ Continue(r, "evictdb")
            /\ UNCHANGED <<pool, pools, lock>>
         \/ /\ pools[c] # None
            /\ pools' = [pools EXCEPT ![c] = None]
            /\ Close(pools[c])
            /\ drain' = [drain EXCEPT ![r] = pools[c]]
            /\ lock' = r
            /\ Goto(r, "removed")
            /\ UNCHANGED <<job, held>>
    /\ UNCHANGED <<row, dbPools, dbLock>>

(* Fault: close() is called and not awaited. *)
RemoveMainUnawaited(r) ==
    /\ pc[r] = "removed"
    /\ lock' = None
    /\ drain' = [drain EXCEPT ![r] = None]
    /\ Goto(r, "evictdb")
    /\ UNCHANGED <<row, pool, registry, dbLock, job, held>>

(* Fault: the guard is bound by `let', as that of db_pools is, and outlives  *)
(* the main pool's part.                                                   *)
RemoveMainHeld(r) ==
    /\ pc[r] = "removed"
    /\ Drained(drain[r])
    /\ drain' = [drain EXCEPT ![r] = None]
    /\ Goto(r, "evictdb")
    /\ UNCHANGED <<row, pool, registry, locks, job, held>>

RemoveMainClosed(r) ==
    /\ pc[r] = "removed"
    /\ Drained(drain[r])
    /\ lock' = None
    /\ drain' = [drain EXCEPT ![r] = None]
    /\ Goto(r, "evictdb")
    /\ UNCHANGED <<row, pool, registry, dbLock, job, held>>

(* The write lock of db_pools is held over the whole loop. *)
RemoveDbLock(r) ==
    /\ pc[r] = "evictdb"
    /\ dbLock = None
    /\ dbLock' = r
    /\ Continue(r, "sweep")
    /\ UNCHANGED <<row, pool, registry, lock>>

SweepReady(r) ==
    /\ pc[r] = "sweep"
    /\ drain[r] = None \/ Drained(drain[r])

RemoveDb(r, d) ==
    /\ SweepReady(r)
    /\ LET k == <<job[r].conn, d>> IN
         /\ dbPools[k] # None
         /\ dbPools' = [dbPools EXCEPT ![k] = None]
         /\ Close(dbPools[k])
         /\ drain' = [drain EXCEPT ![r] = dbPools[k]]
    /\ UNCHANGED <<row, pools, locks, pc, job, held>>

RemoveDone(r) ==
    /\ SweepReady(r)
    /\ \A d \in Db : dbPools[<<job[r].conn, d>>] = None
    /\ dbLock' = None
    /\ End(r)
    /\ UNCHANGED <<row, pool, registry, lock>>

(***************************************************************************)
(* close_pg_db, called by drop_database before it asks for a main pool.    *)
(***************************************************************************)

(* Fault: get instead of remove, so the closed sub-pool stays registered. *)
ClosePgDbKept(r) ==
    /\ pc[r] = "unshare"
    /\ dbLock = None
    /\ IF dbPools[Key(r)] = None THEN UNCHANGED pool ELSE Close(dbPools[Key(r)])
    /\ Continue(r, "get")
    /\ UNCHANGED <<row, registry, locks>>

ClosePgDb(r) ==
    /\ pc[r] = "unshare"
    /\ dbLock = None
    /\ \/ /\ dbPools[Key(r)] = None
          /\ Continue(r, "get")
          /\ UNCHANGED <<pool, dbPools, dbLock>>
       \/ /\ dbPools[Key(r)] # None
          /\ dbPools' = [dbPools EXCEPT ![Key(r)] = None]
          /\ Close(dbPools[Key(r)])
          /\ drain' = [drain EXCEPT ![r] = dbPools[Key(r)]]
          /\ dbLock' = r
          /\ Goto(r, "unshared")
          /\ UNCHANGED <<job, held>>
    /\ UNCHANGED <<row, pools, lock>>

(* Fault: the write guard is never released. *)
ClosePgDbLeaked(r) ==
    /\ pc[r] = "unshared"
    /\ Drained(drain[r])
    /\ drain' = [drain EXCEPT ![r] = None]
    /\ Goto(r, "get")
    /\ UNCHANGED <<row, pool, registry, locks, job, held>>

ClosePgDbDone(r) ==
    /\ pc[r] = "unshared"
    /\ Drained(drain[r])
    /\ dbLock' = None
    /\ drain' = [drain EXCEPT ![r] = None]
    /\ Goto(r, "get")
    /\ UNCHANGED <<row, pool, registry, lock, job, held>>

(***************************************************************************)
(* The environment of the handlers.                                        *)
(***************************************************************************)

Release(l, r) == IF l = r THEN None ELSE l

(* The client went away: the handler is dropped at the await it had reached, *)
(* and with it the guards it holds.                                          *)
Cancel(r) ==
    /\ Disconnects
    /\ pc[r] # "idle"
    /\ End(r)
    /\ lock' = Release(lock, r)
    /\ dbLock' = Release(dbLock, r)
    /\ UNCHANGED <<row, pool, registry>>

Referenced(p) ==
    \/ \E c \in Conn : pools[c] = p
    \/ \E k \in Conn \X Db : dbPools[k] = p
    \/ \E r \in Req : held[r] = p \/ drain[r] = p

(* The last clone of a pool is gone, so sqlx drops it. *)
DropPool(p) ==
    /\ pool[p].st # "free"
    /\ ~Referenced(p)
    /\ pool' = [pool EXCEPT ![p] = FreePool]
    /\ UNCHANGED <<row, registry, locks, pc, job, held, drain>>

(* The process restarts: the rows stay, the registry starts empty. *)
Restart ==
    /\ pool' = [p \in Pool |-> FreePool]
    /\ pools' = [c \in Conn |-> None]
    /\ dbPools' = [k \in Conn \X Db |-> None]
    /\ lock' = None
    /\ dbLock' = None
    /\ pc' = [r \in Req |-> "idle"]
    /\ job' = [r \in Req |-> None]
    /\ held' = [r \in Req |-> None]
    /\ drain' = [r \in Req |-> None]
    /\ UNCHANGED row

(***************************************************************************)
(* The specification.                                                      *)
(***************************************************************************)

Start(r) ==
    \E c \in Conn, d \in Db :
        \/ BrowseServer(r, c, d)
        \/ BrowseDatabase(r, c, d)
        \/ DropDatabase(r, c, d)
        \/ Test(r, c, d)
        \/ Update(r, c, d)
        \/ Delete(r, c, d)

Advance(r) ==
    \/ Get(r)
    \/ Connect(r)
    \/ ConnectFail(r)
    \/ Insert(r)
    \/ InsertClosed(r)
    \/ GetDb(r)
    \/ InsertDb(r)
    \/ Acquire(r)
    \/ AcquireFail(r)
    \/ EndStatement(r)
    \/ EndRequest(r)
    \/ Write(r)
    \/ RemoveMain(r)
    \/ RemoveMainClosed(r)
    \/ RemoveDbLock(r)
    \/ \E d \in Db : RemoveDb(r, d)
    \/ RemoveDone(r)
    \/ ClosePgDb(r)
    \/ ClosePgDbDone(r)

Next ==
    \/ \E c \in Conn : CreateConnection(c)
    \/ \E r \in Req : Start(r) \/ Advance(r) \/ Cancel(r)
    \/ \E p \in Pool : DropPool(p)
    \/ Restart

Spec == Init /\ [][Next]_vars

(* tokio polls every ready task and its RwLock queues waiters in order, so *)
(* a request that is able to go on again and again does go on.  A handler  *)
(* runs finitely many statements, each of which ends.                      *)
Fairness ==
    /\ \A r \in Req : SF_vars(Advance(r)) /\ SF_vars(EndRequest(r))
    /\ \A p \in Pool : WF_vars(DropPool(p))

LiveSpec == Spec /\ Fairness

(***************************************************************************)
(* Properties.                                                             *)
(***************************************************************************)

TypeOK ==
    /\ row \in [Conn -> [live: BOOLEAN, ver: Nat]]
    /\ pool \in [Pool -> [st: {"free", "open", "closed"},
                           conn: Conn \cup {None}, ver: Nat]]
    /\ pools \in [Conn -> Pool \cup {None}]
    /\ dbPools \in [Conn \X Db -> Pool \cup {None}]
    /\ lock \in Req \cup {None}
    /\ dbLock \in Req \cup {None}
    /\ pc \in [Req -> Step]
    /\ job \in [Req -> Job \cup {None}]
    /\ held \in [Req -> Pool \cup {None}]
    /\ drain \in [Req -> Pool \cup {None}]

(* The registry never serves a closed pool: whatever get and pg_pool hand   *)
(* out was usable at that moment, although insert, remove and close_pg_db   *)
(* close pools that other requests are still using.                         *)
RegisteredPoolsOpen ==
    /\ \A c \in Conn : pools[c] # None => pool[pools[c]].st = "open"
    /\ \A k \in Conn \X Db : dbPools[k] # None => pool[dbPools[k]].st = "open"

(* A pool is served only for the connection it was built for, from a row    *)
(* that connection really had, and under one key: a sub-pool never doubles  *)
(* as a main pool, and sub-pools exist only where the row was PostgreSQL.   *)
RegisteredUnderOwnConn ==
    /\ \A c \in Conn : pools[c] # None =>
         /\ pool[pools[c]].conn = c
         /\ pool[pools[c]].ver \in 1 .. row[c].ver
         /\ \A k \in Conn \X Db : dbPools[k] # pools[c]
    /\ \A k \in Conn \X Db : dbPools[k] # None =>
         /\ pool[dbPools[k]].conn = k[1]
         /\ pool[dbPools[k]].ver \in 1 .. row[k[1]].ver
         /\ IsPg(pool[dbPools[k]].ver)
         /\ \A l \in Conn \X Db : dbPools[l] = dbPools[k] => l = k

(* insert, remove and close_pg_db return only when no statement runs on the *)
(* pool they took out: a closed pool with a statement on it has a handler   *)
(* that still waits for it.  Clients stay to the end here (see Cancel).     *)
EvictedPoolsQuiet ==
    Disconnects = FALSE =>
        \A p \in Pool : pool[p].st = "closed" /\ ~Drained(p) =>
            \E r \in Req : drain[r] = p

(* The version a slot serves to the requests of connection c: 0 if it is     *)
(* empty, and None, which module Registry has no place for, if its pool is   *)
(* closed or another connection's.                                           *)
Served(p, c) ==
    IF p = None THEN 0
    ELSE IF pool[p].st = "open" /\ pool[p].conn = c THEN pool[p].ver ELSE None

Newest == [c \in Conn |-> row[c].ver]
ServedMain == [c \in Conn |-> Served(pools[c], c)]
ServedSub == [k \in Conn \X Db |-> Served(dbPools[k], k[1])]

Abstract == INSTANCE Registry WITH newest <- Newest, main <- ServedMain, sub <- ServedSub

(* The whole of it is one versioned slot per key: the handlers' many steps,  *)
(* with pools closed, shared and dropped on the way, are steps of Registry.  *)
ServesLikeRegistry == Abstract!Spec

(* "Kredensial/host bisa berubah - buang pool lama agar dibuat ulang": once *)
(* nobody works on a connection, the pools cached for it come from the row  *)
(* as it is now, and a deleted connection has none.                         *)
CachedPoolCurrent ==
    \A c \in Conn :
        (\A r \in Req : pc[r] # "idle" => job[r].conn # c) =>
            /\ pools[c] # None =>
                 row[c].live /\ pool[pools[c]].ver = row[c].ver
            /\ \A d \in Db : dbPools[<<c, d>>] # None =>
                 row[c].live /\ pool[dbPools[<<c, d>>]].ver = row[c].ver

(* Whom a handler has to wait for: the holder of the lock it asks for, or    *)
(* every statement that runs on the pool whose close() it awaits.            *)
WaitsFor(r) ==
    {q \in Req :
        \/ pc[r] \in {"get", "publish", "evict"} /\ lock = q
        \/ pc[r] \in {"getdb", "publishdb", "evictdb", "unshare"} /\ dbLock = q
        \/ /\ pc[r] \in {"replaced", "removed", "sweep", "unshared"}
           /\ pc[q] = "query"
           /\ held[q] = drain[r]}

(* insert, remove and close_pg_db await close() under a write lock, and still *)
(* no handlers wait for each other in a circle: whoever holds a lock that is  *)
(* waited for is at work, and waits itself for running statements at most,    *)
(* never for the other lock.                                                  *)
WaitsEnd ==
    \A r \in Req : \A q \in WaitsFor(r) :
        /\ pc[q] # "idle"
        /\ \A s \in WaitsFor(q) : pc[s] = "query"

(* The registry's locks, held across close(), never leave two handlers      *)
(* waiting for each other: every request comes to its end.                  *)
EveryRequestFinishes == \A r \in Req : pc[r] # "idle" ~> pc[r] = "idle"
=============================================================================
