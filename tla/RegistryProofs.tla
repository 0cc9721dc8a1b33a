--------------------------- MODULE RegistryProofs ---------------------------
(***************************************************************************)
(* Pools implements Registry: with the inductive invariant of PoolsProofs  *)
(* (a registered pool is open, and its connection's own) every step of a   *)
(* handler is a step on one slot, or none at all.                          *)
(***************************************************************************)
EXTENDS PoolsProofs

(***************************************************************************)
(* What a slot serves, before and after a step.                            *)
(***************************************************************************)

Ver(p) == IF p = None THEN 0 ELSE pool[p].ver

(* Under Slots a slot serves the version of its pool. *)
LEMMA ServedVersions ==
    ASSUME Slots
    PROVE  /\ ServedMain = [c \in Conn |-> Ver(pools[c])]
           /\ ServedSub = [k \in Conn \X Db |-> Ver(dbPools[k])]
<1>1. \A c \in Conn : Served(pools[c], c) = Ver(pools[c])
  BY DEF Slots, MainSlots, Served, Ver
<1>2. \A k \in Conn \X Db : Served(dbPools[k], k[1]) = Ver(dbPools[k])
  BY DEF Slots, SubSlots, Served, Ver
<1> QED BY <1>1, <1>2 DEF ServedMain, ServedSub

(* The same after a step. *)
LEMMA ServedVersionsNext ==
    ASSUME Slots'
    PROVE  /\ ServedMain' = [c \in Conn |-> Ver(pools[c])']
           /\ ServedSub' = [k \in Conn \X Db |-> Ver(dbPools[k])']
<1>1. \A c \in Conn : Served(pools[c], c)' = Ver(pools[c])'
  BY DEF Slots, MainSlots, Served, Ver
<1>2. \A k \in Conn \X Db : Served(dbPools[k], k[1])' = Ver(dbPools[k])'
  BY DEF Slots, SubSlots, Served, Ver
<1> QED BY <1>1, <1>2 DEF ServedMain, ServedSub

(* A slot that keeps its pool, and the pool its version, serves the same. *)
LEMMA SlotKept ==
    ASSUME NEW p, NEW q, q = p, p # None => pool'[p].ver = pool[p].ver
    PROVE  (IF q = None THEN 0 ELSE pool'[q].ver) = Ver(p)
BY DEF Ver

LEMMA MainKept ==
    ASSUME Slots, Slots',
           \A c \in Conn : pools'[c] = pools[c],
           \A c \in Conn : pools[c] # None => pool'[pools[c]].ver = pool[pools[c]].ver
    PROVE  UNCHANGED ServedMain
<1>1. \A c \in Conn : Ver(pools[c])' = Ver(pools[c])
  BY DEF Ver
<1> QED BY <1>1, ServedVersions, ServedVersionsNext

LEMMA SubKept ==
    ASSUME Slots, Slots',
           \A k \in Conn \X Db : dbPools'[k] = dbPools[k],
           \A k \in Conn \X Db : dbPools[k] # None =>
               pool'[dbPools[k]].ver = pool[dbPools[k]].ver
    PROVE  UNCHANGED ServedSub
<1>1. \A k \in Conn \X Db : Ver(dbPools[k])' = Ver(dbPools[k])
  BY DEF Ver
<1> QED BY <1>1, ServedVersions, ServedVersionsNext

(* One slot changes. *)
LEMMA MainChanged ==
    ASSUME Slots, Slots', NEW c \in Conn,
           \A d \in Conn : d # c => pools'[d] = pools[d],
           \A d \in Conn : d # c /\ pools[d] # None =>
               pool'[pools[d]].ver = pool[pools[d]].ver
    PROVE  ServedMain' = [ServedMain EXCEPT ![c] = Ver(pools[c])']
<1>1. \A d \in Conn : d # c => Ver(pools[d])' = Ver(pools[d])
  BY DEF Ver
<1> QED BY <1>1, ServedVersions, ServedVersionsNext

LEMMA SubChanged ==
    ASSUME Slots, Slots', NEW k \in Conn \X Db,
           \A l \in Conn \X Db : l # k => dbPools'[l] = dbPools[l],
           \A l \in Conn \X Db : l # k /\ dbPools[l] # None =>
               pool'[dbPools[l]].ver = pool[dbPools[l]].ver
    PROVE  ServedSub' = [ServedSub EXCEPT ![k] = Ver(dbPools[k])']
<1>1. \A l \in Conn \X Db : l # k => Ver(dbPools[l])' = Ver(dbPools[l])
  BY DEF Ver
<1> QED BY <1>1, ServedVersions, ServedVersionsNext

(***************************************************************************)
(* Steps that no slot sees.                                                *)
(***************************************************************************)

(* Nothing is registered or taken out, and registered pools stay as they are *)
LEMMA UnseenStep ==
    ASSUME Slots, Slots', UNCHANGED <<pools, dbPools>>,
           \A c \in Conn : pools[c] # None => pool'[pools[c]] = pool[pools[c]],
           \A k \in Conn \X Db : dbPools[k] # None => pool'[dbPools[k]] = pool[dbPools[k]]
    PROVE  UNCHANGED <<ServedMain, ServedSub>>
BY MainKept, SubKept

LEMMA QuietUnseen ==
    ASSUME Slots, Slots', UNCHANGED <<row, pool, pools, dbPools>>
    PROVE  [Abstract!Next]_(Abstract!vars)
<1>1. UNCHANGED <<ServedMain, ServedSub>>
  BY UnseenStep
<1>2. UNCHANGED Newest
  BY DEF Newest
<1> QED BY <1>1, <1>2 DEF Abstract!vars

(* A new pool, and one that is dropped, are in no slot. *)
LEMMA PoolUnseen ==
    ASSUME Base, Slots, Slots',
           \/ \E r \in Req : Connect(r)
           \/ \E p \in Pool : DropPool(p)
    PROVE  [Abstract!Next]_(Abstract!vars)
<1> DEFINE Apart(p) ==
             /\ UNCHANGED <<row, pools, dbPools>>
             /\ \A q \in Pool : q # p => pool'[q] = pool[q]
             /\ \A c \in Conn : pools[c] # None => pools[c] # p
             /\ \A k \in Conn \X Db : dbPools[k] # None => dbPools[k] # p
<1>a. ASSUME NEW r \in Req, Connect(r) PROVE \E p \in Pool : Apart(p)
  <2>1. PICK p \in Pool :
          /\ pool[p].st = "free"
          /\ pool' = [pool EXCEPT ![p] =
                       [st |-> "open", conn |-> job[r].conn, ver |-> job[r].ver]]
    BY <1>a DEF Connect
  <2>2. UNCHANGED <<row, pools, dbPools>>
    BY <1>a DEF Connect, registry
  <2>3. Apart(p)
    BY <2>1, <2>2 DEF Slots, MainSlots, SubSlots, Base, TypeOK
  <2> QED BY <2>3
<1>b. ASSUME NEW p \in Pool, DropPool(p) PROVE Apart(p)
  BY <1>b DEF DropPool, Referenced, registry, Base, TypeOK
<1>1. PICK p \in Pool : Apart(p)
  BY <1>a, <1>b
<1>2. UNCHANGED <<ServedMain, ServedSub>>
  BY <1>1, UnseenStep DEF Base, TypeOK
<1>3. UNCHANGED Newest
  BY <1>1 DEF Newest
<1> QED BY <1>2, <1>3 DEF Abstract!vars

(***************************************************************************)
(* Steps on rows.                                                          *)
(***************************************************************************)

(* A connection is created, or its form is saved: a new version of its row. *)
LEMMA CreateIsSave ==
    ASSUME Base, Slots, Slots', NEW c \in Conn, CreateConnection(c)
    PROVE  Abstract!Next
<1>1. UNCHANGED <<pool, pools, dbPools>> /\ row[c].ver = 0
      /\ row' = [row EXCEPT ![c] = [live |-> TRUE, ver |-> 1]]
  BY DEF CreateConnection, registry
<1>2. UNCHANGED <<ServedMain, ServedSub>>
  BY <1>1, UnseenStep
<1>3. Newest' = [Newest EXCEPT ![c] = @ + 1]
  <2>1. Newest[c] + 1 = 1
    BY <1>1 DEF Newest
  <2>2. \A d \in Conn : row'[d].ver = IF d = c THEN 1 ELSE row[d].ver
    BY <1>1 DEF Base, TypeOK
  <2> QED BY <2>1, <2>2 DEF Newest
<1> QED BY <1>2, <1>3 DEF Abstract!Next, Abstract!Save

LEMMA WriteIsSave ==
    ASSUME Base, Slots, Slots', NEW r \in Req, Write(r)
    PROVE  [Abstract!Next]_(Abstract!vars)
<1> DEFINE c == job[r].conn
<1>1. c \in Conn /\ UNCHANGED <<pool, pools, dbPools>> /\ WriteRow(job[r].op, c)
  BY DEF Write, registry, Base, JobsSound, Job
<1>2. UNCHANGED <<ServedMain, ServedSub>>
  BY <1>1, UnseenStep
<1>3. UNCHANGED Newest \/ Newest' = [Newest EXCEPT ![c] = @ + 1]
  <2>1. CASE UNCHANGED row
    BY <2>1 DEF Newest
  <2>2. CASE row' = [row EXCEPT ![c] = [live |-> TRUE, ver |-> row[c].ver + 1]]
    BY <2>2, <1>1 DEF Newest, Base, TypeOK
  <2>3. CASE row' = [row EXCEPT ![c] = [live |-> FALSE, ver |-> row[c].ver]]
    BY <2>3, <1>1 DEF Newest, Base, TypeOK
  <2> QED BY <1>1, <2>1, <2>2, <2>3 DEF WriteRow
<1>4. CASE UNCHANGED Newest
  BY <1>4, <1>2 DEF Abstract!vars
<1>5. CASE Newest' = [Newest EXCEPT ![c] = @ + 1]
  BY <1>5, <1>1, <1>2 DEF Abstract!Next, Abstract!Save
<1> QED BY <1>3, <1>4, <1>5

(***************************************************************************)
(* Steps on a slot.                                                        *)
(***************************************************************************)

(* PoolManager::insert serves the version its request read, and closes the  *)
(* pool of no other slot.                                                   *)
LEMMA InsertIsPublish ==
    ASSUME Base, Base', Slots, Slots', NEW r \in Req, Insert(r)
    PROVE  Abstract!Next
<1> DEFINE p == held[r]
<1>0. PICK c \in Conn : c = job[r].conn
  BY DEF Insert, Base, JobsSound, Job
<1>1. /\ p \in Pool /\ Publishing(r)
      /\ pools' = [pools EXCEPT ![c] = p] /\ UNCHANGED <<row, dbPools>>
  BY <1>0 DEF Insert, Base, LocalsSound, Publishing
<1>2. \A q \in Pool : q # pools[c] => pool'[q] = pool[q]
  <2>1. CASE UNCHANGED pool
    BY <2>1
  <2>2. CASE pools[c] # None /\ Close(pools[c])
    BY <2>2, <1>1, CloseFacts DEF Base, TypeOK
  <2> QED BY <1>0, <2>1, <2>2 DEF Insert
<1>3. /\ \A d \in Conn : d # c /\ pools[d] # None => pools[d] \in Pool /\ pools[d] # pools[c]
      /\ \A k \in Conn \X Db : dbPools[k] # None => dbPools[k] \in Pool /\ dbPools[k] # pools[c]
  BY <1>1 DEF Base, TypeOK, Slots, MainSlots, SlotsApart
<1>4. UNCHANGED ServedSub
  BY <1>1, <1>2, <1>3, SubKept
<1>5. ServedMain' = [ServedMain EXCEPT ![c] = Ver(pools[c])']
  BY <1>1, <1>2, <1>3, MainChanged DEF Base, TypeOK
<1>6. UNCHANGED Newest
  BY <1>1 DEF Newest
<1>7. Ver(pools[c])' \in 1 .. Newest[c]
  <2>1. pools'[c] = p /\ p # None
    BY <1>1, NoneAssumption DEF Base, TypeOK
  <2>2. pool'[p].ver \in 1 .. row'[c].ver
    BY <1>1, <2>1 DEF Slots, MainSlots
  <2> QED BY <1>1, <2>1, <2>2 DEF Ver, Newest
<1>8. Abstract!Publish(c)
  BY <1>4, <1>5, <1>6, <1>7 DEF Abstract!Publish
<1> QED BY <1>1, <1>8 DEF Abstract!Next

(* pg_pool's insert overwrites without closing. *)
LEMMA InsertDbIsPublishSub ==
    ASSUME Base, Base', Slots, Slots', NEW r \in Req, InsertDb(r)
    PROVE  Abstract!Next
<1> DEFINE p == held[r]
<1>0. PICK k \in Conn \X Db : k = Key(r)
  BY DEF InsertDb, Base, JobsSound, Job, Key
<1>1. /\ p \in Pool
      /\ dbPools' = [dbPools EXCEPT ![k] = p] /\ UNCHANGED <<row, pool, pools>>
  BY <1>0 DEF InsertDb, Base, LocalsSound
<1>2. UNCHANGED ServedMain
  BY <1>1, MainKept
<1>3. ServedSub' = [ServedSub EXCEPT ![k] = Ver(dbPools[k])']
  BY <1>1, SubChanged DEF Base, TypeOK
<1>4. UNCHANGED Newest
  BY <1>1 DEF Newest
<1>5. Ver(dbPools[k])' \in 1 .. Newest[k[1]]
  <2>1. dbPools'[k] = p /\ p # None
    BY <1>1, NoneAssumption DEF Base, TypeOK
  <2>2. pool'[p].ver \in 1 .. row'[k[1]].ver
    BY <1>1, <2>1 DEF Slots, SubSlots
  <2> QED BY <1>1, <2>1, <2>2 DEF Ver, Newest
<1>6. Abstract!PublishSub(k)
  BY <1>2, <1>3, <1>4, <1>5 DEF Abstract!PublishSub
<1> QED BY <1>1, <1>6 DEF Abstract!Next

(* PoolManager::remove empties the main slot, *)
LEMMA RemoveMainIsEvict ==
    ASSUME Base, Base', Slots, Slots', NEW r \in Req, RemoveMain(r)
    PROVE  [Abstract!Next]_(Abstract!vars)
<1>0. PICK c \in Conn : c = job[r].conn
  BY DEF RemoveMain, Base, JobsSound, Job
<1>1. UNCHANGED <<row, dbPools>>
  BY DEF RemoveMain
<1>2. CASE pools[c] = None
  <2>1. UNCHANGED <<pool, pools>>
    BY <1>0, <1>2 DEF RemoveMain
  <2> QED BY <1>1, <2>1, QuietUnseen
<1>3. CASE pools[c] # None
  <2>1. pools' = [pools EXCEPT ![c] = None] /\ Close(pools[c])
    BY <1>0, <1>3 DEF RemoveMain
  <2>2. \A q \in Pool : q # pools[c] => pool'[q] = pool[q]
    BY <1>1, <1>3, <2>1, CloseFacts DEF Base, TypeOK
  <2>3. /\ \A d \in Conn : d # c /\ pools[d] # None => pools[d] \in Pool /\ pools[d] # pools[c]
        /\ \A k \in Conn \X Db : dbPools[k] # None => dbPools[k] \in Pool /\ dbPools[k] # pools[c]
    BY <1>1, <1>3 DEF Base, TypeOK, Slots, MainSlots, SlotsApart
  <2>4. UNCHANGED ServedSub
    BY <1>1, <2>2, <2>3, SubKept
  <2>5. ServedMain' = [ServedMain EXCEPT ![c] = Ver(pools[c])']
    BY <1>1, <2>1, <2>2, <2>3, MainChanged DEF Base, TypeOK
  <2>6. Ver(pools[c])' = 0
    BY <1>1, <2>1 DEF Ver, Base, TypeOK
  <2>7. UNCHANGED Newest
    BY <1>1 DEF Newest
  <2>8. Abstract!Evict(c)
    BY <2>4, <2>5, <2>6, <2>7 DEF Abstract!Evict
  <2> QED BY <1>1, <2>8 DEF Abstract!Next
<1> QED BY <1>2, <1>3

(* and each round of its loop, like close_pg_db, one sub-pool's slot. *)
LEMMA TakeSubPoolIsEvict ==
    ASSUME Base, Base', Slots, Slots', NEW k \in Conn \X Db, dbPools[k] # None,
           dbPools' = [dbPools EXCEPT ![k] = None], Close(dbPools[k]),
           UNCHANGED <<row, pools>>
    PROVE  Abstract!Next
<1>1. dbPools[k] \in Pool
  BY DEF Base, TypeOK
<1>2. \A q \in Pool : q # dbPools[k] => pool'[q] = pool[q]
  BY <1>1, CloseFacts DEF Base, TypeOK
<1>3. /\ \A c \in Conn : pools[c] # None => pools[c] \in Pool /\ pools[c] # dbPools[k]
      /\ \A l \in Conn \X Db : l # k /\ dbPools[l] # None =>
             dbPools[l] \in Pool /\ dbPools[l] # dbPools[k]
  BY DEF Base, TypeOK, Slots, SlotsApart
<1>4. UNCHANGED ServedMain
  BY <1>2, <1>3, MainKept
<1>5. ServedSub' = [ServedSub EXCEPT ![k] = Ver(dbPools[k])']
  BY <1>2, <1>3, SubChanged DEF Base, TypeOK
<1>6. Ver(dbPools[k])' = 0
  BY DEF Ver, Base, TypeOK
<1>7. UNCHANGED Newest
  BY DEF Newest
<1>8. Abstract!EvictSub(k)
  BY <1>4, <1>5, <1>6, <1>7 DEF Abstract!EvictSub
<1> QED BY <1>8 DEF Abstract!Next

LEMMA RemoveDbIsEvict ==
    ASSUME Base, Base', Slots, Slots', NEW r \in Req, NEW d \in Db, RemoveDb(r, d)
    PROVE  Abstract!Next
<1> DEFINE k == <<job[r].conn, d>>
<1>1. k \in Conn \X Db
  BY DEF RemoveDb, SweepReady, Base, JobsSound, Job
<1>2. /\ dbPools[k] # None /\ dbPools' = [dbPools EXCEPT ![k] = None] /\ Close(dbPools[k])
      /\ UNCHANGED <<row, pools>>
  BY DEF RemoveDb
<1> QED BY <1>1, <1>2, TakeSubPoolIsEvict

LEMMA ClosePgDbIsEvict ==
    ASSUME Base, Base', Slots, Slots', NEW r \in Req, ClosePgDb(r)
    PROVE  [Abstract!Next]_(Abstract!vars)
<1> DEFINE k == Key(r)
<1>1. k \in Conn \X Db /\ UNCHANGED <<row, pools>>
  BY DEF ClosePgDb, Base, JobsSound, Job, Key
<1>2. CASE dbPools[k] = None
  <2>1. UNCHANGED <<pool, dbPools>>
    BY <1>2 DEF ClosePgDb
  <2> QED BY <1>1, <2>1, QuietUnseen
<1>3. CASE dbPools[k] # None
  <2>1. dbPools' = [dbPools EXCEPT ![k] = None] /\ Close(dbPools[k])
    BY <1>3 DEF ClosePgDb
  <2> QED BY <1>1, <1>3, <2>1, TakeSubPoolIsEvict
<1> QED BY <1>2, <1>3

LEMMA RestartIsReset ==
    ASSUME Slots', Restart
    PROVE  Abstract!Next
<1>1. /\ UNCHANGED row
      /\ pools' = [c \in Conn |-> None] /\ dbPools' = [k \in Conn \X Db |-> None]
  BY DEF Restart
<1>2. /\ \A c \in Conn : Ver(pools[c])' = 0
      /\ \A k \in Conn \X Db : Ver(dbPools[k])' = 0
  BY <1>1 DEF Ver
<1>3. /\ ServedMain' = [c \in Conn |-> 0]
      /\ ServedSub' = [k \in Conn \X Db |-> 0]
  BY <1>2, ServedVersionsNext
<1>4. UNCHANGED Newest
  BY <1>1 DEF Newest
<1> QED BY <1>3, <1>4 DEF Abstract!Next, Abstract!Reset

(***************************************************************************)
(* The refinement.                                                         *)
(***************************************************************************)

LEMMA InitIsInit == Init => Abstract!Init
BY DEF Init, Abstract!Init, Newest, ServedMain, ServedSub, Served

(* What a request does without touching row, pool or slot. *)
LEMMA QuietActions ==
    ASSUME NEW r \in Req,
           \/ Start(r) \/ Get(r) \/ GetDb(r) \/ ConnectFail(r) \/ InsertClosed(r)
           \/ Acquire(r) \/ AcquireFail(r) \/ EndStatement(r) \/ EndRequest(r)
           \/ RemoveMainClosed(r) \/ RemoveDbLock(r) \/ RemoveDone(r)
           \/ ClosePgDbDone(r) \/ Cancel(r)
    PROVE  UNCHANGED <<row, pool, pools, dbPools>>
<1>1. CASE Start(r)
  BY <1>1 DEF Start, BrowseServer, BrowseDatabase, DropDatabase, Test, Update, Delete, Begin,
     registry
<1>2. CASE ~Start(r)
  BY <1>2 DEF Get, GetDb, ConnectFail, InsertClosed, Acquire, AcquireFail, EndStatement,
     EndRequest, RemoveMainClosed, RemoveDbLock, RemoveDone, ClosePgDbDone, Cancel, registry
<1> QED BY <1>1, <1>2

LEMMA NextIsNext ==
    ASSUME Base, Base', Slots, Slots', [Next]_vars
    PROVE  [Abstract!Next]_(Abstract!vars)
<1>1. ASSUME NEW r \in Req, Start(r) \/ Advance(r) \/ Cancel(r)
      PROVE  [Abstract!Next]_(Abstract!vars)
  <2>1. ASSUME NEW d \in Db, RemoveDb(r, d) PROVE Abstract!Next
    BY <2>1, RemoveDbIsEvict
  <2>2. CASE \/ Start(r) \/ Get(r) \/ GetDb(r) \/ ConnectFail(r) \/ InsertClosed(r)
             \/ Acquire(r) \/ AcquireFail(r) \/ EndStatement(r) \/ EndRequest(r)
             \/ RemoveMainClosed(r) \/ RemoveDbLock(r) \/ RemoveDone(r)
             \/ ClosePgDbDone(r) \/ Cancel(r)
    BY <2>2, QuietActions, QuietUnseen
  <2>3. CASE Connect(r)
    BY <2>3, PoolUnseen
  <2>4. CASE \/ Insert(r) \/ InsertDb(r) \/ Write(r) \/ RemoveMain(r) \/ ClosePgDb(r)
    BY <2>4, InsertIsPublish, InsertDbIsPublishSub, WriteIsSave, RemoveMainIsEvict,
       ClosePgDbIsEvict
  <2> QED BY <1>1, <2>1, <2>2, <2>3, <2>4 DEF Advance
<1>2. CASE \E c \in Conn : CreateConnection(c)
  BY <1>2, CreateIsSave
<1>3. CASE \E p \in Pool : DropPool(p)
  BY <1>3, PoolUnseen
<1>4. CASE Restart
  BY <1>4, RestartIsReset
<1>5. CASE UNCHANGED vars
  BY <1>5, QuietUnseen DEF vars
<1> QED BY <1>1, <1>2, <1>3, <1>4, <1>5 DEF Next

(* The registry's users may think of one versioned slot per connection and  *)
(* database (PoolManager::get, pg_pool): insert, remove and close_pg_db,    *)
(* with their awaits, close other requests' pools but never another slot's, *)
(* for any number of requests and with clients that leave at any await.     *)
THEOREM PoolsImplementRegistry == Spec => ServesLikeRegistry
<1>1. Base /\ Base' /\ Slots /\ Slots' /\ [Next]_vars => [Abstract!Next]_(Abstract!vars)
  BY NextIsNext
<1> QED BY <1>1, InitIsInit, AlwaysSlots, PTL DEF Spec, ServesLikeRegistry, Abstract!Spec
=============================================================================
