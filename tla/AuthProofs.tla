----------------------------- MODULE AuthProofs -----------------------------
(***************************************************************************)
(* Safety of sessions and of the login lock for every number of sessions,  *)
(* users and requests, and every limit and lock time.                      *)
(***************************************************************************)
EXTENDS Auth, FiniteSetTheorems, TLAPS

Present(u) == u \in Username /\ users[u] # "absent"

(* Where a request keeps a user, that user exists.  totp_submit's copy of   *)
(* user_id is set only if the row's is, and the row's is never cleared.     *)
UsersKnown ==
    /\ \A s \in Sid : sessions[s].user # None => Present(sessions[s].user)
    /\ \A s \in Sid : sessions[s].st = "authenticated" => sessions[s].user # None
    /\ \A r \in Req : pc[r] # "idle" =>
         /\ req[r].sid \in Sid
         /\ req[r].name \in Username
         /\ sessions[req[r].sid].st # "unused"
         /\ req[r].user # None =>
              sessions[req[r].sid].user # None /\ Present(req[r].user)
         /\ pc[r] \in {"enable", "authenticate"} => req[r].user # None
         /\ pc[r] \in {"verify", "commit", "bind"} => Present(req[r].name)

Inv == TypeOK /\ UsersKnown

LEMMA InitInv == Init => Inv
BY DEF Init, Inv, TypeOK, UsersKnown, Present, NoAttempts, NoReq, Op, Step

LEMMA ResolverInv ==
    ASSUME Inv, NEW r \in Req, NEW s \in Sid, NEW op \in Op, NEW name \in Username,
           Resolve(r, s, op, name)
    PROVE  Inv'
BY AuthAssumption DEF Resolve, Exists, Inv, TypeOK, UsersKnown, Present, Op, Step

LEMMA RootInv ==
    ASSUME Inv, NEW s \in Sid, Root(s)
    PROVE  Inv'
BY DEF Root, SessionRow, Inv, TypeOK, UsersKnown, Present, Op, Step

(* An UPDATE touches one row, and only if it is there. *)
LEMMA UpdateFacts ==
    ASSUME TypeOK, NEW s \in Sid,
           NEW st \in {"pending", "authenticated", "gone"},
           NEW u \in Username \cup {None}, NEW t \in Nat,
           UpdateSession(s, SessionRow(st, u, t))
    PROVE  /\ sessions' \in [Sid -> [st: {"unused", "pending", "authenticated", "gone"},
                                      user: Username \cup {None}, last: Nat]]
           /\ \A x \in Sid : x # s => sessions'[x] = sessions[x]
           /\ Exists(s) => sessions'[s] = [st |-> st, user |-> u, last |-> t]
           /\ ~Exists(s) => sessions'[s] = sessions[s]
BY DEF UpdateSession, SessionRow, TypeOK, Exists

(* What the end of a request, or its next step, does to its locals. *)
LEMMA LocalsFacts ==
    ASSUME Inv, NEW r \in Req,
           \/ End(r)
           \/ \E s \in Step \ {"idle"} : Goto(r, s)
    PROVE  /\ pc' \in [Req -> Step]
           /\ req' \in [Req -> [sid: Sid \cup {None}, st: {"pending", "authenticated"},
                                 user: Username \cup {None}, stamp: Nat, op: Op,
                                 name: Username \cup {None}]]
           /\ \A q \in Req : q # r => pc'[q] = pc[q] /\ req'[q] = req[q]
           /\ pc'[r] # "idle" => req'[r] = req[r]
<1>1. CASE End(r)
  BY <1>1 DEF End, NoReq, Inv, TypeOK, Op, Step
<1>2. ASSUME NEW s \in Step \ {"idle"}, Goto(r, s)
      PROVE  /\ pc' \in [Req -> Step] /\ pc' = [pc EXCEPT ![r] = s] /\ req' = req
  BY <1>2 DEF Goto, Inv, TypeOK
<1> QED BY <1>1, <1>2 DEF Inv, TypeOK

(* A write to the request's own session that keeps or sets its user keeps   *)
(* what is known of users; the request then ends or goes on.                *)
LEMMA SessionWriteInv ==
    ASSUME Inv, NEW r \in Req, pc[r] # "idle",
           NEW st \in {"pending", "authenticated", "gone"},
           NEW u \in Username \cup {None}, NEW t \in Nat,
           UpdateSession(req[r].sid, SessionRow(st, u, t)),
           u = sessions[req[r].sid].user \/ Present(u),
           st = "authenticated" => u # None,
           \/ End(r)
           \/ \E s \in Op : Goto(r, s),
           UNCHANGED <<now, users, attempts>>
    PROVE  Inv'
<1> DEFINE s == req[r].sid
<1>1. s \in Sid
  BY DEF Inv, UsersKnown
<1>2. /\ sessions' \in [Sid -> [st: {"unused", "pending", "authenticated", "gone"},
                                 user: Username \cup {None}, last: Nat]]
      /\ \A x \in Sid : x # s => sessions'[x] = sessions[x]
      /\ Exists(s) => sessions'[s] = [st |-> st, user |-> u, last |-> t]
      /\ ~Exists(s) => sessions'[s] = sessions[s]
  BY <1>1, UpdateFacts DEF Inv
<1>3. \A x \in Sid : sessions[x].user # None => Present(sessions[x].user)
  BY DEF Inv, UsersKnown
<1>4. \A x \in Sid :
        /\ sessions'[x].user # None => Present(sessions'[x].user)
        /\ sessions'[x].st = "authenticated" => sessions'[x].user # None
        /\ sessions[x].user # None => sessions'[x].user # None
        /\ sessions[x].st # "unused" => sessions'[x].st # "unused"
  <2> SUFFICES ASSUME NEW x \in Sid
               PROVE  /\ sessions'[x].user # None => Present(sessions'[x].user)
                      /\ sessions'[x].st = "authenticated" => sessions'[x].user # None
                      /\ sessions[x].user # None => sessions'[x].user # None
                      /\ sessions[x].st # "unused" => sessions'[x].st # "unused"
    OBVIOUS
  <2>1. CASE x = s /\ Exists(s)
    <3>1. sessions'[x].user = u /\ sessions'[x].st = st
      BY <1>2, <2>1
    <3>2. Present(u) => u # None
      BY AuthAssumption DEF Present
    <3> QED BY <1>1, <1>3, <2>1, <3>1, <3>2
  <2>2. CASE x # s \/ ~Exists(s)
    BY <1>2, <1>3, <2>2 DEF Inv, UsersKnown
  <2> QED BY <2>1, <2>2
<1>5. \A v : Present(v)' <=> Present(v)
  BY DEF Present
<1>6. /\ pc' \in [Req -> Step]
      /\ req' \in [Req -> [sid: Sid \cup {None}, st: {"pending", "authenticated"},
                            user: Username \cup {None}, stamp: Nat, op: Op,
                            name: Username \cup {None}]]
      /\ \A q \in Req : q # r => pc'[q] = pc[q] /\ req'[q] = req[q]
      /\ pc'[r] # "idle" => req'[r] = req[r]
  BY LocalsFacts DEF Step, Op
<1>7. pc'[r] \in {"idle"} \cup Op
  BY DEF End, Goto, Inv, TypeOK
<1>8. TypeOK'
  BY <1>2, <1>6 DEF Inv, TypeOK
<1>9. UsersKnown'
  BY <1>1, <1>4, <1>5, <1>6, <1>7 DEF Inv, UsersKnown, Op
<1> QED BY <1>8, <1>9 DEF Inv

(* A step that leaves sessions and users alone. *)
LEMMA LocalInv ==
    ASSUME Inv, NEW r \in Req,
           UNCHANGED <<sessions, users>>,
           now' \in Nat,
           attempts' \in [Username -> [fails: Nat, until: Nat]],
           \/ End(r)
           \/ /\ pc[r] # "idle"
              /\ \E s \in Step \ {"idle"} :
                   /\ Goto(r, s)
                   /\ s \in {"enable", "authenticate"} => req[r].user # None
                   /\ s \in {"verify", "commit", "bind"} => Present(req[r].name)
    PROVE  Inv'
<1>1. CASE End(r)
  BY <1>1 DEF End, NoReq, Inv, TypeOK, UsersKnown, Present, Op, Step
<1>2. ASSUME NEW s \in Step \ {"idle"}, Goto(r, s), pc[r] # "idle",
             s \in {"enable", "authenticate"} => req[r].user # None,
             s \in {"verify", "commit", "bind"} => Present(req[r].name)
      PROVE  Inv'
  <2>1. /\ pc' \in [Req -> Step] /\ req' = req
        /\ pc'[r] = s
        /\ \A q \in Req : q # r => pc'[q] = pc[q]
    BY <1>2 DEF Goto, Inv, TypeOK
  <2>2. TypeOK'
    BY <2>1 DEF Inv, TypeOK
  <2>3. UsersKnown'
    BY <1>2, <2>1 DEF Inv, UsersKnown, Present
  <2> QED BY <2>2, <2>3 DEF Inv
<1> QED BY <1>1, <1>2

LEMMA SessionStepsInv ==
    ASSUME Inv, NEW r \in Req,
           Expire(r) \/ Touch(r) \/ Page(r) \/ Logout(r) \/ Abandon(r)
    PROVE  Inv'
<1> DEFINE s == req[r].sid
<1>1. ASSUME pc[r] # "idle"
      PROVE  /\ sessions[s].user \in Username \cup {None}
             /\ sessions[s].last \in Nat
             /\ sessions[s].st \in {"pending", "authenticated", "gone"}
             /\ sessions[s].st = "authenticated" => sessions[s].user # None
             /\ req[r].stamp \in Nat /\ req[r].op \in Op
  <2>1. s \in Sid /\ sessions[s].st # "unused"
    BY <1>1 DEF Inv, UsersKnown
  <2> QED BY <2>1 DEF Inv, TypeOK, UsersKnown
<1>2. CASE Expire(r) \/ Logout(r)
  <2>1. /\ pc[r] # "idle" /\ End(r) /\ UNCHANGED <<now, users, attempts>>
        /\ UpdateSession(s, SessionRow("gone", sessions[s].user, sessions[s].last))
    BY <1>2 DEF Expire, Logout, DeleteSession
  <2>2. sessions[s].user \in Username \cup {None} /\ sessions[s].last \in Nat
    BY <1>1, <2>1
  <2> HIDE DEF s
  <2> QED BY <2>1, <2>2, SessionWriteInv DEF s
<1>3. CASE Touch(r)
  <2>1. /\ pc[r] # "idle" /\ Goto(r, req[r].op) /\ UNCHANGED <<now, users, attempts>>
        /\ UpdateSession(s, SessionRow(sessions[s].st, sessions[s].user, req[r].stamp))
    BY <1>3 DEF Touch
  <2>2. /\ sessions[s].st \in {"pending", "authenticated", "gone"}
        /\ sessions[s].user \in Username \cup {None} /\ req[r].stamp \in Nat
        /\ sessions[s].st = "authenticated" => sessions[s].user # None
        /\ \E o \in Op : Goto(r, o)
    BY <1>1, <2>1
  <2> QED BY <2>1, <2>2, SessionWriteInv
<1>4. CASE Page(r) \/ Abandon(r)
  BY <1>4, LocalInv DEF Page, Abandon, Inv, TypeOK
<1> QED BY <1>2, <1>3, <1>4

(* The counter of failures keeps its type. *)
LEMMA CounterType ==
    ASSUME Inv, NEW u, u \in Username,
           record_fail(u) \/ clear_fails(u) \/ DropRunOut(u) \/ UNCHANGED attempts
    PROVE  attempts' \in [Username -> [fails: Nat, until: Nat]]
<1>1. CASE record_fail(u)
  <2> DEFINE n == attempts[u].fails + 1
  <2>1. /\ n \in Nat
        /\ (IF n >= MaxFails THEN now + LockSecs ELSE attempts[u].until) \in Nat
    BY AuthAssumption DEF Inv, TypeOK
  <2> QED BY <1>1, <2>1 DEF record_fail, Inv, TypeOK
<1>2. CASE clear_fails(u)
  BY <1>2 DEF clear_fails, NoAttempts, Inv, TypeOK
<1>3. CASE DropRunOut(u)
  <2>1. UNCHANGED attempts \/ attempts' = [attempts EXCEPT ![u] = NoAttempts]
    BY <1>3 DEF DropRunOut
  <2> QED BY <2>1 DEF NoAttempts, Inv, TypeOK
<1>4. CASE UNCHANGED attempts
  BY <1>4 DEF Inv, TypeOK
<1> QED BY <1>1, <1>2, <1>3, <1>4

LEMMA LoginInv ==
    ASSUME Inv, NEW r \in Req,
           LoginCheck(r) \/ LoginSelect(r) \/ LoginVerify(r) \/ LoginCommit(r)
    PROVE  Inv'
<1> DEFINE u == req[r].name
           s == req[r].sid
<1>1. pc[r] # "idle" /\ u \in Username /\ s \in Sid
  BY DEF LoginCheck, LoginSelect, LoginVerify, LoginCommit, Inv, UsersKnown
<1>2. now' \in Nat /\ UNCHANGED users
  BY DEF LoginCheck, LoginSelect, LoginVerify, LoginCommit, Inv, TypeOK
<1>3. CASE LoginCheck(r)
  <2>1. UNCHANGED sessions /\ (DropRunOut(u) \/ UNCHANGED attempts) /\ (End(r) \/ Goto(r, "select"))
    BY <1>3 DEF LoginCheck
  <2> QED BY <1>1, <1>2, <2>1, CounterType, LocalInv DEF Step
<1>4. CASE LoginSelect(r)
  <2>1. /\ UNCHANGED sessions /\ (record_fail(u) \/ UNCHANGED attempts)
        /\ \/ End(r)
           \/ Goto(r, "verify") /\ Present(u)
    BY <1>1, <1>4 DEF LoginSelect, Present
  <2> QED BY <1>1, <1>2, <2>1, CounterType, LocalInv DEF Step
<1>5. CASE LoginVerify(r)
  <2>1. /\ UNCHANGED sessions /\ (record_fail(u) \/ clear_fails(u))
        /\ End(r) \/ Goto(r, "commit")
    BY <1>5 DEF LoginVerify
  <2>2. Present(u)
    BY <1>5 DEF LoginVerify, Inv, UsersKnown
  <2> QED BY <1>1, <1>2, <2>1, <2>2, CounterType, LocalInv DEF Step
<1>6. CASE LoginCommit(r)
  <2>1. /\ UpdateSession(s, SessionRow("authenticated", u, sessions[s].last))
        /\ End(r) /\ UNCHANGED <<now, users, attempts>>
    BY <1>6 DEF LoginCommit
  <2>2. Present(u) /\ u # None /\ sessions[s].last \in Nat
    BY <1>1, <1>6, AuthAssumption DEF LoginCommit, Inv, UsersKnown, TypeOK
  <2> QED BY <1>1, <2>1, <2>2, SessionWriteInv
<1> QED BY <1>3, <1>4, <1>5, <1>6

(* Users are added and enabled, never removed. *)
LEMMA UserWriteInv ==
    ASSUME Inv, NEW r \in Req, pc[r] # "idle",
           NEW u \in Username, NEW v \in {"off", "on"},
           users' = [users EXCEPT ![u] = v],
           NEW s \in Step \ {"idle", "verify", "commit", "enable"}, Goto(r, s),
           s = "authenticate" => req[r].user # None,
           s = "bind" => req[r].name = u,
           UNCHANGED <<now, sessions, attempts>>
    PROVE  Inv'
<1>1. users' \in [Username -> {"absent", "off", "on"}]
  BY DEF Inv, TypeOK
<1>2. users'[u] # "absent" /\ \A w \in Username : users[w] # "absent" => users'[w] # "absent"
  BY DEF Inv, TypeOK
<1>3. /\ pc' \in [Req -> Step] /\ req' = req
      /\ pc'[r] = s
      /\ \A q \in Req : q # r => pc'[q] = pc[q]
  BY DEF Goto, Inv, TypeOK
<1>4. TypeOK'
  BY <1>1, <1>3 DEF Inv, TypeOK
<1>5. UsersKnown'
  <2>1. \A x \in Sid : /\ sessions'[x].user # None => Present(sessions[x].user)'
                       /\ sessions'[x].st = "authenticated" => sessions'[x].user # None
    BY <1>2 DEF Inv, UsersKnown, Present
  <2>2. ASSUME NEW q \in Req, pc'[q] # "idle"
        PROVE  /\ req'[q].sid \in Sid
               /\ req'[q].name \in Username
               /\ sessions'[req'[q].sid].st # "unused"
               /\ req'[q].user # None =>
                    sessions'[req'[q].sid].user # None /\ Present(req[q].user)'
               /\ pc'[q] \in {"enable", "authenticate"} => req'[q].user # None
               /\ pc'[q] \in {"verify", "commit", "bind"} => Present(req[q].name)'
    <3>1. CASE q = r
      BY <1>2, <1>3, <3>1 DEF Inv, UsersKnown, Present
    <3>2. CASE q # r
      BY <1>2, <1>3, <2>2, <3>2 DEF Inv, UsersKnown, Present
    <3> QED BY <3>1, <3>2
  <2> QED BY <2>1, <2>2 DEF UsersKnown
<1> QED BY <1>4, <1>5 DEF Inv

LEMMA SetupInv ==
    ASSUME Inv, NEW r \in Req, SetupCheck(r) \/ SetupInsert(r) \/ SetupBind(r)
    PROVE  Inv'
<1> DEFINE u == req[r].name
           s == req[r].sid
<1>1. pc[r] # "idle" /\ u \in Username /\ s \in Sid
  BY DEF SetupCheck, SetupInsert, SetupBind, Inv, UsersKnown
<1>2. CASE SetupCheck(r)
  <2>1. UNCHANGED <<now, sessions, users, attempts>> /\ (End(r) \/ Goto(r, "insert"))
    BY <1>2 DEF SetupCheck
  <2>2. now' \in Nat /\ attempts' \in [Username -> [fails: Nat, until: Nat]]
    BY <2>1 DEF Inv, TypeOK
  <2> QED BY <1>1, <2>1, <2>2, LocalInv DEF Step
<1>3. CASE SetupInsert(r)
  <2>1. UNCHANGED <<now, sessions, attempts>>
    BY <1>3 DEF SetupInsert
  <2>2. CASE users[u] = "absent"
    <3>1. users' = [users EXCEPT ![u] = "off"] /\ Goto(r, "bind")
      BY <1>3, <2>2 DEF SetupInsert
    <3> QED BY <1>1, <2>1, <3>1, UserWriteInv DEF Step
  <2>3. CASE users[u] # "absent"
    <3>1. UNCHANGED users /\ End(r)
      BY <1>3, <2>3 DEF SetupInsert
    <3> QED BY <2>1, <3>1, LocalInv DEF Inv, TypeOK
  <2> QED BY <2>2, <2>3
<1>4. CASE SetupBind(r)
  <2>1. /\ UpdateSession(s, SessionRow(sessions[s].st, u, sessions[s].last))
        /\ End(r) /\ UNCHANGED <<now, users, attempts>>
    BY <1>4 DEF SetupBind
  <2>2. /\ Present(u) /\ u # None /\ sessions[s].last \in Nat
        /\ sessions[s].st \in {"pending", "authenticated", "gone"}
    BY <1>1, <1>4, AuthAssumption DEF SetupBind, Inv, UsersKnown, TypeOK
  <2> QED BY <1>1, <2>1, <2>2, SessionWriteInv
<1> QED BY <1>2, <1>3, <1>4

LEMMA TotpInv ==
    ASSUME Inv, NEW r \in Req, TotpCheck(r) \/ TotpEnable(r) \/ TotpAuthenticate(r)
    PROVE  Inv'
<1> DEFINE s == req[r].sid
<1>1. pc[r] # "idle" /\ s \in Sid
  BY DEF TotpCheck, TotpEnable, TotpAuthenticate, Inv, UsersKnown
<1>2. CASE TotpCheck(r)
  <2>1. /\ UNCHANGED <<now, sessions, users, attempts>>
        /\ \/ End(r)
           \/ Goto(r, "enable") /\ req[r].user # None
    BY <1>2 DEF TotpCheck
  <2>2. now' \in Nat /\ attempts' \in [Username -> [fails: Nat, until: Nat]]
    BY <2>1 DEF Inv, TypeOK
  <2> QED BY <1>1, <2>1, <2>2, LocalInv DEF Step
<1>3. CASE TotpEnable(r)
  <2>1. req[r].user \in Username /\ req[r].user # None
    BY <1>3 DEF TotpEnable, Inv, UsersKnown, Present
  <2> QED BY <1>1, <1>3, <2>1, UserWriteInv DEF TotpEnable, Step
<1>4. CASE TotpAuthenticate(r)
  <2>1. /\ UpdateSession(s, SessionRow("authenticated", sessions[s].user, sessions[s].last))
        /\ End(r) /\ UNCHANGED <<now, users, attempts>>
    BY <1>4 DEF TotpAuthenticate
  <2>2. /\ sessions[s].user \in Username \cup {None} /\ sessions[s].user # None
        /\ sessions[s].last \in Nat
    BY <1>1, <1>4 DEF TotpAuthenticate, Inv, UsersKnown, TypeOK
  <2> QED BY <1>1, <2>1, <2>2, SessionWriteInv
<1> QED BY <1>2, <1>3, <1>4

LEMMA NextInv == Inv /\ [Next]_vars => Inv'
<1> SUFFICES ASSUME Inv, [Next]_vars PROVE Inv'
  OBVIOUS
<1>1. ASSUME NEW r \in Req, Handle(r) PROVE Inv'
  BY <1>1, SessionStepsInv, LoginInv, SetupInv, TotpInv DEF Handle
<1>2. CASE Tick
  BY <1>2 DEF Tick, Inv, TypeOK, UsersKnown, Present
<1>3. CASE Restart
  BY <1>3 DEF Restart, NoAttempts, NoReq, Inv, TypeOK, UsersKnown, Present, Op, Step
<1>4. CASE UNCHANGED vars
  BY <1>4 DEF vars, Inv, TypeOK, UsersKnown, Present
<1> QED BY <1>1, <1>2, <1>3, <1>4, RootInv, ResolverInv DEF Next

LEMMA AlwaysInv == Spec => []Inv
BY InitInv, NextInv, PTL DEF Spec

(* Types: SessionCtx and the rows it is a copy of (src/session.rs). *)
THEOREM TypeCorrect == Spec => []TypeOK
<1>1. Inv => TypeOK
  BY DEF Inv
<1> QED BY <1>1, AlwaysInv, PTL

(* An authenticated session has a user, although totp_submit relies on an   *)
(* old copy of the row for that.                                            *)
THEOREM SessionsHaveUsers == Spec => []AuthenticatedHasUser
<1>1. Inv => AuthenticatedHasUser
  BY DEF Inv, UsersKnown, Present, AuthenticatedHasUser
<1> QED BY <1>1, AlwaysInv, PTL

(* A deleted session is never written again (session.rs, auth.rs: every     *)
(* later write is an UPDATE or a DELETE by id).                             *)
LEMMA GoneStep ==
    ASSUME Inv, [Next]_vars, NEW s \in Sid, sessions[s].st = "gone"
    PROVE  sessions'[s] = sessions[s]
<1>1. ASSUME NEW x, NEW row, UpdateSession(x, row) PROVE sessions'[s] = sessions[s]
  BY <1>1 DEF UpdateSession, Exists, Inv, TypeOK
<1>2. ASSUME NEW r \in Req, Handle(r) PROVE sessions'[s] = sessions[s]
  <2>1. UNCHANGED sessions \/ \E x, row : UpdateSession(x, row)
    BY <1>2 DEF Handle, Expire, Touch, Page, Logout, LoginCheck, LoginSelect, LoginVerify,
       LoginCommit, SetupCheck, SetupInsert, SetupBind, TotpCheck, TotpEnable,
       TotpAuthenticate, Abandon, DeleteSession
  <2> QED BY <1>1, <2>1
<1>3. ASSUME NEW x \in Sid, Root(x) PROVE sessions'[s] = sessions[s]
  BY <1>3 DEF Root, Inv, TypeOK
<1> QED BY <1>2, <1>3 DEF Next, Resolve, Tick, Restart, vars

THEOREM DeletedForGood == Spec => GoneStaysGone
<1>1. Inv /\ [Next]_vars =>
        [\A s \in Sid : sessions[s].st = "gone" => sessions'[s] = sessions[s]]_vars
  BY GoneStep
<1> QED BY <1>1, AlwaysInv, PTL DEF Spec, GoneStaysGone

(***************************************************************************)
(* The login lock.                                                         *)
(***************************************************************************)

(* A lock ends LOCK_SECS from now at the latest. *)
LocksEnd == \A u \in Username : attempts[u].until <= now + LockSecs

(* What a step does to the counter of one username. *)
CounterStep(u) ==
    \/ attempts'[u] = attempts[u]
    \/ /\ attempts[u].fails >= MaxFails => ~Locked(u)
       /\ attempts'[u] = NoAttempts
    \/ /\ \E r \in Req : pc[r] = "verify" /\ req[r].name = u /\ pc'[r] = "commit"
       /\ attempts'[u] = NoAttempts
    \/ Restart /\ attempts'[u] = NoAttempts
    \/ /\ attempts'[u].fails = attempts[u].fails + 1
       /\ attempts'[u].until = IF attempts[u].fails + 1 >= MaxFails THEN now + LockSecs
                               ELSE attempts[u].until

LEMMA LoginCounter ==
    ASSUME Inv, NEW r \in Req, LoginCheck(r) \/ LoginSelect(r) \/ LoginVerify(r),
           NEW u \in Username
    PROVE  CounterStep(u) /\ now' = now
<1> DEFINE n == req[r].name
<1>1. pc[r] # "idle" /\ n \in Username
  BY DEF LoginCheck, LoginSelect, LoginVerify, Inv, UsersKnown
<1>2. ASSUME record_fail(n) PROVE CounterStep(u)
  <2>1. attempts' = [attempts EXCEPT ![n] =
                       [fails |-> attempts[n].fails + 1,
                        until |-> IF attempts[n].fails + 1 >= MaxFails THEN now + LockSecs
                                  ELSE attempts[n].until]]
    BY <1>2 DEF record_fail
  <2>2. CASE u = n
    BY <1>1, <2>1, <2>2 DEF CounterStep, Inv, TypeOK
  <2>3. CASE u # n
    BY <1>1, <2>1, <2>3 DEF CounterStep, Inv, TypeOK
  <2> QED BY <2>2, <2>3
<1>3. CASE LoginCheck(r)
  <2>1. CASE UNCHANGED attempts
    BY <1>3, <2>1 DEF LoginCheck, CounterStep
  <2>2. CASE ~Locked(n) /\ DropRunOut(n)
    <3>1. UNCHANGED attempts \/ attempts' = [attempts EXCEPT ![n] = NoAttempts]
      BY <2>2 DEF DropRunOut
    <3> QED BY <1>1, <1>3, <2>2, <3>1 DEF LoginCheck, CounterStep, Inv, TypeOK
  <2> QED BY <1>3, <2>1, <2>2 DEF LoginCheck
<1>4. CASE LoginSelect(r)
  <2>1. now' = now /\ (UNCHANGED attempts \/ record_fail(n))
    BY <1>4 DEF LoginSelect
  <2>2. CASE UNCHANGED attempts
    BY <2>1, <2>2 DEF CounterStep
  <2> QED BY <1>2, <2>1, <2>2
<1>5. CASE LoginVerify(r)
  <2>1. now' = now /\ pc[r] = "verify"
        /\ (record_fail(n) \/ (clear_fails(n) /\ Goto(r, "commit")))
    BY <1>5 DEF LoginVerify
  <2>2. CASE clear_fails(n) /\ Goto(r, "commit")
    <3>1. attempts' = [attempts EXCEPT ![n] = NoAttempts] /\ pc'[r] = "commit"
      BY <2>2 DEF clear_fails, Goto, Inv, TypeOK
    <3>2. CASE u = n
      BY <1>1, <2>1, <3>1, <3>2 DEF CounterStep, Inv, TypeOK
    <3>3. CASE u # n
      <4>1. attempts'[u] = attempts[u]
        BY <3>1, <3>3 DEF Inv, TypeOK
      <4> QED BY <2>1, <4>1 DEF CounterStep
    <3> QED BY <2>1, <3>2, <3>3
  <2> QED BY <1>2, <2>1, <2>2
<1> QED BY <1>3, <1>4, <1>5

LEMMA AnyCounter ==
    ASSUME Inv, [Next]_vars, NEW u \in Username
    PROVE  CounterStep(u) /\ now' \in Nat /\ now' >= now
<1>1. ASSUME NEW r \in Req, Handle(r), ~LoginCheck(r), ~LoginSelect(r), ~LoginVerify(r)
      PROVE  UNCHANGED <<now, attempts>>
  BY <1>1 DEF Handle, Expire, Touch, Page, Logout, LoginCommit, SetupCheck, SetupInsert,
     SetupBind, TotpCheck, TotpEnable, TotpAuthenticate, Abandon
<1>2. CASE Restart
  BY <1>2 DEF Restart, CounterStep, Inv, TypeOK
<1>3. CASE Tick
  BY <1>3 DEF Tick, CounterStep, Inv, TypeOK
<1>4. CASE UNCHANGED <<now, attempts>>
  BY <1>4 DEF CounterStep, Inv, TypeOK
<1>5. ASSUME NEW r \in Req, LoginCheck(r) \/ LoginSelect(r) \/ LoginVerify(r)
      PROVE  CounterStep(u) /\ now' \in Nat /\ now' >= now
  BY <1>5, LoginCounter DEF Inv, TypeOK
<1>6. ASSUME NEW r \in Req, Handle(r)
      PROVE  CounterStep(u) /\ now' \in Nat /\ now' >= now
  BY <1>1, <1>4, <1>5, <1>6
<1>7. CASE \/ \E s \in Sid : Root(s)
           \/ \E r \in Req, s \in Sid, op \in Op, name \in Username : Resolve(r, s, op, name)
  BY <1>4, <1>7 DEF Root, Resolve
<1> QED BY <1>2, <1>3, <1>4, <1>6, <1>7 DEF Next, vars

LEMMA LocksEndStep ==
    ASSUME Inv, LocksEnd, [Next]_vars
    PROVE  LocksEnd'
<1> SUFFICES ASSUME NEW u \in Username PROVE attempts'[u].until <= now' + LockSecs
  BY DEF LocksEnd
<1>1. attempts[u].until <= now + LockSecs /\ attempts[u].until \in Nat /\ now \in Nat
      /\ LockSecs \in Nat
  BY AuthAssumption DEF LocksEnd, Inv, TypeOK
<1> QED BY <1>1, AnyCounter DEF CounterStep, NoAttempts

(* Before its time is over a lock goes with a correct login or the process  *)
(* only, and is never shortened (auth.rs, record_fail and clear_fails).     *)
THEOREM LockKept == Spec => LockHolds
<1> DEFINE Hold(u) ==
             Locked(u) =>
               \/ attempts'[u].fails >= MaxFails /\ attempts'[u].until >= attempts[u].until
               \/ \E r \in Req : /\ pc[r] = "verify" /\ req[r].name = u
                                 /\ pc'[r] = "commit"
               \/ Restart
<1>1. ASSUME Inv, LocksEnd, [Next]_vars, NEW u \in Username PROVE Hold(u)
  <2> SUFFICES ASSUME Locked(u)
               PROVE  \/ /\ attempts'[u].fails >= MaxFails
                         /\ attempts'[u].until >= attempts[u].until
                      \/ \E r \in Req : /\ pc[r] = "verify" /\ req[r].name = u
                                        /\ pc'[r] = "commit"
                      \/ Restart
    OBVIOUS
  <2>1. /\ attempts[u].fails >= MaxFails /\ attempts[u].fails \in Nat
        /\ attempts[u].until \in Nat /\ attempts[u].until <= now + LockSecs
        /\ MaxFails \in Nat
    BY <1>1, AuthAssumption DEF Locked, LocksEnd, Inv, TypeOK
  <2>2. CounterStep(u)
    BY <1>1, AnyCounter
  <2> QED BY <2>1, <2>2 DEF CounterStep
<1>2. Init => LocksEnd
  BY AuthAssumption DEF Init, LocksEnd, NoAttempts
<1>3. Inv /\ LocksEnd /\ [Next]_vars => LocksEnd'
  BY LocksEndStep
<1>4. Inv /\ LocksEnd /\ [Next]_vars => [\A u \in Username : Hold(u)]_vars
  BY <1>1
<1> QED BY <1>2, <1>3, <1>4, AlwaysInv, PTL DEF Spec, LockHolds

(* The count of failures and the attempts not judged yet, in a step. *)
BudgetStep(u) ==
    \/ Unjudged(u)' \subseteq Unjudged(u) /\ attempts'[u].fails <= attempts[u].fails
    \/ attempts'[u].fails <= MaxFails - 1
    \/ /\ attempts'[u].fails = attempts[u].fails + 1
       /\ \E r \in Unjudged(u) : Unjudged(u)' \subseteq Unjudged(u) \ {r}

LEMMA LoginBudget ==
    ASSUME Inv, NEW r \in Req, LoginCheck(r) \/ LoginSelect(r) \/ LoginVerify(r),
           NEW u \in Username
    PROVE  BudgetStep(u)
<1> DEFINE n == req[r].name
<1>1. pc[r] # "idle" /\ n \in Username
  BY DEF LoginCheck, LoginSelect, LoginVerify, Inv, UsersKnown
<1>2. \A q \in Req : q # r => pc'[q] = pc[q] /\ req'[q] = req[q]
  BY LocalsFacts DEF LoginCheck, LoginSelect, LoginVerify, Step
<1>3. ASSUME pc'[r] \notin {"select", "verify"}
      PROVE  Unjudged(u)' \subseteq Unjudged(u)
  BY <1>2, <1>3 DEF Unjudged
<1>4. ASSUME record_fail(n), End(r), pc[r] \in {"select", "verify"} PROVE BudgetStep(u)
  <2>1. pc'[r] = "idle"
    BY <1>4 DEF End, Inv, TypeOK
  <2>2. CASE u = n
    <3>1. attempts'[u].fails = attempts[u].fails + 1
      BY <1>1, <1>4, <2>2 DEF record_fail, Inv, TypeOK
    <3>2. r \in Unjudged(u)
      BY <1>4, <2>2 DEF Unjudged
    <3>3. Unjudged(u)' \subseteq Unjudged(u) \ {r}
      BY <1>2, <2>1 DEF Unjudged
    <3> QED BY <3>1, <3>2, <3>3 DEF BudgetStep
  <2>3. CASE u # n
    <3>1. attempts'[u] = attempts[u] /\ attempts[u].fails \in Nat
      BY <1>1, <1>4, <2>3 DEF record_fail, Inv, TypeOK
    <3>2. Unjudged(u)' \subseteq Unjudged(u)
      BY <1>3, <2>1
    <3> QED BY <3>1, <3>2 DEF BudgetStep
  <2> QED BY <2>2, <2>3
<1>5. attempts[u].fails \in Nat /\ attempts[n].fails \in Nat /\ MaxFails \in Nat \ {0}
  BY <1>1, AuthAssumption DEF Inv, TypeOK
<1>6. CASE LoginCheck(r)
  <2>1. CASE End(r) /\ UNCHANGED attempts
    <3>1. pc'[r] = "idle"
      BY <2>1 DEF End, Inv, TypeOK
    <3> QED BY <1>3, <1>5, <2>1, <3>1 DEF BudgetStep
  <2>2. CASE ~Locked(n) /\ Goto(r, "select") /\ DropRunOut(n)
    <3>1. req' = req /\ pc'[r] = "select" /\ pc[r] = "login"
      BY <1>6, <2>2 DEF LoginCheck, Goto, Inv, TypeOK
    <3>2. CASE u = n
      <4>1. attempts'[u].fails <= MaxFails - 1
        <5>1. CASE attempts[n].fails >= MaxFails
          <6>1. attempts'[u] = NoAttempts
            BY <1>1, <2>2, <3>2, <5>1 DEF DropRunOut, Inv, TypeOK
          <6> QED BY <1>5, <6>1 DEF NoAttempts
        <5>2. CASE ~(attempts[n].fails >= MaxFails)
          BY <1>5, <2>2, <3>2, <5>2 DEF DropRunOut
        <5> QED BY <5>1, <5>2
      <4> QED BY <4>1 DEF BudgetStep
    <3>3. CASE u # n
      <4>1. attempts'[u] = attempts[u]
        BY <2>2, <3>3 DEF DropRunOut, Inv, TypeOK
      <4>2. Unjudged(u)' \subseteq Unjudged(u)
        BY <1>2, <3>1, <3>3 DEF Unjudged
      <4> QED BY <1>5, <4>1, <4>2 DEF BudgetStep
    <3> QED BY <3>2, <3>3
  <2> QED BY <1>6, <2>1, <2>2 DEF LoginCheck
<1>7. CASE LoginSelect(r)
  <2>1. CASE record_fail(n) /\ End(r)
    BY <1>4, <1>7, <2>1 DEF LoginSelect
  <2>2. CASE Goto(r, "verify") /\ UNCHANGED attempts
    <3>1. req' = req /\ pc[r] = "select"
      BY <1>7, <2>2 DEF LoginSelect, Goto
    <3>2. Unjudged(u)' \subseteq Unjudged(u)
      BY <1>2, <3>1 DEF Unjudged
    <3> QED BY <1>5, <2>2, <3>2 DEF BudgetStep
  <2> QED BY <1>7, <2>1, <2>2 DEF LoginSelect
<1>8. CASE LoginVerify(r)
  <2>1. CASE record_fail(n) /\ End(r)
    BY <1>4, <1>8, <2>1 DEF LoginVerify
  <2>2. CASE clear_fails(n) /\ Goto(r, "commit")
    <3>1. pc'[r] = "commit"
      BY <2>2 DEF Goto, Inv, TypeOK
    <3>2. Unjudged(u)' \subseteq Unjudged(u)
      BY <1>3, <3>1
    <3>3. attempts'[u].fails <= attempts[u].fails
      <4>1. attempts'[u] = attempts[u] \/ attempts'[u] = NoAttempts
        BY <1>1, <2>2 DEF clear_fails, Inv, TypeOK
      <4> QED BY <1>5, <4>1 DEF NoAttempts
    <3> QED BY <3>2, <3>3 DEF BudgetStep
  <2> QED BY <1>8, <2>1, <2>2 DEF LoginVerify
<1> QED BY <1>6, <1>7, <1>8

LEMMA AnyBudget ==
    ASSUME Inv, [Next]_vars, NEW u \in Username
    PROVE  BudgetStep(u)
<1>1. attempts[u].fails \in Nat /\ MaxFails \in Nat \ {0}
  BY AuthAssumption DEF Inv, TypeOK
<1>2. ASSUME UNCHANGED attempts,
             \A q \in Req : pc'[q] \in {"select", "verify"} => pc'[q] = pc[q] /\ req'[q] = req[q]
      PROVE  BudgetStep(u)
  <2>1. Unjudged(u)' \subseteq Unjudged(u)
    BY <1>2 DEF Unjudged
  <2> QED BY <1>1, <1>2, <2>1 DEF BudgetStep
<1>3. ASSUME NEW r \in Req, Handle(r) PROVE BudgetStep(u)
  <2>1. CASE LoginCheck(r) \/ LoginSelect(r) \/ LoginVerify(r)
    BY <2>1, LoginBudget
  <2>2. CASE \/ Expire(r) \/ Touch(r) \/ Page(r) \/ Logout(r) \/ LoginCommit(r)
             \/ SetupCheck(r) \/ SetupInsert(r) \/ SetupBind(r) \/ TotpCheck(r)
             \/ TotpEnable(r) \/ TotpAuthenticate(r) \/ Abandon(r)
    <3>1. UNCHANGED attempts
      BY <2>2 DEF Expire, Touch, Page, Logout, LoginCommit, SetupCheck, SetupInsert,
         SetupBind, TotpCheck, TotpEnable, TotpAuthenticate, Abandon
    <3>2. \/ End(r)
          \/ \E s \in {"insert", "bind", "enable", "authenticate"} \cup Op : Goto(r, s)
      <4>1. pc[r] = "touch" => req[r].op \in Op
        BY DEF Inv, TypeOK
      <4> QED BY <2>2, <4>1 DEF Expire, Touch, Page, Logout, LoginCommit, SetupCheck,
         SetupInsert, SetupBind, TotpCheck, TotpEnable, TotpAuthenticate, Abandon
    <3>3. pc'[r] \notin {"select", "verify"}
      BY <3>2 DEF End, Goto, Op, Inv, TypeOK
    <3>4. \A q \in Req : q # r => pc'[q] = pc[q] /\ req'[q] = req[q]
      BY <3>2, LocalsFacts DEF Op, Step
    <3> QED BY <1>2, <3>1, <3>3, <3>4
  <2> QED BY <1>3, <2>1, <2>2 DEF Handle
<1>4. ASSUME NEW r \in Req, NEW s \in Sid, NEW op \in Op, NEW name \in Username,
             Resolve(r, s, op, name)
      PROVE  BudgetStep(u)
  <2>1. /\ UNCHANGED attempts
        /\ pc'[r] \in {"expire", "touch"}
        /\ \A q \in Req : q # r => pc'[q] = pc[q] /\ req'[q] = req[q]
    BY <1>4 DEF Resolve, Inv, TypeOK
  <2> QED BY <1>2, <2>1
<1>5. CASE Restart
  <2>1. attempts'[u].fails = 0
    BY <1>5 DEF Restart, NoAttempts
  <2> QED BY <1>1, <2>1 DEF BudgetStep
<1>6. CASE Tick \/ (\E s \in Sid : Root(s)) \/ UNCHANGED vars
  BY <1>2, <1>6 DEF Tick, Root, vars
<1> QED BY <1>3, <1>4, <1>5, <1>6 DEF Next

(* However many requests pass the lock check together, the failures counted *)
(* exceed MAX_FAILS by less than there are requests in flight.              *)
THEOREM FailuresLimited == Spec => []FailuresBounded
<1>1. \A u \in Username : IsFiniteSet(Unjudged(u)) /\ Cardinality(Unjudged(u)) \in Nat
                          /\ Cardinality(Unjudged(u)) <= Cardinality(Req)
  BY AuthAssumption, FS_Subset, FS_CardinalityType DEF Unjudged
<1>2. \A u \in Username : IsFiniteSet(Unjudged(u)') /\ Cardinality(Unjudged(u)') \in Nat
                          /\ Cardinality(Unjudged(u)') <= Cardinality(Req)
  BY AuthAssumption, FS_Subset, FS_CardinalityType DEF Unjudged
<1>3. Cardinality(Req) \in Nat /\ MaxFails \in Nat \ {0}
  BY AuthAssumption, FS_CardinalityType
<1>4. Init => FailuresBounded
  <2> SUFFICES ASSUME Init, NEW u \in Username
               PROVE  attempts[u].fails + Cardinality(Unjudged(u))
                        <= MaxFails - 1 + Cardinality(Req)
    BY DEF FailuresBounded
  <2>1. attempts[u].fails = 0
    BY DEF Init, NoAttempts
  <2> QED BY <1>1, <1>3, <2>1
<1>5. ASSUME Inv, FailuresBounded, [Next]_vars PROVE FailuresBounded'
  <2> SUFFICES ASSUME NEW u \in Username
               PROVE  attempts'[u].fails + Cardinality(Unjudged(u)')
                        <= MaxFails - 1 + Cardinality(Req)
    BY DEF FailuresBounded
  <2>1. attempts[u].fails \in Nat /\ attempts'[u].fails \in Nat
    BY <1>5, NextInv DEF Inv, TypeOK
  <2>2. attempts[u].fails + Cardinality(Unjudged(u)) <= MaxFails - 1 + Cardinality(Req)
    BY <1>5 DEF FailuresBounded
  <2>3. CASE Unjudged(u)' \subseteq Unjudged(u) /\ attempts'[u].fails <= attempts[u].fails
    <3>1. Cardinality(Unjudged(u)') <= Cardinality(Unjudged(u))
      BY <1>1, <2>3, FS_Subset
    <3> QED BY <1>1, <1>2, <1>3, <2>1, <2>2, <2>3, <3>1
  <2>4. CASE attempts'[u].fails <= MaxFails - 1
    BY <1>2, <1>3, <2>1, <2>4
  <2>5. CASE /\ attempts'[u].fails = attempts[u].fails + 1
             /\ \E r \in Unjudged(u) : Unjudged(u)' \subseteq Unjudged(u) \ {r}
    <3>1. PICK r \in Unjudged(u) : Unjudged(u)' \subseteq Unjudged(u) \ {r}
      BY <2>5
    <3>2. /\ IsFiniteSet(Unjudged(u) \ {r})
          /\ Cardinality(Unjudged(u) \ {r}) = Cardinality(Unjudged(u)) - 1
      BY <1>1, <3>1, FS_RemoveElement
    <3>3. Cardinality(Unjudged(u)') <= Cardinality(Unjudged(u) \ {r})
      BY <3>1, <3>2, FS_Subset
    <3> QED BY <1>1, <1>2, <1>3, <2>1, <2>2, <2>5, <3>2, <3>3
  <2> QED BY <1>5, <2>3, <2>4, <2>5, AnyBudget DEF BudgetStep
<1>6. Inv /\ FailuresBounded /\ [Next]_vars => FailuresBounded'
  BY <1>5
<1> QED BY <1>4, <1>6, AlwaysInv, PTL DEF Spec

(* What a step may do to the users and to the setups about to insert one.   *)
Users == {u \in Username : users[u] # "absent"}

SetupStep ==
    \/ Users' = Users /\ Inserting' \subseteq Inserting
    \/ Users = {} /\ Users' = Users
    \/ \E r \in Inserting :
         /\ Inserting' \subseteq Inserting \ {r}
         /\ \E u \in Username : Users' = Users \cup {u}

(* A request that ends, or goes anywhere but to its INSERT, adds no setup. *)
LEMMA NotInserting ==
    ASSUME Inv, NEW r \in Req,
           \/ End(r)
           \/ \E s \in Step \ {"idle", "insert"} : Goto(r, s)
    PROVE  Inserting' \subseteq Inserting \ {r}
<1>1. \A q \in Req : q # r => pc'[q] = pc[q]
  BY LocalsFacts DEF Step
<1>2. pc'[r] # "insert"
  BY DEF End, Goto, Inv, TypeOK
<1> QED BY <1>1, <1>2 DEF Inserting

LEMMA SetupOps ==
    ASSUME Inv, IsFiniteSet(Users),
           NEW r \in Req, SetupCheck(r) \/ SetupInsert(r) \/ TotpEnable(r)
    PROVE  SetupStep
<1>1. CASE SetupCheck(r)
  <2>1. Users' = Users
    BY <1>1 DEF SetupCheck, Users
  <2>2. CASE End(r)
    BY <2>1, <2>2, NotInserting DEF SetupStep
  <2>3. CASE UserCount = 0
    <3>1. Users = {}
      BY <2>3, FS_EmptySet DEF Users, UserCount
    <3> QED BY <2>1, <3>1 DEF SetupStep
  <2> QED BY <1>1, <2>2, <2>3 DEF SetupCheck
<1>2. CASE SetupInsert(r)
  <2> DEFINE u == req[r].name
  <2>1. r \in Inserting /\ u \in Username
    BY <1>2 DEF SetupInsert, Inserting, Inv, UsersKnown
  <2>2. CASE users[u] = "absent"
    <3>1. users' = [users EXCEPT ![u] = "off"] /\ Goto(r, "bind")
      BY <1>2, <2>2 DEF SetupInsert
    <3>2. Users' = Users \cup {u}
      BY <2>1, <3>1 DEF Users, Inv, TypeOK
    <3>3. Inserting' \subseteq Inserting \ {r}
      BY <3>1, NotInserting DEF Step
    <3> QED BY <2>1, <3>2, <3>3 DEF SetupStep
  <2>3. CASE users[u] # "absent"
    <3>1. UNCHANGED users /\ End(r)
      BY <1>2, <2>3 DEF SetupInsert
    <3> QED BY <3>1, NotInserting DEF SetupStep, Users
  <2> QED BY <2>2, <2>3
<1>3. CASE TotpEnable(r)
  <2>1. Present(req[r].user)
    BY <1>3 DEF TotpEnable, Inv, UsersKnown
  <2>2. Users' = Users
    BY <1>3, <2>1 DEF TotpEnable, Users, Present, Inv, TypeOK
  <2>3. Inserting' \subseteq Inserting
    BY <1>3, NotInserting DEF TotpEnable, Step
  <2> QED BY <2>2, <2>3 DEF SetupStep
<1> QED BY <1>1, <1>2, <1>3

LEMMA AnySetup ==
    ASSUME Inv, IsFiniteSet(Users), [Next]_vars
    PROVE  SetupStep
<1>1. ASSUME UNCHANGED users, \A q \in Req : pc'[q] = "insert" => pc[q] = "insert"
      PROVE  SetupStep
  BY <1>1 DEF SetupStep, Users, Inserting
<1>2. ASSUME NEW r \in Req, Handle(r) PROVE SetupStep
  <2>1. CASE SetupCheck(r) \/ SetupInsert(r) \/ TotpEnable(r)
    BY <2>1, SetupOps
  <2>2. CASE \/ Expire(r) \/ Touch(r) \/ Page(r) \/ Logout(r) \/ LoginCheck(r)
             \/ LoginSelect(r) \/ LoginVerify(r) \/ LoginCommit(r) \/ SetupBind(r)
             \/ TotpCheck(r) \/ TotpAuthenticate(r) \/ Abandon(r)
    <3>1. UNCHANGED users
      BY <2>2 DEF Expire, Touch, Page, Logout, LoginCheck, LoginSelect, LoginVerify,
         LoginCommit, SetupBind, TotpCheck, TotpAuthenticate, Abandon
    <3>2. \/ End(r)
          \/ \E s \in {"select", "verify", "commit", "enable"} \cup Op : Goto(r, s)
      <4>1. pc[r] = "touch" => req[r].op \in Op
        BY DEF Inv, TypeOK
      <4> QED BY <2>2, <4>1 DEF Expire, Touch, Page, Logout, LoginCheck, LoginSelect,
         LoginVerify, LoginCommit, SetupBind, TotpCheck, TotpAuthenticate, Abandon
    <3>3. Inserting' \subseteq Inserting
      BY <3>2, NotInserting DEF Op, Step
    <3> QED BY <3>1, <3>3 DEF SetupStep, Users
  <2> QED BY <1>2, <2>1, <2>2 DEF Handle
<1>3. ASSUME NEW r \in Req, NEW s \in Sid, NEW op \in Op, NEW name \in Username,
             Resolve(r, s, op, name)
      PROVE  SetupStep
  <2>1. /\ UNCHANGED users
        /\ pc'[r] \in {"expire", "touch"}
        /\ \A q \in Req : q # r => pc'[q] = pc[q]
    BY <1>3 DEF Resolve, Inv, TypeOK
  <2> QED BY <1>1, <2>1
<1>4. CASE Restart
  BY <1>1, <1>4 DEF Restart
<1>5. CASE Tick \/ (\E s \in Sid : Root(s)) \/ UNCHANGED vars
  BY <1>1, <1>5 DEF Tick, Root, vars
<1> QED BY <1>2, <1>3, <1>4, <1>5 DEF Next

LEMMA UsersFinite == Spec => []IsFiniteSet(Users)
<1>1. Init => IsFiniteSet(Users)
  <2> SUFFICES ASSUME Init PROVE Users = {}
    BY FS_EmptySet
  <2> QED BY DEF Init, Users
<1>2. ASSUME Inv, IsFiniteSet(Users), [Next]_vars PROVE IsFiniteSet(Users')
  <2>1. Users' = Users \/ \E u \in Username : Users' = Users \cup {u}
    BY <1>2, AnySetup DEF SetupStep
  <2> QED BY <1>2, <2>1, FS_AddElement
<1>3. Inv /\ IsFiniteSet(Users) /\ [Next]_vars => IsFiniteSet(Users)'
  BY <1>2
<1> QED BY <1>1, <1>3, AlwaysInv, PTL DEF Spec

(* Setup closes for good (auth.rs, setup_submit's count of users): when the *)
(* setups that saw no user are through, the users are those they made.      *)
THEOREM SetupEnds == Spec => SetupCloses
<1>1. ASSUME Inv, IsFiniteSet(Users), [Next]_vars, UserCount > 0, Inserting = {}
      PROVE  UserCount' = UserCount /\ Inserting' = {}
  <2>1. Users # {}
    BY <1>1, FS_EmptySet DEF Users, UserCount
  <2>2. Users' = Users /\ Inserting' = {}
    BY <1>1, <2>1, AnySetup DEF SetupStep
  <2> QED BY <2>2 DEF Users, UserCount
<1>2. Inv /\ IsFiniteSet(Users) /\ [Next]_vars =>
        [UserCount > 0 /\ Inserting = {} => UserCount' = UserCount /\ Inserting' = {}]_vars
  BY <1>1
<1> QED BY <1>2, AlwaysInv, UsersFinite, PTL DEF Spec, SetupCloses
=============================================================================
