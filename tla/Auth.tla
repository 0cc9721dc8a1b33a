-------------------------------- MODULE Auth --------------------------------
(***************************************************************************)
(* Sessions, first-time setup, login and the login lock of dbmanage        *)
(* (src/session.rs, src/auth.rs).                                          *)
(*                                                                         *)
(* Every request goes through session_resolver, which reads the session    *)
(* row, expires or touches it, and hands the handler a COPY of what it     *)
(* read (SessionCtx).  Handlers then run query by query; between two       *)
(* actions of a request any other may run, and the multi-threaded runtime  *)
(* also lets others run during a bcrypt check.  Whether a password or a    *)
(* code is right is nondeterministic.  A user is its username: rows of     *)
(* users are never deleted and usernames are unique.                       *)
(***************************************************************************)
EXTENDS Naturals, FiniteSets

CONSTANTS
    Sid,           \* session ids (128 random bits: never drawn twice)
    Username,
    Req,           \* requests in flight at a time
    None,
    MaxFails,      \* MAX_FAILS
    LockSecs,      \* LOCK_SECS
    IdleTimeout,   \* IDLE_TIMEOUT_SECS
    MaxNow         \* bound: the clock stops there

ASSUME AuthAssumption ==
    /\ None \notin Username
    /\ IsFiniteSet(Req)
    /\ MaxFails \in Nat \ {0}
    /\ LockSecs \in Nat \ {0}
    /\ IdleTimeout \in Nat
    /\ MaxNow \in Nat

VARIABLES
    now,        \* session::now()
    sessions,   \* table sessions
    users,      \* table users: is there a row, and is totp_enabled set
    attempts,   \* ATTEMPTS, lost at restart; no entry is the same as (0, 0)
    pc,         \* where each request is
    req         \* its locals: SessionCtx, the form's username, the time it read

vars == <<now, sessions, users, attempts, pc, req>>

Op == {"page", "login", "logout", "setup", "totp"}
Step == Op \cup {"idle", "expire", "touch", "select", "verify", "commit",
                 "insert", "bind", "enable", "authenticate"}

NoAttempts == [fails |-> 0, until |-> 0]
NoReq == [sid |-> None, st |-> "pending", user |-> None, stamp |-> 0,
          op |-> "page", name |-> None]

Init ==
    /\ now = 0
    /\ sessions = [s \in Sid |-> [st |-> "unused", user |-> None, last |-> 0]]
    /\ users = [u \in Username |-> "absent"]
    /\ attempts = [u \in Username |-> NoAttempts]
    /\ pc = [r \in Req |-> "idle"]
    /\ req = [r \in Req |-> NoReq]

Exists(s) == sessions[s].st \in {"pending", "authenticated"}
Goto(r, step) == pc' = [pc EXCEPT ![r] = step] /\ UNCHANGED req
End(r) == pc' = [pc EXCEPT ![r] = "idle"] /\ req' = [req EXCEPT ![r] = NoReq]

SessionRow(st, user, last) == [st |-> st, user |-> user, last |-> last]

(* UPDATE and DELETE ... WHERE id = ? do nothing to a row that is gone. *)
UpdateSession(s, row) ==
    sessions' = IF Exists(s) THEN [sessions EXCEPT ![s] = row] ELSE sessions
DeleteSession(s) ==
    UpdateSession(s, SessionRow("gone", sessions[s].user, sessions[s].last))

(***************************************************************************)
(* GET / and session_resolver.                                             *)
(***************************************************************************)

Root(s) ==
    /\ sessions[s].st = "unused"
    /\ sessions' = [sessions EXCEPT ![s] = SessionRow("pending", None, now)]
    /\ UNCHANGED <<now, users, attempts, pc, req>>

(* The SELECT, and the test of last_active against the clock.  A session    *)
(* that does not exist is sent to /, which changes nothing.                 *)
Resolve(r, s, op, name) ==
    /\ pc[r] = "idle"
    /\ Exists(s)
    /\ req' = [req EXCEPT ![r] =
                 [sid |-> s, st |-> sessions[s].st, user |-> sessions[s].user,
                  stamp |-> now, op |-> op, name |-> name]]
    /\ pc' = [pc EXCEPT ![r] =
                IF now - sessions[s].last > IdleTimeout THEN "expire" ELSE "touch"]
    /\ UNCHANGED <<now, sessions, users, attempts>>

Expire(r) ==
    /\ pc[r] = "expire"
    /\ DeleteSession(req[r].sid)
    /\ End(r)
    /\ UNCHANGED <<now, users, attempts>>

Touch(r) ==
    /\ pc[r] = "touch"
    /\ LET s == req[r].sid IN
         UpdateSession(s, SessionRow(sessions[s].st, sessions[s].user, req[r].stamp))
    /\ Goto(r, req[r].op)
    /\ UNCHANGED <<now, users, attempts>>

(* Every route that only reads these tables. *)
Page(r) ==
    /\ pc[r] = "page"
    /\ End(r)
    /\ UNCHANGED <<now, sessions, users, attempts>>

Logout(r) ==
    /\ pc[r] = "logout"
    /\ DeleteSession(req[r].sid)
    /\ End(r)
    /\ UNCHANGED <<now, users, attempts>>

(***************************************************************************)
(* login_submit and the counter of failed attempts.                        *)
(***************************************************************************)

UserCount == Cardinality({u \in Username : users[u] # "absent"})

Locked(u) == attempts[u].fails >= MaxFails /\ now < attempts[u].until

(* locked_remaining_secs also forgets a lock that has run out. *)
DropRunOut(u) ==
    attempts' = IF attempts[u].fails >= MaxFails
                THEN [attempts EXCEPT ![u] = NoAttempts] ELSE attempts

(* Fault: a lock whose time is not over is forgotten as well. *)
LoginCheckForgetful(r) ==
    /\ pc[r] = "login"
    /\ IF req[r].st = "authenticated" \/ UserCount = 0 \/ Locked(req[r].name)
       THEN End(r) /\ DropRunOut(req[r].name)
       ELSE Goto(r, "select") /\ DropRunOut(req[r].name)
    /\ UNCHANGED <<now, sessions, users>>

(* Fault: the lock is not looked at. *)
LoginCheckUnlocked(r) ==
    /\ pc[r] = "login"
    /\ IF req[r].st = "authenticated" \/ UserCount = 0
       THEN End(r) ELSE Goto(r, "select")
    /\ UNCHANGED <<now, sessions, users, attempts>>

(* Nobody logs in twice, before setup, or while the username is locked. *)
LoginCheck(r) ==
    /\ pc[r] = "login"
    /\ IF req[r].st = "authenticated" \/ UserCount = 0 \/ Locked(req[r].name)
       THEN End(r) /\ UNCHANGED attempts
       ELSE Goto(r, "select") /\ DropRunOut(req[r].name)
    /\ UNCHANGED <<now, sessions, users>>

record_fail(u) ==
    LET n == attempts[u].fails + 1 IN
    attempts' = [attempts EXCEPT ![u] =
                   [fails |-> n,
                    until |-> IF n >= MaxFails THEN now + LockSecs ELSE @.until]]

clear_fails(u) == attempts' = [attempts EXCEPT ![u] = NoAttempts]

LoginSelect(r) ==
    /\ pc[r] = "select"
    /\ IF users[req[r].name] = "absent"
       THEN record_fail(req[r].name) /\ End(r)
       ELSE Goto(r, "verify") /\ UNCHANGED attempts
    /\ UNCHANGED <<now, sessions, users>>

(* bcrypt and, if the row said so, the TOTP code *)
LoginVerify(r) ==
    /\ pc[r] = "verify"
    /\ \/ record_fail(req[r].name) /\ End(r)
       \/ clear_fails(req[r].name) /\ Goto(r, "commit")
    /\ UNCHANGED <<now, sessions, users>>

(* Fault: the session is written back whether its row is there or not. *)
LoginUpsert(r) ==
    /\ pc[r] = "commit"
    /\ sessions' = [sessions EXCEPT ![req[r].sid] =
                      SessionRow("authenticated", req[r].name, @.last)]
    /\ End(r)
    /\ UNCHANGED <<now, users, attempts>>

LoginCommit(r) ==
    /\ pc[r] = "commit"
    /\ LET s == req[r].sid IN
         UpdateSession(s, SessionRow("authenticated", req[r].name, sessions[s].last))
    /\ End(r)
    /\ UNCHANGED <<now, users, attempts>>

(***************************************************************************)
(* setup_submit: only while there is no user.                              *)
(***************************************************************************)

(* Fault: more than one user closes the setup, one does not. *)
SetupUntilTwo(r) ==
    /\ pc[r] = "setup"
    /\ \/ End(r)
       \/ UserCount <= 1 /\ Goto(r, "insert")
    /\ UNCHANGED <<now, sessions, users, attempts>>

(* The first disjunct is also a form that validation refuses. *)
SetupCheck(r) ==
    /\ pc[r] = "setup"
    /\ \/ End(r)
       \/ UserCount = 0 /\ Goto(r, "insert")
    /\ UNCHANGED <<now, sessions, users, attempts>>

(* INSERT; the UNIQUE constraint refuses a username that is there already. *)
SetupInsert(r) ==
    /\ pc[r] = "insert"
    /\ IF users[req[r].name] = "absent"
       THEN users' = [users EXCEPT ![req[r].name] = "off"] /\ Goto(r, "bind")
       ELSE UNCHANGED users /\ End(r)
    /\ UNCHANGED <<now, sessions, attempts>>

SetupBind(r) ==
    /\ pc[r] = "bind"
    /\ LET s == req[r].sid IN
         UpdateSession(s, SessionRow(sessions[s].st, req[r].name, sessions[s].last))
    /\ End(r)
    /\ UNCHANGED <<now, users, attempts>>

(***************************************************************************)
(* totp_submit: works on the user_id the resolver read.                    *)
(***************************************************************************)

(* Fault: the missing user_id is not refused. *)
TotpCheckAnyone(r) ==
    /\ pc[r] = "totp"
    /\ End(r) \/ Goto(r, IF req[r].user = None THEN "authenticate" ELSE "enable")
    /\ UNCHANGED <<now, sessions, users, attempts>>

(* The first disjunct is also a wrong code. *)
TotpCheck(r) ==
    /\ pc[r] = "totp"
    /\ \/ End(r)
       \/ req[r].user # None /\ Goto(r, "enable")
    /\ UNCHANGED <<now, sessions, users, attempts>>

TotpEnable(r) ==
    /\ pc[r] = "enable"
    /\ users' = [users EXCEPT ![req[r].user] = "on"]
    /\ Goto(r, "authenticate")
    /\ UNCHANGED <<now, sessions, attempts>>

TotpAuthenticate(r) ==
    /\ pc[r] = "authenticate"
    /\ LET s == req[r].sid IN
         UpdateSession(s, SessionRow("authenticated", sessions[s].user, sessions[s].last))
    /\ End(r)
    /\ UNCHANGED <<now, users, attempts>>

(***************************************************************************)
(* The environment.                                                        *)
(***************************************************************************)

Tick ==
    /\ now < MaxNow
    /\ now' = now + 1
    /\ UNCHANGED <<sessions, users, attempts, pc, req>>

(* The client goes away, or a statement fails: the handler ends where it is. *)
Abandon(r) ==
    /\ pc[r] # "idle"
    /\ End(r)
    /\ UNCHANGED <<now, sessions, users, attempts>>

Restart ==
    /\ attempts' = [u \in Username |-> NoAttempts]
    /\ pc' = [r \in Req |-> "idle"]
    /\ req' = [r \in Req |-> NoReq]
    /\ UNCHANGED <<now, sessions, users>>

(***************************************************************************)
(* The specification.                                                      *)
(***************************************************************************)

Handle(r) ==
    \/ Expire(r)
    \/ Touch(r)
    \/ Page(r)
    \/ Logout(r)
    \/ LoginCheck(r)
    \/ LoginSelect(r)
    \/ LoginVerify(r)
    \/ LoginCommit(r)
    \/ SetupCheck(r)
    \/ SetupInsert(r)
    \/ SetupBind(r)
    \/ TotpCheck(r)
    \/ TotpEnable(r)
    \/ TotpAuthenticate(r)
    \/ Abandon(r)

Next ==
    \/ \E s \in Sid : Root(s)
    \/ \E r \in Req, s \in Sid, op \in Op, name \in Username : Resolve(r, s, op, name)
    \/ \E r \in Req : Handle(r)
    \/ Tick
    \/ Restart

Spec == Init /\ [][Next]_vars

(***************************************************************************)
(* Properties.                                                             *)
(***************************************************************************)

TypeOK ==
    /\ now \in Nat
    /\ sessions \in [Sid -> [st: {"unused", "pending", "authenticated", "gone"},
                             user: Username \cup {None}, last: Nat]]
    /\ users \in [Username -> {"absent", "off", "on"}]
    /\ attempts \in [Username -> [fails: Nat, until: Nat]]
    /\ pc \in [Req -> Step]
    /\ req \in [Req -> [sid: Sid \cup {None}, st: {"pending", "authenticated"},
                        user: Username \cup {None}, stamp: Nat, op: Op,
                        name: Username \cup {None}]]

(* An authenticated session belongs to a user that exists.  totp_submit     *)
(* writes only the status, trusting the user_id in its copy of a row that   *)
(* setup, login and logout may have changed since.                          *)
AuthenticatedHasUser ==
    \A s \in Sid : sessions[s].st = "authenticated" =>
        sessions[s].user \in Username /\ users[sessions[s].user] # "absent"

(* A session that logout or expiry deleted never comes back, though login,  *)
(* setup, totp and the resolver's touch write to it from an earlier read.   *)
GoneStaysGone ==
    [][\A s \in Sid : sessions[s].st = "gone" => sessions'[s] = sessions[s]]_vars

(* Attempts that have passed the lock check and not been judged yet. *)
Unjudged(u) == {r \in Req : pc[r] \in {"select", "verify"} /\ req[r].name = u}

(* "5 gagal": the check and the count are apart, so requests that passed    *)
(* the check together all count; but no more of them than fit in flight.    *)
FailuresBounded ==
    \A u \in Username :
        attempts[u].fails + Cardinality(Unjudged(u)) <= MaxFails - 1 + Cardinality(Req)

(* "lock 15 menit": before its time is over a lock goes only with a correct *)
(* login that was already under way, or with the process; and a late        *)
(* failure never shortens it.                                               *)
LockHolds ==
    [][\A u \in Username :
         Locked(u) =>
           \/ attempts'[u].fails >= MaxFails /\ attempts'[u].until >= attempts[u].until
           \/ \E r \in Req : /\ pc[r] = "verify" /\ req[r].name = u
                             /\ pc'[r] = "commit"
           \/ Restart]_vars

(* Setups that have seen no user and not inserted theirs yet. *)
Inserting == {r \in Req : pc[r] = "insert"}

(* "Single admin - satu akun dengan 2FA" (PRD.md:650): setup_submit makes   *)
(* the only user there is.  Its count of the users and its INSERT are apart. *)
SingleAdmin == UserCount <= 1

(* Once there is a user and the setups that saw none are through, setup is   *)
(* closed for good: no request, login, enrolment or restart adds a user.     *)
SetupCloses ==
    [][UserCount > 0 /\ Inserting = {} => UserCount' = UserCount /\ Inserting' = {}]_vars
=============================================================================
