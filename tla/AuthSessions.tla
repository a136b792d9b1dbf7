---------------------------- MODULE AuthSessions ----------------------------
(***************************************************************************)
(* Accounts, passwords and browser sessions: the AuthService of            *)
(* auth/sessions.py together with the account writes of                    *)
(* repositories/users.py and admin/users.py, as they interleave in         *)
(* PostgreSQL under READ COMMITTED.                                        *)
(*                                                                         *)
(* A request in flight is a record req[r].  Its steps are the statements   *)
(* of the handler: a plain SELECT reads the committed rows, a SELECT ...   *)
(* FOR UPDATE or an UPDATE first takes the row lock and then sees the      *)
(* latest committed version, and what a transaction has written becomes    *)
(* visible in its commit step.  Audit rows and the bytes of tokens and     *)
(* hashes are left out; last_login_at and display fields too.              *)
(***************************************************************************)
EXTENDS Integers

CONSTANTS
    Users,          \* identities a row of users can have
    SessionIds,     \* identities a row of login_sessions can have (a bound)
    Requests,       \* requests that may be in flight together (a bound)
    Admins,         \* the administrators bootstrap creates
    Members,        \* the other accounts that exist at the start
    Ops,            \* the operations the clients of an instance call
    None,           \* no user, no session, no lock holder
    Idle,           \* SESSION_IDLE_TIMEOUT
    WriteInterval,  \* LAST_SEEN_WRITE_INTERVAL
    MaxTime,        \* bound on the clock
    MaxPasswords    \* bound on the passwords chosen after bootstrap

AllOps == {"login", "current", "csrf", "rotate", "change", "logout",
           "active", "reset", "roles", "revoke", "create"}

ASSUME AuthAssumption ==
    /\ None \notin Users \cup SessionIds \cup Requests
    /\ Admins \subseteq Users /\ Members \subseteq Users
    /\ Ops \subseteq AllOps
    /\ Idle \in Nat \ {0} /\ WriteInterval \in Nat /\ WriteInterval < Idle
    /\ MaxTime \in Nat /\ MaxPasswords \in Nat

VARIABLES
    users,      \* committed rows of users
    sessions,   \* committed rows of login_sessions
    userLock,   \* the request holding the lock of a users row
    rowLock,    \* the request holding the lock of a login_sessions row
    req,        \* the requests in flight
    clock,      \* the time self._now() returns
    issued,     \* passwords chosen so far; the next one is issued + 1
    used        \* history: the latest time a session was accepted at

vars == <<users, sessions, userLock, rowLock, req, clock, issued, used>>

-----------------------------------------------------------------------------
(* Rows and requests *)

(* A hash stands for one password with its salt: two hashes are equal only *)
(* if they encode the same choice of password.  "legacy" is what           *)
(* needs_rehash finds; "temporary" says who chose the password.            *)
Hashes == [plain : Nat, legacy : BOOLEAN, temporary : BOOLEAN]

UserRows == [present : BOOLEAN, active : BOOLEAN, admin : BOOLEAN,
             force : BOOLEAN, hash : Hashes]

SessionRows == [status : {"unused", "live", "revoked"},
                user : Users \cup {None}, seen : Nat, expires : Nat,
                plain : Nat,                       \* history: password typed
                parent : SessionIds \cup {None}]   \* history: rotated from

NoHash == [plain |-> 0, legacy |-> FALSE, temporary |-> FALSE]
NoUserRow == [present |-> FALSE, active |-> FALSE, admin |-> FALSE,
              force |-> FALSE, hash |-> NoHash]
UnusedSession == [status |-> "unused", user |-> None, seen |-> 0,
                  expires |-> 0, plain |-> 0, parent |-> None]

Steps == {"idle", "read", "verify", "row", "user", "insert", "touch",
          "expire", "check", "update", "scan", "revoke", "commit"}

(* "read" of the request: the users row as this request loaded it;         *)
(* "actor": the administrator who manages "user"; "relist": the new list   *)
(* of roles differs from the row's in another role than "admin".           *)
RequestRecords == [op : AllOps \cup {"none"}, pc : Steps,
                   user : Users \cup {None}, sess : SessionIds \cup {None},
                   actor : Users \cup {None}, read : UserRows, now : Nat,
                   target : BOOLEAN, relist : BOOLEAN,
                   todo : SUBSET SessionIds]

NoRequest == [op |-> "none", pc |-> "idle", user |-> None, sess |-> None,
              actor |-> None, read |-> NoUserRow, now |-> 0,
              target |-> FALSE, relist |-> FALSE, todo |-> {}]

TypeOK ==
    /\ users \in [Users -> UserRows]
    /\ sessions \in [SessionIds -> SessionRows]
    /\ userLock \in [Users -> Requests \cup {None}]
    /\ rowLock \in [SessionIds -> Requests \cup {None}]
    /\ req \in [Requests -> RequestRecords]
    /\ clock \in Nat /\ issued \in Nat
    /\ used \in [SessionIds -> Nat]
    /\ \A s \in SessionIds :
           sessions[s].status # "unused" => sessions[s].user \in Users
    /\ \A r \in Requests :
           /\ req[r].pc # "idle" => req[r].user \in Users
           /\ req[r].op \in {"current", "csrf", "rotate", "change", "revoke"}
                 => req[r].sess \in SessionIds

(* Bootstrap leaves administrators who must change their password; other   *)
(* accounts may already have chosen one, perhaps with older parameters.    *)
Init ==
    /\ \E legacy \in BOOLEAN :
          users = [u \in Users |->
              IF u \in Admins \cup Members
              THEN [present |-> TRUE, active |-> TRUE, admin |-> u \in Admins,
                    force |-> u \in Admins,
                    hash |-> [plain |-> 0, legacy |-> legacy,
                              temporary |-> u \in Admins]]
              ELSE NoUserRow]
    /\ sessions = [s \in SessionIds |-> UnusedSession]
    /\ userLock = [u \in Users |-> None]
    /\ rowLock = [s \in SessionIds |-> None]
    /\ req = [r \in Requests |-> NoRequest]
    /\ clock = 0 /\ issued = 0
    /\ used = [s \in SessionIds |-> 0]

-----------------------------------------------------------------------------
(* Helpers *)

IsIdle(r) == req[r].pc = "idle"
At(r, ops, pc) == req[r].op \in ops /\ req[r].pc = pc
GoTo(r, pc) == req' = [req EXCEPT ![r].pc = pc]
LockUser(r, u) == userLock' = [userLock EXCEPT ![u] = r]
LockRow(r, s) == rowLock' = [rowLock EXCEPT ![s] = r]

(* Variant: a transaction is left open and keeps its session rows locked.  *)
FinishLeakingRows(r) ==
    /\ req' = [req EXCEPT ![r] = NoRequest]
    /\ userLock' = [u \in Users |->
                       IF userLock[u] = r THEN None ELSE userLock[u]]
    /\ UNCHANGED rowLock

(* COMMIT or ROLLBACK: the request ends and its locks go. *)
Finish(r) ==
    /\ req' = [req EXCEPT ![r] = NoRequest]
    /\ userLock' = [u \in Users |->
                       IF userLock[u] = r THEN None ELSE userLock[u]]
    /\ rowLock' = [s \in SessionIds |->
                       IF rowLock[s] = r THEN None ELSE rowLock[s]]

Live(s) == sessions[s].status = "live"

(* Variants: no test of revoked_at; and trust in the unlocked first read,  *)
(* with no test of revoked_at and none of expected_password_hash.          *)
MatchesRevoked(r) ==
    /\ users[req[r].user].active
    /\ req[r].op = "change" /\ req[r].pc # "read"
          => users[req[r].user].hash = req[r].read.hash
MatchesActive(r) == users[req[r].user].active

(* The WHERE clause of _valid_lifecycle. *)
Matches(r) ==
    LET s == req[r].sess
        u == req[r].user
    IN  /\ Live(s) /\ users[u].active
        /\ req[r].op = "change" /\ req[r].pc # "read"
              => users[u].hash = req[r].read.hash

(* Variant: the timeout itself still counts as within the window. *)
ExpiredLate(s, now) ==
    now - sessions[s].seen > Idle \/ now > sessions[s].expires

Expired(s, now) ==
    now - sessions[s].seen >= Idle \/ now >= sessions[s].expires

TouchDue(s, now) == now - sessions[s].seen >= WriteInterval

(* Variant: the whole row is written back as it was loaded. *)
TouchedWholeRow(s, now) ==
    [sessions EXCEPT ![s] = [@ EXCEPT !.seen = now, !.expires = now + Idle,
                                      !.status = "live"]]

Touched(s, now) ==
    [sessions EXCEPT ![s] = [@ EXCEPT !.seen = now, !.expires = now + Idle]]

Revoked(set) == [s \in SessionIds |->
    IF s \in set /\ Live(s) THEN [sessions[s] EXCEPT !.status = "revoked"]
    ELSE sessions[s]]

(* Variant: user_id is never set. *)
NewSessionOfNobody(u, now, plain, parent) ==
    [status |-> "live", user |-> None, seen |-> now, expires |-> now + Idle,
     plain |-> plain, parent |-> parent]

NewSession(u, now, plain, parent) ==
    [status |-> "live", user |-> u, seen |-> now, expires |-> now + Idle,
     plain |-> plain, parent |-> parent]

Accept(s, now) ==
    used' = [used EXCEPT ![s] = IF now > used[s] THEN now ELSE used[s]]

(* The request whose FOR UPDATE the audit row's two foreign keys wait for: *)
(* each takes KEY SHARE, on the target user or the actor, and a plain      *)
(* UPDATE does not stand in its way.                                       *)
KeyShareWaits(r) ==
    {q \in Requests \ {r} :
        /\ req[q].op \notin {"active", "reset", "roles"}
        /\ \E u \in {req[r].user, req[r].actor} \ {None} : userLock[u] = q}

-----------------------------------------------------------------------------
(* login *)

(* The unlocked snapshot.  A wrong password, an unknown email and an       *)
(* inactive account only write an audit row.                               *)
LoginRead(r, u) ==
    /\ "login" \in Ops /\ IsIdle(r)
    /\ users[u].active
    /\ req' = [req EXCEPT ![r] = [NoRequest EXCEPT
                  !.op = "login", !.pc = "verify", !.user = u,
                  !.read = users[u]]]
    /\ UNCHANGED <<users, sessions, userLock, rowLock, clock, issued, used>>

(* Argon2 work is over, for login and for change_password: now is taken    *)
(* and the second transaction starts.                                      *)
Hashed(r) ==
    /\ At(r, {"login", "change"}, "verify")
    /\ req' = [req EXCEPT ![r] = [@ EXCEPT
                  !.now = clock,
                  !.pc = IF req[r].op = "login" THEN "user" ELSE "row"]]
    /\ UNCHANGED <<users, sessions, userLock, rowLock, clock, issued, used>>

(* Variants: the second transaction rechecks only the hash, or only that   *)
(* the account is active.                                                  *)
LoginHashUnchanged(r) == users[req[r].user].hash = req[r].read.hash
LoginStillActive(r) == users[req[r].user].active

LoginUnchanged(r) ==
    LET u == req[r].user
    IN  users[u].active /\ users[u].hash = req[r].read.hash

LoginLock(r) ==
    LET u == req[r].user
    IN  /\ At(r, {"login"}, "user")
        /\ LoginUnchanged(r) /\ userLock[u] = None
        /\ LockUser(r, u) /\ GoTo(r, "insert")
        /\ UNCHANGED <<users, sessions, rowLock, clock, issued, used>>

LoginRefused(r) ==
    /\ At(r, {"login"}, "user") /\ ~LoginUnchanged(r)
    /\ Finish(r)
    /\ UNCHANGED <<users, sessions, clock, issued, used>>

LoginInsert(r, s) ==
    LET u == req[r].user
        now == req[r].now
    IN  /\ At(r, {"login"}, "insert")
        /\ sessions[s].status = "unused"
        /\ users' = [users EXCEPT ![u].hash.legacy = FALSE]
        /\ sessions' = [sessions EXCEPT
               ![s] = NewSession(u, now, req[r].read.hash.plain, None)]
        /\ used' = [used EXCEPT ![s] = now]
        /\ Finish(r)
        /\ UNCHANGED <<clock, issued>>

-----------------------------------------------------------------------------
(* current_user, validate_csrf, rotate_session, change_password            *)

(* A request with the token of session s: now is taken before any query.   *)
Call(r, s, op) ==
    /\ op \in {"current", "csrf", "rotate", "change"} \cap Ops
    /\ IsIdle(r) /\ sessions[s].status # "unused"
    /\ req' = [req EXCEPT ![r] = [NoRequest EXCEPT
                  !.op = op, !.user = sessions[s].user, !.sess = s,
                  !.now = clock,
                  !.pc = IF op \in {"current", "change"} THEN "read"
                                                         ELSE "row"]]
    /\ UNCHANGED <<users, sessions, userLock, rowLock, clock, issued, used>>

(* _valid_lifecycle without a lock.  What it writes afterwards, touching   *)
(* or expiring the row, is an UPDATE of its own that may come later.       *)
Read(r) ==
    LET s == req[r].sess
        now == req[r].now
    IN  /\ req[r].pc = "read"
        /\ \/ /\ ~Matches(r)
              /\ Finish(r) /\ UNCHANGED used
           \/ /\ Matches(r) /\ Expired(s, now)
              /\ GoTo(r, "expire")
              /\ UNCHANGED <<userLock, rowLock, used>>
           \/ /\ Matches(r) /\ ~Expired(s, now)
              /\ req[r].op = "change"
              /\ req' = [req EXCEPT ![r] = [@ EXCEPT
                            !.pc = "verify", !.read = users[req[r].user]]]
              /\ UNCHANGED <<userLock, rowLock, used>>
           \/ /\ Matches(r) /\ ~Expired(s, now)
              /\ req[r].op = "current" /\ TouchDue(s, now)
              /\ GoTo(r, "touch")
              /\ UNCHANGED <<userLock, rowLock, used>>
           \/ /\ Matches(r) /\ ~Expired(s, now)
              /\ req[r].op = "current" /\ ~TouchDue(s, now)
              /\ Accept(s, now) /\ Finish(r)
        /\ UNCHANGED <<users, sessions, clock, issued>>

Expire(r) ==
    LET s == req[r].sess
    IN  /\ req[r].pc = "expire" /\ rowLock[s] = None
        /\ sessions' = Revoked({s})
        /\ Finish(r)
        /\ UNCHANGED <<users, clock, issued, used>>

(* The refresh writes last_seen_at and expires_at and no other column.     *)
Touch(r) ==
    LET s == req[r].sess
    IN  /\ At(r, {"current"}, "touch") /\ rowLock[s] = None
        /\ sessions' = Touched(s, req[r].now)
        /\ Accept(s, req[r].now)
        /\ Finish(r)
        /\ UNCHANGED <<users, clock, issued>>

(* _valid_lifecycle with FOR UPDATE locks the session row, then the user   *)
(* row, and evaluates its WHERE clause again after each wait.              *)
LifecycleRow(r) ==
    LET s == req[r].sess
    IN  /\ At(r, {"csrf", "rotate", "change"}, "row")
        /\ \/ /\ ~Matches(r)
              /\ Finish(r)
           \/ /\ Matches(r) /\ rowLock[s] = None
              /\ LockRow(r, s) /\ GoTo(r, "user") /\ UNCHANGED userLock
        /\ UNCHANGED <<users, sessions, clock, issued, used>>

LifecycleUser(r) ==
    LET s == req[r].sess
        u == req[r].user
        now == req[r].now
    IN  /\ At(r, {"csrf", "rotate", "change"}, "user")
        /\ userLock[u] = None
        /\ \/ /\ ~Matches(r)
              /\ Finish(r) /\ UNCHANGED <<sessions, used>>
           \/ /\ Matches(r) /\ Expired(s, now)
              /\ sessions' = Revoked({s})
              /\ Finish(r) /\ UNCHANGED used
           \/ /\ Matches(r) /\ ~Expired(s, now)
              /\ req[r].op = "csrf"
              /\ sessions' = IF TouchDue(s, now) THEN Touched(s, now)
                                                 ELSE sessions
              /\ Accept(s, now) /\ Finish(r)
           \/ /\ Matches(r) /\ ~Expired(s, now)
              /\ req[r].op \in {"rotate", "change"}
              /\ LockUser(r, u)
              /\ GoTo(r, IF req[r].op = "rotate" THEN "insert" ELSE "scan")
              /\ UNCHANGED <<sessions, rowLock, used>>
        /\ UNCHANGED <<users, clock, issued>>

RotateInsert(r, s) ==
    LET old == req[r].sess
        now == req[r].now
    IN  /\ At(r, {"rotate"}, "insert")
        /\ sessions[s].status = "unused"
        /\ sessions' = [Revoked({old}) EXCEPT
               ![s] = NewSession(req[r].user, now, sessions[old].plain, old)]
        /\ used' = [used EXCEPT ![s] = now]
        /\ Finish(r)
        /\ UNCHANGED <<users, clock, issued>>

(* One UPDATE ... WHERE token_hash and revoked_at IS NULL. *)
Logout(s) ==
    /\ "logout" \in Ops
    /\ Live(s) /\ rowLock[s] = None
    /\ sessions' = Revoked({s})
    /\ UNCHANGED <<users, userLock, rowLock, req, clock, issued, used>>

-----------------------------------------------------------------------------
(* UPDATE login_sessions ... WHERE user_id and revoked_at IS NULL, run by  *)
(* change_password, set_active and set_temporary_password: the rows of the *)
(* statement's snapshot are locked one by one, then revoked at the commit. *)

Scan(r) ==
    /\ req[r].pc = "scan"
    /\ req' = [req EXCEPT ![r] = [@ EXCEPT
                  !.pc = "revoke",
                  !.todo = {s \in SessionIds :
                               Live(s) /\ sessions[s].user = req[r].user}]]
    /\ UNCHANGED <<users, sessions, userLock, rowLock, clock, issued, used>>

LockForRevoke(r, s) ==
    /\ req[r].pc = "revoke" /\ s \in req[r].todo
    /\ rowLock[s] \in {None, r}
    /\ req' = [req EXCEPT ![r].todo = @ \ {s}]
    /\ rowLock' = IF Live(s) THEN [rowLock EXCEPT ![s] = r] ELSE rowLock
    /\ UNCHANGED <<users, sessions, userLock, clock, issued, used>>

RowsHeld(r) == {s \in SessionIds : rowLock[s] = r}

ChangeCommit(r) ==
    LET u == req[r].user
    IN  /\ At(r, {"change"}, "revoke") /\ req[r].todo = {}
        /\ issued < MaxPasswords
        /\ issued' = issued + 1
        /\ users' = [users EXCEPT ![u] = [@ EXCEPT
               !.hash = [plain |-> issued + 1, legacy |-> FALSE,
                         temporary |-> FALSE],
               !.force = FALSE]]
        /\ sessions' = Revoked(RowsHeld(r))
        /\ Finish(r)
        /\ UNCHANGED <<clock, used>>

-----------------------------------------------------------------------------
(* User management: set_active, set_roles, set_temporary_password          *)

(* Who manages users passed the gate of the route as an administrator and  *)
(* may be inactive by now.  One who has lost the role since is left out:   *)
(* the actor only says which row the audit row's second key waits for.  An *)
(* instance without an administrator is managed from outside.              *)
Actors ==
    LET known == {v \in Users : users[v].admin}
    IN  IF known = {} THEN {None} ELSE known

(* session.get reads the row without a lock. *)
ManageRead(r, u, op, target) ==
    /\ op \in {"active", "reset", "roles"} \cap Ops
    /\ IsIdle(r) /\ users[u].present
    /\ op = "reset" => target = TRUE
    /\ \E actor \in Actors, relist \in {FALSE, op = "roles"} :
          req' = [req EXCEPT ![r] = [NoRequest EXCEPT
                     !.op = op, !.user = u, !.read = users[u],
                     !.actor = actor, !.target = target, !.relist = relist,
                     !.pc = IF ~target /\ users[u].admin
                               /\ (op = "active" \/ users[u].active)
                            THEN "check" ELSE "update"]]
    /\ UNCHANGED <<users, sessions, userLock, rowLock, clock, issued, used>>

(* Variant: a deactivated administrator counts too. *)
OtherAdmin(u) == \E v \in Users \ {u} : users[v].admin

OtherActiveAdmin(u) ==
    \E v \in Users \ {u} : users[v].active /\ users[v].admin

(* Without another active administrator: ValueError, and a rollback. *)
ManageCheck(r) ==
    /\ req[r].pc = "check"
    /\ \/ OtherActiveAdmin(req[r].user)
          /\ GoTo(r, "update") /\ UNCHANGED <<userLock, rowLock>>
       \/ ~OtherActiveAdmin(req[r].user) /\ Finish(r)
    /\ UNCHANGED <<users, sessions, clock, issued, used>>

(* The flush writes the columns whose value differs from the value loaded; *)
(* with none there is no UPDATE and so no row lock.                        *)
Changes(r) ==
    \/ req[r].op = "active" /\ req[r].read.active # req[r].target
    \/ req[r].op = "roles" /\ req[r].read.admin # req[r].target
    \/ req[r].op = "roles" /\ req[r].relist
    \/ req[r].op = "reset"

RevokesSessions(r) ==
    req[r].op = "reset" \/ (req[r].op = "active" /\ ~req[r].target)

ManageUpdate(r) ==
    LET u == req[r].user
    IN  /\ req[r].pc = "update"
        /\ \/ Changes(r) /\ userLock[u] = None /\ LockUser(r, u)
           \/ ~Changes(r) /\ UNCHANGED userLock
        /\ GoTo(r, IF RevokesSessions(r) THEN "scan" ELSE "commit")
        /\ UNCHANGED <<users, sessions, rowLock, clock, issued, used>>

ManageReady(r, op) ==
    /\ req[r].op = op /\ req[r].pc \in {"revoke", "commit"}
    /\ req[r].todo = {} /\ KeyShareWaits(r) = {}

ActiveCommit(r) ==
    LET u == req[r].user
    IN  /\ ManageReady(r, "active")
        /\ users' = IF Changes(r)
                    THEN [users EXCEPT ![u].active = req[r].target] ELSE users
        /\ sessions' = Revoked(RowsHeld(r))
        /\ Finish(r)
        /\ UNCHANGED <<clock, issued, used>>

RolesCommit(r) ==
    LET u == req[r].user
    IN  /\ ManageReady(r, "roles")
        /\ users' = IF Changes(r)
                    THEN [users EXCEPT ![u].admin = req[r].target] ELSE users
        /\ Finish(r)
        /\ UNCHANGED <<sessions, clock, issued, used>>

(* force_password_change = True is a change, and so a written column, only *)
(* if the row was loaded with FALSE.                                       *)
ResetCommit(r) ==
    LET u == req[r].user
    IN  /\ ManageReady(r, "reset")
        /\ issued < MaxPasswords
        /\ issued' = issued + 1
        /\ users' = [users EXCEPT ![u] = [@ EXCEPT
               !.hash = [plain |-> issued + 1, legacy |-> FALSE,
                         temporary |-> TRUE],
               !.force = users[u].force \/ ~req[r].read.force]]
        /\ sessions' = Revoked(RowsHeld(r))
        /\ Finish(r)
        /\ UNCHANGED <<clock, used>>

CreateUser(u, admin) ==
    /\ "create" \in Ops
    /\ ~users[u].present /\ issued < MaxPasswords
    /\ issued' = issued + 1
    /\ users' = [users EXCEPT ![u] =
           [present |-> TRUE, active |-> TRUE, admin |-> admin, force |-> TRUE,
            hash |-> [plain |-> issued + 1, legacy |-> FALSE,
                      temporary |-> TRUE]]]
    /\ UNCHANGED <<sessions, userLock, rowLock, req, clock, used>>

(* revoke_login: SELECT ... FOR UPDATE of the row, then revoke and audit. *)
RevokeLoginLock(r, s) ==
    /\ "revoke" \in Ops /\ IsIdle(r)
    /\ Live(s) /\ rowLock[s] = None
    /\ \E actor \in Actors :
          req' = [req EXCEPT ![r] = [NoRequest EXCEPT
                     !.op = "revoke", !.pc = "commit", !.actor = actor,
                     !.user = sessions[s].user, !.sess = s]]
    /\ LockRow(r, s)
    /\ UNCHANGED <<users, sessions, userLock, clock, issued, used>>

RevokeLoginCommit(r) ==
    /\ At(r, {"revoke"}, "commit") /\ KeyShareWaits(r) = {}
    /\ sessions' = Revoked({req[r].sess})
    /\ Finish(r)
    /\ UNCHANGED <<users, clock, issued, used>>

-----------------------------------------------------------------------------
(* The environment *)

(* A request is cancelled, its process dies or its connection fails: the   *)
(* transaction rolls back.                                                 *)
Abort(r) ==
    /\ ~IsIdle(r)
    /\ Finish(r)
    /\ UNCHANGED <<users, sessions, clock, issued, used>>

(* Whom a blocked request waits for. *)
WaitsFor(r) ==
    LET u == req[r].user
        s == req[r].sess
        rows == {rowLock[t] : t \in
            CASE req[r].pc = "revoke" -> req[r].todo
              [] req[r].pc \in {"row", "touch", "expire"} -> {s}
              [] OTHER -> {}}
        user == IF req[r].pc = "user" \/ (req[r].pc = "update" /\ Changes(r))
                THEN {userLock[u]} ELSE {}
        audit == IF req[r].pc \in {"revoke", "commit"} /\ req[r].todo = {}
                 THEN KeyShareWaits(r) ELSE {}
    IN  (rows \cup user \cup audit) \ {None, r}

(* PostgreSQL's deadlock detector aborts a member of a cycle of waits. *)
Deadlocked(r) ==
    \E S \in SUBSET Requests :
        /\ r \in S
        /\ \A q \in S : WaitsFor(q) \cap S # {}
        /\ \A q \in S : \E p \in S : q \in WaitsFor(p)

DeadlockVictim(r) ==
    /\ Deadlocked(r)
    /\ Finish(r)
    /\ UNCHANGED <<users, sessions, clock, issued, used>>

Tick ==
    /\ clock < MaxTime
    /\ clock' = clock + 1
    /\ UNCHANGED <<users, sessions, userLock, rowLock, req, issued, used>>

-----------------------------------------------------------------------------
(* What a request does by itself, once it is in flight. *)
Progress(r) ==
    \/ Hashed(r) \/ LoginLock(r) \/ LoginRefused(r)
    \/ Read(r) \/ Expire(r) \/ Touch(r) \/ LifecycleRow(r) \/ LifecycleUser(r)
    \/ Scan(r) \/ ChangeCommit(r)
    \/ ManageCheck(r) \/ ManageUpdate(r)
    \/ ActiveCommit(r) \/ RolesCommit(r) \/ ResetCommit(r)
    \/ RevokeLoginCommit(r)
    \/ \E s \in SessionIds :
           LoginInsert(r, s) \/ RotateInsert(r, s) \/ LockForRevoke(r, s)

Arrive(r) ==
    \/ \E u \in Users : LoginRead(r, u)
    \/ \E s \in SessionIds, op \in AllOps : Call(r, s, op)
    \/ \E u \in Users, op \in AllOps, target \in BOOLEAN :
           ManageRead(r, u, op, target)
    \/ \E s \in SessionIds : RevokeLoginLock(r, s)

Next ==
    \/ \E r \in Requests : Progress(r) \/ Arrive(r)
    \/ \E r \in Requests : Abort(r) \/ DeadlockVictim(r)
    \/ \E s \in SessionIds : Logout(s)
    \/ \E u \in Users, admin \in BOOLEAN : CreateUser(u, admin)
    \/ Tick

Spec == Init /\ [][Next]_vars

(* A scheduled request runs on, a request that waits for a row lock gets   *)
(* its turn (PostgreSQL queues the waiters of a row), and every deadlock   *)
(* is broken; no request need arrive and none need be cancelled.           *)
FairSpec ==
    Spec /\ \A r \in Requests : SF_vars(Progress(r)) /\ WF_vars(DeadlockVictim(r))

-----------------------------------------------------------------------------
(* Properties *)

(* "Logout and administrator revocation immediately invalidate": whatever  *)
(* interleaves with a deactivation, no session of a deactivated account is *)
(* left live for a later reactivation to bring back.                       *)
NoLiveSessionForInactive ==
    \A s \in SessionIds : Live(s) => users[sessions[s].user].active

(* A reset or a change of password ends every session opened with an       *)
(* earlier password, those whose login was under way included.             *)
SessionMatchesPassword ==
    \A s \in SessionIds :
        Live(s) => sessions[s].plain = users[sessions[s].user].hash.plain

(* rotate_session exchanges a session at most once, however many requests  *)
(* present its token together.                                             *)
RotatedOnce ==
    \A s, t \in SessionIds :
        /\ sessions[s].parent # None => ~Live(sessions[s].parent)
        /\ sessions[s].parent # None /\ sessions[s].parent = sessions[t].parent
              => s = t

(* A password change replaces exactly the password it has verified: never  *)
(* one that a reset or another change has put there meanwhile.             *)
ChangeReplacesVerified ==
    [][\A r \in Requests :
          ChangeCommit(r) => users[req[r].user].hash = req[r].read.hash]_vars

(* No refresh that was under way brings a revoked session back to life.    *)
RevokedStaysRevoked ==
    [][\A s \in SessionIds :
          sessions[s].status = "revoked" => sessions'[s].status = "revoked"]_vars

(* A session not used for the idle timeout is never accepted again. *)
IdleNeverRevived ==
    [][\A s \in SessionIds :
          sessions[s].status # "unused" => used'[s] - used[s] < Idle]_vars

(* There is always an administrator who can log in (what the ValueError of *)
(* set_active and set_roles defends).                                      *)
ActiveAdminExists == \E u \in Users : users[u].active /\ users[u].admin

(* "reset password and force change at next login": a password that an     *)
(* administrator has chosen is always one the user must change.            *)
TemporaryMustChange ==
    \A u \in Users : users[u].hash.temporary => users[u].force

(* A request needs a fresh session or a fresh password and the bounds of   *)
(* the instance leave none.                                                *)
OutOfBounds(r) ==
    \/ req[r].pc = "insert" /\ \A s \in SessionIds : sessions[s].status # "unused"
    \/ req[r].op \in {"change", "reset"} /\ issued = MaxPasswords

(* Every request comes to an end, although validate_csrf and a password    *)
(* change lock session before user and management user before session,     *)
(* unless it or the holder of a lock it waits for is out of the bounds.    *)
RequestsEnd ==
    \A r \in Requests :
        ~IsIdle(r) ~> IsIdle(r) \/ \E q \in Requests : OutOfBounds(q)
=============================================================================
