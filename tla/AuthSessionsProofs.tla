------------------------- MODULE AuthSessionsProofs -------------------------
(***************************************************************************)
(* Proofs about AuthSessions, for every number of users, sessions and      *)
(* requests.  The safety properties rest on who holds which row lock at    *)
(* which step of a request (LockInv), and on what a request may rely on    *)
(* while it holds the lock (RelyInv).                                      *)
(***************************************************************************)
EXTENDS AuthSessions, TLAPS

(* The steps at which a request holds its users row, its session row. *)
HoldsUser(r) ==
    \/ req[r].pc = "insert"
    \/ req[r].op = "change" /\ req[r].pc \in {"scan", "revoke"}
    \/ Changes(r) /\ req[r].pc \in {"scan", "revoke", "commit"}

HoldsRow(r) ==
    \/ /\ req[r].op \in {"csrf", "rotate", "change"}
       /\ req[r].pc \in {"user", "insert", "scan", "revoke"}
    \/ req[r].op = "revoke" /\ req[r].pc = "commit"

LockOf(r) ==
    /\ HoldsUser(r) => userLock[req[r].user] = r
    /\ HoldsRow(r) => /\ req[r].sess \in SessionIds
                      /\ rowLock[req[r].sess] = r
                      /\ Live(req[r].sess)
                      /\ sessions[req[r].sess].user = req[r].user
    /\ req[r].pc = "insert" => req[r].op \in {"login", "rotate"}
    /\ req[r].pc \in {"check", "update"} => req[r].op \in {"active", "reset", "roles"}

(* What a request has read stays true as long as it holds the lock, and a  *)
(* revoking request reaches every session that is live when it commits.    *)
RelyOf(r) ==
    /\ At(r, {"login"}, "insert") => LoginUnchanged(r)
    /\ req[r].op = "change" /\ req[r].pc \in {"scan", "revoke"}
          => users[req[r].user].hash = req[r].read.hash
    /\ HoldsUser(r) /\ req[r].pc = "revoke" =>
          \A s \in SessionIds :
              Live(s) /\ sessions[s].user = req[r].user
                  => s \in req[r].todo \/ rowLock[s] = r
    /\ req[r].op \in {"active", "reset"} /\ RevokesSessions(r)
          => req[r].pc # "commit"
    /\ req[r].op = "active" /\ req[r].pc # "idle"
          => users[req[r].user].present
    /\ req[r].op \in {"csrf", "rotate", "change"}
          => /\ sessions[req[r].sess].user = req[r].user
             /\ sessions[req[r].sess].status # "unused"

LockInv == \A r \in Requests : LockOf(r)
RelyInv == \A r \in Requests : RelyOf(r)

ActiveIsPresent == \A u \in Users : users[u].active => users[u].present

RotationInv ==
    \A s, t \in SessionIds :
        /\ sessions[s].parent # None
              => sessions[sessions[s].parent].status = "revoked"
        /\ sessions[s].parent # None /\ sessions[s].parent = sessions[t].parent
              => s = t

TableInv ==
    /\ NoLiveSessionForInactive /\ SessionMatchesPassword
    /\ ActiveIsPresent /\ RotationInv

IInv == TypeOK /\ LockInv /\ RelyInv /\ TableInv

-----------------------------------------------------------------------------
(* Type correctness *)

(* The default records are well typed. *)
LEMMA NoRequestType ==
    /\ NoRequest \in RequestRecords
    /\ NoUserRow \in UserRows /\ NoHash \in Hashes
    /\ UnusedSession \in SessionRows
BY DEF NoRequest, RequestRecords, Steps, AllOps, NoUserRow, NoHash, UserRows,
       Hashes, UnusedSession, SessionRows

(* The end of a request leaves every variable it assigns well typed. *)
LEMMA FinishType ==
    ASSUME TypeOK, NEW r \in Requests, Finish(r)
    PROVE  /\ userLock' \in [Users -> Requests \cup {None}]
           /\ rowLock' \in [SessionIds -> Requests \cup {None}]
           /\ req' \in [Requests -> RequestRecords]
           /\ \A q \in Requests :
                 /\ req'[q].pc # "idle" => req'[q].user \in Users
                 /\ req'[q].op \in {"current", "csrf", "rotate", "change", "revoke"}
                       => req'[q].sess \in SessionIds
           /\ req'[r] = NoRequest
           /\ \A q \in Requests \ {r} : req'[q] = req[q]
<1>1. req' \in [Requests -> RequestRecords]
  BY NoRequestType DEF TypeOK, Finish
<1>2. /\ req'[r] = NoRequest
      /\ \A q \in Requests \ {r} : req'[q] = req[q]
  BY DEF TypeOK, Finish
<1>3. NoRequest.pc = "idle" /\ NoRequest.op = "none"
  BY DEF NoRequest
<1>4. \A q \in Requests :
         /\ req'[q].pc # "idle" => req'[q].user \in Users
         /\ req'[q].op \in {"current", "csrf", "rotate", "change", "revoke"}
               => req'[q].sess \in SessionIds
  BY <1>2, <1>3 DEF TypeOK
<1> QED
  BY <1>1, <1>2, <1>4 DEF TypeOK, Finish

(* Any other step of a request replaces its record. *)
LEMMA RecordType ==
    ASSUME TypeOK, NEW r \in Requests, NEW new \in RequestRecords,
           new.pc # "idle" => new.user \in Users,
           new.op \in {"current", "csrf", "rotate", "change", "revoke"}
              => new.sess \in SessionIds,
           req' = [req EXCEPT ![r] = new]
    PROVE  /\ req' \in [Requests -> RequestRecords]
           /\ \A q \in Requests :
                 /\ req'[q].pc # "idle" => req'[q].user \in Users
                 /\ req'[q].op \in {"current", "csrf", "rotate", "change", "revoke"}
                       => req'[q].sess \in SessionIds
BY DEF TypeOK

(* Revoking, touching and inserting rows keeps the table well typed. *)
LEMMA RevokedType ==
    ASSUME TypeOK, NEW S
    PROVE  /\ Revoked(S) \in [SessionIds -> SessionRows]
           /\ \A s \in SessionIds :
                 /\ Revoked(S)[s].user = sessions[s].user
                 /\ Revoked(S)[s].plain = sessions[s].plain
                 /\ Revoked(S)[s].parent = sessions[s].parent
                 /\ Revoked(S)[s].status =
                       IF s \in S /\ Live(s) THEN "revoked"
                                            ELSE sessions[s].status
           /\ \A s \in SessionIds :
                 Revoked(S)[s].status # "unused" => Revoked(S)[s].user \in Users
<1>1. \A s \in SessionIds :
         /\ Revoked(S)[s] \in SessionRows
         /\ Revoked(S)[s].user = sessions[s].user
         /\ Revoked(S)[s].plain = sessions[s].plain
         /\ Revoked(S)[s].parent = sessions[s].parent
         /\ Revoked(S)[s].status = IF s \in S /\ Live(s) THEN "revoked"
                                                        ELSE sessions[s].status
  BY DEF TypeOK, Revoked, SessionRows, Live
<1>2. Revoked(S) \in [SessionIds -> SessionRows]
  BY <1>1 DEF Revoked
<1> QED
  BY <1>1, <1>2 DEF TypeOK, Live

(* A refresh changes two times and nothing else. *)
LEMMA TouchedType ==
    ASSUME TypeOK, NEW s \in SessionIds, NEW now \in Nat
    PROVE  /\ Touched(s, now) \in [SessionIds -> SessionRows]
           /\ \A t \in SessionIds :
                 /\ Touched(s, now)[t].user = sessions[t].user
                 /\ Touched(s, now)[t].plain = sessions[t].plain
                 /\ Touched(s, now)[t].parent = sessions[t].parent
                 /\ Touched(s, now)[t].status = sessions[t].status
           /\ \A t \in SessionIds :
                 Touched(s, now)[t].status # "unused"
                    => Touched(s, now)[t].user \in Users
<1> DEFINE row == [sessions[s] EXCEPT !.seen = now, !.expires = now + Idle]
<1>1. sessions[s] \in SessionRows /\ now + Idle \in Nat
  BY AuthAssumption DEF TypeOK
<1>2. /\ row \in SessionRows
      /\ row.user = sessions[s].user /\ row.plain = sessions[s].plain
      /\ row.parent = sessions[s].parent /\ row.status = sessions[s].status
  BY <1>1 DEF SessionRows
<1>3. Touched(s, now) = [sessions EXCEPT ![s] = row]
  BY DEF Touched
<1> HIDE DEF row
<1> QED
  BY <1>2, <1>3 DEF TypeOK

(* Recording an acceptance keeps the history well typed. *)
LEMMA AcceptType ==
    ASSUME TypeOK, NEW s \in SessionIds, NEW now \in Nat, Accept(s, now)
    PROVE  used' \in [SessionIds -> Nat]
BY DEF TypeOK, Accept

(* A fresh row is well typed. *)
LEMMA NewSessionType ==
    ASSUME NEW u \in Users, NEW now \in Nat, NEW plain \in Nat,
           NEW parent \in SessionIds \cup {None}
    PROVE  NewSession(u, now, plain, parent) \in SessionRows
BY AuthAssumption DEF NewSession, SessionRows

(* The bootstrapped state is well typed. *)
LEMMA TypeInit == Init => TypeOK
BY AuthAssumption, NoRequestType
   DEF Init, TypeOK, NoRequest, UnusedSession, NoUserRow, UserRows, Hashes

(* One step per action; those that only move the request come first. *)
LEMMA TypeStep == TypeOK /\ [Next]_vars => TypeOK'
<1> SUFFICES ASSUME TypeOK, [Next]_vars PROVE TypeOK'
  OBVIOUS
<1> USE AuthAssumption, NoRequestType
<1>1. ASSUME NEW r \in Requests, NEW u \in Users, LoginRead(r, u)
      PROVE  TypeOK'
  <2> DEFINE new == [NoRequest EXCEPT !.op = "login", !.pc = "verify",
                                      !.user = u, !.read = users[u]]
  <2>1. new \in RequestRecords /\ new.user = u /\ new.op = "login"
    BY DEF TypeOK, RequestRecords, NoRequest, Steps, AllOps
  <2>2. req' = [req EXCEPT ![r] = new]
    BY <1>1 DEF LoginRead
  <2> HIDE DEF new
  <2> QED
    BY <1>1, <2>1, <2>2, RecordType DEF TypeOK, LoginRead
<1>2. ASSUME NEW r \in Requests, Hashed(r) PROVE TypeOK'
  BY <1>2, ZenonT(40) DEF TypeOK, Hashed, At, RequestRecords, Steps
<1>3. ASSUME NEW r \in Requests, LoginLock(r) PROVE TypeOK'
  BY <1>3 DEF TypeOK, LoginLock, At, LockUser, GoTo, RequestRecords, Steps
<1>4. ASSUME NEW r \in Requests, LoginRefused(r) PROVE TypeOK'
  BY <1>4, FinishType DEF TypeOK, LoginRefused
<1>5. ASSUME NEW r \in Requests, NEW s \in SessionIds, LoginInsert(r, s)
      PROVE  TypeOK'
  <2> DEFINE u == req[r].user
             new == NewSession(u, req[r].now, req[r].read.hash.plain, None)
  <2>1. u \in Users /\ req[r].now \in Nat /\ req[r].read.hash.plain \in Nat
    BY <1>5 DEF TypeOK, LoginInsert, At, RequestRecords, UserRows, Hashes
  <2>2. new \in SessionRows /\ new.user = u
    BY <2>1, NewSessionType DEF NewSession
  <2>3. sessions' = [sessions EXCEPT ![s] = new]
    BY <1>5 DEF LoginInsert
  <2> HIDE DEF new
  <2>4. sessions' \in [SessionIds -> SessionRows]
        /\ \A t \in SessionIds :
              sessions'[t].status # "unused" => sessions'[t].user \in Users
    BY <2>1, <2>2, <2>3 DEF TypeOK
  <2>5. users' \in [Users -> UserRows]
    <3> DEFINE row == [users[u] EXCEPT !.hash.legacy = FALSE]
    <3>1. row \in UserRows
      BY <2>1 DEF TypeOK, UserRows, Hashes
    <3>2. users' = [users EXCEPT ![u] = row]
      BY <1>5 DEF LoginInsert
    <3> HIDE DEF row
    <3> QED
      BY <2>1, <3>1, <3>2 DEF TypeOK
  <2> QED
    BY <1>5, <2>1, <2>4, <2>5, FinishType DEF TypeOK, LoginInsert
<1>6. ASSUME NEW r \in Requests, NEW s \in SessionIds, NEW op \in AllOps,
             Call(r, s, op)
      PROVE  TypeOK'
  BY <1>6, ZenonT(40) DEF TypeOK, Call, RequestRecords, NoRequest, Steps, AllOps
<1>7. ASSUME NEW r \in Requests, Read(r) PROVE TypeOK'
  <2>1. /\ req[r].user \in Users /\ req[r].now \in Nat
        /\ req[r].op = "current" => req[r].sess \in SessionIds
    BY <1>7 DEF TypeOK, Read, RequestRecords
  <2>2. CASE Finish(r) /\ UNCHANGED used
    BY <1>7, <2>2, FinishType DEF TypeOK, Read
  <2>3. CASE /\ req[r].op = "current"
             /\ Finish(r) /\ Accept(req[r].sess, req[r].now)
    BY <1>7, <2>1, <2>3, FinishType, AcceptType DEF TypeOK, Read
  <2>4. CASE \E pc \in {"expire", "touch"} : GoTo(r, pc)
             /\ UNCHANGED <<userLock, rowLock, used>>
    BY <1>7, <2>1, <2>4, SMTT(30) DEF TypeOK, Read, GoTo, RequestRecords, Steps
  <2>5. CASE /\ req' = [req EXCEPT ![r] = [@ EXCEPT
                   !.pc = "verify", !.read = users[req[r].user]]]
             /\ UNCHANGED <<userLock, rowLock, used>>
    BY <1>7, <2>1, <2>5, ZenonT(40) DEF TypeOK, Read, RequestRecords, Steps
  <2> QED
    BY <1>7, <2>2, <2>3, <2>4, <2>5 DEF Read
<1>8. ASSUME NEW r \in Requests, Expire(r) PROVE TypeOK'
  <2>1. /\ sessions' \in [SessionIds -> SessionRows]
        /\ \A t \in SessionIds :
              sessions'[t].status # "unused" => sessions'[t].user \in Users
    BY <1>8, RevokedType DEF Expire
  <2> QED
    BY <1>8, <2>1, FinishType DEF TypeOK, Expire
<1>9. ASSUME NEW r \in Requests, Touch(r) PROVE TypeOK'
  <2>1. req[r].now \in Nat /\ req[r].sess \in SessionIds
    BY <1>9 DEF TypeOK, RequestRecords, Touch, At
  <2> QED
    <3>1. sessions' \in [SessionIds -> SessionRows]
          /\ \A t \in SessionIds :
                sessions'[t].status # "unused" => sessions'[t].user \in Users
      BY <1>9, <2>1, TouchedType DEF Touch
    <3>2. used' \in [SessionIds -> Nat]
      BY <1>9, <2>1, AcceptType DEF Touch
    <3> QED
      BY <1>9, <3>1, <3>2, FinishType DEF TypeOK, Touch
<1>10. ASSUME NEW r \in Requests, LifecycleRow(r) PROVE TypeOK'
  <2>1. CASE Finish(r)
    BY <1>10, <2>1, FinishType DEF TypeOK, LifecycleRow
  <2>2. CASE LockRow(r, req[r].sess) /\ GoTo(r, "user") /\ UNCHANGED userLock
    BY <1>10, <2>2
       DEF TypeOK, LifecycleRow, At, LockRow, GoTo, RequestRecords, Steps
  <2> QED
    BY <1>10, <2>1, <2>2 DEF LifecycleRow
<1>11. ASSUME NEW r \in Requests, LifecycleUser(r) PROVE TypeOK'
  <2> DEFINE s == req[r].sess
             now == req[r].now
  <2>1. now \in Nat /\ s \in SessionIds /\ req[r].user \in Users
    BY <1>11 DEF TypeOK, RequestRecords, LifecycleUser, At
  <2>2. CASE Finish(r) /\ UNCHANGED <<sessions, used>>
    BY <1>11, <2>2, FinishType DEF TypeOK, LifecycleUser
  <2>3. CASE sessions' = Revoked({s}) /\ Finish(r) /\ UNCHANGED used
    <3>1. /\ sessions' \in [SessionIds -> SessionRows]
          /\ \A t \in SessionIds :
                sessions'[t].status # "unused" => sessions'[t].user \in Users
      BY <2>3, RevokedType
    <3> QED
      BY <1>11, <2>3, <3>1, FinishType DEF TypeOK, LifecycleUser
  <2>4. CASE /\ sessions' = IF TouchDue(s, now) THEN Touched(s, now) ELSE sessions
             /\ Accept(s, now) /\ Finish(r)
    <3>1. /\ sessions' \in [SessionIds -> SessionRows]
          /\ \A t \in SessionIds :
                sessions'[t].status # "unused" => sessions'[t].user \in Users
      BY <2>1, <2>4, TouchedType DEF TypeOK
    <3>2. used' \in [SessionIds -> Nat]
      BY <2>1, <2>4, AcceptType
    <3> QED
      BY <1>11, <2>4, <3>1, <3>2, FinishType DEF TypeOK, LifecycleUser
  <2>5. CASE /\ LockUser(r, req[r].user)
             /\ \E pc \in {"insert", "scan"} : GoTo(r, pc)
             /\ UNCHANGED <<sessions, rowLock, used>>
    <3>1. PICK pc \in {"insert", "scan"} : GoTo(r, pc)
      BY <2>5
    <3>2. [req[r] EXCEPT !.pc = pc] \in RequestRecords
      BY <3>1 DEF TypeOK, RequestRecords, Steps
    <3> QED
      BY <1>11, <2>1, <2>5, <3>1, <3>2
         DEF TypeOK, LifecycleUser, LockUser, GoTo, RequestRecords
  <2> QED
    BY <1>11, <2>2, <2>3, <2>4, <2>5 DEF LifecycleUser
<1>12. ASSUME NEW r \in Requests, NEW s \in SessionIds, RotateInsert(r, s)
       PROVE  TypeOK'
  <2> DEFINE old == req[r].sess
             new == NewSession(req[r].user, req[r].now, sessions[old].plain, old)
  <2>1. /\ req[r].user \in Users /\ req[r].now \in Nat /\ old \in SessionIds
        /\ sessions[old].plain \in Nat
    BY <1>12 DEF TypeOK, RotateInsert, At, RequestRecords, SessionRows
  <2>2. new \in SessionRows /\ new.user \in Users
    BY <2>1, NewSessionType DEF NewSession
  <2>3. sessions' = [Revoked({old}) EXCEPT ![s] = new]
    BY <1>12 DEF RotateInsert
  <2> HIDE DEF new
  <2>4. /\ sessions' \in [SessionIds -> SessionRows]
        /\ \A t \in SessionIds :
              sessions'[t].status # "unused" => sessions'[t].user \in Users
    BY <2>2, <2>3, RevokedType
  <2>5. used' \in [SessionIds -> Nat]
    BY <1>12, <2>1 DEF TypeOK, RotateInsert
  <2> QED
    BY <1>12, <2>4, <2>5, FinishType DEF TypeOK, RotateInsert
<1>13. ASSUME NEW s \in SessionIds, Logout(s) PROVE TypeOK'
  <2>1. /\ sessions' \in [SessionIds -> SessionRows]
        /\ \A t \in SessionIds :
              sessions'[t].status # "unused" => sessions'[t].user \in Users
    BY <1>13, RevokedType DEF Logout
  <2> QED
    BY <1>13, <2>1 DEF TypeOK, Logout
<1>14. ASSUME NEW r \in Requests, Scan(r) PROVE TypeOK'
  BY <1>14, ZenonT(40) DEF TypeOK, Scan, RequestRecords, Steps
<1>15. ASSUME NEW r \in Requests, NEW s \in SessionIds, LockForRevoke(r, s)
       PROVE  TypeOK'
  BY <1>15 DEF TypeOK, LockForRevoke, RequestRecords
<1>16. ASSUME NEW r \in Requests, ChangeCommit(r) PROVE TypeOK'
  <2>1. /\ sessions' \in [SessionIds -> SessionRows]
        /\ \A t \in SessionIds :
              sessions'[t].status # "unused" => sessions'[t].user \in Users
    BY <1>16, RevokedType DEF ChangeCommit
  <2>2. users' \in [Users -> UserRows] /\ issued' \in Nat
    <3> DEFINE u == req[r].user
               hash == [plain |-> issued + 1, legacy |-> FALSE,
                        temporary |-> FALSE]
               row == [users[u] EXCEPT !.hash = hash,
                                       !.force = FALSE]
    <3>1. users' = [users EXCEPT ![u] = row] /\ issued' = issued + 1
      BY <1>16 DEF ChangeCommit
    <3>2. u \in Users /\ users[u] \in UserRows
      BY <1>16 DEF TypeOK, ChangeCommit, At, ManageReady
    <3>3. hash \in Hashes
      BY DEF TypeOK, Hashes
    <3> HIDE DEF hash
    <3>4. row \in UserRows
      BY <3>2, <3>3 DEF UserRows
    <3> HIDE DEF row
    <3> QED
      BY <3>1, <3>2, <3>4 DEF TypeOK
  <2> QED
    BY <1>16, <2>1, <2>2, FinishType DEF TypeOK, ChangeCommit
<1>17. ASSUME NEW r \in Requests, NEW u \in Users, NEW op \in AllOps,
              NEW target \in BOOLEAN, ManageRead(r, u, op, target)
       PROVE  TypeOK'
  <2>0. PICK actor \in Actors, relist \in BOOLEAN :
           req' = [req EXCEPT ![r] = [NoRequest EXCEPT
                     !.op = op, !.user = u, !.read = users[u],
                     !.actor = actor, !.target = target, !.relist = relist,
                     !.pc = IF ~target /\ users[u].admin
                               /\ (op = "active" \/ users[u].active)
                            THEN "check" ELSE "update"]]
    BY <1>17 DEF ManageRead
  <2> DEFINE new == [NoRequest EXCEPT
                 !.op = op, !.user = u, !.read = users[u],
                 !.actor = actor, !.target = target, !.relist = relist,
                 !.pc = IF ~target /\ users[u].admin
                           /\ (op = "active" \/ users[u].active)
                        THEN "check" ELSE "update"]
  <2>1. new \in RequestRecords /\ new.user = u /\ new.op = op
    <3> DEFINE pc == IF ~target /\ users[u].admin
                          /\ (op = "active" \/ users[u].active)
                     THEN "check" ELSE "update"
    <3>1. pc \in Steps /\ users[u] \in UserRows /\ actor \in Users \cup {None}
      BY DEF TypeOK, Steps, Actors
    <3> HIDE DEF pc
    <3>2. new = [NoRequest EXCEPT !.op = op, !.user = u, !.read = users[u],
                                  !.actor = actor, !.target = target,
                                  !.relist = relist, !.pc = pc]
      BY DEF pc
    <3> HIDE DEF new
    <3> QED
      BY <3>1, <3>2 DEF RequestRecords, NoRequest
  <2>2. req' = [req EXCEPT ![r] = new] /\ op \in {"active", "reset", "roles"}
    BY <1>17, <2>0 DEF ManageRead
  <2> HIDE DEF new
  <2> QED
    BY <1>17, <2>1, <2>2, RecordType DEF TypeOK, ManageRead
<1>18. ASSUME NEW r \in Requests, ManageCheck(r) PROVE TypeOK'
  <2>1. CASE Finish(r)
    BY <1>18, <2>1, FinishType DEF TypeOK, ManageCheck
  <2>2. CASE GoTo(r, "update") /\ UNCHANGED <<userLock, rowLock>>
    BY <1>18, <2>2 DEF TypeOK, ManageCheck, GoTo, RequestRecords, Steps
  <2> QED
    BY <1>18, <2>1, <2>2 DEF ManageCheck
<1>19. ASSUME NEW r \in Requests, ManageUpdate(r) PROVE TypeOK'
  <2>1. PICK pc \in {"scan", "commit"} : GoTo(r, pc)
    BY <1>19 DEF ManageUpdate
  <2>2. [req[r] EXCEPT !.pc = pc] \in RequestRecords /\ req[r].user \in Users
    BY <1>19, <2>1 DEF TypeOK, RequestRecords, Steps, ManageUpdate
  <2>3. userLock' \in [Users -> Requests \cup {None}]
    BY <1>19, <2>2 DEF TypeOK, ManageUpdate, LockUser
  <2> QED
    BY <1>19, <2>1, <2>2, <2>3 DEF TypeOK, ManageUpdate, GoTo, RequestRecords
<1>20. ASSUME NEW r \in Requests, ActiveCommit(r) PROVE TypeOK'
  <2>1. /\ sessions' \in [SessionIds -> SessionRows]
        /\ \A t \in SessionIds :
              sessions'[t].status # "unused" => sessions'[t].user \in Users
    BY <1>20, RevokedType DEF ActiveCommit
  <2>2. users' \in [Users -> UserRows] /\ issued' \in Nat
    BY <1>20, ZenonT(40) DEF TypeOK, ActiveCommit, UserRows, RequestRecords
  <2> QED
    BY <1>20, <2>1, <2>2, FinishType DEF TypeOK, ActiveCommit
<1>21. ASSUME NEW r \in Requests, RolesCommit(r) PROVE TypeOK'
  <2>1. users' \in [Users -> UserRows]
    BY <1>21, ZenonT(40) DEF TypeOK, RolesCommit, UserRows, RequestRecords
  <2> QED
    BY <1>21, <2>1, FinishType DEF TypeOK, RolesCommit
<1>22. ASSUME NEW r \in Requests, ResetCommit(r) PROVE TypeOK'
  <2>1. /\ sessions' \in [SessionIds -> SessionRows]
        /\ \A t \in SessionIds :
              sessions'[t].status # "unused" => sessions'[t].user \in Users
    BY <1>22, RevokedType DEF ResetCommit
  <2>2. users' \in [Users -> UserRows] /\ issued' \in Nat
    <3> DEFINE u == req[r].user
               hash == [plain |-> issued + 1, legacy |-> FALSE,
                        temporary |-> TRUE]
               row == [users[u] EXCEPT !.hash = hash,
                                       !.force = users[u].force \/ ~req[r].read.force]
    <3>1. users' = [users EXCEPT ![u] = row] /\ issued' = issued + 1
      BY <1>22 DEF ResetCommit
    <3>2. u \in Users /\ users[u] \in UserRows
      BY <1>22 DEF TypeOK, ResetCommit, At, ManageReady
    <3>3. hash \in Hashes
      BY DEF TypeOK, Hashes
    <3> HIDE DEF hash
    <3>4. row \in UserRows
      BY <3>2, <3>3 DEF UserRows
    <3> HIDE DEF row
    <3> QED
      BY <3>1, <3>2, <3>4 DEF TypeOK
  <2> QED
    BY <1>22, <2>1, <2>2, FinishType DEF TypeOK, ResetCommit
<1>23. ASSUME NEW u \in Users, NEW admin \in BOOLEAN, CreateUser(u, admin)
       PROVE  TypeOK'
  BY <1>23 DEF TypeOK, CreateUser, UserRows, Hashes
<1>24. ASSUME NEW r \in Requests, NEW s \in SessionIds, RevokeLoginLock(r, s)
       PROVE  TypeOK'
  <2>0. PICK actor \in Actors :
           req' = [req EXCEPT ![r] = [NoRequest EXCEPT
                     !.op = "revoke", !.pc = "commit", !.actor = actor,
                     !.user = sessions[s].user, !.sess = s]]
    BY <1>24 DEF RevokeLoginLock
  <2> DEFINE new == [NoRequest EXCEPT !.op = "revoke", !.pc = "commit",
                         !.actor = actor,
                         !.user = sessions[s].user, !.sess = s]
  <2>1. /\ new \in RequestRecords /\ new.sess = s
        /\ new.user \in Users
    BY <1>24, ZenonT(40) DEF TypeOK, RequestRecords, NoRequest, Steps, AllOps,
                 RevokeLoginLock, Live, Actors
  <2>2. req' = [req EXCEPT ![r] = new]
    BY <2>0
  <2> HIDE DEF new
  <2> QED
    BY <1>24, <2>1, <2>2, RecordType DEF TypeOK, RevokeLoginLock, LockRow
<1>25. ASSUME NEW r \in Requests, RevokeLoginCommit(r) PROVE TypeOK'
  <2>1. /\ sessions' \in [SessionIds -> SessionRows]
        /\ \A t \in SessionIds :
              sessions'[t].status # "unused" => sessions'[t].user \in Users
    BY <1>25, RevokedType DEF RevokeLoginCommit
  <2> QED
    BY <1>25, <2>1, FinishType DEF TypeOK, RevokeLoginCommit
<1>26. ASSUME NEW r \in Requests, Abort(r) \/ DeadlockVictim(r) PROVE TypeOK'
  BY <1>26, FinishType DEF TypeOK, Abort, DeadlockVictim
<1>27. CASE Tick
  BY <1>27 DEF TypeOK, Tick
<1>28. CASE UNCHANGED vars
  BY <1>28 DEF TypeOK, vars
<1> QED
  BY <1>1, <1>2, <1>3, <1>4, <1>5, <1>6, <1>7, <1>8, <1>9, <1>10, <1>11, <1>12,
     <1>13, <1>14, <1>15, <1>16, <1>17, <1>18, <1>19, <1>20, <1>21, <1>22, <1>23,
     <1>24, <1>25, <1>26, <1>27, <1>28
     DEF Next, Progress, Arrive

(* Every reachable state is well typed. *)
THEOREM TypeCorrect == Spec => []TypeOK
<1>1. Init => TypeOK
  BY TypeInit
<1>2. TypeOK /\ [Next]_vars => TypeOK'
  BY TypeStep
<1> QED
  BY <1>1, <1>2, PTL DEF Spec

-----------------------------------------------------------------------------
(* Row locks: what one request guarantees to the others *)

(* A step of r leaves the other requests and their locks alone, changes a  *)
(* users row only under its lock (or creates it), and a session row only   *)
(* if nobody else has locked it, opening a session only for the user it    *)
(* has locked.  r = None is a step of no request.                          *)
Guarantee(r) ==
    /\ \A q \in Requests \ {r} :
          /\ req'[q] = req[q]
          /\ \A u \in Users : userLock[u] = q => userLock'[u] = q
          /\ \A s \in SessionIds : rowLock[s] = q => rowLock'[s] = q
    /\ \A u \in Users :
          /\ users[u].present => users'[u].present
          /\ \/ users'[u] = users[u]
             \/ userLock[u] = r
             \/ ~users[u].active
    /\ \A s \in SessionIds :
          \/ /\ sessions'[s].status = sessions[s].status
             /\ sessions'[s].user = sessions[s].user
          \/ /\ Live(s) /\ sessions'[s].status = "revoked"
             /\ sessions'[s].user = sessions[s].user
             /\ rowLock[s] \notin Requests \ {r}
          \/ /\ sessions[s].status = "unused"
             /\ userLock[sessions'[s].user] = r

(* What a request relies on is stable under the steps of the others. *)
LEMMA Stable ==
    ASSUME IInv, NEW r \in Requests \cup {None}, Guarantee(r),
           NEW q \in Requests, q # r
    PROVE  LockOf(q)' /\ RelyOf(q)'
<1> USE AuthAssumption
<1>1. /\ req'[q] = req[q] /\ LockOf(q) /\ RelyOf(q)
      /\ \A u \in Users : userLock[u] = q => userLock'[u] = q
      /\ \A s \in SessionIds : rowLock[s] = q => rowLock'[s] = q
  BY DEF Guarantee, IInv, LockInv, RelyInv
<1>2. /\ HoldsUser(q)' <=> HoldsUser(q)
      /\ HoldsRow(q)' <=> HoldsRow(q)
      /\ RevokesSessions(q)' <=> RevokesSessions(q)
  BY <1>1 DEF HoldsUser, HoldsRow, RevokesSessions, Changes
<1>3. HoldsUser(q) => req[q].user \in Users /\ userLock[req[q].user] = q
  BY <1>1 DEF IInv, TypeOK, HoldsUser, LockOf
<1>4. HoldsRow(q) => /\ req[q].sess \in SessionIds
                     /\ rowLock'[req[q].sess] = q
                     /\ Live(req[q].sess)'
                     /\ sessions'[req[q].sess].user = req[q].user
  BY <1>1 DEF LockOf, Guarantee, Live
<1>5. LockOf(q)'
  BY <1>1, <1>2, <1>3, <1>4 DEF LockOf
<1>6. HoldsUser(q) /\ users[req[q].user].active
         => users'[req[q].user] = users[req[q].user]
  BY <1>3 DEF Guarantee
<1>7. At(q, {"login"}, "insert")' => LoginUnchanged(q)'
  BY <1>1, <1>6 DEF At, RelyOf, LoginUnchanged, HoldsUser
<1>8. req[q].op = "change" /\ req[q].pc \in {"scan", "revoke"}
         => users'[req[q].user].hash = req[q].read.hash
  <2>1. req[q].op = "change" /\ req[q].pc \in {"scan", "revoke"}
           => HoldsUser(q) /\ HoldsRow(q)
    BY DEF HoldsUser, HoldsRow
  <2>2. HoldsRow(q) => users[req[q].user].active
    BY <1>1 DEF LockOf, IInv, TableInv, NoLiveSessionForInactive
  <2> QED
    BY <1>1, <1>6, <2>1, <2>2 DEF RelyOf
<1>9. HoldsUser(q) /\ req[q].pc = "revoke" =>
         \A s \in SessionIds :
             Live(s)' /\ sessions'[s].user = req[q].user
                 => s \in req[q].todo \/ rowLock'[s] = q
  BY <1>1, <1>3 DEF RelyOf, Guarantee, Live
<1>10. req[q].op = "active" /\ req[q].pc # "idle"
          => users'[req[q].user].present
  <2>1. req[q].pc # "idle" => req[q].user \in Users
    BY DEF IInv, TypeOK
  <2> QED
    BY <1>1, <2>1 DEF RelyOf, Guarantee
<1>11. req[q].op \in {"active", "reset"} /\ RevokesSessions(q)
          => req[q].pc # "commit"
  BY <1>1 DEF RelyOf
<1>12. req[q].op \in {"csrf", "rotate", "change"}
          => /\ sessions'[req[q].sess].user = req[q].user
             /\ sessions'[req[q].sess].status # "unused"
  <2>1. req[q].op \in {"csrf", "rotate", "change"} => req[q].sess \in SessionIds
    BY DEF IInv, TypeOK
  <2> QED
    BY <1>1, <2>1 DEF RelyOf, Guarantee, Live
<1>13. RelyOf(q)'
  BY <1>1, <1>2, <1>7, <1>8, <1>9, <1>10, <1>11, <1>12 DEF RelyOf
<1> QED
  BY <1>5, <1>13

(* A request that has ended holds nothing and relies on nothing. *)
LEMMA FinishFrame ==
    ASSUME TypeOK, NEW r \in Requests, Finish(r)
    PROVE  /\ LockOf(r)' /\ RelyOf(r)'
           /\ \A q \in Requests \ {r} :
                 /\ req'[q] = req[q]
                 /\ \A u \in Users : userLock[u] = q => userLock'[u] = q
                 /\ \A s \in SessionIds : rowLock[s] = q => rowLock'[s] = q
<1>1. req'[r] = NoRequest
  BY FinishType
<1>2. NoRequest.pc = "idle" /\ NoRequest.op = "none"
  BY DEF NoRequest
<1>3. LockOf(r)' /\ RelyOf(r)'
  BY <1>1, <1>2 DEF LockOf, RelyOf, HoldsUser, HoldsRow, Changes, At,
                    RevokesSessions
<1> QED
  BY <1>3, FinishType DEF Finish

(* The tables are as good after a step that only revokes or touches.  *)
LEMMA TableKept ==
    ASSUME TypeOK, TypeOK', TableInv,
           \A u \in Users : /\ users'[u].active = users[u].active
                            /\ users'[u].present = users[u].present
                            /\ users'[u].hash.plain = users[u].hash.plain,
           \A s \in SessionIds :
              /\ sessions'[s].user = sessions[s].user
              /\ sessions'[s].plain = sessions[s].plain
              /\ sessions'[s].parent = sessions[s].parent
              /\ \/ sessions'[s].status = sessions[s].status
                 \/ Live(s) /\ sessions'[s].status = "revoked"
    PROVE  TableInv'
<1>1. NoLiveSessionForInactive' /\ SessionMatchesPassword'
  <2>1. ASSUME NEW s \in SessionIds, Live(s)'
        PROVE  Live(s) /\ sessions[s].user \in Users
    BY <2>1 DEF TypeOK, Live
  <2>2. ASSUME NEW s \in SessionIds, Live(s)'
        PROVE  /\ users'[sessions'[s].user].active
               /\ sessions'[s].plain = users'[sessions'[s].user].hash.plain
    BY <2>1, <2>2
       DEF TableInv, NoLiveSessionForInactive, SessionMatchesPassword
  <2> QED
    BY <2>2 DEF NoLiveSessionForInactive, SessionMatchesPassword
<1>2. ActiveIsPresent'
  BY DEF TableInv, ActiveIsPresent
<1>3. RotationInv'
  <2>1. \A s \in SessionIds : sessions[s].parent \in SessionIds \cup {None}
    BY DEF TypeOK, SessionRows
  <2> QED
    BY <2>1 DEF TableInv, RotationInv, Live
<1> QED
  BY <1>1, <1>2, <1>3 DEF TableInv

(* The tables are as good after a step that leaves them alone. *)
LEMMA TableUnchanged ==
    ASSUME TableInv, UNCHANGED <<users, sessions>>
    PROVE  TableInv'
BY DEF TableInv, NoLiveSessionForInactive, SessionMatchesPassword, Live,
       ActiveIsPresent, RotationInv

(* The rows a request may revoke: those nobody else has locked. *)
LEMMA RevokeFrame ==
    ASSUME TypeOK, TypeOK', TableInv, NEW S, sessions' = Revoked(S),
           UNCHANGED users, NEW r \in Requests \cup {None},
           \A s \in SessionIds :
               s \in S /\ Live(s) => rowLock[s] \notin Requests \ {r}
    PROVE  /\ TableInv'
           /\ \A s \in SessionIds :
                 \/ /\ sessions'[s].status = sessions[s].status
                    /\ sessions'[s].user = sessions[s].user
                 \/ /\ Live(s) /\ sessions'[s].status = "revoked"
                    /\ sessions'[s].user = sessions[s].user
                    /\ rowLock[s] \notin Requests \ {r}
<1>1. \A s \in SessionIds :
         /\ sessions'[s].user = sessions[s].user
         /\ sessions'[s].plain = sessions[s].plain
         /\ sessions'[s].parent = sessions[s].parent
         /\ sessions'[s].status = IF s \in S /\ Live(s) THEN "revoked"
                                                      ELSE sessions[s].status
  BY RevokedType
<1>2. TableInv'
  BY <1>1, TableKept
<1> QED
  BY <1>1, <1>2 DEF Live

-----------------------------------------------------------------------------
(* The inductive invariant *)

(* What a step of r has to show for the invariant to be kept. *)
StepOK(r) ==
    Guarantee(r) /\ TableInv' /\ (r \in Requests => LockOf(r)' /\ RelyOf(r)')

LEMMA StepOKSuffices ==
    ASSUME IInv, TypeOK', NEW r \in Requests \cup {None}, StepOK(r)
    PROVE  IInv'
BY Stable DEF StepOK, IInv, LockInv, RelyInv

(* A step of r that changes neither table. *)
LEMMA QuietStep ==
    ASSUME IInv, NEW r \in Requests, UNCHANGED <<users, sessions>>,
           LockOf(r)', RelyOf(r)',
           \A q \in Requests \ {r} :
              /\ req'[q] = req[q]
              /\ \A u \in Users : userLock[u] = q => userLock'[u] = q
              /\ \A s \in SessionIds : rowLock[s] = q => rowLock'[s] = q
    PROVE  StepOK(r)
BY TableUnchanged DEF StepOK, Guarantee, IInv

(* The end of a request that has changed nothing. *)
LEMMA QuietFinish ==
    ASSUME IInv, NEW r \in Requests, UNCHANGED <<users, sessions>>, Finish(r)
    PROVE  StepOK(r)
BY FinishFrame, QuietStep DEF IInv

(* The end of a request that has revoked sessions nobody else has locked. *)
LEMMA RevokeFinish ==
    ASSUME IInv, TypeOK', NEW r \in Requests, UNCHANGED users, Finish(r),
           NEW S, sessions' = Revoked(S),
           \A s \in SessionIds :
               s \in S /\ Live(s) => rowLock[s] \notin Requests \ {r}
    PROVE  StepOK(r)
BY FinishFrame, RevokeFrame DEF StepOK, Guarantee, IInv

(* The commit of a request that has locked its user and every session of   *)
(* that user: whatever it makes of the password, no session outlives it.   *)
LEMMA RevokingCommit ==
    ASSUME IInv, TypeOK', NEW r \in Requests, Finish(r),
           NEW u \in Users, userLock[u] = r,
           \A s \in SessionIds :
               Live(s) /\ sessions[s].user = u => rowLock[s] = r,
           sessions' = Revoked(RowsHeld(r)),
           \A v \in Users \ {u} : users'[v] = users[v],
           users'[u].active => users'[u].present,
           users[u].present => users'[u].present
    PROVE  StepOK(r)
<1>0. TypeOK /\ TableInv
  BY DEF IInv
<1>1. \A s \in SessionIds :
         /\ sessions'[s].user = sessions[s].user
         /\ sessions'[s].plain = sessions[s].plain
         /\ sessions'[s].parent = sessions[s].parent
         /\ sessions'[s].status = IF rowLock[s] = r /\ Live(s) THEN "revoked"
                                                           ELSE sessions[s].status
  BY <1>0, RevokedType DEF RowsHeld
<1>2. ASSUME NEW s \in SessionIds, Live(s)'
      PROVE  Live(s) /\ sessions[s].user \in Users \ {u}
  BY <1>0, <1>1, <1>2 DEF TypeOK, Live
<1>3. ASSUME NEW s \in SessionIds, Live(s)'
      PROVE  /\ users'[sessions'[s].user].active
             /\ sessions'[s].plain = users'[sessions'[s].user].hash.plain
  BY <1>0, <1>1, <1>2, <1>3
     DEF TableInv, NoLiveSessionForInactive, SessionMatchesPassword
<1>4. NoLiveSessionForInactive' /\ SessionMatchesPassword'
  BY <1>3 DEF NoLiveSessionForInactive, SessionMatchesPassword
<1>5. ActiveIsPresent'
  BY <1>0 DEF TableInv, ActiveIsPresent
<1>6. RotationInv'
  <2>1. \A s \in SessionIds : sessions[s].parent \in SessionIds \cup {None}
    BY <1>0 DEF TypeOK, SessionRows
  <2> QED
    BY <1>0, <1>1, <2>1 DEF TableInv, RotationInv, Live
<1>7. Guarantee(r)
  BY <1>0, <1>1, FinishFrame, AuthAssumption DEF Guarantee, Live
<1> QED
  BY <1>0, <1>4, <1>5, <1>6, <1>7, FinishFrame DEF StepOK, TableInv

(* A session opened for an active user under the user's current password,  *)
(* and perhaps exchanged for a session that ends in the same step.         *)
LEMMA OpeningCommit ==
    ASSUME IInv, TypeOK', NEW r \in Requests, Finish(r),
           NEW s \in SessionIds, sessions[s].status = "unused",
           NEW new, new.user \in Users, userLock[new.user] = r,
           users[new.user].active,
           new.plain = users[new.user].hash.plain,
           NEW old \in SessionIds \cup {None}, new.parent = old,
           old # None => Live(old) /\ rowLock[old] = r,
           sessions' = [Revoked({old}) EXCEPT ![s] = new],
           \A v \in Users : /\ users'[v].active = users[v].active
                            /\ users'[v].present = users[v].present
                            /\ users'[v].hash.plain = users[v].hash.plain
                            /\ users'[v] = users[v] \/ v = new.user
    PROVE  StepOK(r)
<1>0. TypeOK /\ TableInv
  BY DEF IInv
<1>1. /\ sessions'[s] = new
      /\ \A t \in SessionIds \ {s} :
            /\ sessions'[t].user = sessions[t].user
            /\ sessions'[t].plain = sessions[t].plain
            /\ sessions'[t].parent = sessions[t].parent
            /\ sessions'[t].status = IF t = old /\ Live(t) THEN "revoked"
                                                       ELSE sessions[t].status
  BY <1>0, RevokedType
<1>2. ASSUME NEW t \in SessionIds, Live(t)'
      PROVE  /\ users'[sessions'[t].user].active
             /\ sessions'[t].plain = users'[sessions'[t].user].hash.plain
  <2>1. CASE t = s
    BY <1>1, <2>1
  <2>2. CASE t # s
    <3>1. Live(t) /\ sessions[t].user \in Users
      BY <1>0, <1>1, <1>2, <2>2 DEF Live, TypeOK
    <3> QED
      BY <1>0, <1>1, <2>2, <3>1, SMTT(30)
         DEF TableInv, NoLiveSessionForInactive, SessionMatchesPassword
  <2> QED
    BY <2>1, <2>2
<1>3. NoLiveSessionForInactive' /\ SessionMatchesPassword'
  BY <1>2 DEF NoLiveSessionForInactive, SessionMatchesPassword
<1>4. ActiveIsPresent'
  BY <1>0 DEF TableInv, ActiveIsPresent
<1>5. RotationInv'
  <2>1. /\ \A t \in SessionIds : sessions[t].parent \in SessionIds \cup {None}
        /\ None \notin SessionIds
    BY <1>0, AuthAssumption DEF TypeOK, SessionRows
  <2>2. \A t \in SessionIds : sessions[t].status = "revoked"
           => t # s /\ sessions'[t].status = "revoked"
    BY <1>1, SMTT(30)
  <2>3. ASSUME old # None
        PROVE  /\ old \in SessionIds \ {s} /\ sessions'[old].status = "revoked"
               /\ sessions[old].status = "live"
    <3>1. old \in SessionIds /\ Live(old) /\ old # s
      BY <2>3 DEF Live
    <3> QED
      BY <1>1, <3>1, SMTT(30) DEF Live
  <2>4. ASSUME NEW t \in SessionIds, sessions'[t].parent # None
        PROVE  sessions'[sessions'[t].parent].status = "revoked"
    <3>1. CASE t = s
      BY <1>1, <2>3, <2>4, <3>1
    <3>2. CASE t # s
      <4>1. sessions'[t].parent = sessions[t].parent
        BY <1>1, <3>2
      <4>2. sessions[t].parent \in SessionIds
            /\ sessions[sessions[t].parent].status = "revoked"
        BY <1>0, <2>1, <2>4, <4>1 DEF TableInv, RotationInv
      <4> QED
        BY <2>2, <4>1, <4>2
    <3> QED
      BY <3>1, <3>2
  <2>5. ASSUME NEW t \in SessionIds \ {s}, sessions'[t].parent # None
        PROVE  sessions'[t].parent # old /\ sessions'[t].parent = sessions[t].parent
    <3>1. sessions'[t].parent = sessions[t].parent
      BY <1>1
    <3>2. sessions[sessions[t].parent].status = "revoked"
      BY <1>0, <2>5, <3>1 DEF TableInv, RotationInv
    <3> QED
      BY <2>3, <2>5, <3>1, <3>2
  <2>6. ASSUME NEW t \in SessionIds, NEW w \in SessionIds,
               sessions'[t].parent # None,
               sessions'[t].parent = sessions'[w].parent
        PROVE  t = w
    <3>1. sessions'[s].parent = old
      BY <1>1
    <3>2. CASE t = s \/ w = s
      <4>1. t # s => sessions'[t].parent # old
        BY <2>5, <2>6
      <4>2. w # s => sessions'[w].parent # old
        BY <2>5, <2>6
      <4> QED
        BY <2>6, <3>1, <3>2, <4>1, <4>2
    <3>3. CASE t # s /\ w # s
      <4>1. sessions[t].parent = sessions'[t].parent
        BY <2>5, <2>6, <3>3
      <4>2. sessions[w].parent = sessions'[w].parent
        BY <2>5, <2>6, <3>3
      <4>3. sessions[t].parent # None /\ sessions[t].parent = sessions[w].parent
        BY <2>6, <4>1, <4>2
      <4> QED
        BY <1>0, <4>3 DEF TableInv, RotationInv
    <3> QED
      BY <3>2, <3>3
  <2> QED
    BY <2>4, <2>6 DEF RotationInv
<1>6. Guarantee(r)
  <2>1. \A q \in Requests \ {r} :
           /\ req'[q] = req[q]
           /\ \A u \in Users : userLock[u] = q => userLock'[u] = q
           /\ \A t \in SessionIds : rowLock[t] = q => rowLock'[t] = q
    BY <1>0, FinishFrame
  <2>2. \A t \in SessionIds :
           \/ /\ sessions'[t].status = sessions[t].status
              /\ sessions'[t].user = sessions[t].user
           \/ /\ Live(t) /\ sessions'[t].status = "revoked"
              /\ sessions'[t].user = sessions[t].user
              /\ rowLock[t] \notin Requests \ {r}
           \/ /\ sessions[t].status = "unused"
              /\ userLock[sessions'[t].user] = r
    <3>1. sessions[s].status = "unused" /\ userLock[sessions'[s].user] = r
      BY <1>1
    <3>2. ASSUME NEW t \in SessionIds \ {s}, t = old, Live(t)
          PROVE  /\ sessions'[t].status = "revoked"
                 /\ sessions'[t].user = sessions[t].user
                 /\ rowLock[t] \notin Requests \ {r}
      <4>1. old # None
        BY <3>2, AuthAssumption
      <4> QED
        BY <1>1, <3>2, <4>1
    <3>3. ASSUME NEW t \in SessionIds \ {s}, ~(t = old /\ Live(t))
          PROVE  /\ sessions'[t].status = sessions[t].status
                 /\ sessions'[t].user = sessions[t].user
      BY <1>1, <3>3
    <3> QED
      BY <3>1, <3>2, <3>3
  <2> QED
    BY <2>1, <2>2 DEF Guarantee
<1> QED
  BY <1>0, <1>3, <1>4, <1>5, <1>6, FinishFrame DEF StepOK, TableInv

(* Every action is such a step. *)
LEMMA RequestStep ==
    ASSUME IInv, TypeOK', NEW r \in Requests, Progress(r) \/ Arrive(r)
    PROVE  StepOK(r)
<1> USE AuthAssumption
<1>0. TypeOK /\ TableInv /\ LockOf(r) /\ RelyOf(r)
  BY DEF IInv, LockInv, RelyInv
<1>1. ASSUME NEW u \in Users, LoginRead(r, u) PROVE StepOK(r)
  <2>1. req'[r].op = "login" /\ req'[r].pc = "verify"
    BY <1>0, <1>1 DEF LoginRead, TypeOK, NoRequest
  <2>2. LockOf(r)' /\ RelyOf(r)'
    BY <2>1 DEF LockOf, RelyOf, HoldsUser, HoldsRow, Changes, RevokesSessions, At
  <2> QED
    BY <1>0, <1>1, <2>2, QuietStep DEF LoginRead, TypeOK
<1>2. ASSUME Hashed(r) PROVE StepOK(r)
  <2>1. /\ req'[r].op \in {"login", "change"} /\ req'[r].pc \in {"user", "row"}
        /\ req'[r].op = "change" => req'[r].pc = "row"
        /\ req'[r].op = req[r].op /\ req'[r].sess = req[r].sess
        /\ req'[r].user = req[r].user
    BY <1>0, <1>2 DEF Hashed, At, TypeOK, RequestRecords
  <2>2. LockOf(r)' /\ RelyOf(r)'
    BY <1>0, <1>2, <2>1 DEF Hashed, LockOf, RelyOf, HoldsUser, HoldsRow, Changes, RevokesSessions, At
  <2> QED
    BY <1>0, <1>2, <2>2, QuietStep DEF Hashed, TypeOK
<1>3. ASSUME LoginLock(r) PROVE StepOK(r)
  <2>1. /\ req'[r] = [req[r] EXCEPT !.pc = "insert"]
        /\ req'[r].op = "login" /\ req'[r].pc = "insert"
        /\ req'[r].user = req[r].user /\ req'[r].read = req[r].read
    BY <1>0, <1>3 DEF LoginLock, GoTo, At, TypeOK, RequestRecords
  <2>2. userLock'[req[r].user] = r /\ LoginUnchanged(r)
    BY <1>0, <1>3 DEF LoginLock, LockUser, At, TypeOK
  <2>3. LockOf(r)' /\ RelyOf(r)'
    BY <1>3, <2>1, <2>2 DEF LockOf, RelyOf, HoldsUser, HoldsRow, Changes, RevokesSessions, At, LoginUnchanged, LoginLock
  <2> QED
    BY <1>0, <1>3, <2>3, QuietStep DEF LoginLock, LockUser, GoTo, TypeOK
<1>4. ASSUME LoginRefused(r) PROVE StepOK(r)
  BY <1>4, QuietFinish DEF LoginRefused
<1>6. ASSUME NEW s \in SessionIds, NEW op \in AllOps, Call(r, s, op)
      PROVE  StepOK(r)
  <2>1. req'[r].op \in {"current", "csrf", "rotate", "change"}
        /\ req'[r].pc \in {"read", "row"} /\ req'[r].sess = s
        /\ req'[r].user = sessions[s].user
    BY <1>0, <1>6 DEF Call, TypeOK, NoRequest
  <2>2. LockOf(r)' /\ RelyOf(r)'
    BY <1>6, <2>1 DEF Call, LockOf, RelyOf, HoldsUser, HoldsRow, Changes, RevokesSessions, At
  <2> QED
    BY <1>0, <1>6, <2>2, QuietStep DEF Call, TypeOK
<1>7. ASSUME Read(r) PROVE StepOK(r)
  <2>1. CASE Finish(r)
    BY <1>7, <2>1, QuietFinish DEF Read
  <2>2. ASSUME NEW pc \in {"expire", "touch"}, GoTo(r, pc),
               UNCHANGED <<userLock, rowLock>>
        PROVE  StepOK(r)
    <3>1. req'[r].pc = pc /\ req'[r].op = req[r].op
      BY <1>0, <2>2 DEF GoTo, TypeOK, RequestRecords
    <3>2. req'[r].user = req[r].user /\ req'[r].sess = req[r].sess
      BY <1>0, <2>2 DEF GoTo, TypeOK, RequestRecords
    <3>3. LockOf(r)' /\ RelyOf(r)'
      BY <1>0, <1>7, <3>1, <3>2 DEF LockOf, RelyOf, HoldsUser, HoldsRow, Changes, RevokesSessions, At, Read
    <3> QED
      BY <1>0, <1>7, <2>2, <3>3, QuietStep DEF Read, GoTo, TypeOK
  <2>3. CASE /\ req[r].op = "change" /\ UNCHANGED <<userLock, rowLock>>
             /\ req' = [req EXCEPT ![r] = [@ EXCEPT
                   !.pc = "verify", !.read = users[req[r].user]]]
    <3>1. /\ req'[r].pc = "verify" /\ req'[r].op = "change"
          /\ req'[r].user = req[r].user /\ req'[r].sess = req[r].sess
      BY <1>0, <2>3 DEF TypeOK, RequestRecords
    <3>2. LockOf(r)' /\ RelyOf(r)'
      BY <1>0, <1>7, <2>3, <3>1 DEF Read, LockOf, RelyOf, HoldsUser, HoldsRow, Changes, RevokesSessions, At
    <3> QED
      BY <1>0, <1>7, <2>3, <3>2, QuietStep DEF Read, TypeOK
  <2> QED
    BY <1>7, <2>1, <2>2, <2>3 DEF Read
<1>8. ASSUME Expire(r) PROVE StepOK(r)
  BY <1>8, RevokeFinish DEF Expire
<1>9. ASSUME Touch(r) PROVE StepOK(r)
  <2>1. req[r].sess \in SessionIds /\ req[r].now \in Nat
    BY <1>0, <1>9 DEF Touch, At, TypeOK, RequestRecords
  <2>2. \A s \in SessionIds :
           /\ sessions'[s].user = sessions[s].user
           /\ sessions'[s].plain = sessions[s].plain
           /\ sessions'[s].parent = sessions[s].parent
           /\ sessions'[s].status = sessions[s].status
    BY <1>0, <1>9, <2>1, TouchedType DEF Touch
  <2>3. TableInv'
    BY <1>0, <1>9, <2>2, TableKept DEF Touch
  <2> QED
    BY <1>0, <1>9, <2>2, <2>3, FinishFrame DEF StepOK, Guarantee, Touch
<1>10. ASSUME LifecycleRow(r) PROVE StepOK(r)
  <2>1. CASE Finish(r)
    BY <1>10, <2>1, QuietFinish DEF LifecycleRow
  <2>2. CASE /\ Matches(r) /\ rowLock[req[r].sess] = None
             /\ LockRow(r, req[r].sess) /\ GoTo(r, "user") /\ UNCHANGED userLock
    <3>1. /\ req'[r].pc = "user" /\ req'[r].op = req[r].op
          /\ req'[r].user = req[r].user /\ req'[r].sess = req[r].sess
          /\ req[r].op \in {"csrf", "rotate", "change"}
          /\ req[r].sess \in SessionIds
      BY <1>0, <1>10, <2>2 DEF LifecycleRow, At, GoTo, TypeOK, RequestRecords
    <3>2. rowLock'[req[r].sess] = r /\ Live(req[r].sess)'
      BY <1>0, <1>10, <2>2, <3>1 DEF LockRow, TypeOK, LifecycleRow, Matches, Live
    <3>3. sessions[req[r].sess].user = req[r].user
      BY <1>0, <1>10, <3>1 DEF RelyOf, LifecycleRow, At
    <3>4. LockOf(r)' /\ RelyOf(r)'
      BY <1>0, <1>10, <3>1, <3>2, <3>3 DEF LockOf, RelyOf, HoldsUser, HoldsRow, Changes, RevokesSessions, At, LifecycleRow
    <3> QED
      BY <1>0, <1>10, <2>2, <3>4, QuietStep
         DEF LifecycleRow, LockRow, GoTo, TypeOK
  <2> QED
    BY <1>10, <2>1, <2>2 DEF LifecycleRow
<1>11. ASSUME LifecycleUser(r) PROVE StepOK(r)
  <2> DEFINE s == req[r].sess
             now == req[r].now
  <2>0. /\ s \in SessionIds /\ now \in Nat /\ req[r].user \in Users
        /\ HoldsRow(r) /\ rowLock[s] = r /\ Live(s) /\ sessions[s].user = req[r].user
    BY <1>0, <1>11 DEF LifecycleUser, At, HoldsRow, LockOf, TypeOK, RequestRecords
  <2>1. CASE Finish(r) /\ UNCHANGED sessions
    BY <1>11, <2>1, QuietFinish DEF LifecycleUser
  <2>2. CASE sessions' = Revoked({s}) /\ Finish(r)
    BY <1>11, <2>0, <2>2, RevokeFinish DEF LifecycleUser
  <2>3. CASE sessions' = Touched(s, now) /\ Finish(r)
    <3>1. \A t \in SessionIds :
             /\ sessions'[t].user = sessions[t].user
             /\ sessions'[t].plain = sessions[t].plain
             /\ sessions'[t].parent = sessions[t].parent
             /\ sessions'[t].status = sessions[t].status
      BY <1>0, <2>0, <2>3, TouchedType
    <3>2. TableInv'
      BY <1>0, <1>11, <3>1, TableKept DEF LifecycleUser
    <3> QED
      BY <1>0, <1>11, <2>3, <3>1, <3>2, FinishFrame
         DEF StepOK, Guarantee, LifecycleUser
  <2>4. ASSUME Matches(r), userLock[req[r].user] = None, LockUser(r, req[r].user),
               NEW pc \in {"insert", "scan"}, GoTo(r, pc),
               req[r].op = IF pc = "insert" THEN "rotate" ELSE "change",
               UNCHANGED <<sessions, rowLock>>
        PROVE  StepOK(r)
    <3>1. /\ req'[r].pc = pc /\ req'[r].op = req[r].op
          /\ req'[r].user = req[r].user /\ req'[r].sess = s
          /\ req'[r].read = req[r].read
      BY <1>0, <2>4 DEF GoTo, TypeOK, RequestRecords
    <3>2. userLock'[req[r].user] = r
      BY <1>0, <2>0, <2>4 DEF LockUser, TypeOK
    <3>3. req[r].op = "change" => users[req[r].user].hash = req[r].read.hash
      BY <1>11, <2>4 DEF Matches, LifecycleUser, At
    <3>4. LockOf(r)'
      BY <1>0, <1>11, <2>0, <2>4, <3>1, <3>2
         DEF LockOf, HoldsUser, HoldsRow, Changes, LifecycleUser, Live
    <3>5. RelyOf(r)'
      BY <1>0, <1>11, <2>0, <2>4, <3>1, <3>3
         DEF RelyOf, Changes, RevokesSessions, At, LifecycleUser, Live
    <3> QED
      BY <1>0, <1>11, <2>0, <2>4, <3>4, <3>5, QuietStep
         DEF LifecycleUser, LockUser, GoTo, TypeOK
  <2> QED
    BY <1>11, <2>1, <2>2, <2>3, <2>4 DEF LifecycleUser
<1>14. ASSUME Scan(r) PROVE StepOK(r)
  <2> DEFINE mine == {s \in SessionIds :
                         Live(s) /\ sessions[s].user = req[r].user}
  <2>1. /\ req'[r].pc = "revoke" /\ req'[r].op = req[r].op
        /\ req'[r].user = req[r].user /\ req'[r].sess = req[r].sess
        /\ req'[r].read = req[r].read /\ req'[r].target = req[r].target
        /\ req'[r].todo = mine
    <3>1. req'[r] = [req[r] EXCEPT !.pc = "revoke", !.todo = mine]
      BY <1>0, <1>14 DEF Scan, TypeOK
    <3>2. req[r] \in RequestRecords
      BY <1>0 DEF TypeOK
    <3> HIDE DEF mine
    <3> QED
      BY <3>1, <3>2 DEF RequestRecords
  <2>2. LockOf(r)'
    BY <1>0, <1>14, <2>1 DEF LockOf, HoldsUser, HoldsRow, Changes, Scan, Live
  <2>3. RelyOf(r)'
    BY <1>0, <1>14, <2>1
       DEF RelyOf, HoldsUser, Changes, RevokesSessions, At, Scan, Live
  <2> QED
    BY <1>0, <1>14, <2>2, <2>3, QuietStep DEF Scan, TypeOK
<1>15. ASSUME NEW s \in SessionIds, LockForRevoke(r, s) PROVE StepOK(r)
  <2>1. /\ req'[r].pc = "revoke" /\ req'[r].op = req[r].op
        /\ req'[r].user = req[r].user /\ req'[r].sess = req[r].sess
        /\ req'[r].read = req[r].read /\ req'[r].target = req[r].target
        /\ req'[r].todo = req[r].todo \ {s}
    <3>1. req'[r] = [req[r] EXCEPT !.todo = req[r].todo \ {s}]
      BY <1>0, <1>15 DEF LockForRevoke, TypeOK
    <3>2. req[r] \in RequestRecords /\ req[r].pc = "revoke"
      BY <1>0, <1>15 DEF LockForRevoke, TypeOK
    <3> QED
      BY <3>1, <3>2 DEF RequestRecords
  <2>2. /\ \A t \in SessionIds : rowLock[t] = r => rowLock'[t] = r
        /\ Live(s) => rowLock'[s] = r
        /\ \A q \in Requests \ {r}, t \in SessionIds :
              rowLock[t] = q => rowLock'[t] = q
    BY <1>0, <1>15 DEF LockForRevoke, TypeOK
  <2>3. LockOf(r)'
    BY <1>0, <1>15, <2>1, <2>2
       DEF LockOf, HoldsUser, HoldsRow, Changes, LockForRevoke, Live
  <2>4. RelyOf(r)'
    BY <1>0, <1>15, <2>1, <2>2
       DEF RelyOf, HoldsUser, Changes, RevokesSessions, At, LockForRevoke, Live
  <2> QED
    BY <1>0, <1>15, <2>2, <2>3, <2>4, QuietStep DEF LockForRevoke, TypeOK
<1>17. ASSUME NEW u \in Users, NEW op \in AllOps, NEW target \in BOOLEAN,
              ManageRead(r, u, op, target)
       PROVE  StepOK(r)
  <2>1. /\ req'[r].pc \in {"check", "update"} /\ req'[r].op = op
        /\ req'[r].user = u
    BY <1>0, <1>17 DEF ManageRead, TypeOK, NoRequest
  <2>2. op \in {"active", "reset", "roles"} /\ users[u].present
    BY <1>17 DEF ManageRead
  <2>3. LockOf(r)' /\ RelyOf(r)'
    BY <1>17, <2>1, <2>2 DEF ManageRead, LockOf, RelyOf, HoldsUser, HoldsRow, Changes, RevokesSessions, At
  <2> QED
    BY <1>0, <1>17, <2>3, QuietStep DEF ManageRead, TypeOK
<1>18. ASSUME ManageCheck(r) PROVE StepOK(r)
  <2>1. CASE Finish(r)
    BY <1>18, <2>1, QuietFinish DEF ManageCheck
  <2>2. CASE GoTo(r, "update") /\ UNCHANGED <<userLock, rowLock>>
    <3>1. /\ req'[r].pc = "update" /\ req'[r].op = req[r].op
          /\ req'[r].user = req[r].user /\ req'[r].sess = req[r].sess
      BY <1>0, <2>2 DEF GoTo, TypeOK, RequestRecords
    <3>2. LockOf(r)' /\ RelyOf(r)'
      BY <1>0, <1>18, <3>1 DEF ManageCheck, LockOf, RelyOf, HoldsUser, HoldsRow, Changes, RevokesSessions, At
    <3> QED
      BY <1>0, <1>18, <2>2, <3>2, QuietStep DEF ManageCheck, GoTo, TypeOK
  <2> QED
    BY <1>18, <2>1, <2>2 DEF ManageCheck
<1>19. ASSUME ManageUpdate(r) PROVE StepOK(r)
  <2>1. PICK pc \in {"scan", "commit"} :
           GoTo(r, pc) /\ (RevokesSessions(r) => pc = "scan")
    BY <1>19 DEF ManageUpdate
  <2>2. /\ req'[r].pc = pc /\ req'[r].op = req[r].op
        /\ req'[r].user = req[r].user /\ req'[r].sess = req[r].sess
        /\ req'[r].read = req[r].read /\ req'[r].target = req[r].target
        /\ req'[r].relist = req[r].relist
    BY <1>0, <2>1 DEF GoTo, TypeOK, RequestRecords
  <2>3. /\ Changes(r) => userLock'[req[r].user] = r
        /\ \A q \in Requests \ {r}, u \in Users :
              userLock[u] = q => userLock'[u] = q
        /\ req[r].op \in {"active", "reset", "roles"}
    BY <1>0, <1>19 DEF ManageUpdate, LockUser, TypeOK, LockOf
  <2>4. LockOf(r)'
    BY <1>0, <1>19, <2>1, <2>2, <2>3 DEF LockOf, HoldsUser, HoldsRow, Changes
  <2>5. RelyOf(r)'
    BY <1>0, <1>19, <2>1, <2>2, <2>3
       DEF RelyOf, HoldsUser, Changes, RevokesSessions, At, ManageUpdate
  <2> QED
    BY <1>0, <1>19, <2>1, <2>3, <2>4, <2>5, QuietStep
       DEF ManageUpdate, GoTo, TypeOK
<1>24. ASSUME NEW s \in SessionIds, RevokeLoginLock(r, s) PROVE StepOK(r)
  <2>1. /\ req'[r].pc = "commit" /\ req'[r].op = "revoke"
        /\ req'[r].user = sessions[s].user /\ req'[r].sess = s
    BY <1>0, <1>24 DEF RevokeLoginLock, TypeOK, NoRequest
  <2>2. /\ rowLock'[s] = r
        /\ \A q \in Requests \ {r}, t \in SessionIds :
              rowLock[t] = q => rowLock'[t] = q
    BY <1>0, <1>24 DEF RevokeLoginLock, LockRow, TypeOK
  <2>3. LockOf(r)' /\ RelyOf(r)'
    BY <1>24, <2>1, <2>2 DEF RevokeLoginLock, Live, LockOf, RelyOf, HoldsUser, HoldsRow, Changes, RevokesSessions, At
  <2> QED
    BY <1>0, <1>24, <2>2, <2>3, QuietStep DEF RevokeLoginLock, TypeOK
<1>25. ASSUME RevokeLoginCommit(r) PROVE StepOK(r)
  <2>1. rowLock[req[r].sess] = r
    BY <1>0, <1>25 DEF RevokeLoginCommit, At, LockOf, HoldsRow
  <2> QED
    BY <1>25, <2>1, RevokeFinish DEF RevokeLoginCommit
<1>16. ASSUME ChangeCommit(r) PROVE StepOK(r)
  <2> DEFINE u == req[r].user
  <2>1. u \in Users /\ userLock[u] = r
        /\ \A s \in SessionIds :
              Live(s) /\ sessions[s].user = u => rowLock[s] = r
    BY <1>0, <1>16 DEF ChangeCommit, ManageReady, At, HoldsUser, LockOf, RelyOf, Changes,
                       RevokesSessions, TypeOK
  <2>2. /\ \A v \in Users \ {u} : users'[v] = users[v]
        /\ \A v \in Users : /\ users'[v].active = users[v].active
                            /\ users'[v].present = users[v].present
    BY <1>0, <1>16, <2>1 DEF ChangeCommit, TypeOK, UserRows
  <2>3. /\ users'[u].active => users'[u].present
        /\ users[u].present => users'[u].present
    BY <1>0, <2>1, <2>2 DEF TableInv, ActiveIsPresent
  <2>4. sessions' = Revoked(RowsHeld(r)) /\ Finish(r)
    BY <1>16 DEF ChangeCommit
  <2> HIDE DEF u
  <2> QED
    BY <2>1, <2>2, <2>3, <2>4, RevokingCommit
<1>22. ASSUME ResetCommit(r) PROVE StepOK(r)
  <2> DEFINE u == req[r].user
  <2>1. u \in Users /\ userLock[u] = r
        /\ \A s \in SessionIds :
              Live(s) /\ sessions[s].user = u => rowLock[s] = r
    BY <1>0, <1>22 DEF ResetCommit, ManageReady, At, HoldsUser, LockOf, RelyOf, Changes,
                       RevokesSessions, TypeOK
  <2>2. /\ \A v \in Users \ {u} : users'[v] = users[v]
        /\ \A v \in Users : /\ users'[v].active = users[v].active
                            /\ users'[v].present = users[v].present
    BY <1>0, <1>22, <2>1 DEF ResetCommit, TypeOK, UserRows
  <2>3. /\ users'[u].active => users'[u].present
        /\ users[u].present => users'[u].present
    BY <1>0, <2>1, <2>2 DEF TableInv, ActiveIsPresent
  <2>4. sessions' = Revoked(RowsHeld(r)) /\ Finish(r)
    BY <1>22 DEF ResetCommit
  <2> HIDE DEF u
  <2> QED
    BY <2>1, <2>2, <2>3, <2>4, RevokingCommit
<1>20. ASSUME ActiveCommit(r) PROVE StepOK(r)
  <2> DEFINE u == req[r].user
  <2>1. /\ u \in Users /\ users[u].present
        /\ sessions' = Revoked(RowsHeld(r)) /\ Finish(r)
        /\ req[r].target \in BOOLEAN
    BY <1>0, <1>20
       DEF ActiveCommit, ManageReady, TypeOK, RelyOf, RequestRecords
  <2>2. CASE ~Changes(r)
    <3>1. UNCHANGED users
      BY <1>20, <2>2 DEF ActiveCommit
    <3> QED
      BY <2>1, <3>1, RevokeFinish DEF RowsHeld
  <2>3. CASE Changes(r)
    <3>1. userLock[u] = r
      BY <1>0, <1>20, <2>3
         DEF ActiveCommit, ManageReady, HoldsUser, LockOf
    <3>2. users' = [users EXCEPT ![u].active = req[r].target]
      BY <1>20, <2>3 DEF ActiveCommit
    <3>3. /\ \A v \in Users \ {u} : users'[v] = users[v]
          /\ users'[u].active = req[r].target
          /\ users'[u].present = users[u].present
          /\ users'[u].hash = users[u].hash
      <4>1. users[u] \in UserRows
        BY <1>0, <2>1 DEF TypeOK
      <4>2. [users[u] EXCEPT !.active = req[r].target] =
               [present |-> users[u].present, active |-> req[r].target,
                admin |-> users[u].admin, force |-> users[u].force,
                hash |-> users[u].hash]
        BY <4>1 DEF UserRows
      <4> HIDE DEF u
      <4> QED
        BY <1>0, <2>1, <3>2, <4>2 DEF TypeOK
    <3>4. CASE ~req[r].target
      <4>1. \A s \in SessionIds :
               Live(s) /\ sessions[s].user = u => rowLock[s] = r
        BY <1>0, <1>20, <2>3, <3>4
           DEF ActiveCommit, ManageReady, HoldsUser, RelyOf, RevokesSessions
      <4> HIDE DEF u
      <4> QED
        BY <2>1, <3>1, <3>3, <4>1, RevokingCommit
    <3>5. CASE req[r].target
      <4>1. \A s \in SessionIds :
               /\ sessions'[s].user = sessions[s].user
               /\ sessions'[s].plain = sessions[s].plain
               /\ sessions'[s].parent = sessions[s].parent
               /\ sessions'[s].status =
                     IF rowLock[s] = r /\ Live(s) THEN "revoked"
                                                ELSE sessions[s].status
        BY <1>0, <2>1, RevokedType DEF RowsHeld
      <4>2. ASSUME NEW s \in SessionIds, Live(s)'
            PROVE  Live(s) /\ sessions[s].user \in Users
        BY <1>0, <4>1, <4>2 DEF TypeOK, Live
      <4>3. \A v \in Users : /\ users'[v].hash = users[v].hash
                             /\ users[v].active => users'[v].active
                             /\ users[v].present => users'[v].present
        BY <3>3, <3>5
      <4> HIDE DEF u
      <4>4. ASSUME NEW s \in SessionIds, Live(s)'
            PROVE  /\ users'[sessions'[s].user].active
                   /\ sessions'[s].plain = users'[sessions'[s].user].hash.plain
        <5>1. Live(s) /\ sessions[s].user \in Users
          BY <4>2, <4>4
        <5>2. /\ users[sessions[s].user].active
              /\ sessions[s].plain = users[sessions[s].user].hash.plain
          BY <1>0, <5>1
             DEF TableInv, NoLiveSessionForInactive, SessionMatchesPassword
        <5> QED
          BY <4>3, <4>1, <5>1, <5>2
      <4>5. NoLiveSessionForInactive' /\ SessionMatchesPassword'
        BY <4>4 DEF NoLiveSessionForInactive, SessionMatchesPassword
      <4>6. ActiveIsPresent'
        BY <1>0, <2>1, <3>3 DEF TableInv, ActiveIsPresent
      <4>7. RotationInv'
        <5>1. \A s \in SessionIds : sessions[s].parent \in SessionIds \cup {None}
          BY <1>0 DEF TypeOK, SessionRows
        <5> QED
          BY <1>0, <4>1, <5>1 DEF TableInv, RotationInv, Live
      <4>8. Guarantee(r)
        <5>1. \A v \in Users : users'[v] = users[v] \/ userLock[v] = r
          BY <3>1, <3>3
        <5> QED
          BY <1>0, <2>1, <4>3, <4>1, <5>1, FinishFrame, AuthAssumption
             DEF Guarantee, Live
      <4> QED
        BY <1>0, <2>1, <4>5, <4>6, <4>7, <4>8, FinishFrame DEF StepOK, TableInv
    <3> QED
      BY <2>1, <3>4, <3>5
  <2> QED
    BY <2>2, <2>3
<1>21. ASSUME RolesCommit(r) PROVE StepOK(r)
  <2> DEFINE u == req[r].user
  <2>1. u \in Users
    BY <1>0, <1>21 DEF RolesCommit, ManageReady, TypeOK
  <2>2. Changes(r) => userLock[u] = r
    BY <1>0, <1>21 DEF RolesCommit, ManageReady, HoldsUser, LockOf
  <2>3. \A v \in Users : /\ users'[v].active = users[v].active
                         /\ users'[v].present = users[v].present
                         /\ users'[v].hash.plain = users[v].hash.plain
                         /\ users'[v] = users[v] \/ (v = u /\ Changes(r))
    BY <1>0, <1>21, <2>1 DEF RolesCommit, TypeOK, UserRows, RequestRecords
  <2>4. TableInv'
    BY <1>0, <1>21, <2>3, TableKept DEF RolesCommit
  <2> QED
    BY <1>0, <1>21, <2>2, <2>3, <2>4, FinishFrame
       DEF StepOK, Guarantee, RolesCommit
<1>5. ASSUME NEW s \in SessionIds, LoginInsert(r, s) PROVE StepOK(r)
  <2> DEFINE u == req[r].user
             new == NewSession(u, req[r].now, req[r].read.hash.plain, None)
  <2>1. u \in Users /\ userLock[u] = r /\ LoginUnchanged(r)
    BY <1>0, <1>5 DEF LoginInsert, At, TypeOK, LockOf, RelyOf, HoldsUser
  <2>2. new.user = u /\ new.plain = users[u].hash.plain /\ new.parent = None
    BY <2>1 DEF NewSession, LoginUnchanged
  <2>3. sessions = Revoked({None})
    BY <1>0 DEF TypeOK, Revoked
  <2>4. sessions' = [Revoked({None}) EXCEPT ![s] = new]
    BY <1>5, <2>3 DEF LoginInsert
  <2>5. \A v \in Users : /\ users'[v].active = users[v].active
                         /\ users'[v].present = users[v].present
                         /\ users'[v].hash.plain = users[v].hash.plain
                         /\ users'[v] = users[v] \/ v = u
    BY <1>0, <1>5 DEF LoginInsert, TypeOK, UserRows, Hashes
  <2>6. users[u].active /\ Finish(r) /\ sessions[s].status = "unused"
    BY <1>5, <2>1 DEF LoginInsert, LoginUnchanged
  <2> HIDE DEF new, u
  <2> QED
    BY <1>0, <2>1, <2>2, <2>4, <2>5, <2>6, OpeningCommit
<1>12. ASSUME NEW s \in SessionIds, RotateInsert(r, s) PROVE StepOK(r)
  <2> DEFINE u == req[r].user
             old == req[r].sess
             new == NewSession(u, req[r].now, sessions[old].plain, old)
  <2>1. /\ u \in Users /\ userLock[u] = r
        /\ old \in SessionIds /\ rowLock[old] = r /\ Live(old)
        /\ sessions[old].user = u
    BY <1>0, <1>12
       DEF RotateInsert, At, TypeOK, LockOf, HoldsUser, HoldsRow
  <2>2. users[u].active /\ sessions[old].plain = users[u].hash.plain
    BY <1>0, <2>1
       DEF TableInv, NoLiveSessionForInactive, SessionMatchesPassword
  <2>3. new.user = u /\ new.plain = users[u].hash.plain /\ new.parent = old
    BY <2>2 DEF NewSession
  <2>4. /\ sessions' = [Revoked({old}) EXCEPT ![s] = new] /\ users' = users
        /\ Finish(r) /\ sessions[s].status = "unused"
    BY <1>12 DEF RotateInsert
  <2> HIDE DEF new, u, old
  <2> QED
    BY <2>1, <2>2, <2>3, <2>4, OpeningCommit
<1> QED
  BY <1>1, <1>2, <1>3, <1>4, <1>5, <1>6, <1>7, <1>8, <1>9, <1>10, <1>11, <1>12,
     <1>14, <1>15, <1>16, <1>17, <1>18, <1>19, <1>20, <1>21, <1>22, <1>24, <1>25
     DEF Progress, Arrive

(* The invariant holds after bootstrap ... *)
LEMMA IInvInit == Init => IInv
<1> SUFFICES ASSUME Init PROVE IInv
  OBVIOUS
<1>1. /\ \A r \in Requests : req[r].pc = "idle" /\ req[r].op = "none"
      /\ \A s \in SessionIds :
            sessions[s].status = "unused" /\ sessions[s].parent = None
  BY DEF Init, NoRequest, UnusedSession
<1>2. LockInv /\ RelyInv
  BY <1>1 DEF LockInv, RelyInv, LockOf, RelyOf, HoldsUser, HoldsRow, Changes,
              RevokesSessions, At
<1>3. NoLiveSessionForInactive /\ SessionMatchesPassword /\ RotationInv
  BY <1>1 DEF NoLiveSessionForInactive, SessionMatchesPassword, RotationInv, Live
<1>4. ActiveIsPresent
  BY DEF Init, ActiveIsPresent, NoUserRow
<1> QED
  BY <1>2, <1>3, <1>4, TypeInit DEF IInv, TableInv

(* Every step is the step of one request, or of none. *)
LEMMA NextStep ==
    ASSUME IInv, [Next]_vars
    PROVE  \E r \in Requests \cup {None} : StepOK(r)
<1>0. TypeOK' /\ TypeOK /\ TableInv
  BY TypeStep DEF IInv
<1>1. ASSUME NEW r \in Requests, Progress(r) \/ Arrive(r) PROVE StepOK(r)
  BY <1>0, <1>1, RequestStep
<1>2. ASSUME NEW r \in Requests, Abort(r) \/ DeadlockVictim(r) PROVE StepOK(r)
  BY <1>0, <1>2, QuietFinish DEF Abort, DeadlockVictim
<1>3. ASSUME NEW s \in SessionIds, Logout(s) PROVE StepOK(None)
  <2>1. /\ TableInv'
        /\ \A t \in SessionIds :
              \/ /\ sessions'[t].status = sessions[t].status
                 /\ sessions'[t].user = sessions[t].user
              \/ /\ Live(t) /\ sessions'[t].status = "revoked"
                 /\ sessions'[t].user = sessions[t].user
                 /\ rowLock[t] \notin Requests \ {None}
    <3>1. \A t \in SessionIds :
             t \in {s} /\ Live(t) => rowLock[t] \notin Requests \ {None}
      BY <1>3, AuthAssumption DEF Logout
    <3>2. sessions' = Revoked({s}) /\ UNCHANGED users
      BY <1>3 DEF Logout
    <3> QED
      BY <1>0, <3>1, <3>2, RevokeFrame
  <2>2. Guarantee(None)
    BY <1>3, <2>1 DEF Guarantee, Logout
  <2> QED
    BY <1>0, <2>1, <2>2, AuthAssumption DEF StepOK
<1>4. ASSUME NEW u \in Users, NEW admin \in BOOLEAN, CreateUser(u, admin)
      PROVE  StepOK(None)
  <2>1. /\ ~users[u].active /\ users'[u].present
        /\ \A v \in Users \ {u} : users'[v] = users[v]
        /\ sessions' = sessions
    BY <1>0, <1>4 DEF CreateUser, TypeOK, TableInv, ActiveIsPresent
  <2>2. TableInv'
    <3>1. \A s \in SessionIds : Live(s) =>
             sessions[s].user \in Users \ {u}
      BY <1>0, <2>1 DEF TableInv, NoLiveSessionForInactive, TypeOK, Live
    <3>2. NoLiveSessionForInactive' /\ SessionMatchesPassword'
      BY <1>0, <2>1, <3>1
         DEF TableInv, NoLiveSessionForInactive, SessionMatchesPassword, Live
    <3> QED
      BY <1>0, <2>1, <3>2 DEF TableInv, ActiveIsPresent, RotationInv
  <2>3. Guarantee(None)
    BY <1>4, <2>1 DEF Guarantee, CreateUser
  <2> QED
    BY <1>0, <2>2, <2>3, AuthAssumption DEF StepOK
<1>5. CASE Tick \/ UNCHANGED vars
  <2>1. Guarantee(None) /\ TableInv'
    BY <1>0, <1>5, TableUnchanged DEF Guarantee, Tick, vars
  <2>2. StepOK(None)
    BY <1>0, <2>1, AuthAssumption DEF StepOK
  <2> QED
    BY <2>2
<1> QED
  BY <1>1, <1>2, <1>3, <1>4, <1>5 DEF Next

(* ... and every step keeps it, ... *)
LEMMA IInvStep == IInv /\ [Next]_vars => IInv'
BY NextStep, TypeStep, StepOKSuffices DEF IInv

(* ... so it holds in every reachable state. *)
LEMMA Invariance == Spec => []IInv
<1> QED
  BY IInvInit, IInvStep, PTL DEF Spec

-----------------------------------------------------------------------------
(* What follows for every instance *)

(* A deactivated account never has a live session. *)
THEOREM InactiveHasNoSession == Spec => []NoLiveSessionForInactive
<1>1. IInv => NoLiveSessionForInactive
  BY DEF IInv, TableInv
<1> QED
  BY <1>1, Invariance, PTL

(* A live session was opened with the user's current password. *)
THEOREM SessionsFollowPassword == Spec => []SessionMatchesPassword
<1>1. IInv => SessionMatchesPassword
  BY DEF IInv, TableInv
<1> QED
  BY <1>1, Invariance, PTL

(* A session is exchanged at most once, and ends when it is. *)
THEOREM RotationIsExclusive == Spec => []RotatedOnce
<1>1. IInv => RotatedOnce
  BY DEF IInv, TableInv, RotationInv, RotatedOnce, Live
<1> QED
  BY <1>1, Invariance, PTL

(* A password change replaces the password it has verified, no other. *)
THEOREM ChangeIsGuarded == Spec => ChangeReplacesVerified
<1>1. IInv => \A r \in Requests :
         ChangeCommit(r) => users[req[r].user].hash = req[r].read.hash
  BY DEF IInv, RelyInv, RelyOf, ChangeCommit, At
<1> QED
  BY <1>1, Invariance, PTL DEF ChangeReplacesVerified, Spec

(* No step of any request brings a revoked session back. *)
THEOREM RevocationIsFinal == Spec => RevokedStaysRevoked
<1>1. IInv /\ [Next]_vars => \A s \in SessionIds :
         sessions[s].status = "revoked" => sessions'[s].status = "revoked"
  <2> SUFFICES ASSUME IInv, [Next]_vars, NEW s \in SessionIds,
                      sessions[s].status = "revoked"
               PROVE  sessions'[s].status = "revoked"
    OBVIOUS
  <2>1. PICK r \in Requests \cup {None} : Guarantee(r)
    BY NextStep DEF StepOK
  <2> QED
    BY <2>1 DEF Guarantee, Live
<1> QED
  BY <1>1, Invariance, PTL DEF RevokedStaysRevoked, Spec

-----------------------------------------------------------------------------
(* The idle timeout *)

(* A session was accepted no earlier than it was last seen, and a refresh  *)
(* that is still to be written was in time when it was decided on.         *)
IdleOf(r) ==
    /\ req[r].op = "current" => sessions[req[r].sess].status # "unused"
    /\ At(r, {"current"}, "touch") => req[r].now - used[req[r].sess] < Idle

SeenInv ==
    \A s \in SessionIds :
        sessions[s].status # "unused" => sessions[s].seen <= used[s]

IdleInv == SeenInv /\ \A r \in Requests : IdleOf(r)

(* What a step does to the history of the sessions. *)
UseStep ==
    \A s \in SessionIds :
        /\ sessions'[s].status # "unused" => sessions'[s].seen <= used'[s]
        /\ sessions[s].status # "unused"
              => /\ sessions'[s].status # "unused"
                 /\ used[s] <= used'[s] /\ used'[s] - used[s] < Idle

(* A step that accepts no session, at most revokes some. *)
LEMMA UnusedStep ==
    ASSUME TypeOK, IdleInv, UNCHANGED used,
           sessions' = sessions \/ \E S : sessions' = Revoked(S)
    PROVE  UseStep
<1>1. \A s \in SessionIds : /\ sessions'[s].seen = sessions[s].seen
                            /\ sessions[s].status # "unused"
                                  <=> sessions'[s].status # "unused"
  BY DEF Revoked, Live, TypeOK, SessionRows
<1>2. \A s \in SessionIds : used[s] \in Nat /\ sessions[s].seen \in Nat
  BY DEF TypeOK, SessionRows
<1> QED
  BY <1>1, <1>2, AuthAssumption DEF UseStep, IdleInv, SeenInv

(* A step that accepts session s in time, and may note so in its row. *)
LEMMA AcceptStep ==
    ASSUME TypeOK, IdleInv, NEW s \in SessionIds, NEW now \in Nat,
           Accept(s, now), now - used[s] < Idle,
           sessions' = sessions \/ sessions' = Touched(s, now)
    PROVE  UseStep
<1>1. \A t \in SessionIds : used[t] \in Nat /\ sessions[t].seen \in Nat
  BY DEF TypeOK, SessionRows
<1>2. /\ used'[s] = IF now > used[s] THEN now ELSE used[s]
      /\ \A t \in SessionIds \ {s} : used'[t] = used[t]
  BY DEF Accept, TypeOK
<1>3. /\ sessions'[s].status = sessions[s].status
      /\ sessions'[s].seen \in {now, sessions[s].seen}
      /\ \A t \in SessionIds \ {s} : sessions'[t] = sessions[t]
  BY ZenonT(40) DEF Touched, TypeOK, SessionRows
<1>4. \A t \in SessionIds \ {s} : sessions[t].status # "unused"
         => sessions[t].seen <= used[t]
  BY DEF IdleInv, SeenInv
<1>5. sessions[s].status # "unused" => sessions[s].seen <= used[s]
  BY DEF IdleInv, SeenInv
<1> QED
  BY <1>1, <1>2, <1>3, <1>4, <1>5, AuthAssumption DEF UseStep

(* A step that opens session s. *)
LEMMA OpenStep ==
    ASSUME TypeOK, IdleInv, NEW s \in SessionIds, NEW now \in Nat, NEW S,
           sessions[s].status = "unused", used' = [used EXCEPT ![s] = now],
           NEW old, old = sessions \/ old = Revoked(S),
           NEW row, row.seen = now, sessions' = [old EXCEPT ![s] = row]
    PROVE  UseStep
<1>1. \A t \in SessionIds : used[t] \in Nat /\ sessions[t].seen \in Nat
  BY DEF TypeOK, SessionRows
<1>2. \A t \in SessionIds \ {s} : /\ sessions'[t].seen = sessions[t].seen
                                  /\ sessions[t].status # "unused"
                                        <=> sessions'[t].status # "unused"
  BY DEF Revoked, Live, TypeOK, SessionRows
<1>3. sessions'[s].seen = now /\ used'[s] = now
  BY DEF Revoked, TypeOK
<1>4. \A t \in SessionIds \ {s} : used'[t] = used[t]
  BY DEF TypeOK
<1> QED
  BY <1>1, <1>2, <1>3, <1>4, AuthAssumption DEF UseStep, IdleInv, SeenInv

(* The invariant follows for requests that have not decided to refresh. *)
LEMMA UseStepSuffices ==
    ASSUME TypeOK, TypeOK', IdleInv, UseStep,
           \A r \in Requests : req'[r] = req[r] \/ IdleOf(r)'
    PROVE  IdleInv'
<1>1. SeenInv'
  BY DEF UseStep, SeenInv
<1>2. ASSUME NEW r \in Requests, req'[r] = req[r] PROVE IdleOf(r)'
  <2>1. req[r].op = "current" => /\ req[r].sess \in SessionIds
                                 /\ req[r].now \in Nat
    BY DEF TypeOK, RequestRecords
  <2>2. IdleOf(r) /\ \A s \in SessionIds : used[s] \in Nat /\ used'[s] \in Nat
    BY DEF IdleInv, TypeOK
  <2> QED
    BY <1>2, <2>1, <2>2, AuthAssumption DEF IdleOf, UseStep, At
<1> QED
  BY <1>1, <1>2 DEF IdleInv

(* A step that only moves its request on. *)
LEMMA MoveFrame ==
    ASSUME TypeOK, NEW r \in Requests, NEW pc, GoTo(r, pc)
    PROVE  /\ \A q \in Requests \ {r} : req'[q] = req[q]
           /\ req'[r].op = req[r].op /\ req'[r].sess = req[r].sess
           /\ req'[r].now = req[r].now /\ req'[r].pc = pc
<1>1. req[r] \in RequestRecords /\ req' = [req EXCEPT ![r] = [req[r] EXCEPT !.pc = pc]]
  BY DEF TypeOK, GoTo
<1> QED
  BY <1>1 DEF TypeOK, RequestRecords

(* A request that has ended, or does something else than current_user,     *)
(* has nothing to refresh.                                                 *)
LEMMA NotCurrent ==
    ASSUME TypeOK, NEW r \in Requests,
           \/ Finish(r)
           \/ \E new \in RequestRecords :
                 new.op # "current" /\ req' = [req EXCEPT ![r] = new]
    PROVE  \A q \in Requests : req'[q] = req[q] \/ IdleOf(q)'
<1>1. \A q \in Requests \ {r} : req'[q] = req[q]
  BY DEF TypeOK, Finish
<1>2. req'[r].op # "current"
  BY DEF TypeOK, Finish, NoRequest
<1> QED
  BY <1>1, <1>2 DEF IdleOf, At

(* The steps of current_user: no refresh is decided on too late.           *)
LEMMA ReadIdle ==
    ASSUME TypeOK, TypeOK', IdleInv, NEW r \in Requests, Read(r)
    PROVE  UseStep /\ \A q \in Requests : req'[q] = req[q] \/ IdleOf(q)'
<1> DEFINE s == req[r].sess
           now == req[r].now
<1>1. /\ now \in Nat /\ sessions' = sessions
      /\ req[r].op = "current" => s \in SessionIds /\ sessions[s].status # "unused"
  BY DEF TypeOK, RequestRecords, Read, IdleInv, IdleOf
<1>2. req[r].op = "current" /\ ~Expired(s, now) => now - used[s] < Idle
  BY <1>1, AuthAssumption DEF TypeOK, SessionRows, Expired, IdleInv, SeenInv
<1>3. CASE Finish(r) /\ UNCHANGED used
  BY <1>1, <1>3, UnusedStep, NotCurrent
<1>4. CASE req[r].op = "current" /\ ~Expired(s, now) /\ Finish(r) /\ Accept(s, now)
  BY <1>1, <1>2, <1>4, AcceptStep, NotCurrent
<1>5. CASE \/ GoTo(r, "expire") /\ UNCHANGED used
           \/ /\ req[r].op = "current" /\ ~Expired(s, now)
              /\ GoTo(r, "touch") /\ UNCHANGED used
           \/ /\ req[r].op = "change" /\ UNCHANGED used
              /\ req' = [req EXCEPT ![r] = [@ EXCEPT
                            !.pc = "verify", !.read = users[req[r].user]]]
  <2>1. \A q \in Requests \ {r} : req'[q] = req[q]
    BY <1>5 DEF GoTo, TypeOK
  <2>2. /\ req'[r].op = req[r].op /\ req'[r].sess = s /\ req'[r].now = now
        /\ At(r, {"current"}, "touch")' => ~Expired(s, now) /\ req[r].op = "current"
    <3>0. req[r] \in RequestRecords
      BY DEF TypeOK
    <3>1. CASE GoTo(r, "expire")
      BY <3>0, <3>1, MoveFrame DEF At
    <3>2. CASE req[r].op = "current" /\ ~Expired(s, now) /\ GoTo(r, "touch")
      BY <3>0, <3>2, MoveFrame DEF At
    <3>3. CASE req' = [req EXCEPT ![r] = [@ EXCEPT
                          !.pc = "verify", !.read = users[req[r].user]]]
      BY <3>0, <3>3 DEF TypeOK, RequestRecords, At
    <3> QED
      BY <1>5, <3>1, <3>2, <3>3
  <2>3. used' = used
    BY <1>5
  <2>4. IdleOf(r)'
    BY <1>1, <1>2, <2>2, <2>3 DEF IdleOf
  <2> QED
    BY <1>1, <2>1, <2>3, <2>4, UnusedStep
<1> QED
  BY <1>3, <1>4, <1>5 DEF Read

(* validate_csrf and the rest under the row locks. *)
LEMMA LifecycleIdle ==
    ASSUME TypeOK, TypeOK', IdleInv, NEW r \in Requests, LifecycleUser(r)
    PROVE  UseStep /\ \A q \in Requests : req'[q] = req[q] \/ IdleOf(q)'
<1> DEFINE s == req[r].sess
           now == req[r].now
<1>1. now \in Nat /\ s \in SessionIds
  BY DEF TypeOK, RequestRecords, LifecycleUser, At
<1>2. Matches(r) /\ ~Expired(s, now) => now - used[s] < Idle
  BY <1>1, AuthAssumption
     DEF TypeOK, SessionRows, Expired, IdleInv, SeenInv, Matches, Live
<1>3. \A q \in Requests : req'[q] = req[q] \/ IdleOf(q)'
  <2>1. \/ Finish(r)
        \/ \E pc \in {"insert", "scan"} : GoTo(r, pc)
    BY DEF LifecycleUser
  <2>2. ASSUME NEW pc \in {"insert", "scan"}, GoTo(r, pc)
        PROVE  \E new \in RequestRecords :
                  new.op # "current" /\ req' = [req EXCEPT ![r] = new]
    <3>0. req[r] \in RequestRecords /\ req[r].op # "current"
      BY DEF TypeOK, LifecycleUser, At
    <3>1. /\ [req[r] EXCEPT !.pc = pc] \in RequestRecords
          /\ [req[r] EXCEPT !.pc = pc].op # "current"
      BY <3>0 DEF RequestRecords, Steps
    <3>2. req' = [req EXCEPT ![r] = [req[r] EXCEPT !.pc = pc]]
      BY <2>2 DEF GoTo
    <3> QED
      BY <3>1, <3>2
  <2> QED
    BY <2>1, <2>2, NotCurrent
<1>4. CASE UNCHANGED used /\ (sessions' = sessions \/ sessions' = Revoked({s}))
  BY <1>3, <1>4, UnusedStep
<1>5. CASE /\ Matches(r) /\ ~Expired(s, now) /\ Accept(s, now)
           /\ sessions' = sessions \/ sessions' = Touched(s, now)
  BY <1>1, <1>2, <1>3, <1>5, AcceptStep
<1> QED
  BY <1>4, <1>5 DEF LifecycleUser

(* The steps that open a session. *)
LEMMA OpenIdle ==
    ASSUME TypeOK, TypeOK', IdleInv, NEW r \in Requests, NEW s \in SessionIds,
           LoginInsert(r, s) \/ RotateInsert(r, s)
    PROVE  UseStep /\ \A q \in Requests : req'[q] = req[q] \/ IdleOf(q)'
<1> DEFINE old == req[r].sess
           now == req[r].now
           row == IF req[r].op = "login"
                  THEN NewSession(req[r].user, now, req[r].read.hash.plain, None)
                  ELSE NewSession(req[r].user, now, sessions[old].plain, old)
           before == IF req[r].op = "login" THEN sessions ELSE Revoked({old})
<1>1. /\ now \in Nat /\ sessions[s].status = "unused"
      /\ used' = [used EXCEPT ![s] = now] /\ Finish(r)
      /\ sessions' = [before EXCEPT ![s] = row]
  BY DEF TypeOK, RequestRecords, LoginInsert, RotateInsert, At
<1>2. row.seen = now
  BY DEF NewSession
<1>3. before = sessions \/ before = Revoked({old})
  OBVIOUS
<1> HIDE DEF row, before
<1>4. UseStep
  BY <1>1, <1>2, <1>3, OpenStep
<1> QED
  BY <1>1, <1>4, NotCurrent

(* Every other step of a request accepts nothing. *)
LEMMA OtherIdle ==
    ASSUME TypeOK, TypeOK', IdleInv, NEW r \in Requests,
           \/ Hashed(r) \/ LoginLock(r) \/ LoginRefused(r)
           \/ Expire(r) \/ LifecycleRow(r) \/ Scan(r) \/ ChangeCommit(r)
           \/ ManageCheck(r) \/ ManageUpdate(r) \/ ActiveCommit(r)
           \/ RolesCommit(r) \/ ResetCommit(r) \/ RevokeLoginCommit(r)
           \/ \E s \in SessionIds : LockForRevoke(r, s)
           \/ Abort(r) \/ DeadlockVictim(r)
    PROVE  UseStep /\ \A q \in Requests : req'[q] = req[q] \/ IdleOf(q)'
<1>1. used' = used
  BY DEF Hashed, LoginLock, LoginRefused, Expire, LifecycleRow, Scan, ChangeCommit,
         ManageCheck, ManageUpdate, ActiveCommit, RolesCommit, ResetCommit,
         RevokeLoginCommit, LockForRevoke, Abort, DeadlockVictim
<1>2. sessions' = sessions \/ \E S : sessions' = Revoked(S)
  BY DEF Hashed, LoginLock, LoginRefused, Expire, LifecycleRow, Scan, ChangeCommit,
         ManageCheck, ManageUpdate, ActiveCommit, RolesCommit, ResetCommit,
         RevokeLoginCommit, LockForRevoke, Abort, DeadlockVictim
<1>3. UseStep
  BY <1>1, <1>2, UnusedStep
<1>4. CASE Finish(r)
  BY <1>3, <1>4, NotCurrent
<1>5. CASE /\ \A q \in Requests \ {r} : req'[q] = req[q]
           /\ req'[r].op = req[r].op /\ req'[r].sess = req[r].sess
           /\ req'[r].pc # "touch"
  <2>1. req[r].op = "current" => req[r].sess \in SessionIds
    BY DEF TypeOK
  <2>2. IdleOf(r)'
    BY <1>3, <1>5, <2>1 DEF IdleInv, IdleOf, UseStep, At
  <2> QED
    BY <1>3, <1>5, <2>2
<1>6. \/ Finish(r)
      \/ /\ \A q \in Requests \ {r} : req'[q] = req[q]
         /\ req'[r].op = req[r].op /\ req'[r].sess = req[r].sess
         /\ req'[r].pc # "touch"
  <2>0. req[r] \in RequestRecords
    BY DEF TypeOK
  <2>1. CASE \E pc \in Steps \ {"touch"} : GoTo(r, pc)
    BY <2>1, MoveFrame
  <2>2. LoginLock(r) \/ LifecycleRow(r) \/ ManageCheck(r) \/ ManageUpdate(r)
           => Finish(r) \/ \E pc \in Steps \ {"touch"} : GoTo(r, pc)
    BY DEF LoginLock, LifecycleRow, ManageCheck, ManageUpdate, Steps
  <2>3. CASE Hashed(r)
    BY <2>0, <2>3 DEF Hashed, TypeOK, RequestRecords
  <2>4. CASE Scan(r)
    BY <2>0, <2>4 DEF Scan, TypeOK, RequestRecords
  <2>5. CASE \E s \in SessionIds : LockForRevoke(r, s)
    BY <2>0, <2>5 DEF LockForRevoke, TypeOK, RequestRecords
  <2> QED
    BY <2>1, <2>2, <2>3, <2>4, <2>5 DEF LoginRefused, Expire, ChangeCommit, ActiveCommit, RolesCommit,
       ResetCommit, RevokeLoginCommit, Abort, DeadlockVictim
<1> QED
  BY <1>4, <1>5, <1>6

(* Arrivals and the steps of no request. *)
LEMMA EnvironmentIdle ==
    ASSUME TypeOK, TypeOK', IdleInv,
           \/ \E r \in Requests : Arrive(r)
           \/ \E s \in SessionIds : Logout(s)
           \/ \E u \in Users, admin \in BOOLEAN : CreateUser(u, admin)
           \/ Tick \/ UNCHANGED vars
    PROVE  UseStep /\ \A q \in Requests : req'[q] = req[q] \/ IdleOf(q)'
<1>1. used' = used
  BY DEF Arrive, LoginRead, Call, ManageRead, RevokeLoginLock, Logout, CreateUser,
         Tick, vars
<1>2. sessions' = sessions \/ \E S : sessions' = Revoked(S)
  BY DEF Arrive, LoginRead, Call, ManageRead, RevokeLoginLock, Logout, CreateUser,
         Tick, vars
<1>3. UseStep
  BY <1>1, <1>2, UnusedStep
<1>4. ASSUME NEW r \in Requests, Arrive(r)
      PROVE  \A q \in Requests : req'[q] = req[q] \/ IdleOf(q)'
  <2>1. \A q \in Requests \ {r} : req'[q] = req[q]
    BY <1>4 DEF Arrive, LoginRead, Call, ManageRead, RevokeLoginLock, TypeOK
  <2>2. CASE \E u \in Users : LoginRead(r, u)
    BY <2>1, <2>2 DEF LoginRead, IdleOf, At, TypeOK, NoRequest
  <2>3. ASSUME NEW s \in SessionIds, NEW op \in AllOps, Call(r, s, op)
        PROVE  IdleOf(r)'
    <3>1. /\ req'[r].sess = s /\ req'[r].pc # "touch"
          /\ sessions'[s].status # "unused"
      BY <2>3 DEF Call, TypeOK, NoRequest
    <3> QED
      BY <3>1 DEF IdleOf, At
  <2>4. CASE \E u \in Users, op \in AllOps, target \in BOOLEAN :
                ManageRead(r, u, op, target)
    BY <2>1, <2>4 DEF ManageRead, IdleOf, At, TypeOK, NoRequest
  <2>5. CASE \E s \in SessionIds : RevokeLoginLock(r, s)
    BY <2>1, <2>5 DEF RevokeLoginLock, IdleOf, At, TypeOK, NoRequest
  <2> QED
    BY <1>4, <2>1, <2>2, <2>3, <2>4, <2>5 DEF Arrive
<1>5. ASSUME ~\E r \in Requests : Arrive(r) PROVE req' = req
  BY <1>5 DEF Logout, CreateUser, Tick, vars
<1> QED
  BY <1>3, <1>4, <1>5

(* Every step accepts sessions in time only, and keeps the invariant. *)
LEMMA IdleStep ==
    ASSUME TypeOK, TypeOK', IdleInv, [Next]_vars
    PROVE  UseStep /\ IdleInv'
<1>1. ASSUME NEW r \in Requests, Touch(r)
      PROVE  UseStep /\ \A q \in Requests : req'[q] = req[q] \/ IdleOf(q)'
  <2>1. /\ req[r].sess \in SessionIds /\ req[r].now \in Nat
        /\ req[r].now - used[req[r].sess] < Idle
    BY <1>1 DEF TypeOK, RequestRecords, Touch, At, IdleInv, IdleOf
  <2>2. Accept(req[r].sess, req[r].now) /\ sessions' = Touched(req[r].sess, req[r].now)
    BY <1>1 DEF Touch
  <2> QED
    BY <1>1, <2>1, <2>2, AcceptStep, NotCurrent DEF Touch
<1>2. UseStep /\ \A q \in Requests : req'[q] = req[q] \/ IdleOf(q)'
  BY <1>1, ReadIdle, LifecycleIdle, OpenIdle, OtherIdle, EnvironmentIdle
     DEF Next, Progress
<1> QED
  BY <1>2, UseStepSuffices

(* A session that was not used for the idle timeout is not accepted again, *)
(* not even by a refresh that a later one has overtaken.                   *)
THEOREM IdleIsFinal == Spec => IdleNeverRevived
<1>1. Init => IdleInv
  BY DEF Init, IdleInv, SeenInv, IdleOf, At, NoRequest, UnusedSession
<1>2. TypeOK /\ TypeOK' /\ IdleInv /\ [Next]_vars => IdleInv'
  BY IdleStep
<1>3. TypeOK /\ TypeOK' /\ IdleInv /\ [Next]_vars =>
         \A s \in SessionIds :
             sessions[s].status # "unused" => used'[s] - used[s] < Idle
  BY IdleStep DEF UseStep
<1> QED
  BY <1>1, <1>2, <1>3, TypeCorrect, PTL DEF Spec, IdleNeverRevived

-----------------------------------------------------------------------------
(* The last administrator, when requests do not overlap *)

(* A request past its check leaves another active administrator, or the    *)
(* account it changes is not one.                                          *)
AdminOf(r) ==
    LET u == req[r].user
    IN  req[r].op \in {"active", "roles", "reset"} =>
           /\ u \in Users /\ users[u].present
           /\ req[r].op # "reset" /\ req[r].pc # "check" /\ ~req[r].target
                 => \/ OtherActiveAdmin(u)
                    \/ ~users[u].admin
                    \/ req[r].op = "roles" /\ ~users[u].active

AdminInv == ActiveAdminExists /\ \A r \in Requests : AdminOf(r)

(* A request that has ended has decided nothing. *)
LEMMA FinishAdmin ==
    ASSUME TypeOK, NEW r \in Requests, Finish(r), \A q \in Requests : q = r,
           ActiveAdminExists'
    PROVE  AdminInv'
<1>1. req'[r].op = "none"
  BY DEF Finish, TypeOK, NoRequest
<1> QED
  BY <1>1 DEF AdminInv, AdminOf

(* A step that changes no account and keeps what its request has decided.  *)
LEMMA QuietAdmin ==
    ASSUME AdminInv, UNCHANGED users,
           \A r \in Requests :
              \/ AdminOf(r)'
              \/ /\ req'[r].op = req[r].op /\ req'[r].user = req[r].user
                 /\ req'[r].target = req[r].target
                 /\ req[r].pc = "check" => req'[r].pc = "check"
    PROVE  AdminInv'
<1>1. ActiveAdminExists'
  BY DEF AdminInv, ActiveAdminExists
<1>2. ASSUME NEW r \in Requests,
             req'[r].op = req[r].op, req'[r].user = req[r].user,
             req'[r].target = req[r].target,
             req[r].pc = "check" => req'[r].pc = "check"
      PROVE  AdminOf(r)'
  BY <1>2 DEF AdminInv, AdminOf, OtherActiveAdmin
<1> QED
  BY <1>1, <1>2 DEF AdminInv

(* Commits that change accounts. *)
LEMMA CommitAdmin ==
    ASSUME TypeOK, AdminInv, NEW r \in Requests, \A q \in Requests : q = r,
           \/ \E s \in SessionIds : LoginInsert(r, s)
           \/ ChangeCommit(r) \/ ResetCommit(r) \/ ActiveCommit(r) \/ RolesCommit(r)
    PROVE  AdminInv'
<1> DEFINE u == req[r].user
<1>0. Finish(r) /\ u \in Users /\ users[u] \in UserRows
  BY DEF LoginInsert, ChangeCommit, ResetCommit, ActiveCommit, RolesCommit, At,
         ManageReady, TypeOK
<1>1. PICK v \in Users : users[v].active /\ users[v].admin
  BY DEF AdminInv, ActiveAdminExists
<1>2. CASE \E s \in SessionIds : LoginInsert(r, s)
  <2>1. \A w \in Users : /\ users'[w].active = users[w].active
                         /\ users'[w].admin = users[w].admin
    BY <1>0, <1>2 DEF LoginInsert, TypeOK, UserRows, Hashes
  <2> QED
    BY <1>0, <1>1, <2>1, FinishAdmin DEF ActiveAdminExists
<1>3. CASE ChangeCommit(r) \/ ResetCommit(r)
  <2>0. ASSUME NEW hash, NEW force,
               users' = [users EXCEPT ![u] = [@ EXCEPT !.hash = hash, !.force = force]]
        PROVE  \A w \in Users : /\ users'[w].active = users[w].active
                                /\ users'[w].admin = users[w].admin
    BY <1>0, <2>0 DEF TypeOK, UserRows
  <2>1. \A w \in Users : /\ users'[w].active = users[w].active
                         /\ users'[w].admin = users[w].admin
    BY <1>3, <2>0 DEF ChangeCommit, ResetCommit
  <2> QED
    BY <1>0, <1>1, <2>1, FinishAdmin DEF ActiveAdminExists
<1>4. CASE ActiveCommit(r) \/ RolesCommit(r)
  <2>1. \A w \in Users \ {u} : users'[w] = users[w]
    BY <1>0, <1>4 DEF ActiveCommit, RolesCommit, TypeOK
  <2>2. OtherActiveAdmin(u) => ActiveAdminExists'
    BY <2>1 DEF OtherActiveAdmin, ActiveAdminExists
  <2>3. v # u => ActiveAdminExists'
    BY <1>1, <2>1 DEF ActiveAdminExists
  <2>4. CASE v = u /\ ~req[r].target /\ ActiveCommit(r)
    BY <1>0, <1>1, <2>2, <2>4, FinishAdmin
       DEF AdminInv, AdminOf, ActiveCommit, ManageReady
  <2>5. CASE v = u /\ ~req[r].target /\ RolesCommit(r)
    BY <1>0, <1>1, <2>2, <2>5, FinishAdmin
       DEF AdminInv, AdminOf, RolesCommit, ManageReady
  <2>6. CASE v = u /\ req[r].target
    <3>1. req[r].target = TRUE
      BY <2>6 DEF TypeOK, RequestRecords
    <3>2. users'[u].active = TRUE /\ users'[u].admin = TRUE
      BY <1>0, <1>1, <1>4, <2>6, <3>1 DEF ActiveCommit, RolesCommit, TypeOK, UserRows
    <3> QED
      BY <1>0, <3>2, FinishAdmin DEF ActiveAdminExists
  <2> QED
    BY <1>0, <1>4, <2>3, <2>4, <2>5, <2>6, FinishAdmin
<1> QED
  BY <1>2, <1>3, <1>4

(* Requests that arrive have decided nothing, or need no check. *)
LEMMA ArriveAdmin ==
    ASSUME TypeOK, AdminInv, NEW r \in Requests, \A q \in Requests : q = r, Arrive(r)
    PROVE  AdminInv'
<1>1. ActiveAdminExists' /\ users' = users
  BY DEF Arrive, LoginRead, Call, ManageRead, RevokeLoginLock, AdminInv,
         ActiveAdminExists
<1>2. ASSUME NEW u \in Users, NEW op \in AllOps, NEW target \in BOOLEAN,
             ManageRead(r, u, op, target)
      PROVE  AdminOf(r)'
  <2>1. /\ req'[r].op = op /\ req'[r].user = u /\ req'[r].target = target
        /\ req'[r].pc = IF /\ ~target /\ users[u].admin
                           /\ op = "active" \/ users[u].active
                        THEN "check" ELSE "update"
        /\ users[u].present /\ op \in {"active", "roles", "reset"}
    BY <1>2 DEF ManageRead, TypeOK, NoRequest
  <2> QED
    BY <1>1, <2>1 DEF AdminOf
<1>3. ASSUME \/ \E u \in Users : LoginRead(r, u)
             \/ \E s \in SessionIds, op \in AllOps : Call(r, s, op)
             \/ \E s \in SessionIds : RevokeLoginLock(r, s)
      PROVE  req'[r].op \notin {"active", "roles", "reset"}
  <2>1. CASE \E u \in Users : LoginRead(r, u)
    BY <2>1 DEF LoginRead, TypeOK, NoRequest
  <2>2. CASE \E s \in SessionIds, op \in AllOps : Call(r, s, op)
    BY <2>2 DEF Call, TypeOK, NoRequest
  <2>3. CASE \E s \in SessionIds : RevokeLoginLock(r, s)
    BY <2>3 DEF RevokeLoginLock, TypeOK, NoRequest
  <2> QED
    BY <1>3, <2>1, <2>2, <2>3
<1> QED
  BY <1>1, <1>2, <1>3 DEF Arrive, AdminInv, AdminOf

(* The steps between the arrival of a request and its commit. *)
LEMMA ProgressAdmin ==
    ASSUME TypeOK, AdminInv, NEW r \in Requests, \A q \in Requests : q = r,
           \/ Progress(r) \/ Abort(r) \/ DeadlockVictim(r)
    PROVE  AdminInv'
<1>0. req[r] \in RequestRecords
  BY DEF TypeOK
<1>1. ASSUME NEW pc, GoTo(r, pc), users' = users,
             req[r].pc = "check" => OtherActiveAdmin(req[r].user)
      PROVE  AdminInv'
  <2>1. /\ req'[r].op = req[r].op /\ req'[r].user = req[r].user
        /\ req'[r].target = req[r].target
    BY <1>0, <1>1 DEF GoTo, TypeOK, RequestRecords
  <2>2. req[r].pc = "check" => AdminOf(r)'
    BY <1>1, <2>1 DEF AdminInv, AdminOf, OtherActiveAdmin
  <2> QED
    BY <1>1, <2>1, <2>2, QuietAdmin
<1>2. CASE Finish(r) /\ users' = users
  BY <1>2, FinishAdmin DEF AdminInv, ActiveAdminExists
<1>3. CASE ManageCheck(r) \/ ManageUpdate(r)
  BY <1>1, <1>2, <1>3 DEF ManageCheck, ManageUpdate
<1>4. CASE Hashed(r)
  <2>1. req'[r].op \in {"login", "change"}
    BY <1>0, <1>4 DEF Hashed, At, TypeOK, RequestRecords
  <2> QED
    BY <1>4, <2>1, QuietAdmin DEF Hashed, AdminOf
<1>5. CASE Read(r)
  <2>1. CASE req' = [req EXCEPT ![r] = [@ EXCEPT !.pc = "verify",
                                                 !.read = users[req[r].user]]]
    <3>1. /\ req'[r].op = req[r].op /\ req'[r].user = req[r].user
          /\ req'[r].target = req[r].target
      BY <1>0, <2>1 DEF TypeOK, RequestRecords
    <3> QED
      BY <1>5, <3>1, QuietAdmin DEF Read
  <2> QED
    BY <1>1, <1>2, <1>5, <2>1 DEF Read
<1>6. CASE Scan(r) \/ \E s \in SessionIds : LockForRevoke(r, s)
  <2>0. ASSUME NEW pc, NEW todo,
               req' = [req EXCEPT ![r] = [@ EXCEPT !.pc = pc, !.todo = todo]]
        PROVE  /\ req'[r].op = req[r].op /\ req'[r].user = req[r].user
               /\ req'[r].target = req[r].target
    BY <1>0, <2>0 DEF TypeOK, RequestRecords
  <2>1. /\ req'[r].op = req[r].op /\ req'[r].user = req[r].user
        /\ req'[r].target = req[r].target /\ req[r].pc # "check"
    <3>1. CASE Scan(r)
      BY <3>1, <2>0 DEF Scan
    <3>2. ASSUME NEW s \in SessionIds, LockForRevoke(r, s)
          PROVE  /\ req'[r].op = req[r].op /\ req'[r].user = req[r].user
                 /\ req'[r].target = req[r].target /\ req[r].pc # "check"
      BY <1>0, <3>2 DEF LockForRevoke, TypeOK, RequestRecords
    <3> QED
      BY <1>6, <3>1, <3>2
  <2> QED
    BY <1>6, <2>1, QuietAdmin DEF Scan, LockForRevoke
<1>7. CASE LoginLock(r) \/ LifecycleRow(r) \/ LifecycleUser(r)
  BY <1>1, <1>2, <1>7 DEF LoginLock, LifecycleRow, LifecycleUser, At
<1>8. CASE \/ LoginRefused(r) \/ Expire(r) \/ Touch(r) \/ RevokeLoginCommit(r)
           \/ Abort(r) \/ DeadlockVictim(r)
           \/ \E s \in SessionIds : RotateInsert(r, s)
  BY <1>2, <1>8 DEF LoginRefused, Expire, Touch, RevokeLoginCommit, Abort,
                    DeadlockVictim, RotateInsert
<1> QED
  BY <1>3, <1>4, <1>5, <1>6, <1>7, <1>8, CommitAdmin DEF Progress

(* With one request at a time the check of set_active and set_roles keeps  *)
(* an administrator who can log in; only an overlap defeats it.            *)
THEOREM SerialKeepsAdmin ==
    ASSUME Admins # {}, \A q, r \in Requests : q = r
    PROVE  Spec => []ActiveAdminExists
<1>1. Init => AdminInv
  <2>1. Init => ActiveAdminExists
    <3>1. PICK a \in Admins : a \in Users
      BY AuthAssumption
    <3>2. ASSUME Init PROVE users[a].active /\ users[a].admin
      <4>1. PICK legacy \in BOOLEAN : users = [u \in Users |->
               IF u \in Admins \cup Members
               THEN [present |-> TRUE, active |-> TRUE, admin |-> u \in Admins,
                     force |-> u \in Admins,
                     hash |-> [plain |-> 0, legacy |-> legacy,
                               temporary |-> u \in Admins]]
               ELSE NoUserRow]
        BY <3>2 DEF Init
      <4>2. /\ users[a].active = TRUE
            /\ users[a].admin = (a \in Admins)
        BY <3>1, <4>1
      <4> QED
        BY <4>2
    <3> QED
      BY <3>1, <3>2 DEF ActiveAdminExists
  <2>2. Init => \A r \in Requests : req[r].op = "none"
    BY DEF Init, NoRequest
  <2> QED
    BY <2>1, <2>2 DEF AdminInv, AdminOf
<1>2. TypeOK /\ ActiveIsPresent /\ AdminInv /\ [Next]_vars => AdminInv'
  <2> SUFFICES ASSUME TypeOK, ActiveIsPresent, AdminInv, [Next]_vars
               PROVE  AdminInv'
    OBVIOUS
  <2>1. ASSUME NEW u \in Users, NEW admin \in BOOLEAN, CreateUser(u, admin)
        PROVE  AdminInv'
    <3>1. /\ ~users[u].present /\ req' = req
          /\ \A v \in Users \ {u} : users'[v] = users[v]
      BY <2>1 DEF CreateUser, TypeOK
    <3>2. ActiveAdminExists'
      BY <3>1 DEF AdminInv, ActiveAdminExists, ActiveIsPresent
    <3>3. ASSUME NEW r \in Requests PROVE AdminOf(r)'
      <4>1. req[r].pc # "idle" => req[r].user \in Users
        BY DEF TypeOK
      <4>2. CASE req[r].op \in {"active", "roles", "reset"}
        <5> DEFINE w == req[r].user
        <5>1. w \in Users /\ users[w].present /\ AdminOf(r)
          BY <4>2 DEF AdminInv, AdminOf
        <5>2. w # u
          BY <3>1, <5>1
        <5>3. req'[r] = req[r] /\ users'[w] = users[w]
          BY <3>1, <5>1, <5>2 DEF TypeOK
        <5>4. \A v \in Users : users[v].active => users'[v] = users[v]
          BY <3>1 DEF ActiveIsPresent
        <5> QED
          BY <4>2, <5>1, <5>3, <5>4 DEF AdminOf, OtherActiveAdmin
      <4> QED
        BY <3>1, <4>2 DEF AdminOf
    <3> QED
      BY <3>2, <3>3 DEF AdminInv
  <2>2. CASE Tick \/ UNCHANGED vars \/ \E s \in SessionIds : Logout(s)
    BY <2>2, QuietAdmin DEF Tick, vars, Logout
  <2> QED
    BY <2>1, <2>2, ProgressAdmin, ArriveAdmin DEF Next
<1>3. AdminInv => ActiveAdminExists
  BY DEF AdminInv
<1> QED
  <2>1. IInv => TypeOK /\ ActiveIsPresent
    BY DEF IInv, TableInv
  <2> QED
    BY <1>1, <1>2, <1>3, <2>1, Invariance, PTL DEF Spec

=============================================================================
