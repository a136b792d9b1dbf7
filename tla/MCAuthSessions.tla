-------------------------- MODULE MCAuthSessions --------------------------
(* Small instances of AuthSessions for TLC. *)
EXTENDS AuthSessions, TLC

(* Requests and session identities are interchangeable. *)
Symmetry == Permutations(Requests) \cup Permutations(SessionIds)

LifecycleOps == {"login", "change", "rotate", "active", "reset"}
LockingOps == {"login", "current", "csrf", "logout", "change", "active", "revoke"}
ManagementOps == {"active", "roles", "reset", "create"}
RoleOps == {"active", "roles"}
ResetOps == {"login", "change", "reset"}
=============================================================================
