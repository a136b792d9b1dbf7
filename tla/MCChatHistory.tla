---------------------------- MODULE MCChatHistory ----------------------------
(* Small instances of ChatHistory for TLC. *)
EXTENDS ChatHistory, TLC

CONSTANTS t1, t2, u1, u2

(* Two threads are exchanged together with their owners. *)
Symmetry == Permutations(Calls) \cup Permutations(Elements)
    \cup {(t1 :> t2) @@ (t2 :> t1) @@ (u1 :> u2) @@ (u2 :> u1)}

OwnThreads == (t1 :> u1) @@ (t2 :> u2)

AllOps == {"step", "unstep", "element", "unelement", "rate", "unrate", "delete"}
AllFaults == {"cancel", "database"}
=============================================================================
