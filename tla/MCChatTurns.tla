----------------------------- MODULE MCChatTurns -----------------------------
(* Small instances of ChatTurns for TLC. *)
EXTENDS ChatTurns, TLC

Symmetry == Permutations(Calls) \cup Permutations(Sockets)
                \cup Permutations(Conversations) \cup Permutations(Runs)

AllOps == {"start", "resume", "message", "settings", "update", "delete"}
AllFaults == {"cancel", "database", "telemetry", "lost", "undo"}
=============================================================================
