------------------------ MODULE MCKnowledgeLifecycle ------------------------
(* Instances of KnowledgeLifecycle for TLC. *)
EXTENDS KnowledgeLifecycle, TLC

Symmetry == Permutations(Resources) \cup Permutations(Tasks)
                \cup Permutations(Files)

AllOps == {"upload", "retry", "delete"}
UploadAndDelete == {"upload", "delete"}
UploadAndRetry == {"upload", "retry"}

NoFaults == {}
AllFaults == {"stage", "cleanup", "lost"}
CleanupFaults == {"cleanup"}

=============================================================================
