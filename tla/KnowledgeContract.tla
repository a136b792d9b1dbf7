-------------------------- MODULE KnowledgeContract --------------------------
(***************************************************************************)
(* What Shared Knowledge promises about one uploaded resource while its    *)
(* process runs and the provider can be reached: it is published or        *)
(* rejected, a rejected one is tried again only on request and keeps       *)
(* nothing at the provider, a withdrawn one is removed only with all its   *)
(* files, and a removed one never returns.                                 *)
(***************************************************************************)

VARIABLES
    state,  \* "absent", "pending", "searchable", "rejected", "withdrawn"
            \* or "removed"
    kept    \* the provider keeps a file of the resource

vars == <<state, kept>>

Init == state = "absent" /\ kept = FALSE

Moves(from, to) == state = from /\ state' = to /\ UNCHANGED kept

Accept == Moves("absent", "pending")

Publish == kept /\ Moves("pending", "searchable")

Reject == ~kept /\ Moves("pending", "rejected")

TryAgain == ~kept /\ Moves("rejected", "pending")

Withdraw ==
    \/ ~kept /\ (Moves("pending", "withdrawn") \/ Moves("rejected", "withdrawn"))
    \/ Moves("searchable", "withdrawn")

Remove == ~kept /\ Moves("withdrawn", "removed")

(* A file is created for a pending resource, and goes when the resource    *)
(* is rejected or withdrawn.                                               *)
Keep == state = "pending" /\ ~kept /\ kept' = TRUE /\ UNCHANGED state

Drop ==
    /\ state \in {"pending", "withdrawn"} /\ kept
    /\ kept' = FALSE /\ UNCHANGED state

Next ==
    \/ Accept \/ Publish \/ Reject \/ TryAgain \/ Withdraw \/ Remove
    \/ Keep \/ Drop

Spec == Init /\ [][Next]_vars
=============================================================================
