------------------------------ MODULE ThreadLife ------------------------------
(***************************************************************************)
(* What the chat promises about one thread, whoever works on it: its row   *)
(* of conversations is inserted together with an open Conversation at the  *)
(* provider, goes only after that Conversation has gone, and is never      *)
(* brought back; a thread opened again under the same chainlit_thread_id   *)
(* is a new row.                                                           *)
(***************************************************************************)
EXTENDS Naturals

VARIABLES
    current,    \* the row's number, 0 without a row
    provided,   \* the provider keeps the Conversation of the row
    opened      \* rows so far

vars == <<current, provided, opened>>

Init == current = 0 /\ provided = FALSE /\ opened = 0

(* start_conversation *)
Open ==
    /\ current = 0
    /\ opened' = opened + 1 /\ current' = opened' /\ provided' = TRUE

(* delete_thread, first half; or an undone start_conversation. *)
Unprovide ==
    /\ provided /\ provided' = FALSE
    /\ UNCHANGED <<current, opened>>

(* delete_thread, second half. *)
Remove ==
    /\ current # 0 /\ ~provided
    /\ current' = 0 /\ UNCHANGED <<provided, opened>>

Next == Open \/ Unprovide \/ Remove

Spec == Init /\ [][Next]_vars
=============================================================================
