--------------------------- MODULE MCLoginThrottle ---------------------------
(* Small instances of LoginThrottle for TLC. *)
EXTENDS LoginThrottle, TLC

Symmetry == Permutations(Attempts) \cup Permutations(Addresses)

(* Two spellings of one account, and another account. *)
CONSTANTS plain, shouted, other
TwoSpellings == {plain, shouted, other}
Normalized == (plain :> "first") @@ (shouted :> "first") @@ (other :> "second")
=============================================================================
