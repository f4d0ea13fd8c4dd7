---------------------------- MODULE MC_TransactionPin ----------------------------
(* No action tells one PIN, code or request from another. *)
EXTENDS TransactionPin, TLC

Symmetry == Permutations(Pins) \cup Permutations(Codes) \cup Permutations(Requests)
=================================================================================
