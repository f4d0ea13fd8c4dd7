---------------------------- MODULE MC_RefreshSessions ----------------------------
(* No action tells one user, session, token or request from another.              *)
EXTENDS RefreshSessions, TLC

Symmetry ==
  Permutations(Users) \cup Permutations(Sessions) \cup Permutations(Tokens)
    \cup Permutations(Requests)
=================================================================================
