-------------------------------- MODULE MC_Roles --------------------------------
(* Symmetry of the run of Roles: its requests are interchangeable. *)
EXTENDS Roles, TLC

Symmetry == Permutations(Requests)
=================================================================================
