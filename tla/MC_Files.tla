--------------------------------- MODULE MC_Files ---------------------------------
(* Objects and requests are interchangeable.  Five objects: a new book takes two,  *)
(* and two updates that race over it, or two avatars, one more each.               *)
EXTENDS Files, TLC

Symmetry == Permutations(Objects) \cup Permutations(Requests)
===================================================================================
