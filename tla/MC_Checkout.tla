------------------------------ MODULE MC_Checkout ------------------------------
(*********************************************************************************)
(* Checkout for TLC: orders and requests are interchangeable, and the run has no *)
(* liveness property.  One row is enough: a checkout that is rolled back gives it *)
(* back, and no property relates two rows.                                        *)
(*********************************************************************************)
EXTENDS Checkout, TLC

Symmetry == Permutations(Orders) \cup Permutations(Requests)
================================================================================
