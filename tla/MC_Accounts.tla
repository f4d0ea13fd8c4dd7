------------------------------ MODULE MC_Accounts -------------------------------
(* Constants of the run of Accounts. *)
EXTENDS Accounts, TLC

CONSTANTS a1

\* The one Google identity has the first address.
GoogleEmails == [g \in Googles |-> a1]

\* a1 is the address of a Google identity: the others are interchangeable.
Symmetric == Permutations(Users) \cup Permutations(Requests) \cup Permutations(Addresses \ {a1})
=================================================================================
