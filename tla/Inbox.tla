---------------------------------- MODULE Inbox ----------------------------------
(*********************************************************************************)
(* What the webhook queue promises to the code that relies on it: an event it    *)
(* accepted is attempted at least once, possibly again after a failure, and is   *)
(* forgotten only after an attempt.  Nothing is promised about how an attempt    *)
(* ends: the queue drops a job whose handler threw.                              *)
(*********************************************************************************)
CONSTANT Id

VARIABLES accepted, attempted, settled

vars == <<accepted, attempted, settled>>

Init == accepted = {} /\ attempted = {} /\ settled = {}

Accept(i) ==
  /\ i \notin accepted
  /\ accepted' = accepted \cup {i}
  /\ UNCHANGED <<attempted, settled>>

\* A second attempt at the same job changes nothing here.
Attempt(i) ==
  /\ i \in accepted \ settled
  /\ attempted' = attempted \cup {i}
  /\ UNCHANGED <<accepted, settled>>

Settle(i) ==
  /\ i \in attempted \ settled
  /\ settled' = settled \cup {i}
  /\ UNCHANGED <<accepted, attempted>>

Next == \E i \in Id : Accept(i) \/ Attempt(i) \/ Settle(i)

Safety == Init /\ [][Next]_vars

Fairness == \A i \in Id : WF_vars(Attempt(i)) /\ WF_vars(Settle(i))

Spec == Safety /\ Fairness
=================================================================================
