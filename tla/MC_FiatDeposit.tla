------------------------------ MODULE MC_FiatDeposit ------------------------------
(* Two events of one deposit, and an Alchemy payload that is queued unrecorded. *)
EXTENDS FiatDeposit

CONSTANTS r1

MCDeliveries ==
  [type : {"paystack"}, event : {"charge.success", "charge.failed"}, ref : {r1}]
    \cup {[type |-> "crypto", event |-> "block", ref |-> None]}
=================================================================================
