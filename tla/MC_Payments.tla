------------------------------- MODULE MC_Payments -------------------------------
(* One run for the queue with a deposit through Paystack and for withdrawals.  They *)
(* share no variable: the wallet of a withdrawal never hears of a deposit of        *)
(* Paystack's, and no event reaches a withdrawal's row.  Seen from one of them the  *)
(* steps of the other are pauses, so each moves while the other is as it was at the *)
(* start: TLC sees every behaviour of each, and the sum of their states rather than *)
(* the product.  The fairness is that of the two modules.                           *)
EXTENDS MC_FiatDeposit, Withdrawal

Paystacks(A) == A /\ WithdrawalInit /\ UNCHANGED withdrawalVars
Withdraws(A) == A /\ Init /\ UNCHANGED vars

PaymentsInit == Init /\ WithdrawalInit
PaymentsNext == Paystacks(Next) \/ Withdraws(WithdrawalNext)

both == <<vars, withdrawalVars>>

PaymentsFairness ==
  /\ WF_both(Paystacks(\E p \in Passes : PassStep(p)))
  /\ WF_both(Paystacks(Elapse /\ UNCHANGED depositVars))
  /\ \A w \in Withdrawals : WF_both(Withdraws(WithdrawalStep(w)))

PaymentsSpec == PaymentsInit /\ [][PaymentsNext]_both /\ PaymentsFairness
==================================================================================
