-------------------------------- MODULE Withdrawal --------------------------------
(*********************************************************************************)
(* Withdrawals from one wallet: POST /withdrawal after the PIN was verified       *)
(* (TransactionPin), the payout on chain or by Paystack, the debit, and the       *)
(* handlers of Paystack's transfer events.  The balance is looked at before the   *)
(* payout and debited after it; requests interleave at every await.  Deposits     *)
(* credit the wallet at any time.                                                 *)
(*********************************************************************************)
EXTENDS Decimals

CONSTANTS
  Withdrawals, \* requests, each handled once
  Amounts,     \* what requests ask for, zero and less included
  Deposits,    \* what may be deposited
  MaxDeposit,  \* bound: the sum of all deposits
  MaxFailures  \* bound: crashes and failed calls

ASSUME AmountsAssumption == Amounts \subseteq Int /\ Deposits \subseteq Nat \ {0}
ASSUME LimitsAssumption == MaxDeposit \in Nat /\ MaxFailures \in Nat

VARIABLES
  balance,
  deposited, \* history: the sum of all deposits
  request,   \* each withdrawal's method and amount
  pc,        \* how far its request is
  rowStatus, \* its row's status, "none" before the row exists
  payout,    \* the money: "none", "sent", and then "paid" or "returned"
  debits,    \* how often the wallet was debited for it
  unsure,    \* history: those whose own write of SUCCESS took effect and reported an error
  failures

withdrawalVars ==
  <<balance, deposited, request, pc, rowStatus, payout, debits, unsure, failures>>

Methods == {"CRYPTO", "PAYSTACK"}
Request == [method : Methods, amount : Amounts]
NoRequest == [method |-> "none", amount |-> 0]

WithdrawalInit ==
  /\ balance = 0 /\ deposited = 0 /\ unsure = {} /\ failures = 0
  /\ request = [w \in Withdrawals |-> NoRequest]
  /\ pc = [w \in Withdrawals |-> "idle"]
  /\ rowStatus = [w \in Withdrawals |-> "none"]
  /\ payout = [w \in Withdrawals |-> "none"]
  /\ debits = [w \in Withdrawals |-> 0]

Advance(w, next) == pc' = [pc EXCEPT ![w] = next]
Mark(w, s) == rowStatus' = [rowStatus EXCEPT ![w] = s]

Deposit(a) ==
  /\ deposited + a <= MaxDeposit
  /\ balance' = balance + a /\ deposited' = deposited + a
  /\ UNCHANGED <<request, pc, rowStatus, payout, debits, unsure, failures>>

(****************************** initiateWithdrawal ******************************)

\* Variant: the balance is not looked at.
AffordableAlways(a) == TRUE
\* Decimal.greaterThan, which compares numbers.
Affordable(a) == a <= balance

Submit(w, r) ==
  /\ pc[w] = "idle"
  /\ request' = [request EXCEPT ![w] = r]
  /\ Advance(w, IF Affordable(r.amount) THEN "record" ELSE "done")
  /\ UNCHANGED <<balance, deposited, rowStatus, payout, debits, unsure, failures>>

Record(w) ==
  /\ pc[w] = "record"
  /\ Mark(w, "PENDING")
  /\ Advance(w, "send")
  /\ UNCHANGED <<balance, deposited, request, payout, debits, unsure, failures>>

\* The provider accepts the withdrawal, or refuses it.  The chain's call takes an unsigned
\* amount, so one below zero does not reach it.
Sendable(r) == r.method = "CRYPTO" => r.amount >= 0

Send(w) ==
  /\ pc[w] = "send"
  /\ \/ /\ Sendable(request[w])
        /\ payout' = [payout EXCEPT ![w] = "sent"]
        /\ Advance(w, IF request[w].method = "CRYPTO" THEN "wait" ELSE "mark")
     \/ Advance(w, "fail") /\ UNCHANGED payout
  /\ UNCHANGED <<balance, deposited, request, rowStatus, debits, unsure, failures>>

\* The chain, or Paystack, completes a payout, whether or not we are still waiting.
Complete(w, outcome) ==
  /\ payout[w] = "sent"
  /\ payout' = [payout EXCEPT ![w] = outcome]
  /\ UNCHANGED <<balance, deposited, request, pc, rowStatus, debits, unsure, failures>>

\* Variant: a reverted transaction is taken for a payout.
WaitForAny(w) ==
  /\ pc[w] = "wait" /\ payout[w] \in {"paid", "returned"}
  /\ Advance(w, "debit")
  /\ UNCHANGED <<balance, deposited, request, rowStatus, payout, debits, unsure, failures>>
\* tx.wait() returns the receipt, or throws when the transaction reverted.
Wait(w) ==
  /\ pc[w] = "wait" /\ payout[w] \in {"paid", "returned"}
  /\ Advance(w, IF payout[w] = "paid" THEN "debit" ELSE "fail")
  /\ UNCHANGED <<balance, deposited, request, rowStatus, payout, debits, unsure, failures>>

\* walletService.debit wants an amount above zero, and compares strings.
Refused(a) == a <= 0 \/ Less(balance, a)

\* The debit reads the balance again.
CheckBalance(w) ==
  /\ pc[w] = "debit"
  /\ Advance(w, IF Refused(request[w].amount) THEN "fail" ELSE "decrement")
  /\ UNCHANGED <<balance, deposited, request, rowStatus, payout, debits, unsure, failures>>

\* An atomic decrement, whatever the balance is by now.
Debit(w) ==
  /\ balance' = balance - request[w].amount
  /\ debits' = [debits EXCEPT ![w] = @ + 1]

Decrement(w) ==
  /\ pc[w] = "decrement"
  /\ Debit(w)
  /\ Advance(w, "settle")
  /\ UNCHANGED <<deposited, request, rowStatus, payout, unsure, failures>>

\* Variant: the status is not written.
SettleNothing(w) ==
  /\ pc[w] = "settle"
  /\ Advance(w, "done")
  /\ UNCHANGED <<balance, deposited, request, rowStatus, payout, debits, unsure, failures>>
Settle(w) ==
  /\ pc[w] = "settle"
  /\ Mark(w, "SUCCESS")
  /\ Advance(w, "done")
  /\ UNCHANGED <<balance, deposited, request, payout, debits, unsure, failures>>

\* Paystack's branch writes PENDING and keeps nothing of Paystack's answer.
Remark(w) ==
  /\ pc[w] = "mark"
  /\ Mark(w, "PENDING")
  /\ Advance(w, "done")
  /\ UNCHANGED <<balance, deposited, request, payout, debits, unsure, failures>>

\* The catch block, for an exception of any of the calls.
Fail(w) ==
  /\ pc[w] = "fail"
  /\ Mark(w, "FAILED")
  /\ Advance(w, "done")
  /\ UNCHANGED <<balance, deposited, request, payout, debits, unsure, failures>>

(******************************* Transfer events *******************************)

\* The reference our row is stored under, and the one Paystack's events carry: we send
\* Paystack none, so it makes one of its own.
Reference(w) == <<"WTH", w>>
\* Variant: our reference is sent along.
TransferReferenceOurs(w) == <<"WTH", w>>
TransferReference(w) == <<"TRF", w>>

\* The withdrawal a reference names, if it is still PENDING.
Found(ref) == {w \in Withdrawals : Reference(w) = ref /\ rowStatus[w] = "PENDING"}

\* One database transaction, which a refused debit or credit rolls back: debit and
\* SUCCESS, or FAILED and a refund of what was never taken.
SettleTransfer(w, outcome) ==
  \/ outcome = "paid" /\ ~Refused(request[w].amount) /\ Debit(w) /\ Mark(w, "SUCCESS")
  \/ /\ outcome = "returned" /\ request[w].amount > 0
     /\ balance' = balance + request[w].amount
     /\ Mark(w, "FAILED")
     /\ UNCHANGED debits
  \/ /\ IF outcome = "paid" THEN Refused(request[w].amount) ELSE request[w].amount <= 0
     /\ UNCHANGED <<balance, rowStatus, debits>>

\* A handler, run by the queue's processor, possibly again for the same transfer.
HandleTransfer(t) ==
  /\ request[t].method = "PAYSTACK" /\ payout[t] \in {"paid", "returned"}
  /\ LET found == Found(TransferReference(t))
     IN  IF found = {} THEN UNCHANGED <<balance, rowStatus, debits>>
         ELSE \E w \in found : SettleTransfer(w, payout[t])
  /\ UNCHANGED <<deposited, request, pc, payout, unsure, failures>>

(************************************ Faults ************************************)

\* What a call that reports an error may have done all the same.
HadEffect(w) ==
  \/ /\ pc[w] \in {"record", "mark"} /\ Mark(w, "PENDING")
     /\ UNCHANGED <<balance, payout, debits, unsure>>
  \/ /\ pc[w] = "send" /\ Sendable(request[w])
     /\ payout' = [payout EXCEPT ![w] = "sent"]
     /\ UNCHANGED <<balance, rowStatus, debits, unsure>>
  \/ /\ pc[w] = "decrement" /\ Debit(w)
     /\ UNCHANGED <<rowStatus, payout, unsure>>
  \/ /\ pc[w] = "settle" /\ Mark(w, "SUCCESS") /\ unsure' = unsure \cup {w}
     /\ UNCHANGED <<balance, payout, debits>>
  \/ /\ pc[w] = "fail" /\ Mark(w, "FAILED")
     /\ UNCHANGED <<balance, payout, debits, unsure>>

\* A call to the database or the provider reports an error.  The catch block is left by
\* an error of its own, and the first insert is not within the try.
CallFails(w) ==
  /\ failures < MaxFailures /\ pc[w] \notin {"idle", "done"}
  /\ failures' = failures + 1
  /\ Advance(w, IF pc[w] \in {"record", "fail"} THEN "done" ELSE "fail")
  /\ HadEffect(w) \/ UNCHANGED <<balance, rowStatus, payout, debits, unsure>>
  /\ UNCHANGED <<deposited, request>>

ProcessDies ==
  /\ failures < MaxFailures
  /\ failures' = failures + 1
  /\ pc' = [w \in Withdrawals |-> IF pc[w] = "idle" THEN "idle" ELSE "done"]
  /\ UNCHANGED <<balance, deposited, request, rowStatus, payout, debits, unsure>>

WithdrawalStep(w) ==
  \/ Record(w) \/ Send(w) \/ Wait(w) \/ CheckBalance(w) \/ Decrement(w)
  \/ Settle(w) \/ Remark(w) \/ Fail(w)

WithdrawalNext ==
  \/ \E a \in Deposits : Deposit(a)
  \/ \E w \in Withdrawals :
       \/ \E r \in Request : Submit(w, r)
       \/ WithdrawalStep(w)
       \/ \E outcome \in {"paid", "returned"} : Complete(w, outcome)
       \/ HandleTransfer(w)
       \/ CallFails(w)
  \/ ProcessDies

\* A request that was taken up goes on; the chain and Paystack owe us nothing.
WithdrawalSafety == WithdrawalInit /\ [][WithdrawalNext]_withdrawalVars
WithdrawalSpec == WithdrawalSafety /\ \A w \in Withdrawals : WF_withdrawalVars(WithdrawalStep(w))

(********************************** Properties **********************************)

WithdrawalTypeOK ==
  /\ balance \in Int /\ deposited \in 0..MaxDeposit /\ failures \in 0..MaxFailures
  /\ request \in [Withdrawals -> Request \cup {NoRequest}]
  /\ pc \in [Withdrawals -> {"idle", "record", "send", "wait", "debit", "decrement",
                             "settle", "mark", "fail", "done"}]
  /\ rowStatus \in [Withdrawals -> {"none", "PENDING", "SUCCESS", "FAILED"}]
  /\ payout \in [Withdrawals -> {"none", "sent", "paid", "returned"}]
  /\ debits \in [Withdrawals -> Nat]
  /\ unsure \subseteq Withdrawals

\* The wallet is debited only for a withdrawal whose money has left, and once, whatever
\* fails and restarts between the payout and the debit.
DebitFollowsPayout ==
  \A w \in Withdrawals : debits[w] > 0 => debits[w] = 1 /\ payout[w] = "paid"

\* No event of Paystack ever reaches a row: a withdrawal through Paystack is never
\* debited, never SUCCESS, and never refunded.
PaystackNeverDebited ==
  \A w \in Withdrawals : request[w].method = "PAYSTACK" =>
    debits[w] = 0 /\ rowStatus[w] # "SUCCESS"

Debited == {w \in Withdrawals : debits[w] > 0}

\* The debit's own check lets too large an amount through (9 is not below 10 as
\* strings), yet one withdrawal alone never overdraws the wallet, because the first
\* check compares numbers: it takes two that are both debited.
OverdraftTakesTwo ==
  balance < 0 => \E v, w \in Debited : v # w

\* Requests, events and faults only ever take from the balance, and only by a debit:
\* without one the wallet holds all that was deposited.
OnlyDebitsTake ==
  /\ balance <= deposited
  /\ (\A w \in Withdrawals : debits[w] = 0) => balance = deposited

\* A withdrawal that is SUCCESS or FAILED keeps that status: neither a late answer nor
\* an event that is delivered again changes it.  The one exception is the request's own
\* catch block, which turns SUCCESS into FAILED when the write of SUCCESS took effect
\* and yet reported an error.
DecidedForGood ==
  [][\A w \in Withdrawals : rowStatus[w] \in {"SUCCESS", "FAILED"} =>
       \/ rowStatus'[w] = rowStatus[w]
       \/ w \in unsure /\ pc[w] = "fail" /\ rowStatus[w] = "SUCCESS" /\ rowStatus'[w] = "FAILED"
    ]_withdrawalVars

\* A withdrawal that is waiting for the chain when its payout is confirmed does not
\* stay PENDING once faults have stopped.
ConfirmedIsDecided ==
  \A w \in Withdrawals :
    (pc[w] = "wait" /\ payout[w] = "paid" /\ failures = MaxFailures)
      ~> rowStatus[w] # "PENDING"
=================================================================================
