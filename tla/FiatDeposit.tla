------------------------------- MODULE FiatDeposit -------------------------------
(*********************************************************************************)
(* A wallet deposit paid through Paystack: POST /payments/deposit, Paystack's    *)
(* charge, its webhook through the queue of WebhookQueue, the handlers of        *)
(* charge.success and charge.failed, and the public GET /payments/verify.        *)
(* Each reference stands for one deposit.                                        *)
(*********************************************************************************)
EXTENDS WebhookQueue

CONSTANT Refs

ASSUME RefsAssumption == None \notin Refs

VARIABLES
  status,  \* the Transaction row of each reference, "NONE" before it exists
  credits, \* times the deposit's amount was added to the wallet
  emitted  \* webhook events Paystack has for us, which it delivers any number of times

depositVars == <<status, credits, emitted>>
vars == <<queueVars, depositVars>>

Statuses == {"NONE", "PENDING", "SUCCESS", "FAILED"}

Init ==
  /\ QueueInit
  /\ status = [r \in Refs |-> "NONE"]
  /\ credits = [r \in Refs |-> 0]
  /\ emitted = {}

\* The row is written before Paystack is called; when that call fails the row stays.
InitiateDeposit(r) ==
  /\ status[r] = "NONE"
  /\ status' = [status EXCEPT ![r] = "PENDING"]
  /\ UNCHANGED <<queueVars, credits, emitted>>

\* A charge attempt ends at Paystack.  A failed one may be followed by another.
Charge(e) ==
  /\ e.ref \in Refs /\ status[e.ref] # "NONE" /\ e \notin emitted
  /\ \A s \in emitted : s.ref = e.ref => s.event # "charge.success"
  /\ emitted' = emitted \cup {e}
  /\ UNCHANGED <<queueVars, status, credits>>

\* The reference has a Transaction row, and it is PENDING.
IsPending(r) == r \in Refs /\ status[r] = "PENDING"

\* One Prisma transaction: increment the balance, set SUCCESS.
CreditAndSettle(r) ==
  /\ credits' = [credits EXCEPT ![r] = @ + 1]
  /\ status' = [status EXCEPT ![r] = "SUCCESS"]

AlreadyProcessed(r) == r \in recorded

\* handleSuccessfulPaystackDeposit.
HandleSuccess(r) ==
  IF ~AlreadyProcessed(r) /\ IsPending(r) THEN CreditAndSettle(r)
  ELSE UNCHANGED <<status, credits>>

\* Variant: the event is dropped.
HandleFailedNothing(r) == UNCHANGED <<status, credits>>
\* Variant: like the handler of a success, this one passes over a recorded reference.
HandleFailedUnrecorded(r) ==
  /\ status' = IF ~AlreadyProcessed(r) /\ IsPending(r) THEN [status EXCEPT ![r] = "FAILED"] ELSE status
  /\ UNCHANGED credits
\* handleFailedPaystackDeposit.
HandleFailed(r) ==
  /\ status' = IF IsPending(r) THEN [status EXCEPT ![r] = "FAILED"] ELSE status
  /\ UNCHANGED credits

\* Variant: the two cases are swapped.
HandleSwapped(e) ==
  CASE e.type = "paystack" /\ e.event = "charge.failed" -> HandleSuccess(e.ref)
    [] e.type = "paystack" /\ e.event = "charge.success" -> HandleFailed(e.ref)
    [] OTHER -> UNCHANGED <<status, credits>>
\* processQueuedPaystackWebhook for the events of a deposit.
Handle(e) ==
  CASE e.type = "paystack" /\ e.event = "charge.success" -> HandleSuccess(e.ref)
    [] e.type = "paystack" /\ e.event = "charge.failed" -> HandleFailed(e.ref)
    [] OTHER -> UNCHANGED <<status, credits>>

\* What Paystack's verify endpoint makes of a reference: the provider returns a
\* status and no field "success".
Verdict(r) ==
  [status |-> IF \E e \in emitted : e.ref = r /\ e.event = "charge.success"
              THEN "SUCCESS" ELSE "FAILED"]

\* The service's test of that verdict.
PaystackVerified(v) == "success" \in DOMAIN v /\ v.success

\* GET /payments/verify/paystack.  The row is then searched by the absent hash, a
\* filter Prisma ignores: the first row found.
Verify(r) ==
  /\ IF PaystackVerified(Verdict(r))
       THEN \E t \in Refs : IF IsPending(t) THEN CreditAndSettle(t)
                            ELSE UNCHANGED <<status, credits>>
       ELSE UNCHANGED <<status, credits>>
  /\ UNCHANGED <<queueVars, emitted>>

(************************************ The system ************************************)

\* Paystack delivers what it has emitted; other payloads come from elsewhere.
Deliverable == {e \in Deliveries : e.ref \in Refs => e \in emitted}

ProcessAndHandle(p, j) ==
  /\ Process(p, j)
  /\ Handle(j.payload)
  /\ UNCHANGED emitted

\* A call of the handler fails, and nothing was written, or the last write took effect
\* and its answer was lost.
HandlerThrows(p, j) ==
  /\ Throw(p, j)
  /\ Handle(j.payload) \/ UNCHANGED <<status, credits>>
  /\ UNCHANGED emitted

PassStep(p) ==
  \/ (Tick(p) \/ Fetch(p) \/ Remove(p)) /\ UNCHANGED depositVars
  \/ \E j \in batch[p] : ProcessAndHandle(p, j)

Next ==
  \/ \E r \in Refs : InitiateDeposit(r) \/ Verify(r)
  \/ \E e \in Deliveries : Charge(e)
  \/ \E q \in Requests : RequestStep(q, Deliverable) /\ UNCHANGED depositVars
  \/ \E p \in Passes : PassStep(p) \/ (PassFails(p) /\ UNCHANGED depositVars)
                       \/ \E j \in batch[p] : HandlerThrows(p, j)
  \/ (Elapse \/ Crash) /\ UNCHANGED depositVars

\* The interval timer keeps firing and a pass keeps running: the event loop is fair to
\* both, and time passes.  Nothing is assumed of requests, customers or Paystack.
Fairness ==
  /\ WF_vars(\E p \in Passes : PassStep(p))
  /\ WF_vars(Elapse /\ UNCHANGED depositVars)

Safety == Init /\ [][Next]_vars
Spec == Safety /\ Fairness

(************************************ Properties ************************************)

DepositTypeOK ==
  /\ QueueTypeOK
  /\ status \in [Refs -> Statuses]
  /\ credits \in [Refs -> Nat]
  /\ emitted \subseteq Deliveries

\* A deposit is marked FAILED only when Paystack reported a failed charge for it, and
\* stays PENDING until then.
FailedOnlyIfReported ==
  \A r \in Refs : status[r] = "FAILED" =>
    \E e \in emitted : e.ref = r /\ e.event = "charge.failed"

\* Is j the event of a charge of r that ended so?
Reports(j, r, event) ==
  j.payload.type = "paystack" /\ j.payload.event = event /\ j.payload.ref = r

\* The handler of a failed charge leaves its deposit PENDING only when it threw: no
\* crash, aborted pass or earlier event of the same deposit makes it spend an event for
\* nothing.  The queue then drops the job all the same, and this is all that is lost.
PendingOnlyIfThrown ==
  \A r \in Refs : \A j \in attempted :
    Reports(j, r, "charge.failed") /\ status[r] = "PENDING" => j \in thrown

\* A failed charge whose event reached the queue does not stay PENDING, in spite of
\* crashes, Redis errors and overlapping deliveries, unless its handler threw.
FailedChargeSettles ==
  \A r \in Refs :
    (\E j \in queue : Reports(j, r, "charge.failed"))
      ~> (status[r] # "PENDING" \/ \E j \in thrown : Reports(j, r, "charge.failed"))

\* README.md, line 3: users pay with a wallet funded by fiat (Paystack).  When the event
\* of a successful charge has been handled without an error, the wallet was credited.
FundedByPaystack ==
  \A r \in Refs : \A j \in attempted \ thrown :
    Reports(j, r, "charge.success") => credits[r] > 0

\* The queue keeps the promise of Inbox, jobs named by their arrival.
Ids(js) == {j.id : j \in js}
Accepted == {n \in 0..MaxJobs : n < nextId}
Promise == INSTANCE Inbox WITH
  Id <- 0..MaxJobs, accepted <- Accepted, attempted <- Ids(attempted),
  settled <- Accepted \ Ids(queue)
KeepsPromise == Promise!Spec
=================================================================================
