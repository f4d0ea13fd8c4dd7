------------------------------ MODULE CryptoDeposit ------------------------------
(*********************************************************************************)
(* A wallet deposit paid on chain: the row written by POST /payments/deposit,    *)
(* the chain, and verifyDeposit, which runs for every GET /payments/verify/crypto *)
(* and for the Alchemy events that come through the webhook queue.  Verifications *)
(* interleave at every await, and nothing between the first read of the row and   *)
(* the last write is in a database transaction.  A deposit is named by its hash,  *)
(* which is unique among rows.                                                    *)
(*********************************************************************************)
EXTENDS Integers, FiniteSets

CONSTANTS
  Hashes,    \* deposits
  Callers,   \* slots for concurrent GET /payments/verify/crypto requests
  Processor, \* the queue processor's pass, one at a time (WebhookQueue)
  None,      \* no deposit
  MaxFaults  \* bound: crashes and failed calls

ASSUME NamesAssumption == Processor \notin Callers /\ None \notin Hashes
ASSUME FinitenessAssumption == IsFiniteSet(Callers)
ASSUME BoundAssumption == MaxFaults \in Nat

Verifiers == Callers \cup {Processor}

VARIABLES
  chain,   \* the transaction on chain: "absent", "confirmed" or "reverted"
  row,     \* what its deposit's row declares, compared with the log
  status,  \* the row's status, "none" before it exists
  credits, \* times the wallet was credited for it
  event,   \* the Alchemy event's job: "none", "queued" or "done"
  pc, about, \* each verification's control point and hash
  faults

vars == <<chain, row, status, credits, event, pc, about, faults>>

\* What a row may declare of a deposit: the address it comes from and its amount.  Each
\* agrees with the log of the transaction, differs from it, or is absent; an amount of 0
\* counts as absent.
Items == {"address", "amount"}
Declared == [Items -> {"absent", "agrees", "differs"}]

Points == {"idle", "lookup", "provider", "reread", "credit", "settle"}

Init ==
  /\ chain = [h \in Hashes |-> "absent"]
  /\ row = [h \in Hashes |-> [i \in Items |-> "absent"]]
  /\ status = [h \in Hashes |-> "none"]
  /\ credits = [h \in Hashes |-> 0]
  /\ event = [h \in Hashes |-> "none"]
  /\ pc = [v \in Verifiers |-> "idle"]
  /\ about = [v \in Verifiers |-> None]
  /\ faults = 0

(******************************* The outside world *******************************)

\* The user declares an address and an amount, correctly or not, or leaves them out.
InitiateDeposit(h, declared) ==
  /\ status[h] = "none"
  /\ row' = [row EXCEPT ![h] = declared]
  /\ status' = [status EXCEPT ![h] = "PENDING"]
  /\ UNCHANGED <<chain, credits, event, pc, about, faults>>

Mine(h, outcome) ==
  /\ chain[h] = "absent"
  /\ chain' = [chain EXCEPT ![h] = outcome]
  /\ UNCHANGED <<row, status, credits, event, pc, about, faults>>

\* Alchemy reports a confirmed transaction, perhaps again; a job whose block held
\* other transactions is repeated with them.
DeliverEvent(h) ==
  /\ chain[h] = "confirmed" /\ event[h] # "queued"
  /\ event' = [event EXCEPT ![h] = "queued"]
  /\ UNCHANGED <<chain, row, status, credits, pc, about, faults>>

(********************************* verifyDeposit *********************************)

\* A verification returns or throws: the processor then removes the job, for the
\* handler swallows the exception.
End(v) ==
  /\ pc' = [pc EXCEPT ![v] = "idle"]
  /\ about' = [about EXCEPT ![v] = None]
  /\ event' = IF v = Processor THEN [event EXCEPT ![about[v]] = "done"] ELSE event

Advance(v, next) == pc' = [pc EXCEPT ![v] = next] /\ UNCHANGED <<about, event>>

\* A request, or the handler of a queued event.
Start(v, h) ==
  /\ pc[v] = "idle" /\ (v = Processor => event[h] = "queued")
  /\ pc' = [pc EXCEPT ![v] = "lookup"]
  /\ about' = [about EXCEPT ![v] = h]
  /\ UNCHANGED <<chain, row, status, credits, event, faults>>

\* Variant: a row that declares no address is passed over.
LookupAddressed(v) ==
  /\ pc[v] = "lookup"
  /\ IF status[about[v]] # "none" /\ row[about[v]]["address"] # "absent"
       THEN Advance(v, "provider") ELSE End(v)
  /\ UNCHANGED <<chain, row, status, credits, faults>>
\* The row is searched by hash; without one the answer is FAILED.
Lookup(v) ==
  /\ pc[v] = "lookup"
  /\ IF status[about[v]] # "none" THEN Advance(v, "provider") ELSE End(v)
  /\ UNCHANGED <<chain, row, status, credits, faults>>

\* Variant: the log is not compared with the row.
VerifiedUnmatched(h) == chain[h] = "confirmed"
\* The receipt is there and did not revert, and nothing the row declares differs from its
\* log.  What the row leaves out is not compared.
Verified(h) == chain[h] = "confirmed" /\ \A i \in Items : row[h][i] # "differs"

AskProvider(v) ==
  /\ pc[v] = "provider"
  /\ IF Verified(about[v]) THEN Advance(v, "reread") ELSE End(v)
  /\ UNCHANGED <<chain, row, status, credits, faults>>

\* Variant: the status of the row is not looked at.
StillPendingAlways(h) == TRUE
StillPending(h) == status[h] = "PENDING"

\* The row is read again; the price conversion follows, with no effect on state.
Reread(v) ==
  /\ pc[v] = "reread"
  /\ IF StillPending(about[v]) THEN Advance(v, "credit") ELSE End(v)
  /\ UNCHANGED <<chain, row, status, credits, faults>>

\* Variant: the row is settled first, the wallet is credited after.
SettleFirst(v) ==
  /\ pc[v] = "credit"
  /\ status' = [status EXCEPT ![about[v]] = "SUCCESS"]
  /\ Advance(v, "settle")
  /\ UNCHANGED <<chain, row, credits, faults>>
\* An atomic increment of the balance.
Credit(v) ==
  /\ pc[v] = "credit"
  /\ credits' = [credits EXCEPT ![about[v]] = @ + 1]
  /\ Advance(v, "settle")
  /\ UNCHANGED <<chain, row, status, faults>>

\* The row becomes SUCCESS, whatever its status is by now.
Settle(v) ==
  /\ pc[v] = "settle"
  /\ status' = [status EXCEPT ![about[v]] = "SUCCESS"]
  /\ End(v)
  /\ UNCHANGED <<chain, row, credits, faults>>

(************************************* Faults *************************************)

\* A call fails where the verification stands: the RPC node (the answer is FAILED),
\* the price feed, the database.
VerifyFails(v) ==
  /\ pc[v] # "idle" /\ faults < MaxFaults
  /\ faults' = faults + 1
  /\ End(v)
  /\ UNCHANGED <<chain, row, status, credits>>

\* The process restarts: its verifications are gone, a queued job is still queued.
Crash ==
  /\ faults < MaxFaults
  /\ faults' = faults + 1
  /\ pc' = [v \in Verifiers |-> "idle"]
  /\ about' = [v \in Verifiers |-> None]
  /\ UNCHANGED <<chain, row, status, credits, event>>

VerifyStep(v) ==
  \/ Lookup(v) \/ AskProvider(v) \/ Reread(v) \/ Credit(v) \/ Settle(v)

Next ==
  \/ \E h \in Hashes :
       \/ \E declared \in Declared : InitiateDeposit(h, declared)
       \/ \E outcome \in {"confirmed", "reverted"} : Mine(h, outcome)
       \/ DeliverEvent(h)
  \/ \E v \in Verifiers :
       \/ \E h \in Hashes : Start(v, h)
       \/ VerifyStep(v)
       \/ VerifyFails(v)
  \/ Crash

\* The processor keeps running and takes the jobs in their order of arrival, so that a
\* queued job is not passed over for ever.  Callers need not finish.
Fairness ==
  /\ WF_vars(VerifyStep(Processor))
  /\ \A h \in Hashes : SF_vars(Start(Processor, h))

Safety == Init /\ [][Next]_vars
Spec == Safety /\ Fairness

(*********************************** Properties ***********************************)

TypeOK ==
  /\ chain \in [Hashes -> {"absent", "confirmed", "reverted"}]
  /\ row \in [Hashes -> Declared]
  /\ status \in [Hashes -> {"none", "PENDING", "SUCCESS"}]
  /\ credits \in [Hashes -> Nat]
  /\ event \in [Hashes -> {"none", "queued", "done"}]
  /\ pc \in [Verifiers -> Points]
  /\ about \in [Verifiers -> Hashes \cup {None}]
  /\ faults \in 0..MaxFaults

\* How often one deposit can be credited: once for every verification that can be past
\* the check together, and again after each fault.  With one verification at a time and
\* no fault it is credited at most once.
CreditsBounded ==
  \A h \in Hashes : credits[h] <= Cardinality(Verifiers) * (faults + 1)

\* A deposit marked SUCCESS was credited: the two writes are never the other way round,
\* at whatever point a verification dies.
SettledIsCredited == \A h \in Hashes : status[h] = "SUCCESS" => credits[h] > 0

\* The wallet is credited only for a transaction that is confirmed on chain and whose
\* log agrees with whatever the row declares, although both are looked at several steps
\* earlier.  A row that declares neither an address nor an amount binds its deposit to
\* nothing but the hash, and is credited with what the log says.
CreditedIsConfirmed ==
  \A h \in Hashes : credits[h] > 0 =>
    /\ chain[h] = "confirmed"
    /\ \A i \in Items : row[h][i] \in {"agrees", "absent"}

\* The verifications of h that stand at a point.
At(h, point) == {v \in Verifiers : about[v] = h /\ pc[v] = point}

\* Once a deposit is settled and no verification is past the check of its status, its
\* credits never change, however often it is verified or its event delivered.
SettledForGood ==
  [][\A h \in Hashes : status[h] = "SUCCESS" /\ At(h, "credit") = {} =>
       credits'[h] = credits[h] /\ At(h, "credit")' = {}]_vars

\* A deposit recorded before the processor takes its event is settled once faults stop,
\* without anyone calling the verify endpoint.
SettledOnceFaultsStop ==
  \A h \in Hashes :
    (event[h] = "queued" /\ status[h] = "PENDING" /\ Verified(h) /\ faults = MaxFaults)
      ~> (status[h] = "SUCCESS")
=================================================================================
