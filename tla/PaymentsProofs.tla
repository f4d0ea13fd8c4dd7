------------------------------ MODULE PaymentsProofs ------------------------------
(*********************************************************************************)
(* Payments but for those on chain, for every value of the constants.  First the  *)
(* webhook queue; then deposits through Paystack, which the queue's events         *)
(* settle; last withdrawals.                                                      *)
(*********************************************************************************)
EXTENDS FiatDeposit, Withdrawal, TLAPS

(*********************************************************************************)
(* The queue.                                                                    *)
(*********************************************************************************)

(*********************************************************************************)
(* The record of an event is ahead of its job: what a request holds is recorded  *)
(* from the moment it may add the job.                                           *)
(*********************************************************************************)
RequestsRecorded ==
  \A r \in Requests :
    /\ rpc[r] # "idle" => rload[r] \in Deliveries
    /\ rpc[r] \in {"find", "create"} => Recordable(rload[r])
    /\ rpc[r] = "enqueue" /\ Recordable(rload[r]) => rload[r].ref \in recorded

\* A pass under way holds the flag, alone; what it holds is in the queue.
PassesSound ==
  /\ OnePassAtATime
  /\ \A p \in Passes :
       /\ ppc[p] # "idle" => isProcessing
       /\ ppc[p] \in {"idle", "fetch"} => batch[p] = {}
       /\ batch[p] \subseteq queue
       /\ ppc[p] = "remove" => current[p] \in batch[p] \cap attempted

\* Everything in a pass's batch is due, and due no later than what it left behind.
BatchesDue ==
  \A p \in Passes : \A b \in batch[p] :
    /\ b.score <= now
    /\ \A k \in queue \ batch[p] : b.score <= k.score

AttemptedDue == \A j \in attempted : j.score <= now

QueueInv ==
  /\ QueueTypeOK
  /\ RequestsRecorded
  /\ RecordedBeforeQueued
  /\ PassesSound
  /\ BatchesDue
  /\ AttemptedDue
  /\ AttemptedInOrder

\* The invariant holds initially.
LEMMA QueueInvInit == QueueInit => QueueInv
<1> SUFFICES ASSUME QueueInit PROVE QueueInv
  OBVIOUS
<1>1. QueueTypeOK BY DEF QueueInit, QueueTypeOK
<1>2. RequestsRecorded BY DEF QueueInit, RequestsRecorded
<1>3. PassesSound BY DEF QueueInit, PassesSound, OnePassAtATime
<1>4. BatchesDue BY DEF QueueInit, BatchesDue
<1>5. RecordedBeforeQueued /\ AttemptedDue /\ AttemptedInOrder
  BY DEF QueueInit, RecordedBeforeQueued, AttemptedDue, AttemptedInOrder
<1> QED BY <1>1, <1>2, <1>3, <1>4, <1>5 DEF QueueInv

\* Every step of a request preserves it.
LEMMA RequestPreserves ==
  ASSUME QueueInv, NEW r \in Requests, RequestStep(r, Deliveries)
  PROVE  QueueInv'
<1> USE DEF QueueInv
<1>1. ASSUME NEW e \in Deliveries, Receive(r, e) PROVE QueueInv'
  <2>1. QueueTypeOK' BY <1>1 DEF Receive, QueueTypeOK, passVars, FirstStep
  <2>2. RequestsRecorded'
    BY <1>1 DEF Receive, RequestsRecorded, QueueTypeOK, FirstStep, Recordable
  <2>3. (RecordedBeforeQueued /\ PassesSound /\ BatchesDue /\ AttemptedDue /\ AttemptedInOrder)'
    BY <1>1 DEF Receive, RecordedBeforeQueued, PassesSound, OnePassAtATime, BatchesDue,
                AttemptedDue, AttemptedInOrder, passVars
  <2> QED BY <2>1, <2>2, <2>3
<1>2. ASSUME FindResponse(r) PROVE QueueInv'
  <2>1. QueueTypeOK' BY <1>2 DEF FindResponse, Goto, QueueTypeOK, passVars
  <2>2. RequestsRecorded'
    BY <1>2 DEF FindResponse, Goto, RequestsRecorded, QueueTypeOK, Recordable
  <2>3. (RecordedBeforeQueued /\ PassesSound /\ BatchesDue /\ AttemptedDue /\ AttemptedInOrder)'
    BY <1>2 DEF FindResponse, RecordedBeforeQueued, PassesSound, OnePassAtATime, BatchesDue,
                AttemptedDue, AttemptedInOrder, passVars
  <2> QED BY <2>1, <2>2, <2>3
<1>3. ASSUME CreateResponse(r) PROVE QueueInv'
  <2>1. QueueTypeOK'
    BY <1>3 DEF CreateResponse, Goto, Leave, QueueTypeOK, RequestsRecorded, passVars
  <2>2. RequestsRecorded'
    BY <1>3 DEF CreateResponse, Goto, Leave, RequestsRecorded, QueueTypeOK, Recordable
  <2>3. (RecordedBeforeQueued /\ PassesSound /\ BatchesDue /\ AttemptedDue /\ AttemptedInOrder)'
    BY <1>3 DEF CreateResponse, RecordedBeforeQueued, PassesSound, OnePassAtATime, BatchesDue,
                AttemptedDue, AttemptedInOrder, passVars
  <2> QED BY <2>1, <2>2, <2>3
<1>4. ASSUME AddToQueue(r) PROVE QueueInv'
  <2> DEFINE new == [id |-> nextId, score |-> now + Delay, payload |-> rload[r]]
  <2>0. new \in Job /\ now \in Nat /\ Delay \in Nat
    BY <1>4, DelayAssumption DEF AddToQueue, QueueTypeOK, RequestsRecorded, Job
  <2>1. QueueTypeOK'
    BY <1>4, <2>0 DEF AddToQueue, Leave, QueueTypeOK, passVars
  <2>2. RequestsRecorded'
    BY <1>4 DEF AddToQueue, Leave, RequestsRecorded, QueueTypeOK, Recordable
  <2>3. RecordedBeforeQueued'
    BY <1>4 DEF AddToQueue, RecordedBeforeQueued, RequestsRecorded, Recordable
  <2>4. PassesSound'
    BY <1>4 DEF AddToQueue, PassesSound, OnePassAtATime, passVars
  <2>5. new.score >= now BY <2>0
  <2>6. (BatchesDue /\ AttemptedDue)'
    <3>1. ASSUME NEW p \in Passes, NEW b \in batch[p] PROVE b.score <= new.score
      <4>1. b.score \in Nat BY <3>1 DEF QueueTypeOK, Job
      <4>2. b.score <= now BY <3>1 DEF BatchesDue
      <4> QED BY <4>1, <4>2, <2>0, <2>5
    <3> QED BY <1>4, <3>1 DEF AddToQueue, BatchesDue, AttemptedDue, passVars
  <2>7. AttemptedInOrder'
    <3>1. ASSUME NEW a \in attempted PROVE a.score <= new.score
      <4>1. a.score \in Nat BY <3>1 DEF QueueTypeOK, Job
      <4>2. a.score <= now BY <3>1 DEF AttemptedDue
      <4> QED BY <4>1, <4>2, <2>0, <2>5
    <3> QED BY <1>4, <3>1 DEF AddToQueue, AttemptedInOrder
  <2> QED BY <2>1, <2>2, <2>3, <2>4, <2>6, <2>7
<1>5. ASSUME RequestFails(r) PROVE QueueInv'
  <2>1. QueueTypeOK' BY <1>5 DEF RequestFails, Leave, QueueTypeOK, passVars
  <2>2. RequestsRecorded' BY <1>5 DEF RequestFails, Leave, RequestsRecorded, QueueTypeOK
  <2>3. (RecordedBeforeQueued /\ PassesSound /\ BatchesDue /\ AttemptedDue /\ AttemptedInOrder)'
    BY <1>5 DEF RequestFails, RecordedBeforeQueued, PassesSound, OnePassAtATime, BatchesDue,
                AttemptedDue, AttemptedInOrder, passVars
  <2> QED BY <2>1, <2>2, <2>3
<1> QED BY <1>1, <1>2, <1>3, <1>4, <1>5 DEF RequestStep

\* While p is under way every other pass is idle and holds nothing.
LEMMA OthersIdle ==
  ASSUME QueueInv, NEW p \in Passes, ppc[p] # "idle", NEW q \in Passes, q # p
  PROVE  ppc[q] = "idle" /\ batch[q] = {}
  BY DEF QueueInv, PassesSound, OnePassAtATime

\* Going on with part of the queue, all of it due before the rest, keeps the passes
\* sound; it is what Fetch and Remove do.
LEMMA ContinueSound ==
  ASSUME QueueInv, NEW p \in Passes, ppc[p] # "idle", NEW js \in SUBSET queue',
         Continue(p, js), queue' \subseteq queue, attempted' = attempted, now' = now,
         \A b \in js : b.score <= now /\ \A k \in queue' \ js : b.score <= k.score
  PROVE  /\ PassesSound' /\ BatchesDue'
         /\ ppc' \in [Passes -> {"idle", "fetch", "process", "remove"}]
         /\ batch' \in [Passes -> SUBSET Job] /\ isProcessing' \in BOOLEAN
<1> USE DEF QueueInv
<1>1. \A q \in Passes : q # p => ppc[q] = "idle" /\ batch[q] = {}
  BY OthersIdle
<1>2. js \subseteq Job BY DEF QueueTypeOK
<1>3. isProcessing BY DEF PassesSound
<1>4. CASE js = {}
  <2>1. EndPass(p) BY <1>4 DEF Continue
  <2>2. \A q \in Passes : ppc'[q] = "idle" /\ batch'[q] = {}
    BY <1>1, <2>1 DEF EndPass, QueueTypeOK
  <2>3. PassesSound' /\ BatchesDue' BY <2>2 DEF PassesSound, OnePassAtATime, BatchesDue
  <2>4. batch' \in [Passes -> SUBSET Job]
    <3>1. {} \in SUBSET Job OBVIOUS
    <3> QED BY <2>1, <3>1 DEF EndPass, QueueTypeOK
  <2>5. ppc' \in [Passes -> {"idle", "fetch", "process", "remove"}] /\ isProcessing' \in BOOLEAN
    BY <2>1 DEF EndPass, QueueTypeOK
  <2> QED BY <2>3, <2>4, <2>5
<1>5. CASE js # {}
  <2>1. /\ ppc' = [ppc EXCEPT ![p] = "process"] /\ batch' = [batch EXCEPT ![p] = js]
        /\ isProcessing' = isProcessing
    BY <1>5 DEF Continue
  <2>2. PassesSound' BY <1>1, <1>3, <2>1 DEF PassesSound, OnePassAtATime, QueueTypeOK
  <2>3. BatchesDue' BY <1>1, <2>1 DEF BatchesDue, QueueTypeOK
  <2> QED BY <1>2, <2>1, <2>2, <2>3 DEF QueueTypeOK
<1> QED BY <1>4, <1>5

\* Every step of a pass preserves the invariant.
LEMMA PassPreserves ==
  ASSUME QueueInv, NEW p \in Passes,
         \/ Tick(p) \/ Fetch(p) \/ Remove(p) \/ PassFails(p)
         \/ \E j \in batch[p] : Process(p, j) \/ Throw(p, j)
  PROVE  QueueInv'
<1> USE DEF QueueInv
<1>1. ASSUME Tick(p) PROVE QueueInv'
  <2>1. QueueTypeOK' BY <1>1 DEF Tick, QueueTypeOK, requestVars
  <2>2. PassesSound' BY <1>1 DEF Tick, MayStart, PassesSound, OnePassAtATime, QueueTypeOK
  <2>3. (RequestsRecorded /\ RecordedBeforeQueued /\ BatchesDue /\ AttemptedDue /\ AttemptedInOrder)'
    BY <1>1 DEF Tick, RequestsRecorded, RecordedBeforeQueued, BatchesDue, AttemptedDue,
                AttemptedInOrder, requestVars
  <2> QED BY <2>1, <2>2, <2>3
<1>2. ASSUME Fetch(p) PROVE QueueInv'
  <2>1. \A b \in Due : b.score <= now /\ \A k \in queue' \ Due : b.score <= k.score
    <3> SUFFICES ASSUME NEW b \in Due, NEW k \in queue \ Due PROVE b.score <= k.score
      BY <1>2 DEF Fetch, Due
    <3>1. b.score \in Nat /\ k.score \in Nat /\ now \in Nat
      BY DEF Due, QueueTypeOK, Job
    <3> QED BY <3>1 DEF Due
  <2>2. Due \in SUBSET queue' /\ queue' = queue /\ attempted' = attempted /\ now' = now
    BY <1>2 DEF Fetch, Due
  <2>3. /\ PassesSound' /\ BatchesDue'
        /\ ppc' \in [Passes -> {"idle", "fetch", "process", "remove"}]
        /\ batch' \in [Passes -> SUBSET Job] /\ isProcessing' \in BOOLEAN
    <3>1. Continue(p, Due) /\ ppc[p] # "idle" BY <1>2 DEF Fetch
    <3> HIDE DEF QueueInv
    <3> QED BY <2>1, <2>2, <3>1, ContinueSound
  <2>4. QueueTypeOK' BY <1>2, <2>3 DEF Fetch, QueueTypeOK, requestVars
  <2>5. (RequestsRecorded /\ RecordedBeforeQueued /\ AttemptedDue /\ AttemptedInOrder)'
    BY <1>2 DEF Fetch, RequestsRecorded, RecordedBeforeQueued, AttemptedDue,
                AttemptedInOrder, requestVars
  <2> QED BY <2>3, <2>4, <2>5
<1>3. ASSUME Remove(p) PROVE QueueInv'
  <2> DEFINE rest == batch[p] \ {current[p]}
  <2>1. current[p] \in batch[p] \cap attempted /\ batch[p] \subseteq queue
    BY <1>3 DEF Remove, PassesSound
  <2>2. /\ queue' = queue \ {current[p]} /\ rest \in SUBSET queue'
        /\ attempted' = attempted /\ now' = now
    BY <1>3, <2>1 DEF Remove
  <2>3. \A b \in rest : b.score <= now /\ \A k \in queue' \ rest : b.score <= k.score
    BY <2>2 DEF BatchesDue
  <2>4. /\ PassesSound' /\ BatchesDue'
        /\ ppc' \in [Passes -> {"idle", "fetch", "process", "remove"}]
        /\ batch' \in [Passes -> SUBSET Job] /\ isProcessing' \in BOOLEAN
    <3>1. Continue(p, rest) /\ ppc[p] # "idle" /\ queue' \subseteq queue
      BY <1>3 DEF Remove
    <3> HIDE DEF QueueInv, rest
    <3> QED BY <2>2, <2>3, <3>1, ContinueSound
  <2>5. QueueTypeOK' BY <1>3, <2>4 DEF Remove, QueueTypeOK, requestVars
  <2>6. (RequestsRecorded /\ RecordedBeforeQueued /\ AttemptedDue /\ AttemptedInOrder)'
    BY <1>3 DEF Remove, RequestsRecorded, RecordedBeforeQueued, AttemptedDue,
                AttemptedInOrder, requestVars
  <2> QED BY <2>4, <2>5, <2>6
<1>4. ASSUME PassFails(p) PROVE QueueInv'
  <2>1. QueueTypeOK'
    <3>1. {} \in SUBSET Job /\ None \in Job \cup {None} /\ faults + 1 \in Nat
      BY DEF QueueTypeOK
    <3>2. batch' \in [Passes -> SUBSET Job] BY <1>4, <3>1 DEF PassFails, EndPass, QueueTypeOK
    <3>3. current' \in [Passes -> Job \cup {None}] BY <1>4, <3>1 DEF PassFails, QueueTypeOK
    <3>4. ppc' \in [Passes -> {"idle", "fetch", "process", "remove"}] /\ isProcessing' \in BOOLEAN
      BY <1>4 DEF PassFails, EndPass, QueueTypeOK
    <3>5. queue' \subseteq Job BY <1>4 DEF PassFails, QueueTypeOK
    <3> QED BY <1>4, <3>1, <3>2, <3>3, <3>4, <3>5 DEF PassFails, QueueTypeOK, requestVars
  <2>2. \A q \in Passes : q # p => ppc[q] = "idle" /\ batch[q] = {}
    <3>1. ppc[p] # "idle" BY <1>4 DEF PassFails
    <3> HIDE DEF QueueInv
    <3> QED BY <3>1, OthersIdle
  <2>3. (PassesSound /\ BatchesDue)'
    BY <1>4, <2>2 DEF PassFails, EndPass, PassesSound, OnePassAtATime, BatchesDue, QueueTypeOK
  <2>4. (RequestsRecorded /\ RecordedBeforeQueued /\ AttemptedDue /\ AttemptedInOrder)'
    BY <1>4 DEF PassFails, RequestsRecorded, RecordedBeforeQueued, AttemptedDue,
                AttemptedInOrder, requestVars
  <2> QED BY <2>1, <2>3, <2>4
<1>5. ASSUME NEW j \in batch[p], Process(p, j) \/ Throw(p, j) PROVE QueueInv'
  <2>1. j \in queue /\ j \in Job /\ j.score <= now
    BY DEF PassesSound, BatchesDue, QueueTypeOK
  <2>2. Attempt(p, j) /\ thrown' \subseteq Job /\ faults' \in Nat
    BY <1>5, <2>1 DEF Process, Throw, QueueTypeOK
  <2>3. QueueTypeOK' BY <2>1, <2>2 DEF Attempt, QueueTypeOK, requestVars
  <2>4. PassesSound' BY <2>2 DEF Attempt, PassesSound, OnePassAtATime, QueueTypeOK
  <2>5. AttemptedInOrder'
    BY <2>2 DEF Attempt, First, AttemptedInOrder, BatchesDue
  <2>6. (RequestsRecorded /\ RecordedBeforeQueued /\ BatchesDue /\ AttemptedDue)'
    BY <2>1, <2>2 DEF Attempt, RequestsRecorded, RecordedBeforeQueued, BatchesDue, AttemptedDue,
                requestVars
  <2> QED BY <2>3, <2>4, <2>5, <2>6
<1> QED BY <1>1, <1>2, <1>3, <1>4, <1>5

\* So do the passage of time and a crash.
LEMMA ElapsePreserves == QueueInv /\ Elapse => QueueInv'
<1> SUFFICES ASSUME QueueInv, Elapse PROVE QueueInv'
  OBVIOUS
<1> USE DEF QueueInv
<1>1. QueueTypeOK' BY DEF Elapse, QueueTypeOK, requestVars, passVars
<1>2. (BatchesDue /\ AttemptedDue)'
  <2>1. \A j \in Job : j.score <= now => j.score <= now'
    BY DEF Elapse, QueueTypeOK, Job
  <2> QED BY <2>1 DEF Elapse, BatchesDue, AttemptedDue, QueueTypeOK, passVars
<1>3. (RequestsRecorded /\ RecordedBeforeQueued /\ PassesSound /\ AttemptedInOrder)'
  BY DEF Elapse, RequestsRecorded, RecordedBeforeQueued, PassesSound, OnePassAtATime,
         AttemptedInOrder, requestVars, passVars
<1> QED BY <1>1, <1>2, <1>3

LEMMA CrashPreserves == QueueInv /\ Crash => QueueInv'
<1> SUFFICES ASSUME QueueInv, Crash PROVE QueueInv'
  OBVIOUS
<1> USE DEF QueueInv
<1>1. QueueTypeOK'
  <2>1. {} \in SUBSET Job /\ faults + 1 \in Nat BY DEF QueueTypeOK
  <2>2. batch' \in [Passes -> SUBSET Job] /\ current' \in [Passes -> Job \cup {None}]
    BY <2>1 DEF Crash
  <2>3. /\ rpc' \in [Requests -> {"idle", "find", "create", "enqueue"}]
        /\ rload' \in [Requests -> Deliveries \cup {None}]
        /\ ppc' \in [Passes -> {"idle", "fetch", "process", "remove"}]
    BY DEF Crash
  <2> QED BY <2>1, <2>2, <2>3 DEF Crash, QueueTypeOK
<1>2. (RequestsRecorded /\ PassesSound /\ BatchesDue)'
  BY DEF Crash, RequestsRecorded, PassesSound, OnePassAtATime, BatchesDue
<1>3. (RecordedBeforeQueued /\ AttemptedDue /\ AttemptedInOrder)'
  BY DEF Crash, RecordedBeforeQueued, AttemptedDue, AttemptedInOrder
<1> QED BY <1>1, <1>2, <1>3

\* A step that leaves the queue's variables alone preserves it.
LEMMA StutterPreserves == QueueInv /\ UNCHANGED queueVars => QueueInv'
<1> SUFFICES ASSUME QueueInv, UNCHANGED queueVars PROVE QueueInv'
  OBVIOUS
<1>1. QueueTypeOK' BY DEF QueueInv, queueVars, QueueTypeOK
<1>2. (RequestsRecorded /\ RecordedBeforeQueued)'
  BY DEF QueueInv, queueVars, RequestsRecorded, RecordedBeforeQueued
<1>3. (PassesSound /\ BatchesDue /\ AttemptedDue /\ AttemptedInOrder)'
  BY DEF QueueInv, queueVars, PassesSound, OnePassAtATime, BatchesDue, AttemptedDue,
         AttemptedInOrder
<1> QED BY <1>1, <1>2, <1>3 DEF QueueInv

LEMMA QueueInvStep == QueueInv /\ [QueueNext]_queueVars => QueueInv'
<1> SUFFICES ASSUME QueueInv, [QueueNext]_queueVars PROVE QueueInv'
  OBVIOUS
<1>1. ASSUME NEW r \in Requests, RequestStep(r, Deliveries) PROVE QueueInv'
  BY <1>1, RequestPreserves
<1>2. ASSUME NEW p \in Passes,
             \/ Tick(p) \/ Fetch(p) \/ Remove(p) \/ PassFails(p)
             \/ \E j \in batch[p] : Process(p, j) \/ Throw(p, j)
      PROVE QueueInv'
  BY <1>2, PassPreserves
<1>3. CASE Elapse BY <1>3, ElapsePreserves
<1>4. CASE Crash BY <1>4, CrashPreserves
<1>5. CASE UNCHANGED queueVars BY <1>5, StutterPreserves
<1> QED BY <1>1, <1>2, <1>3, <1>4, <1>5 DEF QueueNext

\* The conjunction is an invariant of the queue on its own.
THEOREM QueueInvariant == QueueSafety => []QueueInv
<1> QED BY QueueInvInit, QueueInvStep, PTL DEF QueueSafety

\* Every variable of the queue keeps its type.
THEOREM QueueTyped == QueueSafety => []QueueTypeOK
<1>1. QueueInv => QueueTypeOK BY DEF QueueInv
<1> QED BY <1>1, QueueInvariant, PTL

\* No job is ahead of the record of its event.
THEOREM QueueRecorded == QueueSafety => []RecordedBeforeQueued
<1>1. QueueInv => RecordedBeforeQueued BY DEF QueueInv
<1> QED BY <1>1, QueueInvariant, PTL

\* The interval timer never runs two passes together.
THEOREM QueueExclusive == QueueSafety => []OnePassAtATime
<1>1. QueueInv => OnePassAtATime BY DEF QueueInv, PassesSound
<1> QED BY <1>1, QueueInvariant, PTL

\* First attempts follow the order of arrival.
THEOREM QueueOrdered == QueueSafety => []AttemptedInOrder
<1>1. QueueInv => AttemptedInOrder BY DEF QueueInv
<1> QED BY <1>1, QueueInvariant, PTL

(*********************************************************************************)
(* Deposits through Paystack: no deposit is ever credited, FAILED means a reported *)
(* failure, and the queue keeps the safety part of its promise.                  *)
(*********************************************************************************)

\* Every step of the deposit system is a step of the queue or leaves it alone.
LEMMA NextIsQueueStep == [Next]_vars => [QueueNext]_queueVars
<1> SUFFICES ASSUME [Next]_vars PROVE [QueueNext]_queueVars
  OBVIOUS
<1>1. ASSUME NEW q \in Requests, RequestStep(q, Deliverable) PROVE QueueNext
  BY <1>1 DEF QueueNext, RequestStep, Deliverable
<1>2. ASSUME NEW p \in Passes,
             PassStep(p) \/ PassFails(p) \/ \E j \in batch[p] : HandlerThrows(p, j)
      PROVE  QueueNext
  BY <1>2 DEF QueueNext, PassStep, ProcessAndHandle, HandlerThrows
<1>3. ASSUME NEW r \in Refs, InitiateDeposit(r) \/ Verify(r) PROVE UNCHANGED queueVars
  BY <1>3 DEF InitiateDeposit, Verify
<1>4. ASSUME NEW e \in Deliveries, Charge(e) PROVE UNCHANGED queueVars
  BY <1>4 DEF Charge
<1> QED BY <1>1, <1>2, <1>3, <1>4 DEF Next, QueueNext, vars

LEMMA FiatQueueInv == Safety => []QueueInv
<1>1. Init => QueueInv BY QueueInvInit DEF Init
<1>2. QueueInv /\ [Next]_vars => QueueInv' BY NextIsQueueStep, QueueInvStep
<1> QED BY <1>1, <1>2, PTL DEF Safety

(*********************************** The ledger ***********************************)

LedgerTypeOK ==
  /\ status \in [Refs -> Statuses]
  /\ credits \in [Refs -> Nat]
  /\ emitted \subseteq Deliveries

\* What travels through requests and the queue about a reference was emitted.
TravelsEmitted ==
  /\ \A q \in Requests :
       rpc[q] # "idle" /\ rload[q].ref \in Refs => rload[q] \in emitted
  /\ \A j \in queue \cup attempted : j.payload.ref \in Refs => j.payload \in emitted

\* A charge is of a deposit whose row is there.
EmittedDeclared == \A e \in emitted : e.ref \in Refs /\ status[e.ref] # "NONE"

\* What the handlers do to a deposit, whatever is delivered and however often: none is
\* ever credited or settled.
NeverCredited == \A r \in Refs : credits[r] = 0 /\ status[r] # "SUCCESS"

LedgerInv ==
  /\ LedgerTypeOK
  /\ TravelsEmitted
  /\ EmittedDeclared
  /\ NeverCredited
  /\ FailedOnlyIfReported
  /\ PendingOnlyIfThrown

LEMMA LedgerInvInit == Init => LedgerInv
<1> SUFFICES ASSUME Init PROVE LedgerInv
  OBVIOUS
<1>1. LedgerTypeOK BY DEF Init, LedgerTypeOK, Statuses
<1>2. TravelsEmitted /\ EmittedDeclared BY DEF Init, QueueInit, TravelsEmitted, EmittedDeclared
<1>3. NeverCredited /\ FailedOnlyIfReported /\ PendingOnlyIfThrown
  BY DEF Init, QueueInit, NeverCredited, FailedOnlyIfReported, PendingOnlyIfThrown
<1> QED BY <1>1, <1>2, <1>3 DEF LedgerInv

\* A verdict of Paystack's verify endpoint is never taken for a success.
LEMMA NeverVerified == ASSUME NEW r PROVE ~PaystackVerified(Verdict(r))
  BY DEF PaystackVerified, Verdict

\* The handler of a queued event changes a row at most from PENDING to FAILED, and
\* only for a failed charge.
LEMMA HandleEffect ==
  ASSUME QueueInv, LedgerInv, NEW j \in queue, Handle(j.payload)
  PROVE  /\ credits' = credits
         /\ \/ /\ status' = status
               /\ \A r \in Refs : Reports(j, r, "charge.failed") => status[r] # "PENDING"
            \/ /\ j.payload.ref \in Refs /\ j.payload.event = "charge.failed"
               /\ status' = [status EXCEPT ![j.payload.ref] = "FAILED"]
<1> DEFINE e == j.payload
<1>1. CASE e.type = "paystack" /\ e.event = "charge.success"
  <2>1. HandleSuccess(e.ref) BY <1>1 DEF Handle
  <2>2. e.ref \in Refs => AlreadyProcessed(e.ref)
    BY <1>1, RefsAssumption
       DEF QueueInv, RecordedBeforeQueued, Recordable, AlreadyProcessed
  <2>3. status' = status /\ credits' = credits BY <2>1, <2>2 DEF HandleSuccess, IsPending
  <2> QED BY <1>1, <2>3 DEF Reports
<1>2. CASE e.type = "paystack" /\ e.event = "charge.failed"
  BY <1>2 DEF Handle, HandleFailed, IsPending, Reports
<1>3. CASE ~(e.type = "paystack" /\ e.event \in {"charge.success", "charge.failed"})
  BY <1>3 DEF Handle, Reports
<1> QED BY <1>1, <1>2, <1>3

\* A job's attempt, with or without an exception, keeps the ledger.
LEMMA AttemptKeepsLedger ==
  ASSUME QueueInv, LedgerInv, NEW p \in Passes, NEW j \in batch[p],
         ProcessAndHandle(p, j) \/ HandlerThrows(p, j)
  PROVE  LedgerInv'
<1>1. j \in queue BY DEF QueueInv, PassesSound
<1>2. /\ emitted' = emitted /\ queue' = queue /\ rpc' = rpc /\ rload' = rload
      /\ attempted' = attempted \cup {j} /\ thrown \subseteq thrown'
  BY DEF ProcessAndHandle, HandlerThrows, Process, Throw, Attempt, requestVars
<1>3. \/ Handle(j.payload)
      \/ status' = status /\ credits' = credits /\ j \in thrown'
  BY DEF ProcessAndHandle, HandlerThrows, Throw
<1>4. /\ credits' = credits
      /\ \/ /\ status' = status
            /\ \A r \in Refs : Reports(j, r, "charge.failed") /\ status[r] = "PENDING" => j \in thrown'
         \/ /\ j.payload.ref \in Refs /\ j.payload.event = "charge.failed"
            /\ status' = [status EXCEPT ![j.payload.ref] = "FAILED"]
  BY <1>1, <1>3, HandleEffect
<1>5. j.payload.ref \in Refs => j.payload \in emitted
  BY <1>1 DEF LedgerInv, TravelsEmitted
<1>6. LedgerTypeOK' BY <1>2, <1>4 DEF LedgerInv, LedgerTypeOK, Statuses
<1>7. TravelsEmitted' BY <1>2, <1>5 DEF LedgerInv, TravelsEmitted
<1>8. (EmittedDeclared /\ NeverCredited)'
  BY <1>2, <1>4 DEF LedgerInv, LedgerTypeOK, EmittedDeclared, NeverCredited
<1>9. FailedOnlyIfReported'
  BY <1>2, <1>4, <1>5 DEF LedgerInv, LedgerTypeOK, FailedOnlyIfReported
<1>10. PendingOnlyIfThrown'
  BY <1>2, <1>4 DEF LedgerInv, LedgerTypeOK, PendingOnlyIfThrown, Reports
<1> QED BY <1>6, <1>7, <1>8, <1>9, <1>10 DEF LedgerInv

\* A step that leaves the ledger, and adds no job nor attempt, keeps it.
LEMMA LedgerKept ==
  ASSUME LedgerInv, UNCHANGED depositVars, queue' \subseteq queue, attempted' = attempted,
         thrown' = thrown,
         \A q \in Requests : rpc'[q] # "idle" => rpc[q] # "idle" /\ rload'[q] = rload[q]
  PROVE  LedgerInv'
<1>1. LedgerTypeOK' /\ EmittedDeclared' /\ NeverCredited' /\ FailedOnlyIfReported'
  BY DEF depositVars, LedgerInv, LedgerTypeOK, EmittedDeclared, NeverCredited, FailedOnlyIfReported
<1>2. TravelsEmitted' BY DEF depositVars, LedgerInv, TravelsEmitted
<1>3. PendingOnlyIfThrown' BY DEF depositVars, LedgerInv, PendingOnlyIfThrown, Reports
<1> QED BY <1>1, <1>2, <1>3 DEF LedgerInv

LEMMA LedgerInvStep == QueueInv /\ LedgerInv /\ [Next]_vars => LedgerInv'
<1> SUFFICES ASSUME QueueInv, LedgerInv, [Next]_vars PROVE LedgerInv'
  OBVIOUS
<1>1. ASSUME NEW r \in Refs, InitiateDeposit(r) PROVE LedgerInv'
  <2>1. (LedgerTypeOK /\ TravelsEmitted /\ EmittedDeclared /\ NeverCredited /\ FailedOnlyIfReported)'
    BY <1>1 DEF InitiateDeposit, LedgerInv, LedgerTypeOK, Statuses, TravelsEmitted, EmittedDeclared,
                NeverCredited, FailedOnlyIfReported, queueVars
  <2>2. \A j \in attempted : ~Reports(j, r, "charge.failed")
    BY <1>1 DEF InitiateDeposit, LedgerInv, TravelsEmitted, EmittedDeclared, Reports
  <2>3. PendingOnlyIfThrown'
    BY <1>1, <2>2 DEF InitiateDeposit, LedgerInv, LedgerTypeOK, PendingOnlyIfThrown, Reports, queueVars
  <2> QED BY <2>1, <2>3 DEF LedgerInv
<1>2. ASSUME NEW r \in Refs, Verify(r) PROVE LedgerInv'
  <2>1. UNCHANGED <<queueVars, depositVars>> BY <1>2, NeverVerified DEF Verify, depositVars
  <2> QED BY <2>1, LedgerKept DEF queueVars
<1>3. ASSUME NEW e \in Deliveries, Charge(e) PROVE LedgerInv'
  <2>1. LedgerTypeOK' BY <1>3 DEF Charge, LedgerInv, LedgerTypeOK
  <2>2. TravelsEmitted' /\ EmittedDeclared'
    BY <1>3 DEF Charge, LedgerInv, TravelsEmitted, EmittedDeclared, queueVars
  <2>3. (NeverCredited /\ FailedOnlyIfReported)'
    BY <1>3 DEF Charge, LedgerInv, NeverCredited, FailedOnlyIfReported
  <2>4. PendingOnlyIfThrown'
    BY <1>3 DEF Charge, LedgerInv, PendingOnlyIfThrown, Reports, queueVars
  <2> QED BY <2>1, <2>2, <2>3, <2>4 DEF LedgerInv
<1>4. ASSUME NEW q \in Requests, RequestStep(q, Deliverable), UNCHANGED depositVars
      PROVE LedgerInv'
  <2>0. attempted' = attempted /\ thrown' = thrown
    BY <1>4 DEF RequestStep, Receive, FindResponse, CreateResponse, AddToQueue, RequestFails
  <2>1. (LedgerTypeOK /\ EmittedDeclared /\ NeverCredited /\ FailedOnlyIfReported)'
    BY <1>4 DEF depositVars, LedgerInv, LedgerTypeOK, EmittedDeclared, NeverCredited,
                FailedOnlyIfReported
  <2>2. TravelsEmitted'
    <3> USE DEF LedgerInv, TravelsEmitted, QueueInv, QueueTypeOK
    <3>1. ASSUME NEW e \in Deliverable, Receive(q, e) PROVE TravelsEmitted'
      BY <1>4, <3>1 DEF Receive, Deliverable, depositVars
    <3>2. CASE FindResponse(q) BY <1>4, <3>2 DEF FindResponse, Goto, depositVars
    <3>3. CASE CreateResponse(q)
      BY <1>4, <3>3 DEF CreateResponse, Goto, Leave, depositVars
    <3>4. CASE AddToQueue(q) BY <1>4, <3>4 DEF AddToQueue, Leave, depositVars
    <3>5. CASE RequestFails(q) BY <1>4, <3>5 DEF RequestFails, Leave, depositVars
    <3> QED BY <1>4, <3>1, <3>2, <3>3, <3>4, <3>5 DEF RequestStep
  <2>3. PendingOnlyIfThrown' BY <1>4, <2>0 DEF depositVars, LedgerInv, PendingOnlyIfThrown, Reports
  <2> QED BY <2>1, <2>2, <2>3 DEF LedgerInv
<1>5. ASSUME NEW p \in Passes, NEW j \in batch[p], ProcessAndHandle(p, j) \/ HandlerThrows(p, j)
      PROVE  LedgerInv'
  BY <1>5, AttemptKeepsLedger
<1>6. ASSUME NEW p \in Passes, Tick(p) \/ Fetch(p) \/ Remove(p) \/ PassFails(p),
             UNCHANGED depositVars
      PROVE LedgerInv'
  <2>1. /\ queue' \subseteq queue /\ rpc' = rpc /\ rload' = rload
        /\ attempted' = attempted /\ thrown' = thrown
    BY <1>6 DEF Tick, Fetch, Remove, PassFails, requestVars
  <2> QED BY <1>6, <2>1, LedgerKept
<1>7. ASSUME Elapse \/ Crash \/ UNCHANGED queueVars, UNCHANGED depositVars PROVE LedgerInv'
  <2>1. /\ queue' = queue /\ attempted' = attempted /\ thrown' = thrown
        /\ \A q \in Requests : rpc'[q] # "idle" => rpc'[q] = rpc[q] /\ rload'[q] = rload[q]
    BY <1>7 DEF Elapse, Crash, requestVars, queueVars
  <2> QED BY <1>7, <2>1, LedgerKept
<1> QED BY <1>1, <1>2, <1>3, <1>4, <1>5, <1>6, <1>7 DEF Next, PassStep, vars

LEMMA FiatLedgerInv == Safety => []LedgerInv
  BY LedgerInvInit, LedgerInvStep, FiatQueueInv, PTL DEF Safety

\* How far FundedByPaystack is from true, for every number of deposits and deliveries:
\* no deposit is credited or settled, for the record is always ahead of the handler that
\* takes it for a duplicate, and the public endpoint looks for a field that is not there.
THEOREM FiatNeverCredited == Safety => []NeverCredited
<1>1. LedgerInv => NeverCredited BY DEF LedgerInv
<1> QED BY <1>1, FiatLedgerInv, PTL

\* A FAILED deposit had a charge that Paystack reported as failed.
THEOREM FiatFailedReported == Safety => []FailedOnlyIfReported
<1>1. LedgerInv => FailedOnlyIfReported BY DEF LedgerInv
<1> QED BY <1>1, FiatLedgerInv, PTL

\* The handler of a failed charge leaves its deposit PENDING only when it threw.
THEOREM FiatPendingOnlyIfThrown == Safety => []PendingOnlyIfThrown
<1>1. LedgerInv => PendingOnlyIfThrown BY DEF LedgerInv
<1> QED BY <1>1, FiatLedgerInv, PTL

\* Every variable keeps its type.
THEOREM FiatTyped == Safety => []DepositTypeOK
<1>1. QueueInv /\ LedgerInv => DepositTypeOK
  BY DEF QueueInv, LedgerInv, LedgerTypeOK, DepositTypeOK
<1> QED BY <1>1, FiatLedgerInv, FiatQueueInv, PTL

(********************************* The queue's promise *********************************)

\* Jobs are told apart by their arrival number.
NumbersInv ==
  /\ nextId <= MaxJobs
  /\ \A j \in queue : j.id < nextId
  /\ \A j, k \in queue : j.id = k.id => j = k

LEMMA NumbersInvStep == QueueInv /\ NumbersInv /\ [QueueNext]_queueVars => NumbersInv'
<1> SUFFICES ASSUME QueueInv, NumbersInv, [QueueNext]_queueVars PROVE NumbersInv'
  OBVIOUS
<1>1. ASSUME NEW r \in Requests, AddToQueue(r) PROVE NumbersInv'
  <2>1. nextId \in Nat /\ \A j \in queue : j.id \in Nat
    BY DEF QueueInv, QueueTypeOK, Job
  <2> QED BY <1>1, <2>1, BoundsAssumption DEF AddToQueue, NumbersInv
<1>2. CASE queue' \subseteq queue /\ nextId' = nextId BY <1>2 DEF NumbersInv
<1>3. ASSUME NEW r \in Requests, RequestStep(r, Deliveries), ~AddToQueue(r)
      PROVE queue' \subseteq queue /\ nextId' = nextId
  BY <1>3 DEF RequestStep, Receive, FindResponse, CreateResponse, RequestFails
<1>4. ASSUME NEW p \in Passes,
             \/ Tick(p) \/ Fetch(p) \/ Remove(p) \/ PassFails(p)
             \/ \E j \in batch[p] : Process(p, j) \/ Throw(p, j)
      PROVE queue' \subseteq queue /\ nextId' = nextId
  BY <1>4 DEF Tick, Fetch, Remove, PassFails, Process, Throw, Attempt
<1>5. ASSUME Elapse \/ Crash \/ UNCHANGED queueVars
      PROVE queue' \subseteq queue /\ nextId' = nextId
  BY <1>5 DEF Elapse, Crash, queueVars
<1> QED BY <1>1, <1>2, <1>3, <1>4, <1>5 DEF QueueNext

\* Each step of the queue is, job by job, a step of the promise or nothing.
LEMMA PromiseStep ==
  QueueInv /\ NumbersInv /\ [QueueNext]_queueVars => [Promise!Next]_Promise!vars
<1> SUFFICES ASSUME QueueInv, NumbersInv, [QueueNext]_queueVars
             PROVE  [Promise!Next]_Promise!vars
  OBVIOUS
<1> USE DEF Promise!Next, Promise!vars, Accepted, Ids
<1>1. ASSUME NEW r \in Requests, AddToQueue(r) PROVE Promise!Next
  <2> DEFINE new == [id |-> nextId, score |-> now + Delay, payload |-> rload[r]]
  <2>1. /\ nextId \in 0..MaxJobs /\ nextId < MaxJobs /\ nextId' = nextId + 1
        /\ queue' = queue \cup {new} /\ attempted' = attempted
    BY <1>1, BoundsAssumption DEF AddToQueue, QueueInv, QueueTypeOK
  <2>2. Accepted' = Accepted \cup {nextId} /\ nextId \notin Accepted
    <3>1. nextId \in Nat /\ MaxJobs \in Nat BY <2>1, BoundsAssumption
    <3>2. \A n \in 0..MaxJobs : n < nextId' <=> n < nextId \/ n = nextId BY <2>1, <3>1
    <3>3. Accepted' = {n \in 0..MaxJobs : n < nextId'} OBVIOUS
    <3> QED BY <2>1, <3>2, <3>3, <3>1
  <2>3. Ids(queue)' = Ids(queue) \cup {nextId}
    <3>1. new.id = nextId OBVIOUS
    <3> HIDE DEF new
    <3> QED BY <2>1, <3>1
  <2>4. (Accepted \ Ids(queue))' = Accepted \ Ids(queue) BY <2>2, <2>3
  <2>5. Ids(attempted)' = Ids(attempted) BY <2>1
  <2>6. PICK n \in 0..MaxJobs : n = nextId BY <2>1
  <2>7. Promise!Accept(n)
    <3> HIDE DEF Accepted, Ids
    <3> QED BY <2>2, <2>4, <2>5, <2>6 DEF Promise!Accept
  <2> QED BY <2>7
<1>2. ASSUME NEW p \in Passes, NEW j \in batch[p], Process(p, j) \/ Throw(p, j)
      PROVE  Promise!Next
  <2>0. Attempt(p, j) BY <1>2 DEF Process, Throw
  <2>1. j \in queue /\ j \in Job BY DEF QueueInv, PassesSound, QueueTypeOK
  <2>2. j.id \in 0..MaxJobs /\ j.id < nextId
    BY <2>1, BoundsAssumption DEF NumbersInv, QueueInv, QueueTypeOK, Job
  <2>3. Accepted' = Accepted /\ (Accepted \ Ids(queue))' = Accepted \ Ids(queue)
    BY <2>0 DEF Attempt
  <2>4. Ids(attempted)' = Ids(attempted) \cup {j.id} BY <2>0 DEF Attempt
  <2>5. j.id \in Accepted \ (Accepted \ Ids(queue)) BY <2>1, <2>2
  <2>6. Promise!Attempt(j.id) BY <2>3, <2>4, <2>5 DEF Promise!Attempt
  <2> QED BY <2>2, <2>6
<1>3. ASSUME NEW p \in Passes, ppc[p] = "remove", UNCHANGED <<nextId, attempted>>,
             queue' = queue \ {current[p]}
      PROVE  Promise!Next
  <2> DEFINE c == current[p]
  <2>1. c \in queue /\ c \in attempted /\ c \in Job
    BY <1>3 DEF QueueInv, PassesSound, QueueTypeOK
  <2>2. c.id \in 0..MaxJobs /\ c.id < nextId
    BY <2>1, BoundsAssumption DEF NumbersInv, QueueInv, QueueTypeOK, Job
  <2>3. Accepted' = Accepted /\ Ids(attempted)' = Ids(attempted) /\ queue' = queue \ {c}
    BY <1>3
  <2>4. Ids(queue)' = Ids(queue) \ {c.id} BY <2>1, <2>3 DEF NumbersInv
  <2>5. (Accepted \ Ids(queue))' = (Accepted \ Ids(queue)) \cup {c.id}
    BY <2>2, <2>3, <2>4
  <2>6. c.id \in Ids(attempted) \ (Accepted \ Ids(queue)) BY <2>1
  <2>7. PICK n \in 0..MaxJobs : n = c.id BY <2>2
  <2>8. Promise!Settle(n)
    <3> HIDE DEF Accepted, Ids
    <3> QED BY <2>3, <2>5, <2>6, <2>7 DEF Promise!Settle
  <2> QED BY <2>8
<1>4. CASE UNCHANGED <<queue, nextId, attempted>>
  BY <1>4
<1>5. ASSUME NEW r \in Requests, RequestStep(r, Deliveries), ~AddToQueue(r)
      PROVE UNCHANGED <<queue, nextId, attempted>>
  BY <1>5 DEF RequestStep, Receive, FindResponse, CreateResponse, RequestFails
<1>6. ASSUME NEW p \in Passes, Tick(p) \/ Fetch(p) \/ Remove(p) \/ PassFails(p)
      PROVE  \/ UNCHANGED <<queue, nextId, attempted>>
             \/ ppc[p] = "remove" /\ UNCHANGED <<nextId, attempted>> /\ queue' = queue \ {current[p]}
  BY <1>6 DEF Tick, Fetch, Remove, PassFails
<1>7. ASSUME Elapse \/ Crash \/ UNCHANGED queueVars PROVE UNCHANGED <<queue, nextId, attempted>>
  BY <1>7 DEF Elapse, Crash, queueVars
<1> QED BY <1>1, <1>2, <1>3, <1>4, <1>5, <1>6, <1>7 DEF QueueNext

\* The queue implements the safety part of Inbox: a job is forgotten only after an
\* attempt, through crashes and failed passes (the liveness part is model-checked).
THEOREM QueueImplementsInbox == Safety => Promise!Safety
<1>1. Init => Promise!Init
  <2> SUFFICES ASSUME Init PROVE Promise!Init
    OBVIOUS
  <2>1. Accepted = {} /\ Ids(attempted) = {}
    BY BoundsAssumption DEF Init, QueueInit, Accepted, Ids
  <2> QED BY <2>1 DEF Promise!Init
<1>2. Init => NumbersInv BY BoundsAssumption DEF Init, QueueInit, NumbersInv
<1>3. QueueInv /\ NumbersInv /\ [Next]_vars => NumbersInv'
  BY NextIsQueueStep, NumbersInvStep
<1>4. QueueInv /\ NumbersInv /\ [Next]_vars => [Promise!Next]_Promise!vars
  BY NextIsQueueStep, PromiseStep
<1> QED BY <1>1, <1>2, <1>3, <1>4, FiatQueueInv, PTL DEF Safety, Promise!Safety

(*********************************************************************************)
(* Withdrawals, for any number of them, any amounts, deposits and failures.  How  *)
(* the debit compares numbers plays no part: everything here rests on the first  *)
(* check and on the order of the steps.                                          *)
(*********************************************************************************)

\* Before its debit, where a request stands says what has happened to its withdrawal.
Stage(w) ==
  /\ pc[w] = "idle" => request[w] = NoRequest
  /\ pc[w] # "idle" => request[w] \in Request
  /\ pc[w] \in {"idle", "record", "send"} => payout[w] = "none"
  /\ pc[w] \in {"idle", "record"} => rowStatus[w] = "none"
  /\ pc[w] \in {"send", "wait", "debit", "decrement", "settle", "mark"} => rowStatus[w] = "PENDING"
  /\ pc[w] = "fail" => rowStatus[w] = "PENDING" \/ (rowStatus[w] = "SUCCESS" /\ w \in unsure)
  /\ pc[w] \in {"idle", "record", "send", "wait", "debit", "decrement", "mark"} => debits[w] = 0
  /\ pc[w] \in {"wait", "debit", "decrement", "settle"} => request[w].method = "CRYPTO"
  /\ pc[w] \in {"debit", "decrement", "settle"} => payout[w] = "paid"
  /\ pc[w] \in {"decrement", "settle"} => request[w].amount > 0
  /\ pc[w] = "settle" => debits[w] = 1

\* What is left of it afterwards.
Trace(w) ==
  /\ debits[w] > 0 =>
       debits[w] = 1 /\ payout[w] = "paid" /\ request[w].method = "CRYPTO"
  /\ rowStatus[w] = "SUCCESS" => request[w].method = "CRYPTO" /\ debits[w] = 1

Sound == WithdrawalTypeOK /\ \A w \in Withdrawals : Stage(w) /\ Trace(w)

\* A withdrawal that passed the first check is covered as long as no other is debited.
Covered ==
  \A w \in Withdrawals :
    /\ pc[w] \in {"record", "send", "wait", "debit", "decrement"}
    /\ \A v \in Withdrawals \ {w} : debits[v] = 0
    => request[w].amount <= balance

WithdrawalInv == Sound /\ OnlyDebitsTake /\ OverdraftTakesTwo /\ Covered

\* The references of our rows and of Paystack's transfers never agree.
LEMMA NothingFound == ASSUME NEW t PROVE Found(TransferReference(t)) = {}
<1>1. "WTH" # "TRF" OBVIOUS
<1>2. \A w \in Withdrawals : Reference(w) # TransferReference(t)
  <2> SUFFICES ASSUME NEW w \in Withdrawals, Reference(w) = TransferReference(t) PROVE FALSE
    OBVIOUS
  <2>1. Reference(w)[1] = TransferReference(t)[1] OBVIOUS
  <2> QED BY <1>1, <2>1 DEF Reference, TransferReference
<1> QED BY <1>2 DEF Found

LEMMA TransferChangesNothing ==
  ASSUME NEW t, HandleTransfer(t) PROVE UNCHANGED withdrawalVars
  BY NothingFound DEF HandleTransfer, withdrawalVars

LEMMA RequestFacts ==
  ASSUME NEW r \in Request
  PROVE  r.amount \in Int /\ r.method \in Methods
<1>1. r.amount \in Amounts /\ r.method \in Methods BY DEF Request
<1> QED BY <1>1, AmountsAssumption

(********************************* Sound is inductive *********************************)

LEMMA SoundInit == WithdrawalInit => Sound
  BY LimitsAssumption DEF WithdrawalInit, Sound, WithdrawalTypeOK, Stage, Trace, NoRequest

\* The steps of a request that only move it on, or write its row.
LEMMA SoundMove ==
  ASSUME Sound, NEW w \in Withdrawals,
         Record(w) \/ Send(w) \/ Wait(w) \/ CheckBalance(w) \/ Settle(w) \/ Remark(w) \/ Fail(w)
  PROVE  Sound'
<1> USE DEF Sound, WithdrawalTypeOK, Stage, Trace, Advance, Mark
<1>1. CASE Record(w) BY <1>1 DEF Record
<1>2. CASE Send(w)
  <2>1. request[w] \in Request BY <1>2 DEF Send
  <2>2. request[w].method \in Methods BY <2>1, RequestFacts
  <2> QED BY <1>2, <2>1, <2>2 DEF Send, Methods
<1>3. CASE Wait(w) BY <1>3 DEF Wait
<1>4. CASE CheckBalance(w)
  <2>1. request[w].amount \in Int BY <1>4, RequestFacts DEF CheckBalance
  <2>2. pc'[w] = "decrement" => request[w].amount > 0 BY <1>4, <2>1 DEF CheckBalance, Refused
  <2> QED BY <1>4, <2>2 DEF CheckBalance
<1>5. CASE Settle(w) BY <1>5 DEF Settle
<1>6. CASE Remark(w) BY <1>6 DEF Remark
<1>7. CASE Fail(w) BY <1>7 DEF Fail
<1> QED BY <1>1, <1>2, <1>3, <1>4, <1>5, <1>6, <1>7

\* A call that reports an error.
LEMMA SoundCallFails ==
  ASSUME Sound, NEW w \in Withdrawals, CallFails(w) PROVE Sound'
<1> USE DEF CallFails, Sound, WithdrawalTypeOK, Stage, Trace, Advance
<1>1. failures' \in 0..MaxFailures BY LimitsAssumption
<1>2. CASE UNCHANGED <<balance, rowStatus, payout, debits, unsure>> BY <1>1, <1>2
<1>3. CASE pc[w] \in {"record", "mark"} /\ HadEffect(w) BY <1>1, <1>3 DEF HadEffect, Mark
<1>4. CASE pc[w] = "send" /\ HadEffect(w) BY <1>1, <1>4 DEF HadEffect
<1>5. CASE pc[w] = "decrement" /\ HadEffect(w)
  <2>1. request[w] \in Request /\ debits[w] = 0 BY <1>5
  <2>2. balance' \in Int BY <1>5, <2>1, RequestFacts DEF HadEffect, Debit
  <2> QED BY <1>1, <1>5, <2>1, <2>2 DEF HadEffect, Debit
<1>6. CASE pc[w] = "settle" /\ HadEffect(w) BY <1>1, <1>6 DEF HadEffect, Mark
<1>7. CASE pc[w] = "fail" /\ HadEffect(w) BY <1>1, <1>7 DEF HadEffect, Mark
<1> QED BY <1>2, <1>3, <1>4, <1>5, <1>6, <1>7 DEF HadEffect

LEMMA SoundStep == Sound /\ [WithdrawalNext]_withdrawalVars => Sound'
<1> SUFFICES ASSUME Sound, [WithdrawalNext]_withdrawalVars PROVE Sound'
  OBVIOUS
<1>1. ASSUME NEW a \in Deposits, Deposit(a) PROVE Sound'
  <2>1. balance' \in Int /\ deposited' \in 0..MaxDeposit
    BY <1>1, AmountsAssumption, LimitsAssumption DEF Deposit, Sound, WithdrawalTypeOK
  <2> QED BY <1>1, <2>1 DEF Deposit, Sound, WithdrawalTypeOK, Stage, Trace
<1>2. ASSUME NEW w \in Withdrawals, NEW r \in Request, Submit(w, r) PROVE Sound'
  BY <1>2 DEF Submit, Sound, WithdrawalTypeOK, Stage, Trace, Advance, NoRequest
<1>3. ASSUME NEW w \in Withdrawals, WithdrawalStep(w) PROVE Sound'
  <2>1. CASE Decrement(w)
    <3>1. request[w] \in Request /\ debits[w] = 0 BY <2>1 DEF Decrement, Sound, Stage
    <3>2. balance' \in Int BY <2>1, <3>1, RequestFacts DEF Decrement, Debit, Sound, WithdrawalTypeOK
    <3> QED BY <2>1, <3>1, <3>2 DEF Decrement, Debit, Sound, WithdrawalTypeOK, Stage, Trace, Advance
  <2> QED BY <1>3, <2>1, SoundMove DEF WithdrawalStep
<1>4. ASSUME NEW w \in Withdrawals, NEW outcome \in {"paid", "returned"}, Complete(w, outcome)
      PROVE Sound'
  BY <1>4 DEF Complete, Sound, WithdrawalTypeOK, Stage, Trace
<1>5. ASSUME NEW w \in Withdrawals, CallFails(w) PROVE Sound'
  BY <1>5, SoundCallFails
<1>6. CASE ProcessDies
  <2>1. failures' \in 0..MaxFailures BY <1>6, LimitsAssumption DEF ProcessDies, Sound, WithdrawalTypeOK
  <2> QED BY <1>6, <2>1 DEF ProcessDies, Sound, WithdrawalTypeOK, Stage, Trace
<1>7. CASE UNCHANGED withdrawalVars BY <1>7 DEF withdrawalVars, Sound, WithdrawalTypeOK, Stage, Trace
<1> QED BY <1>1, <1>2, <1>3, <1>4, <1>5, <1>6, <1>7, TransferChangesNothing DEF WithdrawalNext

(******************************* The balance is accounted for *******************************)

\* The balance properties look at the balance, the debits, and how far requests are.
LEMMA SameBalance ==
  ASSUME WithdrawalInv, UNCHANGED <<balance, deposited, debits, request>>,
         \A w \in Withdrawals : pc'[w] \in {"record", "send", "wait", "debit", "decrement"} =>
           pc[w] \in {"record", "send", "wait", "debit", "decrement"}
  PROVE  (OnlyDebitsTake /\ OverdraftTakesTwo /\ Covered)'
  BY DEF WithdrawalInv, OnlyDebitsTake, OverdraftTakesTwo, Covered, Debited

\* A debit, whether or not its answer arrives, is a step that the balance properties
\* allow for.
LEMMA DebitAccounted ==
  ASSUME WithdrawalInv, NEW w \in Withdrawals, pc[w] = "decrement", Debit(w),
         UNCHANGED <<deposited, request>>,
         \A v \in Withdrawals : pc'[v] \in {"record", "send", "wait", "debit", "decrement"} =>
           pc[v] \in {"record", "send", "wait", "debit", "decrement"} /\ v # w
  PROVE  (OnlyDebitsTake /\ OverdraftTakesTwo /\ Covered)'
<1> USE DEF WithdrawalInv
<1>1. /\ request[w].amount \in Int /\ request[w].amount > 0
      /\ debits[w] = 0 /\ balance \in Int /\ deposited \in Int
  BY RequestFacts, LimitsAssumption DEF Sound, Stage, WithdrawalTypeOK
<1>2. /\ balance' = balance - request[w].amount
      /\ debits' = [debits EXCEPT ![w] = 1] /\ debits'[w] = 1
  BY <1>1 DEF Debit, Sound, WithdrawalTypeOK
<1>3. OnlyDebitsTake' BY <1>1, <1>2 DEF OnlyDebitsTake
<1>4. OverdraftTakesTwo'
  <2>1. CASE \A v \in Withdrawals \ {w} : debits[v] = 0
    <3>1. request[w].amount <= balance BY <2>1 DEF Covered
    <3> QED BY <1>1, <1>2, <3>1 DEF OverdraftTakesTwo
  <2>2. ASSUME NEW v \in Withdrawals \ {w}, debits[v] # 0 PROVE OverdraftTakesTwo'
    <3>1. debits'[v] > 0 /\ debits'[w] > 0
      BY <1>2, <2>2 DEF Sound, WithdrawalTypeOK
    <3> QED BY <3>1 DEF OverdraftTakesTwo, Debited
  <2> QED BY <2>1, <2>2
<1>5. Covered' BY <1>2 DEF Covered, Sound, WithdrawalTypeOK
<1> QED BY <1>3, <1>4, <1>5

LEMMA WithdrawalInvInit == WithdrawalInit => WithdrawalInv
<1> SUFFICES ASSUME WithdrawalInit PROVE WithdrawalInv
  OBVIOUS
<1>1. OnlyDebitsTake /\ OverdraftTakesTwo /\ Covered
  BY DEF WithdrawalInit, OnlyDebitsTake, OverdraftTakesTwo, Covered
<1> QED BY <1>1, SoundInit DEF WithdrawalInv

LEMMA WithdrawalInvStep == WithdrawalInv /\ [WithdrawalNext]_withdrawalVars => WithdrawalInv'
<1> SUFFICES ASSUME WithdrawalInv, [WithdrawalNext]_withdrawalVars PROVE (OnlyDebitsTake /\ OverdraftTakesTwo /\ Covered)'
  BY SoundStep DEF WithdrawalInv
<1> USE DEF WithdrawalInv
<1>1. ASSUME NEW a \in Deposits, Deposit(a) PROVE (OnlyDebitsTake /\ OverdraftTakesTwo /\ Covered)'
  <2>1. a \in Nat /\ balance \in Int /\ deposited \in Int
    BY AmountsAssumption, LimitsAssumption DEF Sound, WithdrawalTypeOK
  <2>2. OnlyDebitsTake' BY <1>1, <2>1 DEF Deposit, OnlyDebitsTake
  <2>3. OverdraftTakesTwo' BY <1>1, <2>1 DEF Deposit, OverdraftTakesTwo, Debited
  <2>4. Covered'
    <3> SUFFICES ASSUME NEW w \in Withdrawals,
                        pc[w] \in {"record", "send", "wait", "debit", "decrement"},
                        \A v \in Withdrawals \ {w} : debits[v] = 0
                 PROVE  request[w].amount <= balance + a
      BY <1>1 DEF Deposit, Covered
    <3>1. request[w].amount \in Int BY RequestFacts DEF Sound, Stage
    <3> QED BY <2>1, <3>1 DEF Covered
  <2> QED BY <2>2, <2>3, <2>4
<1>2. ASSUME NEW w \in Withdrawals, NEW r \in Request, Submit(w, r)
      PROVE (OnlyDebitsTake /\ OverdraftTakesTwo /\ Covered)'
  <2>1. OnlyDebitsTake' /\ OverdraftTakesTwo'
    BY <1>2 DEF Submit, OnlyDebitsTake, OverdraftTakesTwo, Debited
  <2>2. Covered' BY <1>2 DEF Submit, Affordable, Advance, Covered, Sound, WithdrawalTypeOK
  <2> QED BY <2>1, <2>2
<1>3. ASSUME NEW w \in Withdrawals, WithdrawalStep(w)
      PROVE (OnlyDebitsTake /\ OverdraftTakesTwo /\ Covered)'
  <2>1. CASE Decrement(w)
    <3>1. \A v \in Withdrawals : pc'[v] \in {"record", "send", "wait", "debit", "decrement"} =>
            pc[v] \in {"record", "send", "wait", "debit", "decrement"} /\ v # w
      BY <2>1 DEF Decrement, Advance, Sound, WithdrawalTypeOK
    <3> QED BY <2>1, <3>1, DebitAccounted DEF Decrement
  <2>2. CASE ~Decrement(w)
    <3>1. /\ UNCHANGED <<balance, deposited, debits, request>>
          /\ \A v \in Withdrawals : pc'[v] \in {"record", "send", "wait", "debit", "decrement"} =>
               pc[v] \in {"record", "send", "wait", "debit", "decrement"}
      BY <1>3, <2>2 DEF WithdrawalStep, Record, Send, Wait, CheckBalance, Settle, Remark, Fail,
                        Advance, Sound, WithdrawalTypeOK
    <3> QED BY <3>1, SameBalance
  <2> QED BY <2>1, <2>2
<1>4. ASSUME NEW w \in Withdrawals,
             (\E outcome \in {"paid", "returned"} : Complete(w, outcome)) \/ CallFails(w)
      PROVE (OnlyDebitsTake /\ OverdraftTakesTwo /\ Covered)'
  <2>1. /\ UNCHANGED <<deposited, request>>
        /\ \A v \in Withdrawals : pc'[v] \in {"record", "send", "wait", "debit", "decrement"} =>
             pc[v] \in {"record", "send", "wait", "debit", "decrement"}
    BY <1>4 DEF Complete, CallFails, Advance, Sound, WithdrawalTypeOK
  <2>2. \/ UNCHANGED <<balance, debits>>
        \/ CallFails(w) /\ pc[w] = "decrement" /\ Debit(w)
    BY <1>4 DEF Complete, CallFails, HadEffect
  <2>3. ASSUME CallFails(w), pc[w] = "decrement" PROVE pc'[w] = "fail"
    BY <2>3 DEF CallFails, Advance, Sound, WithdrawalTypeOK
  <2> QED BY <2>1, <2>2, <2>3, SameBalance, DebitAccounted
<1>5. CASE ProcessDies
  <2>1. /\ UNCHANGED <<balance, deposited, debits, request>>
        /\ \A v \in Withdrawals : pc'[v] \in {"record", "send", "wait", "debit", "decrement"} =>
             pc[v] \in {"record", "send", "wait", "debit", "decrement"}
    BY <1>5 DEF ProcessDies, Sound, WithdrawalTypeOK
  <2> QED BY <2>1, SameBalance
<1>6. CASE UNCHANGED withdrawalVars BY <1>6, SameBalance DEF withdrawalVars
<1> QED BY <1>1, <1>2, <1>3, <1>4, <1>5, <1>6, TransferChangesNothing DEF WithdrawalNext

LEMMA WithdrawalInvAlways == WithdrawalSafety => []WithdrawalInv
  BY WithdrawalInvInit, WithdrawalInvStep, PTL DEF WithdrawalSafety

(************************************ Theorems ************************************)

\* Every variable keeps its type.
THEOREM WithdrawalTyped == WithdrawalSafety => []WithdrawalTypeOK
<1>1. WithdrawalInv => WithdrawalTypeOK BY DEF WithdrawalInv, Sound
<1> QED BY <1>1, WithdrawalInvAlways, PTL

\* A debit implies a payout, and there is one.
THEOREM WithdrawalDebitFollowsPayout == WithdrawalSafety => []DebitFollowsPayout
<1>1. WithdrawalInv => DebitFollowsPayout BY DEF WithdrawalInv, Sound, Trace, DebitFollowsPayout
<1> QED BY <1>1, WithdrawalInvAlways, PTL

\* Withdrawals through Paystack are never debited.
THEOREM WithdrawalPaystackNeverDebited == WithdrawalSafety => []PaystackNeverDebited
<1>1. WithdrawalInv => PaystackNeverDebited
  <2> SUFFICES ASSUME WithdrawalInv, NEW w \in Withdrawals, request[w].method = "PAYSTACK"
               PROVE  debits[w] = 0 /\ rowStatus[w] # "SUCCESS"
    BY DEF PaystackNeverDebited
  <2>1. debits[w] \in Nat BY DEF WithdrawalInv, Sound, WithdrawalTypeOK
  <2> QED BY <2>1 DEF WithdrawalInv, Sound, Trace
<1> QED BY <1>1, WithdrawalInvAlways, PTL

\* An overdrawn wallet has two debited withdrawals.
THEOREM WithdrawalOverdraftTakesTwo == WithdrawalSafety => []OverdraftTakesTwo
<1>1. WithdrawalInv => OverdraftTakesTwo BY DEF WithdrawalInv
<1> QED BY <1>1, WithdrawalInvAlways, PTL

\* Nothing but a debit takes from the balance.
THEOREM WithdrawalOnlyDebitsTake == WithdrawalSafety => []OnlyDebitsTake
<1>1. WithdrawalInv => OnlyDebitsTake BY DEF WithdrawalInv
<1> QED BY <1>1, WithdrawalInvAlways, PTL

\* SUCCESS and FAILED are final, but for the catch block after a write of SUCCESS whose
\* answer was an error.
THEOREM WithdrawalDecidedForGood == WithdrawalSafety => DecidedForGood
<1> DEFINE Keeps(w) == rowStatus[w] \in {"SUCCESS", "FAILED"} =>
             \/ rowStatus'[w] = rowStatus[w]
             \/ w \in unsure /\ pc[w] = "fail" /\ rowStatus[w] = "SUCCESS" /\ rowStatus'[w] = "FAILED"
<1>1. WithdrawalInv /\ [WithdrawalNext]_withdrawalVars =>
        [\A w \in Withdrawals : Keeps(w)]_withdrawalVars
  <2> SUFFICES ASSUME WithdrawalInv, WithdrawalNext, NEW w \in Withdrawals PROVE Keeps(w)
    OBVIOUS
  <2>1. SUFFICES ASSUME rowStatus[w] \in {"SUCCESS", "FAILED"} PROVE Keeps(w)
    OBVIOUS
  <2>2. \/ pc[w] = "done"
        \/ pc[w] = "fail" /\ rowStatus[w] = "SUCCESS" /\ w \in unsure
    BY <2>1 DEF WithdrawalInv, Sound, Stage, WithdrawalTypeOK
  <2>3. rowStatus \in [Withdrawals -> {"none", "PENDING", "SUCCESS", "FAILED"}]
    BY DEF WithdrawalInv, Sound, WithdrawalTypeOK
  <2>4. ASSUME NEW v \in Withdrawals, WithdrawalStep(v) PROVE Keeps(w)
    <3>1. v = w => Fail(v)
      BY <2>2, <2>4 DEF WithdrawalStep, Record, Send, Wait, CheckBalance, Decrement, Settle, Remark
    <3>2. CASE Fail(v) BY <2>2, <2>3, <3>2 DEF Fail, Mark
    <3>3. CASE v # w
      BY <2>3, <2>4, <3>3 DEF WithdrawalStep, Record, Send, Wait, CheckBalance, Decrement,
                              Settle, Remark, Fail, Mark
    <3> QED BY <3>1, <3>2, <3>3
  <2>5. ASSUME NEW v \in Withdrawals, CallFails(v) PROVE Keeps(w)
    <3>1. CASE HadEffect(v) BY <2>2, <2>3, <2>5, <3>1 DEF CallFails, HadEffect, Mark
    <3> QED BY <2>5, <3>1 DEF CallFails
  <2>6. ASSUME NEW v \in Withdrawals, HandleTransfer(v) PROVE Keeps(w)
    BY <2>6, TransferChangesNothing DEF withdrawalVars
  <2> QED BY <2>4, <2>5, <2>6 DEF WithdrawalNext, Deposit, Submit, Complete, ProcessDies
<1> QED BY <1>1, WithdrawalInvAlways, PTL DEF WithdrawalSafety, DecidedForGood
===================================================================================
