------------------------------- MODULE WebhookQueue -------------------------------
(*********************************************************************************)
(* The webhook endpoints and the Redis queue between them and the handlers.      *)
(*                                                                               *)
(* A request for a Paystack event that carries a reference records the event     *)
(* (ProviderResponse, unique per reference) and then adds a job to a sorted set  *)
(* in Redis, due Delay ticks later; a crypto request only adds the job.  Every   *)
(* second a timer starts a pass over the due jobs, unless one is running         *)
(* (isProcessing, in memory).  A pass runs each job's handler, then removes the  *)
(* job whether or not the handler threw.  A crash forgets requests and passes;   *)
(* the database and Redis survive.                                               *)
(*********************************************************************************)
EXTENDS Naturals

CONSTANTS
  Requests,   \* slots for concurrent HTTP requests
  Passes,     \* slots for timer callbacks that may overlap
  Deliveries, \* the payloads a provider may deliver
  None,       \* no reference, or no payload
  Delay,      \* WEBHOOK_DELAY_MS, in ticks
  MaxJobs,    \* bound: jobs ever added to the queue
  MaxFaults   \* bound: crashes, Redis errors and handlers that throw

ASSUME DeliveriesAssumption ==
  \A e \in Deliveries : DOMAIN e = {"type", "event", "ref"}
ASSUME DelayAssumption == Delay \in Nat
ASSUME BoundsAssumption == MaxJobs \in Nat /\ MaxFaults \in Nat

VARIABLES
  recorded,     \* references with a PAYSTACK ProviderResponse row
  queue,        \* the sorted set webhook:queue
  nextId,       \* jobs added so far
  now,          \* the clock
  rpc, rload,   \* each request's control point and payload
  ppc, batch,   \* each pass's control point and the jobs it still has to handle
  current,      \* the job a pass has handled and not yet removed
  isProcessing, \* the in-memory flag
  attempted, thrown, \* history: jobs whose handler has run, and those for which it threw
  faults        \* faults so far

requestVars == <<rpc, rload>>
passVars == <<ppc, batch, current, isProcessing>>
queueVars ==
  <<recorded, queue, nextId, now, rpc, rload, ppc, batch, current,
    isProcessing, attempted, thrown, faults>>

Job == [id : Nat, score : Nat, payload : Deliveries]

\* The payload names a reference, so the Paystack endpoint records it.
Recordable(e) == e.type = "paystack" /\ e.ref # None

QueueInit ==
  /\ recorded = {} /\ queue = {} /\ attempted = {} /\ thrown = {}
  /\ nextId = 0 /\ now = 0 /\ faults = 0
  /\ rpc = [r \in Requests |-> "idle"]
  /\ rload = [r \in Requests |-> None]
  /\ ppc = [p \in Passes |-> "idle"]
  /\ batch = [p \in Passes |-> {}]
  /\ current = [p \in Passes |-> None]
  /\ isProcessing = FALSE

(*********************************** Requests ***********************************)

Goto(r, pc) == rpc' = [rpc EXCEPT ![r] = pc] /\ UNCHANGED rload
Leave(r) == rpc' = [rpc EXCEPT ![r] = "idle"] /\ rload' = [rload EXCEPT ![r] = None]

\* A request with a valid signature: Paystack's goes through the record first.
FirstStep(e) == IF Recordable(e) THEN "find" ELSE "enqueue"

Receive(r, e) ==
  /\ rpc[r] = "idle" /\ nextId < MaxJobs
  /\ rpc' = [rpc EXCEPT ![r] = FirstStep(e)]
  /\ rload' = [rload EXCEPT ![r] = e]
  /\ UNCHANGED <<recorded, queue, nextId, now, passVars, attempted, thrown, faults>>

\* Both lookups of the record; the outcome 'duplicate' is not looked at by the
\* controller, which adds the job all the same.
FindResponse(r) ==
  /\ rpc[r] = "find"
  /\ Goto(r, IF rload[r].ref \in recorded THEN "enqueue" ELSE "create")
  /\ UNCHANGED <<recorded, queue, nextId, now, passVars, attempted, thrown, faults>>

\* The insert: a concurrent request may have won, and the unique index refuses.
CreateResponse(r) ==
  /\ rpc[r] = "create"
  /\ IF rload[r].ref \in recorded THEN Leave(r) ELSE Goto(r, "enqueue")
  /\ recorded' = recorded \cup {rload[r].ref}
  /\ UNCHANGED <<queue, nextId, now, passVars, attempted, thrown, faults>>

AddToQueue(r) ==
  /\ rpc[r] = "enqueue" /\ nextId < MaxJobs
  /\ queue' = queue \cup {[id |-> nextId, score |-> now + Delay, payload |-> rload[r]]}
  /\ nextId' = nextId + 1
  /\ Leave(r)
  /\ UNCHANGED <<recorded, now, passVars, attempted, thrown, faults>>

\* A database or Redis call of the request fails, and the provider gets a 500.
RequestFails(r) ==
  /\ rpc[r] # "idle"
  /\ Leave(r)
  /\ UNCHANGED <<recorded, queue, nextId, now, passVars, attempted, thrown, faults>>

(************************************ Passes ************************************)

\* Variant: the timer callback does not look at the flag.
MayStartAlways == TRUE
MayStart == ~isProcessing

Tick(p) ==
  /\ ppc[p] = "idle" /\ MayStart
  /\ isProcessing' = TRUE
  /\ ppc' = [ppc EXCEPT ![p] = "fetch"]
  /\ UNCHANGED <<recorded, queue, nextId, now, requestVars, batch, current, attempted, thrown, faults>>

\* Variant: the flag is cleared only when the pass ends normally.
EndPassKeepsFlag(p) ==
  /\ ppc' = [ppc EXCEPT ![p] = "idle"]
  /\ batch' = [batch EXCEPT ![p] = {}]
  /\ UNCHANGED isProcessing
\* The end of a pass, however it is reached: the finally block.
EndPass(p) ==
  /\ ppc' = [ppc EXCEPT ![p] = "idle"]
  /\ batch' = [batch EXCEPT ![p] = {}]
  /\ isProcessing' = FALSE

\* Go on with the jobs in js, or end the pass when none is left.
Continue(p, js) ==
  IF js = {} THEN EndPass(p)
  ELSE /\ ppc' = [ppc EXCEPT ![p] = "process"]
       /\ batch' = [batch EXCEPT ![p] = js]
       /\ UNCHANGED isProcessing

Due == {j \in queue : j.score <= now}

Fetch(p) ==
  /\ ppc[p] = "fetch"
  /\ Continue(p, Due)
  /\ UNCHANGED <<recorded, queue, nextId, now, requestVars, current, attempted, thrown, faults>>

\* Variant: the batch is handled in any order.
FirstAny(js) == js
\* The batch is in score order; jobs with one score are in no order that depends
\* on their arrival, for a member of the set starts with a random id.
First(js) == {j \in js : \A k \in js : j.score <= k.score}

\* processJob.  The handlers' own effects are conjoined by the module that extends this
\* one.  A handler that throws, because a call of its own failed, is followed by the
\* removal of its job like one that returned.
Attempt(p, j) ==
  /\ ppc[p] = "process" /\ j \in First(batch[p])
  /\ attempted' = attempted \cup {j}
  /\ ppc' = [ppc EXCEPT ![p] = "remove"]
  /\ current' = [current EXCEPT ![p] = j]
  /\ UNCHANGED <<recorded, queue, nextId, now, requestVars, batch, isProcessing>>

Process(p, j) == Attempt(p, j) /\ UNCHANGED <<thrown, faults>>

Throw(p, j) ==
  /\ Attempt(p, j)
  /\ faults < MaxFaults /\ faults' = faults + 1
  /\ thrown' = thrown \cup {j}

Remove(p) ==
  /\ ppc[p] = "remove"
  /\ queue' = queue \ {current[p]}
  /\ current' = [current EXCEPT ![p] = None]
  /\ Continue(p, batch[p] \ {current[p]})
  /\ UNCHANGED <<recorded, nextId, now, requestVars, attempted, thrown, faults>>

\* Redis refuses the fetch, or both attempts to remove: the pass ends by the finally
\* block.  The job is still in the queue for the next pass, or the removal had its effect
\* before the error.
PassFails(p) ==
  /\ ppc[p] \in {"fetch", "remove"} /\ faults < MaxFaults
  /\ EndPass(p)
  /\ \/ UNCHANGED queue
     \/ ppc[p] = "remove" /\ queue' = queue \ {current[p]}
  /\ current' = [current EXCEPT ![p] = None]
  /\ faults' = faults + 1
  /\ UNCHANGED <<recorded, nextId, now, requestVars, attempted, thrown>>

(********************************* Time and crash *********************************)

\* Time matters only while some job is not yet due, which bounds the clock.
Elapse ==
  /\ \E j \in queue : j.score > now
  /\ now' = now + 1
  /\ UNCHANGED <<recorded, queue, nextId, requestVars, passVars, attempted, thrown, faults>>

\* The process stops, at any point, and starts again.
Crash ==
  /\ faults < MaxFaults
  /\ faults' = faults + 1
  /\ rpc' = [r \in Requests |-> "idle"] /\ rload' = [r \in Requests |-> None]
  /\ ppc' = [p \in Passes |-> "idle"] /\ batch' = [p \in Passes |-> {}]
  /\ current' = [p \in Passes |-> None]
  /\ isProcessing' = FALSE
  /\ UNCHANGED <<recorded, queue, nextId, now, attempted, thrown>>

\* The steps of a request, for one of the payloads es.
RequestStep(r, es) ==
  \/ \E e \in es : Receive(r, e)
  \/ FindResponse(r)
  \/ CreateResponse(r)
  \/ AddToQueue(r)
  \/ RequestFails(r)

QueueNext ==
  \/ \E r \in Requests : RequestStep(r, Deliveries)
  \/ \E p \in Passes :
       \/ Tick(p) \/ Fetch(p) \/ Remove(p) \/ PassFails(p)
       \/ \E j \in batch[p] : Process(p, j) \/ Throw(p, j)
  \/ Elapse
  \/ Crash

QueueSafety == QueueInit /\ [][QueueNext]_queueVars

(*********************************** Properties ***********************************)

QueueTypeOK ==
  /\ recorded \subseteq {e.ref : e \in Deliveries}
  /\ queue \subseteq Job /\ attempted \subseteq Job /\ thrown \subseteq Job
  /\ nextId \in Nat /\ now \in Nat /\ faults \in Nat
  /\ rpc \in [Requests -> {"idle", "find", "create", "enqueue"}]
  /\ rload \in [Requests -> Deliveries \cup {None}]
  /\ ppc \in [Passes -> {"idle", "fetch", "process", "remove"}]
  /\ batch \in [Passes -> SUBSET Job]
  /\ current \in [Passes -> Job \cup {None}]
  /\ isProcessing \in BOOLEAN

\* A job for a Paystack event with a reference is in the queue only when that
\* reference is recorded, whatever crashes and failures there were: no job is ahead
\* of its record.  Handlers that look the reference up therefore always find it.
RecordedBeforeQueued ==
  \A j \in queue : Recordable(j.payload) => j.payload.ref \in recorded

\* The timer fires every second however long a pass takes; no two passes are under
\* way together, so no two handlers run together.
OnePassAtATime ==
  \A p, q \in Passes : ppc[p] # "idle" /\ ppc[q] # "idle" => p = q

\* A job is first attempted only after every job due before it, still in the queue or
\* not, has been attempted, through crashes and aborted passes.
AttemptedInOrder ==
  \A j \in attempted : \A k \in queue \ attempted : j.score <= k.score
=================================================================================
