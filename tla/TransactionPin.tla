----------------------------- MODULE TransactionPin -----------------------------
(*********************************************************************************)
(* The transaction PIN of one user: set, changed, reset with a code sent by       *)
(* email, and asked for by every withdrawal (verifyUserPin).  The hash is in       *)
(* MySQL; the counter of wrong PINs and the reset code are keys of Redis with a    *)
(* time to live.  Every call is a step, and hashing takes long enough for other    *)
(* requests to run.  The user's email is verified and does not change.            *)
(*********************************************************************************)
EXTENDS Naturals, FiniteSets

CONSTANTS
  Pins,
  Codes,     \* random codes; none is drawn twice
  Requests,  \* slots for concurrent requests
  None,      \* no PIN or code
  Limit,     \* PIN_FAIL_LIMIT
  MaxFaults  \* bound: crashes and failed calls

ASSUME NamesAssumption == None \notin Pins /\ None \notin Codes
ASSUME FinitenessAssumption == IsFiniteSet(Requests)
ASSUME NumbersAssumption == Limit \in Nat \ {0} /\ MaxFaults \in Nat

VARIABLES
  pin,          \* user.pinHash, by the PIN it is of
  fails, timed, \* withdrawal:pin:fail: its value, 0 when absent; has it a time to live?
  code, recent, \* pin:reset: the code, and was it sent less than five minutes ago?
  drawn,        \* codes drawn so far
  pc, hand,     \* each request's control point and what it has in hand
  attempts,     \* history: wrong PINs given to withdrawals since the counter last expired
  stale,        \* history: requests that read the hash before its last change
  spent, raced, \* history: codes that were used, and those a resend had read by then
  faults

keyVars == <<fails, timed, code, recent, drawn>>
historyVars == <<attempts, stale, spent, raced>>
vars == <<pin, keyVars, pc, hand, historyVars, faults>>

Kinds == {"verify", "set", "change", "resend", "confirm"}
Points == {"idle", "check", "read", "compare", "count", "expire", "write",
           "generate", "store", "lookup", "delete"}

\* A request's PINs, the hash it read, and the code it was given or has chosen.
Hand == [kind : Kinds, given : Pins \cup {None}, new : Pins \cup {None},
         hash : Pins \cup {None}, code : Codes \cup {None}]
Ask(kind) == [kind |-> kind, given |-> None, new |-> None, hash |-> None, code |-> None]
Empty == Ask("verify")

Init ==
  /\ pin = None /\ fails = 0 /\ timed = FALSE
  /\ code = None /\ recent = FALSE /\ drawn = {}
  /\ pc = [r \in Requests |-> "idle"]
  /\ hand = [r \in Requests |-> Empty]
  /\ attempts = 0 /\ stale = {} /\ spent = {} /\ raced = {}
  /\ faults = 0

Goto(r, next) == pc' = [pc EXCEPT ![r] = next]
\* A request returns or throws.
End(r) == Goto(r, "idle") /\ hand' = [hand EXCEPT ![r] = Empty] /\ stale' = stale \ {r}

Begin(r, h, first) ==
  /\ pc[r] = "idle"
  /\ hand' = [hand EXCEPT ![r] = h]
  /\ Goto(r, first)
  /\ UNCHANGED <<pin, keyVars, historyVars, faults>>

StartVerify(r, p) == Begin(r, [Ask("verify") EXCEPT !.given = p], "check")
StartSet(r, p) == Begin(r, [Ask("set") EXCEPT !.new = p], "read")
StartChange(r, p, q) == Begin(r, [Ask("change") EXCEPT !.given = p, !.new = q], "read")
StartResend(r) == Begin(r, Ask("resend"), "generate")
StartConfirm(r, c, p) == Begin(r, [Ask("confirm") EXCEPT !.code = c, !.new = p], "lookup")

(******************************** The counted attempt ********************************)

\* Variant: one attempt more.
MayTryOnceMore == fails <= Limit
MayTry == fails < Limit

Check(r) ==
  /\ pc[r] = "check"
  /\ IF MayTry THEN Goto(r, "read") /\ UNCHANGED <<hand, stale>> ELSE End(r)
  /\ UNCHANGED <<pin, keyVars, attempts, spent, raced, faults>>

\* Of the three that read the hash, setPin goes on only without one.
Read(r) ==
  /\ pc[r] = "read"
  /\ IF (pin = None) = (hand[r].kind = "set")
     THEN /\ hand' = [hand EXCEPT ![r].hash = pin]
          /\ Goto(r, IF hand[r].kind = "set" THEN "write" ELSE "compare")
          /\ UNCHANGED stale
     ELSE End(r)
  /\ UNCHANGED <<pin, keyVars, attempts, spent, raced, faults>>

\* Variant: the result is not looked at.
MatchesAlways(r) == TRUE
Matches(r) == hand[r].given = hand[r].hash

\* argon.verify: a withdrawal goes on (Withdrawal) or its attempt is counted.  changePin
\* goes on or throws, and counts nothing.
Compare(r) ==
  /\ pc[r] = "compare"
  /\ \/ /\ Matches(r) /\ hand[r].kind = "change"
        /\ Goto(r, "write")
        /\ UNCHANGED <<hand, attempts, stale>>
     \/ /\ ~ Matches(r) /\ hand[r].kind = "verify"
        /\ attempts' = attempts + 1
        /\ Goto(r, "count")
        /\ UNCHANGED <<hand, stale>>
     \/ /\ Matches(r) <=> hand[r].kind = "verify"
        /\ End(r)
        /\ UNCHANGED attempts
  /\ UNCHANGED <<pin, keyVars, spent, raced, faults>>

\* INCR keeps the key's time to live, and makes a key without one.
Count(r) ==
  /\ pc[r] = "count"
  /\ fails' = fails + 1
  /\ Goto(r, "expire")
  /\ UNCHANGED <<pin, timed, code, recent, drawn, hand, historyVars, faults>>

\* Variant: only the first attempt starts the clock.
StartClockOnce == IF fails = 1 THEN TRUE ELSE timed
\* EXPIRE does nothing when the key is gone.
StartClock == fails > 0

Expire(r) ==
  /\ pc[r] = "expire"
  /\ timed' = StartClock
  /\ End(r)
  /\ UNCHANGED <<pin, fails, code, recent, drawn, attempts, spent, raced, faults>>

CounterExpires ==
  /\ timed
  /\ fails' = 0 /\ timed' = FALSE /\ attempts' = 0
  /\ UNCHANGED <<pin, code, recent, drawn, pc, hand, stale, spent, raced, faults>>

(*********************************** The new PIN ***********************************)

\* The new hash is made, and written whatever the hash is by now.
Write(r) ==
  /\ pc[r] = "write"
  /\ pin' = hand[r].new
  /\ Goto(r, "idle") /\ hand' = [hand EXCEPT ![r] = Empty]
  /\ stale' = {q \in Requests \ {r} : pc[q] \in {"compare", "write"}} \cup (stale \ {r})
  /\ UNCHANGED <<keyVars, attempts, spent, raced, faults>>

(*********************************** Reset by code ***********************************)

\* A code that was sent lately is not sent again; an older one is sent again as it is.
Generate(r) ==
  /\ pc[r] = "generate"
  /\ \/ code # None /\ recent /\ End(r) /\ UNCHANGED drawn
     \/ \E c \in Codes :
          /\ IF code = None THEN c \notin drawn ELSE c = code /\ ~ recent
          /\ hand' = [hand EXCEPT ![r].code = c]
          /\ drawn' = drawn \cup {c}
          /\ Goto(r, "store") /\ UNCHANGED stale
  /\ UNCHANGED <<pin, fails, timed, code, recent, attempts, spent, raced, faults>>

Store(r) ==
  /\ pc[r] = "store"
  /\ code' = hand[r].code /\ recent' = TRUE
  /\ End(r)
  /\ UNCHANGED <<pin, fails, timed, drawn, attempts, spent, raced, faults>>

\* Time passes for the code: five minutes, or its time to live.
CodeAges ==
  /\ code # None /\ recent
  /\ recent' = FALSE
  /\ UNCHANGED <<pin, fails, timed, code, drawn, pc, hand, historyVars, faults>>
CodeExpires ==
  /\ code # None
  /\ code' = None /\ recent' = FALSE
  /\ UNCHANGED <<pin, fails, timed, drawn, pc, hand, historyVars, faults>>

Lookup(r) ==
  /\ pc[r] = "lookup"
  /\ IF hand[r].code = code THEN Goto(r, "delete") /\ UNCHANGED <<hand, stale>> ELSE End(r)
  /\ UNCHANGED <<pin, keyVars, attempts, spent, raced, faults>>

\* Variant: the key is left to its time to live.
CodeLeftAlone == code
CodeDeleted == None

\* The requests that are about to store a code.
Resending(c) == {r \in Requests : pc[r] = "store" /\ hand[r].code = c}

Delete(r) ==
  /\ pc[r] = "delete"
  /\ code' = CodeDeleted /\ recent' = FALSE
  /\ Goto(r, "write")
  /\ spent' = spent \cup {hand[r].code}
  /\ raced' = raced \cup {c \in {hand[r].code} : Resending(c) # {}}
  /\ UNCHANGED <<pin, fails, timed, drawn, hand, attempts, stale, faults>>

(************************************ Faults ************************************)

RequestFails(r) ==
  /\ pc[r] # "idle" /\ faults < MaxFaults
  /\ faults' = faults + 1
  /\ End(r)
  /\ UNCHANGED <<pin, keyVars, attempts, spent, raced>>

Crash ==
  /\ faults < MaxFaults
  /\ faults' = faults + 1
  /\ pc' = [r \in Requests |-> "idle"] /\ hand' = [r \in Requests |-> Empty]
  /\ stale' = {}
  /\ UNCHANGED <<pin, keyVars, attempts, spent, raced>>

RequestStep(r) ==
  \/ Check(r) \/ Read(r) \/ Compare(r) \/ Count(r) \/ Expire(r) \/ Write(r)
  \/ Generate(r) \/ Store(r) \/ Lookup(r) \/ Delete(r)

Start(r) ==
  \/ \E p \in Pins : StartVerify(r, p) \/ StartSet(r, p)
  \/ \E p, q \in Pins : StartChange(r, p, q)
  \/ StartResend(r)
  \/ \E c \in Codes, p \in Pins : StartConfirm(r, c, p)

Next ==
  \/ \E r \in Requests : Start(r) \/ RequestStep(r) \/ RequestFails(r)
  \/ CounterExpires \/ CodeAges \/ CodeExpires
  \/ Crash

Spec == Init /\ [][Next]_vars

(********************************** Properties **********************************)

TypeOK ==
  /\ pin \in Pins \cup {None} /\ fails \in Nat /\ timed \in BOOLEAN
  /\ code \in Codes \cup {None} /\ recent \in BOOLEAN /\ drawn \subseteq Codes
  /\ pc \in [Requests -> Points]
  /\ hand \in [Requests -> Hand]
  /\ attempts \in Nat /\ stale \subseteq Requests
  /\ spent \subseteq Codes /\ raced \subseteq Codes
  /\ faults \in 0..MaxFaults

\* How many wrong PINs verifyUserPin compares for withdrawals before its counter expires:
\* the limit, once more for every other request that can be between the check and the
\* count, and again for what a fault leaves uncounted.  It bounds no more than that: the
\* old PIN that changePin compares is counted by nothing.
AttemptsBounded == attempts < Limit + Cardinality(Requests) * (faults + 1)

\* The counter has a time to live, or gets one from a request under way, unless a fault
\* fell between the two calls; requests that count together do not lose it.  So a
\* lock-out ends ("Try again in 15 minutes").
ClockRuns == fails > 0 /\ ~ timed => faults > 0 \/ \E r \in Requests : pc[r] = "expire"

\* A code that was used is never in Redis again, so that no later request can use it,
\* except when a resend had read it before.
SpentForGood == code \in spent => code \in raced

\* setPin replaces no PIN, and changePin only the one it was given, unless the PIN
\* changed after the request had read it.
ReplacedKnowingly ==
  \A r \in Requests : pc[r] = "write" /\ r \notin stale =>
    /\ hand[r].kind = "set" => pin = None
    /\ hand[r].kind = "change" => pin = hand[r].given
=================================================================================
