-------------------------- MODULE TransactionPinProofs --------------------------
(*********************************************************************************)
(* The transaction PIN, for every finite set of concurrent requests and every     *)
(* number of PINs, codes and faults.                                              *)
(*********************************************************************************)
EXTENDS TransactionPin, FiniteSetTheorems, TLAPS

N == Cardinality(Requests)

\* What a request has in hand at each point.
HandSound(r) ==
  /\ pc[r] \in {"check", "count", "expire"} => hand[r].kind = "verify"
  /\ pc[r] = "read" => hand[r].kind \in {"verify", "set", "change"}
  /\ pc[r] = "compare" => hand[r].kind \in {"verify", "change"}
  /\ pc[r] = "write" => hand[r].kind \in {"set", "change", "confirm"}
  /\ pc[r] \in {"generate", "store"} => hand[r].kind = "resend"
  /\ pc[r] \in {"lookup", "delete"} => hand[r].kind = "confirm"
  /\ hand[r].kind \in {"set", "change", "confirm"} => hand[r].new \in Pins
  /\ pc[r] \in {"lookup", "delete", "store"} => hand[r].code \in Codes
  /\ pc[r] \in {"delete", "store"} => hand[r].code \in drawn

CodesSound == code \in drawn \cup {None} /\ spent \subseteq drawn

Typed == TypeOK /\ (\A r \in Requests : HandSound(r)) /\ CodesSound

\* Whoever goes on with a hash that nobody has replaced knows the hash.
Known(r) ==
  /\ pc[r] \in {"compare", "write"} /\ hand[r].kind # "confirm" /\ r \notin stale
       => hand[r].hash = pin
  /\ pc[r] = "write" /\ hand[r].kind = "set" => hand[r].hash = None
  /\ pc[r] = "write" /\ hand[r].kind = "change" => hand[r].hash = hand[r].given

\* A code that was used, unless a resend had it, is nowhere it could come back from.
SpentGone == \A c \in spent \ raced : code # c /\ Resending(c) = {}

\* Requests past the check that have not compared, and those yet to count a wrong PIN.
Passed == {r \in Requests : hand[r].kind = "verify" /\ pc[r] \in {"read", "compare"}}
Counting == {r \in Requests : pc[r] = "count"}

\* A wrong PIN is counted, about to be counted, or was lost to a fault; and no request
\* passed the check but while fewer than the limit were counted.
Accounted ==
  /\ attempts <= fails + Cardinality(Counting) + N * faults
  /\ attempts + Cardinality(Passed) <= Limit - 1 + N + N * faults

Inv ==
  /\ Typed /\ ClockRuns /\ (\A r \in Requests : Known(r))
  /\ SpentGone /\ Accounted

\* How a request begins.
Fresh(h, first) ==
  \/ first = "check" /\ h.kind = "verify"
  \/ first = "read" /\ h.kind \in {"set", "change"} /\ h.new \in Pins
  \/ first = "generate" /\ h.kind = "resend"
  \/ first = "lookup" /\ h.kind = "confirm" /\ h.code \in Codes /\ h.new \in Pins

LEMMA StartBegins ==
  ASSUME NEW r \in Requests, Start(r)
  PROVE  \E h \in Hand : \E first \in Points : Fresh(h, first) /\ Begin(r, h, first)
<1>1. ASSUME NEW p \in Pins, StartVerify(r, p)
      PROVE \E h \in Hand : \E first \in Points : Fresh(h, first) /\ Begin(r, h, first)
  <2> DEFINE h == [Ask("verify") EXCEPT !.given = p]
  <2>1. h \in Hand /\ Fresh(h, "check") BY DEF Ask, Hand, Kinds, Fresh
  <2>2. Begin(r, h, "check") BY <1>1 DEF StartVerify
  <2> QED BY <2>1, <2>2 DEF Points
<1>2. ASSUME NEW p \in Pins, StartSet(r, p)
      PROVE \E h \in Hand : \E first \in Points : Fresh(h, first) /\ Begin(r, h, first)
  <2> DEFINE h == [Ask("set") EXCEPT !.new = p]
  <2>1. h \in Hand /\ Fresh(h, "read") BY DEF Ask, Hand, Kinds, Fresh
  <2>2. Begin(r, h, "read") BY <1>2 DEF StartSet
  <2> QED BY <2>1, <2>2 DEF Points
<1>3. ASSUME NEW p \in Pins, NEW q \in Pins, StartChange(r, p, q)
      PROVE \E h \in Hand : \E first \in Points : Fresh(h, first) /\ Begin(r, h, first)
  <2> DEFINE h == [Ask("change") EXCEPT !.given = p, !.new = q]
  <2>1. h \in Hand /\ Fresh(h, "read") BY DEF Ask, Hand, Kinds, Fresh
  <2>2. Begin(r, h, "read") BY <1>3 DEF StartChange
  <2> QED BY <2>1, <2>2 DEF Points
<1>4. ASSUME StartResend(r)
      PROVE \E h \in Hand : \E first \in Points : Fresh(h, first) /\ Begin(r, h, first)
  <2>1. Ask("resend") \in Hand /\ Fresh(Ask("resend"), "generate")
    BY DEF Ask, Hand, Kinds, Fresh
  <2>2. Begin(r, Ask("resend"), "generate") BY <1>4 DEF StartResend
  <2> QED BY <2>1, <2>2 DEF Points
<1>5. ASSUME NEW c \in Codes, NEW p \in Pins, StartConfirm(r, c, p)
      PROVE \E h \in Hand : \E first \in Points : Fresh(h, first) /\ Begin(r, h, first)
  <2> DEFINE h == [Ask("confirm") EXCEPT !.code = c, !.new = p]
  <2>1. h \in Hand /\ Fresh(h, "lookup") BY DEF Ask, Hand, Kinds, Fresh
  <2>2. Begin(r, h, "lookup") BY <1>5 DEF StartConfirm
  <2> QED BY <2>1, <2>2 DEF Points
<1> QED BY <1>1, <1>2, <1>3, <1>4, <1>5 DEF Start

(***************************** Types and what is in hand *****************************)

LEMMA TypedInit == Init => Typed
<1> SUFFICES ASSUME Init PROVE Typed
  OBVIOUS
<1>1. Empty \in Hand BY DEF Empty, Ask, Hand, Kinds
<1>2. TypeOK
  <2>1. timed \in BOOLEAN /\ recent \in BOOLEAN BY DEF Init
  <2>2. faults \in 0..MaxFaults BY NumbersAssumption DEF Init
  <2>3. pc \in [Requests -> Points] /\ hand \in [Requests -> Hand]
    BY <1>1 DEF Init, Points
  <2> QED BY <2>1, <2>2, <2>3 DEF Init, TypeOK
<1>3. \A r \in Requests : HandSound(r) BY DEF Init, HandSound, Empty, Ask
<1> QED BY <1>2, <1>3 DEF Init, Typed, CodesSound

\* A request that ends keeps the hands sound, whatever becomes of the keys.
LEMMA EndTyped ==
  ASSUME Typed, NEW r \in Requests, End(r), drawn' = drawn
  PROVE  /\ pc' \in [Requests -> Points] /\ hand' \in [Requests -> Hand]
         /\ stale' \subseteq Requests /\ \A q \in Requests : HandSound(q)'
<1>1. Empty \in Hand BY DEF Empty, Ask, Hand, Kinds
<1>2. pc' \in [Requests -> Points] /\ hand' \in [Requests -> Hand] /\ stale' \subseteq Requests
  BY <1>1 DEF Typed, TypeOK, End, Goto, Points
<1>3. \A q \in Requests : HandSound(q)'
  BY DEF Typed, TypeOK, HandSound, End, Goto, Empty, Ask
<1> QED BY <1>2, <1>3

LEMMA TypedStep == Typed /\ [Next]_vars => Typed'
<1> SUFFICES ASSUME Typed, [Next]_vars PROVE Typed'
  OBVIOUS
<1>a. /\ TypeOK /\ CodesSound
      /\ \A r \in Requests : HandSound(r)
  BY DEF Typed
<1>b. \A n \in 0..MaxFaults : n < MaxFaults => n + 1 \in 0..MaxFaults
  BY NumbersAssumption
<1>1. ASSUME NEW r \in Requests, Start(r) PROVE Typed'
  <2>1. PICK h \in Hand : \E first \in Points : Fresh(h, first) /\ Begin(r, h, first)
    BY <1>1, StartBegins
  <2>2. PICK first \in Points : Fresh(h, first) /\ Begin(r, h, first) BY <2>1
  <2>3. TypeOK' BY <1>a, <2>2 DEF Begin, Goto, TypeOK, keyVars, historyVars
  <2>4. \A q \in Requests : HandSound(q)'
    BY <1>a, <2>2 DEF Begin, Goto, TypeOK, keyVars, HandSound, Fresh
  <2>5. CodesSound' BY <1>a, <2>2 DEF Begin, keyVars, historyVars, CodesSound
  <2> QED BY <2>3, <2>4, <2>5 DEF Typed
<1>2. ASSUME NEW r \in Requests, Check(r) PROVE Typed'
  <2>1. CASE End(r)
    BY <1>2, <1>a, <2>1, EndTyped DEF Check, Typed, TypeOK, keyVars, CodesSound
  <2>2. CASE Goto(r, "read") /\ UNCHANGED <<hand, stale>>
    <3>1. TypeOK' BY <1>2, <1>a, <2>2 DEF Check, Goto, TypeOK, Points, keyVars
    <3>2. \A q \in Requests : HandSound(q)'
      BY <1>2, <1>a, <2>2 DEF Check, Goto, TypeOK, keyVars, HandSound
    <3> QED BY <1>2, <1>a, <3>1, <3>2 DEF Check, keyVars, Typed, CodesSound
  <2> QED BY <1>2, <2>1, <2>2 DEF Check
<1>3. ASSUME NEW r \in Requests, Read(r) PROVE Typed'
  <2>1. CASE End(r)
    BY <1>3, <1>a, <2>1, EndTyped DEF Read, Typed, TypeOK, keyVars, CodesSound
  <2>2. CASE /\ hand' = [hand EXCEPT ![r].hash = pin]
             /\ Goto(r, IF hand[r].kind = "set" THEN "write" ELSE "compare")
             /\ UNCHANGED stale
    <3>1. hand' \in [Requests -> Hand] BY <1>a, <2>2 DEF TypeOK, Hand
    <3>2. TypeOK' BY <1>3, <1>a, <2>2, <3>1 DEF Read, Goto, TypeOK, Points, keyVars
    <3>3. \A q \in Requests : HandSound(q)'
      BY <1>3, <1>a, <2>2 DEF Read, Goto, TypeOK, Hand, keyVars, HandSound
    <3> QED BY <1>3, <1>a, <3>2, <3>3 DEF Read, keyVars, Typed, CodesSound
  <2> QED BY <1>3, <2>1, <2>2 DEF Read
<1>4. ASSUME NEW r \in Requests, Compare(r) PROVE Typed'
  <2>1. CASE End(r)
    BY <1>4, <1>a, <2>1, EndTyped DEF Compare, Typed, TypeOK, keyVars, CodesSound
  <2>2. CASE hand[r].kind = "change" /\ Goto(r, "write") /\ UNCHANGED <<hand, attempts, stale>>
    <3>1. TypeOK' BY <1>4, <1>a, <2>2 DEF Compare, Goto, TypeOK, Points, keyVars
    <3>2. \A q \in Requests : HandSound(q)'
      BY <1>4, <1>a, <2>2 DEF Compare, Goto, TypeOK, keyVars, HandSound
    <3> QED BY <1>4, <1>a, <3>1, <3>2 DEF Compare, keyVars, Typed, CodesSound
  <2>3. CASE hand[r].kind = "verify" /\ attempts' = attempts + 1 /\ Goto(r, "count")
               /\ UNCHANGED <<hand, stale>>
    <3>1. TypeOK' BY <1>4, <1>a, <2>3 DEF Compare, Goto, TypeOK, Points, keyVars
    <3>2. \A q \in Requests : HandSound(q)'
      BY <1>4, <1>a, <2>3 DEF Compare, Goto, TypeOK, keyVars, HandSound
    <3> QED BY <1>4, <1>a, <3>1, <3>2 DEF Compare, keyVars, Typed, CodesSound
  <2> QED BY <1>4, <2>1, <2>2, <2>3 DEF Compare
<1>5. ASSUME NEW r \in Requests, Count(r) PROVE Typed'
  <2>1. TypeOK' BY <1>5, <1>a DEF Count, Goto, TypeOK, Points, historyVars
  <2>2. \A q \in Requests : HandSound(q)'
    BY <1>5, <1>a DEF Count, Goto, TypeOK, HandSound
  <2> QED BY <1>5, <1>a, <2>1, <2>2 DEF Count, historyVars, Typed, CodesSound
<1>6. ASSUME NEW r \in Requests, Expire(r) PROVE Typed'
  <2>1. timed' \in BOOLEAN BY <1>6 DEF Expire, StartClock
  <2> QED BY <1>6, <1>a, <2>1, EndTyped DEF Expire, Typed, TypeOK, CodesSound
<1>7. ASSUME NEW r \in Requests, Write(r) PROVE Typed'
  <2>1. hand[r].new \in Pins BY <1>7, <1>a DEF Write, HandSound
  <2>2. Empty \in Hand BY DEF Empty, Ask, Hand, Kinds
  <2>3. TypeOK' BY <1>7, <1>a, <2>1, <2>2 DEF Write, Goto, TypeOK, Points, keyVars
  <2>4. \A q \in Requests : HandSound(q)'
    BY <1>7, <1>a DEF Write, Goto, TypeOK, keyVars, HandSound, Empty, Ask
  <2> QED BY <1>7, <1>a, <2>3, <2>4 DEF Write, keyVars, Typed, CodesSound
<1>8. ASSUME NEW r \in Requests, Generate(r) PROVE Typed'
  <2>1. CASE End(r) /\ UNCHANGED drawn
    BY <1>8, <1>a, <2>1, EndTyped DEF Generate, Typed, TypeOK, CodesSound
  <2>2. ASSUME NEW c \in Codes,
               /\ hand' = [hand EXCEPT ![r].code = c]
               /\ drawn' = drawn \cup {c}
               /\ Goto(r, "store") /\ UNCHANGED stale
        PROVE Typed'
    <3>1. hand' \in [Requests -> Hand] BY <1>a, <2>2 DEF TypeOK, Hand
    <3>2. TypeOK' BY <1>8, <1>a, <2>2, <3>1 DEF Generate, Goto, TypeOK, Points
    <3>3. \A q \in Requests : HandSound(q)'
      BY <1>8, <1>a, <2>2 DEF Generate, Goto, TypeOK, Hand, HandSound
    <3> QED BY <1>8, <1>a, <2>2, <3>2, <3>3 DEF Generate, Typed, CodesSound
  <2> QED BY <1>8, <2>1, <2>2 DEF Generate
<1>9. ASSUME NEW r \in Requests, Store(r) PROVE Typed'
  <2>1. hand[r].code \in Codes /\ hand[r].code \in drawn BY <1>9, <1>a DEF Store, HandSound
  <2> QED BY <1>9, <1>a, <2>1, EndTyped DEF Store, Typed, TypeOK, CodesSound
<1>10. ASSUME NEW r \in Requests, Lookup(r) PROVE Typed'
  <2>1. CASE End(r)
    BY <1>10, <1>a, <2>1, EndTyped DEF Lookup, Typed, TypeOK, keyVars, CodesSound
  <2>2. CASE hand[r].code = code /\ Goto(r, "delete") /\ UNCHANGED <<hand, stale>>
    <3>1. TypeOK' BY <1>10, <1>a, <2>2 DEF Lookup, Goto, TypeOK, Points, keyVars
    <3>2. hand[r].code \in Codes /\ hand[r].kind = "confirm"
      BY <1>10, <1>a DEF Lookup, HandSound
    <3>3. hand[r].code \in drawn
      BY <1>a, <2>2, <3>2, NamesAssumption DEF CodesSound
    <3>4. \A q \in Requests : HandSound(q)'
      BY <1>10, <1>a, <2>2, <3>2, <3>3 DEF Lookup, Goto, TypeOK, keyVars, HandSound
    <3> QED BY <1>10, <1>a, <3>1, <3>4 DEF Lookup, keyVars, Typed, CodesSound
  <2> QED BY <1>10, <2>1, <2>2 DEF Lookup
<1>11. ASSUME NEW r \in Requests, Delete(r) PROVE Typed'
  <2>1. hand[r].code \in Codes /\ hand[r].code \in drawn /\ hand[r].kind = "confirm"
    BY <1>11, <1>a DEF Delete, HandSound
  <2>2. TypeOK' BY <1>11, <1>a, <2>1 DEF Delete, CodeDeleted, Goto, TypeOK, Points
  <2>3. \A q \in Requests : HandSound(q)'
    BY <1>11, <1>a, <2>1 DEF Delete, Goto, TypeOK, HandSound
  <2> QED BY <1>11, <1>a, <2>1, <2>2, <2>3 DEF Delete, CodeDeleted, Typed, CodesSound
<1>12. ASSUME NEW r \in Requests, RequestFails(r) PROVE Typed'
  <2>1. faults' \in 0..MaxFaults BY <1>12, <1>a, <1>b DEF RequestFails, TypeOK
  <2> QED BY <1>12, <1>a, <2>1, EndTyped DEF RequestFails, Typed, TypeOK, keyVars, CodesSound
<1>13. CASE CounterExpires \/ CodeAges \/ CodeExpires
  <2>1. TypeOK'
    <3>1. CASE CounterExpires BY <1>a, <3>1 DEF CounterExpires, TypeOK
    <3>2. CASE CodeAges BY <1>a, <3>2 DEF CodeAges, TypeOK, historyVars
    <3>3. CASE CodeExpires BY <1>a, <3>3 DEF CodeExpires, TypeOK, historyVars
    <3> QED BY <1>13, <3>1, <3>2, <3>3
  <2>2. \A q \in Requests : HandSound(q)'
    BY <1>13, <1>a DEF CounterExpires, CodeAges, CodeExpires, HandSound
  <2> QED BY <1>13, <1>a, <2>1, <2>2 DEF CounterExpires, CodeAges, CodeExpires, Typed,
                                         CodesSound, historyVars
<1>14. CASE Crash
  <2>1. Empty \in Hand BY DEF Empty, Ask, Hand, Kinds
  <2>2. TypeOK' BY <1>14, <1>a, <1>b, <2>1 DEF Crash, TypeOK, Points, keyVars
  <2>3. \A q \in Requests : HandSound(q)' BY <1>14 DEF Crash, HandSound, Empty, Ask
  <2> QED BY <1>14, <1>a, <2>2, <2>3 DEF Crash, keyVars, Typed, CodesSound
<1>15. CASE UNCHANGED vars
  BY <1>15 DEF vars, keyVars, historyVars, Typed, TypeOK, HandSound, CodesSound
<1> QED BY <1>1, <1>2, <1>3, <1>4, <1>5, <1>6, <1>7, <1>8, <1>9, <1>10, <1>11, <1>12,
           <1>13, <1>14, <1>15 DEF Next, RequestStep

(************************************ The clock ************************************)

\* Only Count leaves the counter without a time to live, at the point before Expire.
LEMMA ClockStep == Typed /\ ClockRuns /\ [Next]_vars => ClockRuns'
<1> SUFFICES ASSUME Typed, ClockRuns, [Next]_vars PROVE ClockRuns'
  OBVIOUS
<1>a. TypeOK BY DEF Typed
<1>1. ASSUME NEW r \in Requests, Start(r) PROVE ClockRuns'
  <2>1. PICK h \in Hand : \E first \in Points : Fresh(h, first) /\ Begin(r, h, first)
    BY <1>1, StartBegins
  <2>2. PICK first \in Points : Begin(r, h, first) BY <2>1
  <2> QED BY <1>a, <2>2 DEF Begin, Goto, TypeOK, keyVars, ClockRuns
<1>2. ASSUME NEW r \in Requests,
             \/ Check(r) \/ Read(r) \/ Compare(r) \/ Write(r)
             \/ Generate(r) \/ Store(r) \/ Lookup(r) \/ Delete(r)
      PROVE ClockRuns'
  <2>1. pc[r] # "expire" /\ UNCHANGED <<fails, timed, faults>>
    BY <1>2 DEF Check, Read, Compare, Write, Generate, Store, Lookup, Delete, keyVars
  <2>2. \A q \in Requests \ {r} : pc'[q] = pc[q]
    BY <1>2, <1>a DEF Check, Read, Compare, Write, Generate, Store, Lookup, Delete, End, Goto,
                      TypeOK
  <2> QED BY <2>1, <2>2 DEF ClockRuns
<1>3. ASSUME NEW r \in Requests, Count(r) PROVE ClockRuns'
  BY <1>3, <1>a DEF Count, Goto, TypeOK, ClockRuns
<1>4. ASSUME NEW r \in Requests, Expire(r) PROVE ClockRuns'
  BY <1>4 DEF Expire, StartClock, ClockRuns
<1>5. ASSUME NEW r \in Requests, RequestFails(r) PROVE ClockRuns'
  BY <1>5, <1>a DEF RequestFails, TypeOK, ClockRuns
<1>6. CASE CounterExpires BY <1>6 DEF CounterExpires, ClockRuns
<1>7. CASE CodeAges BY <1>7 DEF CodeAges, ClockRuns
<1>8. CASE CodeExpires BY <1>8 DEF CodeExpires, ClockRuns
<1>9. CASE Crash BY <1>9, <1>a DEF Crash, TypeOK, ClockRuns
<1>10. CASE UNCHANGED vars BY <1>10 DEF vars, keyVars, ClockRuns
<1> QED BY <1>1, <1>2, <1>3, <1>4, <1>5, <1>6, <1>7, <1>8, <1>9, <1>10 DEF Next, RequestStep

(*********************************** What is known ***********************************)

LEMMA KnownStep ==
  Typed /\ (\A r \in Requests : Known(r)) /\ [Next]_vars => \A r \in Requests : Known(r)'
<1> SUFFICES ASSUME Typed, \A r \in Requests : Known(r), [Next]_vars,
                    NEW q \in Requests
             PROVE  Known(q)'
  OBVIOUS
<1>a. TypeOK /\ Known(q) BY DEF Typed
\* A request that is idle knows nothing; the others keep what they know.
<1>b. ASSUME NEW r \in Requests, End(r), pin' = pin PROVE Known(q)'
  BY <1>a, <1>b DEF End, Goto, TypeOK, Known, Empty, Ask
<1>1. ASSUME NEW r \in Requests, Start(r) PROVE Known(q)'
  <2>1. PICK h \in Hand : \E first \in Points : Fresh(h, first) /\ Begin(r, h, first)
    BY <1>1, StartBegins
  <2>2. PICK first \in Points : Fresh(h, first) /\ Begin(r, h, first) BY <2>1
  <2> QED BY <1>a, <2>2 DEF Fresh, Begin, Goto, TypeOK, historyVars, Known
<1>2. ASSUME NEW r \in Requests, Check(r) PROVE Known(q)'
  BY <1>2, <1>a, <1>b DEF Check, Goto, TypeOK, Known
<1>3. ASSUME NEW r \in Requests, Read(r) PROVE Known(q)'
  <2>1. CASE End(r) BY <1>3, <1>b, <2>1 DEF Read
  <2>2. CASE /\ (pin = None) = (hand[r].kind = "set")
             /\ hand' = [hand EXCEPT ![r].hash = pin]
             /\ Goto(r, IF hand[r].kind = "set" THEN "write" ELSE "compare")
             /\ UNCHANGED stale
    <3>1. CASE q = r
      BY <1>3, <1>a, <2>2, <3>1 DEF Read, Goto, TypeOK, Hand, Known
    <3>2. CASE q # r
      BY <1>3, <1>a, <2>2, <3>2 DEF Read, Goto, TypeOK, Hand, Known
    <3> QED BY <3>1, <3>2
  <2> QED BY <1>3, <2>1, <2>2 DEF Read
<1>4. ASSUME NEW r \in Requests, Compare(r) PROVE Known(q)'
  <2>1. CASE End(r) BY <1>4, <1>b, <2>1 DEF Compare
  <2>2. CASE Matches(r) /\ hand[r].kind = "change" /\ Goto(r, "write")
             /\ UNCHANGED <<hand, attempts, stale>>
    BY <1>4, <1>a, <2>2 DEF Compare, Matches, Goto, TypeOK, Known
  <2>3. CASE Goto(r, "count") /\ UNCHANGED <<hand, stale>>
    BY <1>4, <1>a, <2>3 DEF Compare, Goto, TypeOK, Known
  <2> QED BY <1>4, <2>1, <2>2, <2>3 DEF Compare
<1>5. ASSUME NEW r \in Requests, Count(r) PROVE Known(q)'
  BY <1>5, <1>a DEF Count, Goto, TypeOK, historyVars, Known
<1>6. ASSUME NEW r \in Requests, Expire(r) \/ Store(r) \/ RequestFails(r) PROVE Known(q)'
  BY <1>6, <1>b DEF Expire, Store, RequestFails
<1>7. ASSUME NEW r \in Requests, Write(r) PROVE Known(q)'
  <2>1. CASE q = r
    BY <1>7, <1>a, <2>1 DEF Write, Goto, TypeOK, Known
  <2>2. CASE q # r
    BY <1>7, <1>a, <2>2 DEF Write, Goto, TypeOK, Known
  <2> QED BY <2>1, <2>2
<1>8. ASSUME NEW r \in Requests, Generate(r) PROVE Known(q)'
  <2>1. CASE End(r) BY <1>8, <1>b, <2>1 DEF Generate
  <2>2. ASSUME NEW c \in Codes, hand' = [hand EXCEPT ![r].code = c],
               Goto(r, "store"), UNCHANGED stale
        PROVE Known(q)'
    BY <1>8, <1>a, <2>2 DEF Generate, Goto, TypeOK, Hand, Known
  <2> QED BY <1>8, <2>1, <2>2 DEF Generate
<1>9. ASSUME NEW r \in Requests, Lookup(r) PROVE Known(q)'
  BY <1>9, <1>a, <1>b DEF Lookup, Goto, TypeOK, Known
<1>10. ASSUME NEW r \in Requests, Delete(r) PROVE Known(q)'
  <2>1. hand[r].kind = "confirm" BY <1>10 DEF Delete, Typed, HandSound
  <2> QED BY <1>10, <1>a, <2>1 DEF Delete, Goto, TypeOK, Known
<1>11. CASE CounterExpires BY <1>11, <1>a DEF CounterExpires, Known
<1>12. CASE CodeAges BY <1>12, <1>a DEF CodeAges, historyVars, Known
<1>13. CASE CodeExpires BY <1>13, <1>a DEF CodeExpires, historyVars, Known
<1>14. CASE Crash BY <1>14 DEF Crash, Known
<1>15. CASE UNCHANGED vars BY <1>15, <1>a DEF vars, historyVars, Known
<1> QED BY <1>1, <1>2, <1>3, <1>4, <1>5, <1>6, <1>7, <1>8, <1>9, <1>10, <1>11, <1>12,
           <1>13, <1>14, <1>15 DEF Next, RequestStep

(*********************************** Codes that were used ***********************************)

LEMMA SpentStep == Typed /\ SpentGone /\ [Next]_vars => SpentGone'
<1> SUFFICES ASSUME Typed, SpentGone, [Next]_vars PROVE SpentGone'
  OBVIOUS
<1>a. TypeOK /\ CodesSound BY DEF Typed
\* Codes come back only from Redis, from a resend, or by being drawn.
<1>b. ASSUME code' \in {code, None}, UNCHANGED <<spent, raced>>,
             \A q \in Requests :
               pc'[q] = "store" => pc[q] = "store" /\ hand'[q].code = hand[q].code
      PROVE SpentGone'
  <2> SUFFICES ASSUME NEW c \in spent \ raced PROVE code' # c /\ Resending(c)' = {}
    BY <1>b DEF SpentGone
  <2>1. code # c /\ Resending(c) = {} /\ c # None
    BY <1>a, NamesAssumption DEF SpentGone, TypeOK
  <2> QED BY <1>b, <2>1 DEF Resending
<1>c. ASSUME NEW r \in Requests, End(r), code' = code, UNCHANGED <<spent, raced>>
      PROVE SpentGone'
  BY <1>a, <1>b, <1>c DEF End, Goto, TypeOK
<1>1. ASSUME NEW r \in Requests, Start(r) PROVE SpentGone'
  <2>1. PICK h \in Hand : \E first \in Points : Fresh(h, first) /\ Begin(r, h, first)
    BY <1>1, StartBegins
  <2>2. PICK first \in Points : Fresh(h, first) /\ Begin(r, h, first) BY <2>1
  <2>3. first # "store" BY <2>2 DEF Fresh
  <2> QED BY <1>a, <1>b, <2>2, <2>3 DEF Begin, Goto, TypeOK, keyVars, historyVars
<1>2. ASSUME NEW r \in Requests, Check(r) \/ Read(r) \/ Compare(r) \/ Lookup(r)
      PROVE SpentGone'
  <2>1. code' = code /\ UNCHANGED <<spent, raced>>
    BY <1>2 DEF Check, Read, Compare, Lookup, keyVars
  <2>2. \A q \in Requests :
          pc'[q] = "store" => pc[q] = "store" /\ hand'[q].code = hand[q].code
    <3>1. CASE Check(r) BY <1>a, <3>1 DEF Check, End, Goto, TypeOK
    <3>2. CASE Read(r) BY <1>a, <3>2 DEF Read, End, Goto, TypeOK
    <3>3. CASE Compare(r) BY <1>a, <3>3 DEF Compare, End, Goto, TypeOK
    <3>4. CASE Lookup(r) BY <1>a, <3>4 DEF Lookup, End, Goto, TypeOK
    <3> QED BY <1>2, <3>1, <3>2, <3>3, <3>4
  <2> QED BY <1>b, <2>1, <2>2
<1>3. ASSUME NEW r \in Requests, Count(r) \/ Write(r) PROVE SpentGone'
  <2>1. code' = code /\ UNCHANGED <<spent, raced>>
    BY <1>3 DEF Count, Write, keyVars, historyVars
  <2>2. \A q \in Requests :
          pc'[q] = "store" => pc[q] = "store" /\ hand'[q].code = hand[q].code
    BY <1>3, <1>a DEF Count, Write, Goto, TypeOK
  <2> QED BY <1>b, <2>1, <2>2
<1>4. ASSUME NEW r \in Requests, Expire(r) \/ RequestFails(r) PROVE SpentGone'
  BY <1>4, <1>c DEF Expire, RequestFails, keyVars
<1>5. ASSUME NEW r \in Requests, Generate(r) PROVE SpentGone'
  <2>1. CASE End(r) BY <1>5, <1>c, <2>1 DEF Generate
  <2>2. ASSUME NEW d \in Codes,
               IF code = None THEN d \notin drawn ELSE d = code /\ ~ recent,
               hand' = [hand EXCEPT ![r].code = d], Goto(r, "store")
        PROVE SpentGone'
    <3> SUFFICES ASSUME NEW c \in spent \ raced PROVE code' # c /\ Resending(c)' = {}
      BY <1>5 DEF Generate, SpentGone
    <3>1. code # c /\ Resending(c) = {} /\ c \in drawn
      BY <1>a DEF SpentGone, CodesSound
    <3>2. d # c BY <2>2, <3>1
    <3>3. \A q \in Requests : pc'[q] = "store" => hand'[q].code # c
      BY <1>a, <2>2, <3>1, <3>2 DEF Goto, TypeOK, Hand, Resending
    <3> QED BY <1>5, <3>1, <3>3 DEF Generate, Resending
  <2> QED BY <1>5, <2>1, <2>2 DEF Generate
<1>6. ASSUME NEW r \in Requests, Store(r) PROVE SpentGone'
  <2> SUFFICES ASSUME NEW c \in spent \ raced PROVE code' # c /\ Resending(c)' = {}
    BY <1>6 DEF Store, SpentGone
  <2>1. r \in Resending(hand[r].code) BY <1>6 DEF Store, Resending
  <2>2. Resending(c) = {} BY DEF SpentGone
  <2>3. code' # c BY <1>6, <2>1, <2>2 DEF Store
  <2>4. \A q \in Requests : ~ (pc'[q] = "store" /\ hand'[q].code = c)
    BY <1>6, <1>a, <2>2 DEF Store, End, Goto, TypeOK, Resending
  <2> QED BY <2>3, <2>4 DEF Resending
<1>7. ASSUME NEW r \in Requests, Delete(r) PROVE SpentGone'
  <2> SUFFICES ASSUME NEW c \in (spent \ raced)' PROVE code' # c /\ Resending(c)' = {}
    BY DEF SpentGone
  <2>1. c \in spent \cup {hand[r].code} /\ c \notin raced BY <1>7 DEF Delete
  <2>2. Resending(c) = {}
    <3>1. CASE c = hand[r].code BY <1>7, <3>1 DEF Delete
    <3>2. CASE c \in spent BY <2>1, <3>2 DEF SpentGone
    <3> QED BY <2>1, <3>1, <3>2
  <2>3. c # None
    <3>1. spent' \subseteq Codes
      <4>1. hand[r].code \in Codes BY <1>7 DEF Delete, Typed, HandSound
      <4> QED BY <1>7, <1>a, <4>1 DEF Delete, TypeOK
    <3> QED BY <3>1, NamesAssumption
  <2>4. code' # c BY <1>7, <2>3 DEF Delete, CodeDeleted
  <2>5. \A q \in Requests : ~ (pc'[q] = "store" /\ hand'[q].code = c)
    BY <1>7, <1>a, <2>2 DEF Delete, Goto, TypeOK, Resending
  <2> QED BY <2>4, <2>5 DEF Resending
<1>8. CASE CounterExpires BY <1>8, <1>b DEF CounterExpires
<1>9. CASE CodeAges BY <1>9, <1>b DEF CodeAges, historyVars
<1>10. CASE CodeExpires BY <1>10, <1>b DEF CodeExpires, historyVars
<1>11. CASE Crash BY <1>11, <1>b DEF Crash, keyVars
<1>12. CASE UNCHANGED vars BY <1>12, <1>b DEF vars, keyVars, historyVars
<1> QED BY <1>1, <1>2, <1>3, <1>4, <1>5, <1>6, <1>7, <1>8, <1>9, <1>10, <1>11, <1>12
        DEF Next, RequestStep

(************************************ The attempts ************************************)

LEMMA RequestsFinite == IsFiniteSet(Requests) /\ N \in Nat
  BY FinitenessAssumption, FS_CardinalityType DEF N

\* Nobody is past the check and counting at once.
LEMMA DisjointBound ==
  ASSUME NEW P \in SUBSET Requests, NEW C \in SUBSET Requests, P \cap C = {}
  PROVE  /\ IsFiniteSet(P) /\ IsFiniteSet(C)
         /\ Cardinality(P) \in Nat /\ Cardinality(C) \in Nat
         /\ Cardinality(P) + Cardinality(C) <= N
<1>1. IsFiniteSet(P) /\ IsFiniteSet(C) BY RequestsFinite, FS_Subset
<1>2. Cardinality(P) \in Nat /\ Cardinality(C) \in Nat BY <1>1, FS_CardinalityType
<1>3. Cardinality(P \cap C) = 0 BY FS_EmptySet
<1>4. Cardinality(P \cup C) = Cardinality(P) + Cardinality(C)
  <2>1. Cardinality(P \cup C) = Cardinality(P) + Cardinality(C) - Cardinality(P \cap C)
    BY <1>1, FS_Union
  <2> QED BY <1>2, <1>3, <2>1
<1>5. Cardinality(P \cup C) <= N BY RequestsFinite, FS_Subset DEF N
<1> QED BY <1>1, <1>2, <1>4, <1>5

LEMMA AccountedInit == Init => Accounted
<1> SUFFICES ASSUME Init PROVE Accounted
  OBVIOUS
<1>1. Passed = {} /\ Counting = {} BY DEF Init, Passed, Counting
<1>2. Cardinality(Passed) = 0 /\ Cardinality(Counting) = 0 BY <1>1, FS_EmptySet
<1>3. N \in Nat /\ N * 0 = 0 BY RequestsFinite
<1> QED BY <1>2, <1>3, NumbersAssumption DEF Init, Accounted

LEMMA AccountedStep == Typed /\ Accounted /\ [Next]_vars => Accounted'
<1> SUFFICES ASSUME Typed, Accounted, [Next]_vars PROVE Accounted'
  OBVIOUS
<1>a. /\ TypeOK /\ attempts \in Nat /\ fails \in Nat /\ faults \in Nat
      /\ Limit \in Nat \ {0}
  BY NumbersAssumption DEF Typed, TypeOK
\* Each number before the step and after it.
<1> DEFINE P == Cardinality(Passed)
           C == Cardinality(Counting)
           L == N * faults
           PP == Cardinality(Passed')
           CC == Cardinality(Counting')
           LL == N * faults'
<1>b. /\ IsFiniteSet(Passed) /\ IsFiniteSet(Counting)
      /\ P \in Nat /\ C \in Nat /\ P + C <= N
  <2>1. Passed \in SUBSET Requests /\ Counting \in SUBSET Requests /\ Passed \cap Counting = {}
    BY DEF Passed, Counting
  <2> QED BY <2>1, DisjointBound
<1>c. PP \in Nat /\ CC \in Nat /\ PP + CC <= N
  <2>1. Passed' \in SUBSET Requests /\ Counting' \in SUBSET Requests /\ Passed' \cap Counting' = {}
    BY DEF Passed, Counting
  <2> QED BY <2>1, DisjointBound
<1>d. /\ N \in Nat /\ L \in Nat
      /\ faults' = faults => LL = L
      /\ faults' = faults + 1 => LL = L + N
  BY <1>a, RequestsFinite
<1>e. attempts <= fails + C + L /\ attempts + P <= Limit - 1 + N + L
  BY DEF Accounted
<1> HIDE DEF P, C, L, PP, CC, LL
\* Steps that count nothing and let nobody past the check.
<1>f. ASSUME UNCHANGED <<attempts, fails, faults>>, Passed' \subseteq Passed, Counting' = Counting
      PROVE  Accounted'
  <2>1. PP <= P BY <1>b, <1>f, FS_Subset DEF P, PP
  <2>2. CC = C BY <1>f DEF C, CC
  <2>3. /\ attempts' <= fails' + CC + LL
        /\ attempts' + PP <= Limit - 1 + N + LL
    BY <1>a, <1>b, <1>c, <1>d, <1>e, <1>f, <2>1, <2>2
  <2> QED BY <2>3 DEF Accounted, PP, CC, LL
<1>g. ASSUME NEW r \in Requests, End(r)
      PROVE  Passed' = Passed \ {r} /\ Counting' = Counting \ {r}
  BY <1>a, <1>g DEF End, Goto, TypeOK, Passed, Counting
<1>1. ASSUME NEW r \in Requests, Start(r) PROVE Accounted'
  <2>1. PICK h \in Hand : \E first \in Points : Fresh(h, first) /\ Begin(r, h, first)
    BY <1>1, StartBegins
  <2>2. PICK first \in Points : Fresh(h, first) /\ Begin(r, h, first) BY <2>1
  <2>3. Passed' \subseteq Passed /\ Counting' = Counting
    BY <1>a, <2>2 DEF Fresh, Begin, Goto, TypeOK, Passed, Counting
  <2> QED BY <1>f, <2>2, <2>3 DEF Begin, keyVars, historyVars
<1>2. ASSUME NEW r \in Requests, Check(r) PROVE Accounted'
  <2>0. UNCHANGED <<attempts, fails, faults>> BY <1>2 DEF Check, keyVars
  <2>1. CASE End(r)
    BY <1>2, <1>f, <1>g, <2>0, <2>1 DEF Check, Counting
  <2>2. CASE MayTry /\ Goto(r, "read") /\ UNCHANGED <<hand, stale>>
    <3>1. Counting' = Counting /\ Passed' \subseteq Passed \cup {r} /\ Passed \subseteq Passed'
      BY <1>2, <1>a, <2>2 DEF Check, Goto, TypeOK, Passed, Counting
    <3>2. fails <= Limit - 1 BY <1>a, <2>2 DEF MayTry
    <3>3. CC = C BY <3>1 DEF C, CC
    <3>4. /\ attempts' <= fails' + CC + LL
          /\ attempts' + PP <= Limit - 1 + N + LL
      BY <1>a, <1>b, <1>c, <1>d, <1>e, <2>0, <3>2, <3>3
    <3> QED BY <3>4 DEF Accounted, PP, CC, LL
  <2> QED BY <1>2, <2>1, <2>2 DEF Check
<1>3. ASSUME NEW r \in Requests, Read(r) PROVE Accounted'
  <2>0. UNCHANGED <<attempts, fails, faults>> BY <1>3 DEF Read, keyVars
  <2>1. CASE End(r)
    BY <1>3, <1>f, <1>g, <2>0, <2>1 DEF Read, Counting
  <2>2. CASE /\ hand' = [hand EXCEPT ![r].hash = pin]
             /\ Goto(r, IF hand[r].kind = "set" THEN "write" ELSE "compare")
    <3>1. Counting' = Counting /\ Passed' \subseteq Passed
      BY <1>3, <1>a, <2>2 DEF Read, Goto, TypeOK, Hand, Passed, Counting
    <3> QED BY <1>f, <2>0, <3>1
  <2> QED BY <1>3, <2>1, <2>2 DEF Read
<1>4. ASSUME NEW r \in Requests, Compare(r) PROVE Accounted'
  <2>0. UNCHANGED <<fails, faults>> BY <1>4 DEF Compare, keyVars
  <2>1. CASE End(r) /\ UNCHANGED attempts
    BY <1>4, <1>f, <1>g, <2>0, <2>1 DEF Compare, Counting
  <2>2. CASE hand[r].kind = "change" /\ Goto(r, "write") /\ UNCHANGED <<hand, attempts, stale>>
    <3>1. Counting' = Counting /\ Passed' \subseteq Passed
      BY <1>4, <1>a, <2>2 DEF Compare, Goto, TypeOK, Passed, Counting
    <3> QED BY <1>f, <2>0, <2>2, <3>1
  <2>3. CASE /\ hand[r].kind = "verify" /\ attempts' = attempts + 1 /\ Goto(r, "count")
             /\ UNCHANGED <<hand, stale>>
    <3>1. /\ Counting' = Counting \cup {r} /\ r \notin Counting
          /\ Passed' = Passed \ {r} /\ r \in Passed
      BY <1>4, <1>a, <2>3 DEF Compare, Goto, TypeOK, Passed, Counting
    <3>2. CC = C + 1 BY <1>b, <3>1, FS_AddElement DEF C, CC
    <3>3. PP = P - 1 BY <1>b, <3>1, FS_RemoveElement DEF P, PP
    <3>4. /\ attempts' <= fails' + CC + LL
          /\ attempts' + PP <= Limit - 1 + N + LL
      BY <1>a, <1>b, <1>c, <1>d, <1>e, <2>0, <2>3, <3>2, <3>3
    <3> QED BY <3>4 DEF Accounted, PP, CC, LL
  <2> QED BY <1>4, <2>1, <2>2, <2>3 DEF Compare
<1>5. ASSUME NEW r \in Requests, Count(r) PROVE Accounted'
  <2>1. fails' = fails + 1 /\ UNCHANGED <<attempts, faults>> BY <1>5 DEF Count, historyVars
  <2>2. Counting' = Counting \ {r} /\ r \in Counting /\ Passed' = Passed
    BY <1>5, <1>a DEF Count, Goto, TypeOK, Passed, Counting
  <2>3. CC = C - 1 BY <1>b, <2>2, FS_RemoveElement DEF C, CC
  <2>4. PP = P BY <2>2 DEF P, PP
  <2>5. /\ attempts' <= fails' + CC + LL
        /\ attempts' + PP <= Limit - 1 + N + LL
    BY <1>a, <1>b, <1>c, <1>d, <1>e, <2>1, <2>3, <2>4
  <2> QED BY <2>5 DEF Accounted, PP, CC, LL
<1>6. ASSUME NEW r \in Requests, Expire(r) \/ Store(r) PROVE Accounted'
  <2>1. End(r) /\ pc[r] # "count" /\ UNCHANGED <<attempts, fails, faults>>
    BY <1>6 DEF Expire, Store
  <2> QED BY <1>f, <1>g, <2>1 DEF Counting
<1>7. ASSUME NEW r \in Requests, Write(r) PROVE Accounted'
  <2>1. Counting' = Counting /\ Passed' \subseteq Passed
    BY <1>7, <1>a DEF Write, Goto, TypeOK, Passed, Counting
  <2> QED BY <1>7, <1>f, <2>1 DEF Write, keyVars
<1>8. ASSUME NEW r \in Requests, Generate(r) PROVE Accounted'
  <2>0. UNCHANGED <<attempts, fails, faults>> BY <1>8 DEF Generate
  <2>1. CASE End(r) BY <1>8, <1>f, <1>g, <2>0, <2>1 DEF Generate, Counting
  <2>2. ASSUME NEW c \in Codes, hand' = [hand EXCEPT ![r].code = c], Goto(r, "store")
        PROVE Accounted'
    <3>1. Counting' = Counting /\ Passed' \subseteq Passed
      BY <1>8, <1>a, <2>2 DEF Generate, Goto, TypeOK, Hand, Passed, Counting
    <3> QED BY <1>f, <2>0, <3>1
  <2> QED BY <1>8, <2>1, <2>2 DEF Generate
<1>9. ASSUME NEW r \in Requests, Lookup(r) PROVE Accounted'
  <2>0. UNCHANGED <<attempts, fails, faults>> BY <1>9 DEF Lookup, keyVars
  <2>1. CASE End(r) BY <1>9, <1>f, <1>g, <2>0, <2>1 DEF Lookup, Counting
  <2>2. CASE Goto(r, "delete") /\ UNCHANGED <<hand, stale>>
    <3>1. Counting' = Counting /\ Passed' \subseteq Passed
      BY <1>9, <1>a, <2>2 DEF Lookup, Goto, TypeOK, Passed, Counting
    <3> QED BY <1>f, <2>0, <3>1
  <2> QED BY <1>9, <2>1, <2>2 DEF Lookup
<1>10. ASSUME NEW r \in Requests, Delete(r) PROVE Accounted'
  <2>1. Counting' = Counting /\ Passed' \subseteq Passed
    BY <1>10, <1>a DEF Delete, Goto, TypeOK, Passed, Counting
  <2> QED BY <1>10, <1>f, <2>1 DEF Delete
<1>11. ASSUME NEW r \in Requests, RequestFails(r) PROVE Accounted'
  <2>1. /\ faults' = faults + 1 /\ UNCHANGED <<attempts, fails>>
        /\ Passed' = Passed \ {r} /\ Counting' = Counting \ {r}
    BY <1>11, <1>g DEF RequestFails, keyVars
  <2>2. PP <= P BY <1>b, <2>1, FS_Subset DEF P, PP
  <2>3. /\ attempts' <= fails' + CC + LL
        /\ attempts' + PP <= Limit - 1 + N + LL
    BY <1>a, <1>b, <1>c, <1>d, <1>e, <2>1, <2>2
  <2> QED BY <2>3 DEF Accounted, PP, CC, LL
<1>12. CASE CounterExpires
  <2>1. attempts' = 0 /\ fails' = 0 /\ faults' = faults BY <1>12 DEF CounterExpires
  <2>2. /\ attempts' <= fails' + CC + LL
        /\ attempts' + PP <= Limit - 1 + N + LL
    BY <1>a, <1>c, <1>d, <2>1
  <2> QED BY <2>2 DEF Accounted, PP, CC, LL
<1>13. CASE CodeAges \/ CodeExpires
  BY <1>13, <1>f DEF CodeAges, CodeExpires, historyVars, Passed, Counting
<1>14. CASE Crash
  <2>1. faults' = faults + 1 /\ UNCHANGED <<attempts, fails>> BY <1>14 DEF Crash, keyVars
  <2>2. Passed' \subseteq Passed BY <1>14 DEF Crash, Passed
  <2>3. PP <= P BY <1>b, <2>2, FS_Subset DEF P, PP
  <2>4. /\ attempts' <= fails' + CC + LL
        /\ attempts' + PP <= Limit - 1 + N + LL
    BY <1>a, <1>b, <1>c, <1>d, <1>e, <2>1, <2>3
  <2> QED BY <2>4 DEF Accounted, PP, CC, LL
<1>15. CASE UNCHANGED vars
  BY <1>15, <1>f DEF vars, keyVars, historyVars, Passed, Counting
<1> QED BY <1>1, <1>2, <1>3, <1>4, <1>5, <1>6, <1>7, <1>8, <1>9, <1>10, <1>11, <1>12,
           <1>13, <1>14, <1>15 DEF Next, RequestStep

(************************************ The theorems ************************************)

LEMMA InvInit == Init => Inv
<1>1. Init => ClockRuns BY DEF Init, ClockRuns
<1>2. Init => \A r \in Requests : Known(r) BY DEF Init, Known
<1>3. Init => SpentGone BY DEF Init, SpentGone
<1> QED BY <1>1, <1>2, <1>3, TypedInit, AccountedInit DEF Inv

LEMMA InvStep == Inv /\ [Next]_vars => Inv'
  BY TypedStep, ClockStep, KnownStep, SpentStep, AccountedStep DEF Inv

LEMMA Invariant == Spec => []Inv
  BY InvInit, InvStep, PTL DEF Spec

\* The values of the user's row, of the keys and of every request under way.
THEOREM PinTyped == Spec => []TypeOK
<1>1. Inv => TypeOK BY DEF Inv, Typed
<1> QED BY Invariant, <1>1, PTL

\* However many requests run at once, the number of wrong PINs that withdrawals have
\* compared before the counter of verifyUserPin expires is bounded by the limit and by
\* the number of requests.  changePin's comparisons are not among them.
THEOREM PinAttemptsBounded == Spec => []AttemptsBounded
<1>1. Inv => AttemptsBounded
  <2> SUFFICES ASSUME Inv PROVE AttemptsBounded
    OBVIOUS
  <2> DEFINE P == Cardinality(Passed)
  <2>1. P \in Nat
    <3>1. Passed \in SUBSET Requests /\ {} \in SUBSET Requests /\ Passed \cap {} = {}
      BY DEF Passed
    <3> QED BY <3>1, DisjointBound
  <2>2. attempts + P <= Limit - 1 + N + N * faults BY DEF Inv, Accounted
  <2>3. attempts \in Nat /\ faults \in Nat /\ Limit \in Nat
    BY NumbersAssumption DEF Inv, Typed, TypeOK
  <2>4. N \in Nat /\ N * faults \in Nat /\ N * (faults + 1) = N * faults + N
    BY <2>3, RequestsFinite
  <2> HIDE DEF P
  <2>5. attempts < Limit + N * (faults + 1) BY <2>1, <2>2, <2>3, <2>4
  <2> QED BY <2>5 DEF AttemptsBounded, N
<1> QED BY Invariant, <1>1, PTL

\* Without a fault between INCR and EXPIRE the counter never stays without a time to
\* live, whatever other requests do meanwhile.
THEOREM PinClockRuns == Spec => []ClockRuns
<1>1. Inv => ClockRuns BY DEF Inv
<1> QED BY Invariant, <1>1, PTL

\* A reset code that confirmPinReset deleted comes back only by a resend that had read
\* it before.
THEOREM PinSpentForGood == Spec => []SpentForGood
<1>1. Inv => SpentForGood BY DEF Inv, SpentGone, SpentForGood
<1> QED BY Invariant, <1>1, PTL

\* setPin and changePin overwrite nothing but what they were meant to, unless another
\* request wrote after they had read.
THEOREM PinReplacedKnowingly == Spec => []ReplacedKnowingly
<1>1. Inv => ReplacedKnowingly BY DEF Inv, Known, ReplacedKnowingly
<1> QED BY Invariant, <1>1, PTL
=================================================================================
