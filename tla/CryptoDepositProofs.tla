--------------------------- MODULE CryptoDepositProofs ---------------------------
(*********************************************************************************)
(* Deposits on chain, for every finite set of callers and every number of        *)
(* deposits and faults: what credits imply, and how many of them there can be;   *)
(* and the cache of rates that a deposit is converted with, for every interval,  *)
(* time to live and latency that fit: which rate a conversion reads, and when    *)
(* there may be none.                                                            *)
(*********************************************************************************)
EXTENDS CryptoDeposit, Prices, FiniteSetTheorems, TLAPS

N == Cardinality(Verifiers)

\* Where a verification stands says what it has seen, and what it saw still holds.
VerifiersSound ==
  \A v \in Verifiers :
    /\ pc[v] # "idle" => about[v] \in Hashes
    /\ pc[v] \in {"reread", "credit", "settle"} => Verified(about[v])
    /\ pc[v] \in {"provider", "reread", "credit", "settle"} => status[about[v]] # "none"
    /\ pc[v] = "settle" => credits[about[v]] > 0

\* What is credited has a row, which is written once.
RowsSound == \A h \in Hashes : credits[h] > 0 => status[h] # "none"

\* While the row is PENDING each credit belongs to a verification about to settle it or
\* to one that a fault stopped there; once it is SUCCESS only the verifications already
\* past the check can add to them.
Accounted(h) ==
  IF status[h] = "SUCCESS"
    THEN credits[h] + Cardinality(At(h, "credit")) <= N * faults + N
    ELSE credits[h] <= N * faults + Cardinality(At(h, "settle"))

LedgerSound ==
  /\ TypeOK /\ VerifiersSound /\ RowsSound
  /\ SettledIsCredited /\ CreditedIsConfirmed

Inv == LedgerSound /\ \A h \in Hashes : Accounted(h)

LEMMA VerifiersFinite == IsFiniteSet(Verifiers) /\ N \in Nat
  BY FinitenessAssumption, FS_Singleton, FS_Union, FS_CardinalityType DEF Verifiers, N

\* The verifications at two points are no more than all of them.
LEMMA AtBound ==
  ASSUME NEW h
  PROVE  /\ IsFiniteSet(At(h, "credit")) /\ IsFiniteSet(At(h, "settle"))
         /\ Cardinality(At(h, "credit")) \in Nat /\ Cardinality(At(h, "settle")) \in Nat
         /\ Cardinality(At(h, "credit")) + Cardinality(At(h, "settle")) <= N
<1> DEFINE C == At(h, "credit")
           S == At(h, "settle")
<1>1. C \subseteq Verifiers /\ S \subseteq Verifiers /\ C \cap S = {} BY DEF At
<1> HIDE DEF C, S
<1>2. IsFiniteSet(C) /\ IsFiniteSet(S) BY <1>1, VerifiersFinite, FS_Subset
<1>3. Cardinality(C) \in Nat /\ Cardinality(S) \in Nat BY <1>2, FS_CardinalityType
<1>4. Cardinality(C \cap S) = 0 BY <1>1, FS_EmptySet
<1>5. Cardinality(C \cup S) = Cardinality(C) + Cardinality(S)
  <2>1. Cardinality(C \cup S) = Cardinality(C) + Cardinality(S) - Cardinality(C \cap S)
    BY <1>2, FS_Union
  <2> QED BY <1>3, <1>4, <2>1
<1>6. Cardinality(C \cup S) <= N BY <1>1, VerifiersFinite, FS_Subset DEF N
<1> QED BY <1>2, <1>3, <1>5, <1>6 DEF C, S

(******************************* What credits imply *******************************)

LEMMA LedgerInit == Init => LedgerSound
<1> SUFFICES ASSUME Init PROVE LedgerSound
  OBVIOUS
<1>1. TypeOK BY BoundAssumption DEF Init, TypeOK, Points, Declared
<1>2. VerifiersSound /\ RowsSound BY DEF Init, VerifiersSound, RowsSound
<1>3. SettledIsCredited /\ CreditedIsConfirmed
  BY DEF Init, SettledIsCredited, CreditedIsConfirmed
<1> QED BY <1>1, <1>2, <1>3 DEF LedgerSound

LEMMA LedgerStep == LedgerSound /\ [Next]_vars => LedgerSound'
<1> SUFFICES ASSUME LedgerSound, [Next]_vars PROVE LedgerSound'
  OBVIOUS
<1> USE DEF LedgerSound
<1>1. ASSUME NEW h \in Hashes, NEW declared \in Declared, InitiateDeposit(h, declared)
      PROVE LedgerSound'
  <2>1. TypeOK' BY <1>1 DEF InitiateDeposit, TypeOK
  <2>2. (VerifiersSound /\ RowsSound)'
    BY <1>1 DEF InitiateDeposit, TypeOK, VerifiersSound, RowsSound, Verified
  <2>3. (SettledIsCredited /\ CreditedIsConfirmed)'
    BY <1>1 DEF InitiateDeposit, TypeOK, RowsSound, SettledIsCredited, CreditedIsConfirmed
  <2> QED BY <2>1, <2>2, <2>3
<1>2. ASSUME NEW h \in Hashes, NEW outcome \in {"confirmed", "reverted"}, Mine(h, outcome)
      PROVE LedgerSound'
  <2>1. TypeOK' BY <1>2 DEF Mine, TypeOK
  <2>2. (VerifiersSound /\ RowsSound)' BY <1>2 DEF Mine, TypeOK, VerifiersSound, RowsSound, Verified
  <2>3. (SettledIsCredited /\ CreditedIsConfirmed)'
    BY <1>2 DEF Mine, TypeOK, SettledIsCredited, CreditedIsConfirmed
  <2> QED BY <2>1, <2>2, <2>3
<1>3. ASSUME NEW h \in Hashes, DeliverEvent(h) PROVE LedgerSound'
  <2>1. TypeOK' BY <1>3 DEF DeliverEvent, TypeOK
  <2> QED BY <1>3, <2>1 DEF DeliverEvent, VerifiersSound, RowsSound, Verified, SettledIsCredited,
                            CreditedIsConfirmed
<1>4. ASSUME NEW v \in Verifiers, NEW h \in Hashes, Start(v, h) PROVE LedgerSound'
  <2>1. TypeOK' BY <1>4 DEF Start, TypeOK, Points
  <2>2. VerifiersSound' BY <1>4 DEF Start, TypeOK, VerifiersSound, Verified
  <2> QED BY <1>4, <2>1, <2>2 DEF Start, RowsSound, SettledIsCredited, CreditedIsConfirmed
<1>5. ASSUME NEW v \in Verifiers, Lookup(v) \/ AskProvider(v) \/ Reread(v) \/ VerifyFails(v)
      PROVE LedgerSound'
  <2>1. /\ UNCHANGED <<chain, row, status, credits>>
        /\ faults' \in 0..MaxFaults
    BY <1>5, BoundAssumption DEF Lookup, AskProvider, Reread, VerifyFails, TypeOK
  <2>2. /\ event' \in [Hashes -> {"none", "queued", "done"}] /\ pc' \in [Verifiers -> Points]
        /\ about' \in [Verifiers -> Hashes \cup {None}]
    BY <1>5 DEF Lookup, AskProvider, Reread, VerifyFails, End, Advance, TypeOK, Points
  <2>3. VerifiersSound'
    <3>1. CASE Lookup(v)
      BY <2>1, <3>1 DEF Lookup, End, Advance, VerifiersSound, Verified, TypeOK
    <3>2. CASE AskProvider(v)
      BY <2>1, <3>2 DEF AskProvider, End, Advance, VerifiersSound, Verified, TypeOK
    <3>3. CASE Reread(v)
      BY <2>1, <3>3 DEF Reread, StillPending, End, Advance, VerifiersSound, Verified, TypeOK
    <3>4. CASE VerifyFails(v)
      BY <2>1, <3>4 DEF VerifyFails, End, VerifiersSound, Verified, TypeOK
    <3> QED BY <1>5, <3>1, <3>2, <3>3, <3>4
  <2> QED BY <2>1, <2>2, <2>3 DEF TypeOK, RowsSound, SettledIsCredited, CreditedIsConfirmed
<1>6. ASSUME NEW v \in Verifiers, Credit(v) PROVE LedgerSound'
  <2>1. about[v] \in Hashes /\ Verified(about[v]) BY <1>6 DEF Credit, VerifiersSound
  <2>2. \A h \in Hashes : credits'[h] >= credits[h] /\ (h # about[v] => credits'[h] = credits[h])
    BY <1>6 DEF Credit, TypeOK
  <2>3. TypeOK'
    <3>1. credits[about[v]] + 1 \in Nat BY <2>1 DEF TypeOK
    <3>2. credits' \in [Hashes -> Nat] BY <1>6, <3>1 DEF Credit, TypeOK
    <3>3. pc' \in [Verifiers -> Points] BY <1>6 DEF Credit, Advance, TypeOK, Points
    <3> QED BY <1>6, <3>2, <3>3 DEF Credit, Advance, TypeOK
  <2>4. VerifiersSound'
    BY <1>6, <2>1, <2>2 DEF Credit, Advance, VerifiersSound, Verified, TypeOK
  <2>5. SettledIsCredited' BY <1>6, <2>2 DEF Credit, SettledIsCredited, TypeOK
  <2>6. CreditedIsConfirmed'
    BY <1>6, <2>1, <2>2 DEF Credit, CreditedIsConfirmed, Verified, TypeOK, Declared
  <2>7. RowsSound' BY <1>6, <2>2 DEF Credit, RowsSound, VerifiersSound
  <2> QED BY <2>3, <2>4, <2>5, <2>6, <2>7
<1>7. ASSUME NEW v \in Verifiers, Settle(v) PROVE LedgerSound'
  <2>1. about[v] \in Hashes /\ credits[about[v]] > 0 BY <1>7 DEF Settle, VerifiersSound
  <2>2. TypeOK' BY <1>7 DEF Settle, End, TypeOK, Points
  <2>3. VerifiersSound' BY <1>7 DEF Settle, End, VerifiersSound, Verified, TypeOK
  <2>4. SettledIsCredited' BY <1>7, <2>1 DEF Settle, SettledIsCredited, TypeOK
  <2> QED BY <1>7, <2>1, <2>2, <2>3, <2>4 DEF Settle, RowsSound, CreditedIsConfirmed, TypeOK
<1>8. CASE Crash
  <2>1. TypeOK' BY <1>8, BoundAssumption DEF Crash, TypeOK, Points
  <2> QED BY <1>8, <2>1 DEF Crash, VerifiersSound, RowsSound, SettledIsCredited,
                            CreditedIsConfirmed
<1>9. CASE UNCHANGED vars
  BY <1>9 DEF vars, TypeOK, VerifiersSound, Verified, RowsSound, SettledIsCredited,
              CreditedIsConfirmed
<1> QED BY <1>1, <1>2, <1>3, <1>4, <1>5, <1>6, <1>7, <1>8, <1>9 DEF Next, VerifyStep

LEMMA LedgerAlways == Safety => []LedgerSound
  BY LedgerInit, LedgerStep, PTL DEF Safety

\* Every variable keeps its type.
THEOREM CryptoTyped == Safety => []TypeOK
<1>1. LedgerSound => TypeOK BY DEF LedgerSound
<1> QED BY <1>1, LedgerAlways, PTL

\* SUCCESS implies a credit.
THEOREM CryptoSettledCredited == Safety => []SettledIsCredited
<1>1. LedgerSound => SettledIsCredited BY DEF LedgerSound
<1> QED BY <1>1, LedgerAlways, PTL

\* A credit implies a confirmed transaction that agrees with what the row declares.
THEOREM CryptoCreditedConfirmed == Safety => []CreditedIsConfirmed
<1>1. LedgerSound => CreditedIsConfirmed BY DEF LedgerSound
<1> QED BY <1>1, LedgerAlways, PTL

(****************************** How many credits ******************************)

\* A step that moves no verification in or out of the two points changes no account.
LEMMA SameAccounts ==
  ASSUME LedgerSound, NEW h \in Hashes, Accounted(h),
         credits'[h] = credits[h], faults' = faults,
         status'[h] = "SUCCESS" <=> status[h] = "SUCCESS",
         At(h, "credit")' = At(h, "credit"), At(h, "settle")' = At(h, "settle")
  PROVE  Accounted(h)'
  BY DEF Accounted

\* After a fault the limit has grown by all the verifications that may have been lost.
LEMMA AccountsAfterFault ==
  ASSUME LedgerSound, LedgerSound', NEW h \in Hashes, Accounted(h),
         credits'[h] = credits[h], status'[h] = status[h], faults' = faults + 1,
         At(h, "credit")' \subseteq At(h, "credit")
  PROVE  Accounted(h)'
<1> DEFINE c == Cardinality(At(h, "credit"))
           s == Cardinality(At(h, "settle"))
           c1 == Cardinality(At(h, "credit")')
           s1 == Cardinality(At(h, "settle")')
<1>1. c \in Nat /\ s \in Nat /\ c + s <= N BY AtBound
<1>2. c1 \in Nat /\ c1 <= c
  BY AtBound, FS_Subset, FS_CardinalityType
<1>3. s1 \in Nat
  <2>1. At(h, "settle")' \subseteq Verifiers BY DEF At
  <2> QED BY <2>1, VerifiersFinite, FS_Subset, FS_CardinalityType
<1>4. credits[h] \in Nat /\ faults \in Nat /\ N \in Nat
  BY VerifiersFinite, BoundAssumption DEF LedgerSound, TypeOK
<1>5. N * (faults + 1) = N * faults + N /\ N * faults \in Nat BY <1>4
<1>6. N' = N BY DEF N, Verifiers
<1>7. CASE status[h] = "SUCCESS"
  <2>1. credits[h] + c <= N * faults + N BY <1>7 DEF Accounted
  <2>2. credits[h] + c1 <= N * (faults + 1) + N BY <1>1, <1>2, <1>4, <1>5, <2>1
  <2> QED BY <1>6, <1>7, <2>2 DEF Accounted
<1>8. CASE status[h] # "SUCCESS"
  <2>1. credits[h] <= N * faults + s BY <1>8 DEF Accounted
  <2>2. credits[h] <= N * (faults + 1) + s1 BY <1>1, <1>3, <1>4, <1>5, <2>1
  <2> QED BY <1>6, <1>8, <2>2 DEF Accounted
<1> QED BY <1>7, <1>8

LEMMA AccountsInit == Init => \A h \in Hashes : Accounted(h)
<1> SUFFICES ASSUME Init, NEW h \in Hashes PROVE Accounted(h)
  OBVIOUS
<1>1. At(h, "settle") = {} BY DEF Init, At
<1>2. credits[h] = 0 /\ status[h] = "none" /\ faults = 0 BY DEF Init
<1>3. Cardinality(At(h, "settle")) = 0 BY <1>1, FS_EmptySet
<1>4. 0 <= N * 0 + 0 BY VerifiersFinite
<1> QED BY <1>2, <1>3, <1>4 DEF Accounted

LEMMA AccountsStep == Inv /\ LedgerSound' /\ [Next]_vars => \A h \in Hashes : Accounted(h)'
<1> SUFFICES ASSUME Inv, LedgerSound', [Next]_vars, NEW h \in Hashes PROVE Accounted(h)'
  OBVIOUS
<1> USE DEF Inv
<1>0. /\ N \in Nat /\ faults \in Nat /\ credits[h] \in Nat
      /\ N * faults \in Nat /\ N' = N
  <2>1. N \in Nat /\ faults \in Nat /\ credits[h] \in Nat
    BY VerifiersFinite, BoundAssumption DEF LedgerSound, TypeOK
  <2> QED BY <2>1 DEF N, Verifiers
<1>1. ASSUME NEW g \in Hashes,
             \/ \E declared \in Declared : InitiateDeposit(g, declared)
             \/ \E outcome \in {"confirmed", "reverted"} : Mine(g, outcome)
             \/ DeliverEvent(g)
      PROVE Accounted(h)'
  <2>1. UNCHANGED <<credits, faults, pc, about>>
    BY <1>1 DEF InitiateDeposit, Mine, DeliverEvent
  <2>2. status'[h] = "SUCCESS" <=> status[h] = "SUCCESS"
    BY <1>1 DEF InitiateDeposit, Mine, DeliverEvent, LedgerSound, TypeOK, RowsSound,
                SettledIsCredited, CreditedIsConfirmed
  <2> QED BY <2>1, <2>2, SameAccounts DEF At
<1>2. ASSUME NEW v \in Verifiers,
             Lookup(v) \/ AskProvider(v) \/ \E g \in Hashes : Start(v, g)
      PROVE Accounted(h)'
  <2>1. UNCHANGED <<credits, faults, status>> BY <1>2 DEF Lookup, AskProvider, Start
  <2>2. At(h, "credit")' = At(h, "credit") /\ At(h, "settle")' = At(h, "settle")
    BY <1>2 DEF Lookup, AskProvider, Start, Advance, End, At, LedgerSound, TypeOK
  <2> QED BY <2>1, <2>2, SameAccounts
<1>3. ASSUME NEW v \in Verifiers, Reread(v) PROVE Accounted(h)'
  <2>1. UNCHANGED <<credits, faults, status>> BY <1>3 DEF Reread
  <2>2. At(h, "settle")' = At(h, "settle")
    BY <1>3 DEF Reread, Advance, End, At, LedgerSound, TypeOK
  <2>3. status[h] = "SUCCESS" => At(h, "credit")' = At(h, "credit")
    BY <1>3 DEF Reread, StillPending, Advance, End, At, LedgerSound, TypeOK
  <2> QED BY <1>0, <2>1, <2>2, <2>3 DEF Accounted
<1>4. ASSUME NEW v \in Verifiers, Credit(v) PROVE Accounted(h)'
  <2>1. UNCHANGED <<faults, status>> BY <1>4 DEF Credit
  <2>2. CASE about[v] # h
    <3>1. credits'[h] = credits[h] BY <1>4, <2>2 DEF Credit, LedgerSound, TypeOK
    <3>2. At(h, "credit")' = At(h, "credit") /\ At(h, "settle")' = At(h, "settle")
      BY <1>4, <2>2 DEF Credit, Advance, At, LedgerSound, TypeOK
    <3> QED BY <2>1, <3>1, <3>2, SameAccounts
  <2>3. CASE about[v] = h
    <3>1. credits'[h] = credits[h] + 1 BY <1>4, <2>3 DEF Credit, LedgerSound, TypeOK
    <3>2. At(h, "credit")' = At(h, "credit") \ {v} /\ v \in At(h, "credit")
      BY <1>4, <2>3 DEF Credit, Advance, At, LedgerSound, TypeOK
    <3>3. At(h, "settle")' = At(h, "settle") \cup {v} /\ v \notin At(h, "settle")
      BY <1>4, <2>3 DEF Credit, Advance, At, LedgerSound, TypeOK
    <3>4. Cardinality(At(h, "credit")') = Cardinality(At(h, "credit")) - 1
      BY <3>2, AtBound, FS_RemoveElement
    <3>5. Cardinality(At(h, "settle")') = Cardinality(At(h, "settle")) + 1
      BY <3>3, AtBound, FS_AddElement
    <3>6. /\ Cardinality(At(h, "credit")) \in Nat /\ Cardinality(At(h, "settle")) \in Nat
      BY AtBound
    <3> HIDE DEF Inv
    <3>7. Accounted(h) BY DEF Inv
    <3>8. CASE status[h] = "SUCCESS"
      <4>1. credits[h] + Cardinality(At(h, "credit")) <= N * faults + N
        BY <3>7, <3>8 DEF Accounted
      <4>2. credits'[h] + Cardinality(At(h, "credit")') <= N * faults + N
        BY <1>0, <3>1, <3>4, <3>6, <4>1
      <4> QED BY <1>0, <2>1, <3>8, <4>2 DEF Accounted
    <3>9. CASE status[h] # "SUCCESS"
      <4>1. credits[h] <= N * faults + Cardinality(At(h, "settle"))
        BY <3>7, <3>9 DEF Accounted
      <4>2. credits'[h] <= N * faults + Cardinality(At(h, "settle")')
        BY <1>0, <3>1, <3>5, <3>6, <4>1
      <4> QED BY <1>0, <2>1, <3>9, <4>2 DEF Accounted
    <3> QED BY <3>8, <3>9
  <2> QED BY <2>2, <2>3
<1>5. ASSUME NEW v \in Verifiers, Settle(v) PROVE Accounted(h)'
  <2>1. UNCHANGED <<faults, credits>> BY <1>5 DEF Settle
  <2>2. At(h, "credit")' = At(h, "credit") BY <1>5 DEF Settle, End, At, LedgerSound, TypeOK
  <2>3. CASE about[v] # h
    <3>1. status'[h] = status[h] BY <1>5, <2>3 DEF Settle, LedgerSound, TypeOK
    <3>2. At(h, "settle")' = At(h, "settle")
      BY <1>5, <2>3 DEF Settle, End, At, LedgerSound, TypeOK
    <3> QED BY <2>1, <2>2, <3>1, <3>2, SameAccounts
  <2>4. CASE about[v] = h
    <3>1. status'[h] = "SUCCESS" BY <1>5, <2>4 DEF Settle, LedgerSound, TypeOK
    <3>2. /\ Cardinality(At(h, "credit")) \in Nat /\ Cardinality(At(h, "settle")) \in Nat
          /\ Cardinality(At(h, "credit")) + Cardinality(At(h, "settle")) <= N
      BY AtBound
    <3>3. credits[h] + Cardinality(At(h, "credit")) <= N * faults + N
      BY <1>0, <3>2 DEF Accounted
    <3> QED BY <1>0, <2>1, <2>2, <3>1, <3>3 DEF Accounted
  <2> QED BY <2>3, <2>4
<1>6. ASSUME NEW v \in Verifiers, VerifyFails(v) PROVE Accounted(h)'
  <2>1. UNCHANGED <<credits, status>> /\ faults' = faults + 1 BY <1>6 DEF VerifyFails
  <2>2. At(h, "credit")' \subseteq At(h, "credit")
    BY <1>6 DEF VerifyFails, End, At, LedgerSound, TypeOK
  <2> QED BY <2>1, <2>2, AccountsAfterFault
<1>7. CASE Crash
  <2>1. UNCHANGED <<credits, status>> /\ faults' = faults + 1 BY <1>7 DEF Crash
  <2>2. At(h, "credit")' \subseteq At(h, "credit") BY <1>7 DEF Crash, At
  <2> QED BY <2>1, <2>2, AccountsAfterFault
<1>8. CASE UNCHANGED vars BY <1>8, SameAccounts DEF vars, At
<1> QED BY <1>1, <1>2, <1>3, <1>4, <1>5, <1>6, <1>7, <1>8 DEF Next, VerifyStep

LEMMA InvAlways == Safety => []Inv
<1>1. Init => Inv BY LedgerInit, AccountsInit DEF Inv
<1>2. Inv /\ [Next]_vars => Inv'
  <2> SUFFICES ASSUME Inv, [Next]_vars PROVE Inv'
    OBVIOUS
  <2>1. LedgerSound' BY LedgerStep DEF Inv
  <2>2. \A h \in Hashes : Accounted(h)' BY <2>1, AccountsStep
  <2> QED BY <2>1, <2>2 DEF Inv
<1> QED BY <1>1, <1>2, PTL DEF Safety

\* A deposit is credited at most once for each verification that can be under way and
\* each fault, plus the first time round: the exact extent of repeated credits.
THEOREM CryptoCreditsBounded == Safety => []CreditsBounded
<1>1. Inv => CreditsBounded
  <2> SUFFICES ASSUME Inv, NEW h \in Hashes
               PROVE  credits[h] <= Cardinality(Verifiers) * (faults + 1)
    BY DEF CreditsBounded
  <2>1. /\ Cardinality(At(h, "credit")) \in Nat /\ Cardinality(At(h, "settle")) \in Nat
        /\ Cardinality(At(h, "credit")) + Cardinality(At(h, "settle")) <= N
    BY AtBound
  <2>2. N \in Nat /\ faults \in Nat /\ credits[h] \in Nat
    BY VerifiersFinite, BoundAssumption DEF Inv, LedgerSound, TypeOK
  <2>3. N * faults + N = N * (faults + 1) /\ N * faults \in Nat BY <2>2
  <2>4. credits[h] <= N * faults + N BY <2>1, <2>2, <2>3 DEF Inv, Accounted
  <2> QED BY <2>3, <2>4 DEF N
<1> QED BY <1>1, InvAlways, PTL

\* A settled deposit with no verification past the check is never credited again.
THEOREM CryptoSettledForGood == Safety => SettledForGood
<1> DEFINE Quiet(h) == status[h] = "SUCCESS" /\ At(h, "credit") = {}
<1>1. LedgerSound /\ [Next]_vars =>
        [\A h \in Hashes : Quiet(h) => credits'[h] = credits[h] /\ At(h, "credit")' = {}]_vars
  <2> SUFFICES ASSUME LedgerSound, Next, NEW h \in Hashes, Quiet(h)
               PROVE  credits'[h] = credits[h] /\ At(h, "credit")' = {}
    OBVIOUS
  <2>1. \A v \in Verifiers : ~(about[v] = h /\ pc[v] = "credit") BY DEF At
  <2> USE DEF LedgerSound, TypeOK
  <2>2. ASSUME NEW v \in Verifiers, Credit(v)
        PROVE  credits'[h] = credits[h] /\ At(h, "credit")' = {}
    BY <2>1, <2>2 DEF Credit, Advance, At
  <2>3. ASSUME NEW v \in Verifiers, Reread(v)
        PROVE  credits'[h] = credits[h] /\ At(h, "credit")' = {}
    BY <2>1, <2>3 DEF Reread, StillPending, Advance, End, At
  <2>4. ASSUME NEW v \in Verifiers,
               Lookup(v) \/ AskProvider(v) \/ Settle(v) \/ VerifyFails(v)
        PROVE  credits'[h] = credits[h] /\ At(h, "credit")' = {}
    BY <2>1, <2>4 DEF Lookup, AskProvider, Settle, VerifyFails, Advance, End, At
  <2>5. ASSUME NEW v \in Verifiers, NEW g \in Hashes, Start(v, g)
        PROVE  credits'[h] = credits[h] /\ At(h, "credit")' = {}
    BY <2>1, <2>5 DEF Start, At
  <2>6. ASSUME NEW g \in Hashes,
               \/ \E declared \in Declared : InitiateDeposit(g, declared)
               \/ \E outcome \in {"confirmed", "reverted"} : Mine(g, outcome)
               \/ DeliverEvent(g)
        PROVE  credits'[h] = credits[h] /\ At(h, "credit")' = {}
    BY <2>1, <2>6 DEF InitiateDeposit, Mine, DeliverEvent, At
  <2>7. CASE Crash BY <2>7 DEF Crash, At
  <2> QED BY <2>2, <2>3, <2>4, <2>5, <2>6, <2>7 DEF Next, VerifyStep
<1> QED BY <1>1, LedgerAlways, PTL DEF Safety, SettledForGood

(********************************* The price feed ********************************)

\* The rates of any feed.
AnyRate == UNION {Rates[f] : f \in Feeds}
Poll == [age : Nat, rate : AnyRate]

Functions ==
  /\ cached \in [Feeds -> AnyRate \cup {NoRate}]
  /\ left \in [Feeds -> Nat] /\ timer \in [Feeds -> Nat]
  /\ polls \in [Feeds -> SUBSET Poll]
  /\ \A f \in Feeds : missed[f] <= setbacks + 1

\* A key is missing when its time to live is over.
Present(f) == Cold(f) <=> left[f] = 0

\* No two polls of a feed are asked at once; one just asked has set its timer.
Questions(f) ==
  /\ \A p, q \in polls[f] : p.age = q.age => p = q
  /\ \A p \in polls[f] : p.age = 0 => timer[f] = Interval[f]

AtMostOne(f) == \A p, q \in polls[f] : p = q

\* Until the modules are up, each feed has been asked once, and is waited for or not.
Warming(f) ==
  ~up =>
    /\ timer[f] = Interval[f] /\ AtMostOne(f)
    /\ missed[f] = 1 <=> polls[f] # {}

\* How long ago a rate was stored at most: since then no other poll than those in
\* flight and those that failed was due, and before the first of them the modules may
\* have waited for the other feed.
Since(f, g, time) == left[f] + Latency[g] + time >= TTL[f] + timer[f]
Stored(f) ==
  \A g \in Feeds \ {f} :
    /\ ~up /\ missed[f] = 0 =>
         left[f] + Latency[g] >= TTL[f] /\ \A p \in polls[g] : left[f] + p.age >= TTL[f]
    /\ up /\ missed[f] = 0 /\ polls[f] = {} => Since(f, g, Interval[f])
    /\ up /\ missed[f] = 0 /\ AtMostOne(f) => Since(f, g, 2 * Interval[f])
    /\ up /\ missed[f] = 1 /\ polls[f] = {} => Since(f, g, 2 * Interval[f])

Fed(f) == Present(f) /\ Questions(f) /\ Warming(f) /\ Stored(f)

\* A conversion about to read the rate of NGN again finds the one it has read, unless
\* it has moved.
Reading(c) ==
  /\ conversion[c].at = "idle" => conversion[c].first = NoRate
  /\ conversion[c].at = "again" /\ conversion[c].first # NoRate /\ c \notin moved =>
       cached["ngn"] = conversion[c].first

Rested == \A c \in Conversions : Reading(c)

PricesInv ==
  /\ PricesTypeOK /\ Functions /\ (\A f \in Feeds : Fed(f))
  /\ Rested /\ RatesAgree

Conversion == [at : ConversionPoints, first : Rates["ngn"] \cup {NoRate},
               second : Rates["ngn"] \cup {NoRate}]

\* The feeds and what is assumed of their times.
LEMMA Times ==
  /\ Feeds = {"mon", "ngn"}
  /\ \A f \in Feeds :
       /\ Interval[f] \in Nat \ {0} /\ TTL[f] \in Nat \ {0} /\ Latency[f] \in Nat
       /\ TTL[f] >= 2 * Interval[f]
BY FeedsAssumption, TimesAssumption, TimeToLiveAssumption

\* The types, of one feed.
LEMMA Typed ==
  ASSUME PricesTypeOK, Functions, NEW f \in Feeds
  PROVE  /\ left[f] \in Nat /\ left[f] <= TTL[f]
         /\ timer[f] \in Nat /\ timer[f] <= Interval[f]
         /\ missed[f] \in Nat
         /\ \A p \in polls[f] : p \in Poll /\ p.age \in Nat /\ p.age <= Latency[f] /\ p.rate \in Rates[f]
<1>1. left[f] \in 0..TTL[f] /\ timer[f] \in 0..Interval[f] /\ missed[f] \in 0..MaxSetbacks + 1
  BY DEF PricesTypeOK
<1>2. \A p \in polls[f] : p \in [age : 0..Latency[f], rate : Rates[f]] /\ p \in Poll
  BY DEF PricesTypeOK, Functions
<1> QED BY <1>1, <1>2, Times, MaxSetbacksAssumption DEF Poll

\* The start and a restart ask each feed once.
LEMMA Asking ==
  ASSUME NEW asked, WarmUp(asked)
  PROVE  /\ asked \in [Feeds -> SUBSET Poll]
         /\ \A f \in Feeds :
              /\ asked[f] \subseteq [age : 0..Latency[f], rate : Rates[f]]
              /\ asked[f] # {} /\ (\A p, q \in asked[f] : p = q) /\ \A p \in asked[f] : p.age = 0
<1>1. PICK mon \in Asked("mon"), ngn \in Asked("ngn") :
        asked = [f \in Feeds |-> IF f = "mon" THEN {mon} ELSE {ngn}]
  BY DEF WarmUp
<1>2. \A f \in Feeds : \A p \in Asked(f) :
        p \in [age : 0..Latency[f], rate : Rates[f]] /\ p \in Poll /\ p.age = 0
  BY Times DEF Asked, Poll, AnyRate
<1>3. "mon" \in Feeds /\ "ngn" \in Feeds /\ \A f \in Feeds : f # "mon" => f = "ngn" BY Times
<1>4. ASSUME NEW f \in Feeds
      PROVE  \E p \in Asked(f) : asked[f] = {p}
  BY <1>1, <1>3
<1>5. ASSUME NEW f \in Feeds
      PROVE  /\ asked[f] \subseteq [age : 0..Latency[f], rate : Rates[f]] /\ asked[f] \subseteq Poll
             /\ asked[f] # {} /\ (\A p, q \in asked[f] : p = q) /\ \A p \in asked[f] : p.age = 0
  <2>1. PICK p \in Asked(f) : asked[f] = {p} BY <1>4
  <2> QED BY <1>2, <2>1
<1>6. asked = [f \in Feeds |-> asked[f]] BY <1>1
<1> QED BY <1>5, <1>6

LEMMA PricesInvInit == PricesInit => PricesInv
<1> SUFFICES ASSUME PricesInit PROVE PricesInv OBVIOUS
<1>1. /\ polls \in [Feeds -> SUBSET Poll]
      /\ \A f \in Feeds :
           /\ polls[f] \subseteq [age : 0..Latency[f], rate : Rates[f]]
           /\ polls[f] # {} /\ (\A p, q \in polls[f] : p = q) /\ \A p \in polls[f] : p.age = 0
  BY Asking DEF PricesInit
<1>2. PricesTypeOK
  <2>1. conversion \in [Conversions -> Conversion]
    BY DEF PricesInit, Idle, ConversionPoints, Conversion
  <2>2. /\ \A f \in Feeds : cached[f] = NoRate /\ left[f] = 0 /\ timer[f] = Interval[f]
        /\ up = FALSE /\ moved = {} /\ setbacks = 0
    BY DEF PricesInit
  <2>3. missed \in [Feeds -> 0..MaxSetbacks + 1] BY MaxSetbacksAssumption DEF PricesInit
  <2>4. setbacks \in 0..MaxSetbacks BY <2>2, MaxSetbacksAssumption
  <2>5. \A f \in Feeds : left[f] \in 0..TTL[f] /\ timer[f] \in 0..Interval[f]
    BY <2>2, Times
  <2> QED BY <1>1, <2>1, <2>2, <2>3, <2>4, <2>5 DEF PricesTypeOK, Conversion
<1>3. timer \in [Feeds -> Nat] BY TimesAssumption DEF PricesInit
<1>4. Functions BY <1>1, <1>3 DEF PricesInit, Functions
<1>5. \A f \in Feeds : Present(f) BY DEF PricesInit, Present, Cold
<1>6. \A f \in Feeds : Questions(f) /\ Warming(f)
  BY <1>1 DEF PricesInit, Questions, Warming, AtMostOne
<1>7. \A f \in Feeds : Stored(f) BY DEF PricesInit, Stored
<1>8. Rested /\ RatesAgree BY DEF PricesInit, Rested, Reading, RatesAgree, Idle
<1> QED BY <1>2, <1>4, <1>5, <1>6, <1>7, <1>8 DEF PricesInv, Fed

(********************************** Conversions **********************************)

\* The types, of one conversion.
LEMMA ConversionTyped ==
  ASSUME PricesTypeOK, NEW c \in Conversions
  PROVE  /\ conversion[c] \in Conversion /\ conversion \in [Conversions -> Conversion]
         /\ conversion[c].at \in ConversionPoints
         /\ conversion[c].first \in Rates["ngn"] \cup {NoRate}
         /\ conversion[c].second \in Rates["ngn"] \cup {NoRate}
         /\ cached["ngn"] \in Rates["ngn"] \cup {NoRate}
         /\ Idle \in Conversion
BY Times DEF PricesTypeOK, Conversion, Idle, ConversionPoints

\* A conversion goes on, and its readings stand or it has moved.
LEMMA ConversionKeeps ==
  ASSUME PricesInv, NEW c \in Conversions, OnlyConversions,
         conversion' \in [Conversions -> Conversion],
         \A d \in Conversions \ {c} : conversion'[d] = conversion[d] /\ (d \in moved => d \in moved'),
         moved' \subseteq Conversions,
         conversion'[c].at = "idle" => conversion'[c].first = NoRate,
         c \notin moved' /\ conversion'[c].first # NoRate =>
           /\ conversion'[c].at = "again" => cached["ngn"] = conversion'[c].first
           /\ conversion'[c].at = "done" => conversion'[c].second = conversion'[c].first
  PROVE  PricesInv'
<1> USE DEF PricesInv
<1>1. UNCHANGED <<cached, left, polls, timer, up, missed, setbacks>> BY DEF OnlyConversions
<1>2. PricesTypeOK' BY <1>1 DEF PricesTypeOK, Conversion
<1>3. Functions' /\ \A f \in Feeds : Fed(f)'
  BY <1>1 DEF Functions, Fed, Present, Cold, Questions, Warming, AtMostOne, Stored, Since
<1>4. ASSUME NEW d \in Conversions
      PROVE  /\ Reading(d)'
             /\ conversion'[d].at = "done" /\ conversion'[d].first # NoRate =>
                  conversion'[d].second = conversion'[d].first \/ d \in moved'
  BY <1>1 DEF Reading, Rested, RatesAgree
<1> QED BY <1>2, <1>3, <1>4 DEF Rested, RatesAgree

\* Another point, with the readings so far.
LEMMA GotoTyped ==
  ASSUME PricesTypeOK, NEW c \in Conversions, NEW point \in ConversionPoints, Goto(c, point)
  PROVE  /\ conversion' \in [Conversions -> Conversion]
         /\ \A d \in Conversions \ {c} : conversion'[d] = conversion[d]
         /\ conversion'[c].at = point /\ conversion'[c].first = conversion[c].first
BY ConversionTyped DEF Goto, Conversion

\* A reading of NGN.
LEMMA GotTyped ==
  ASSUME PricesTypeOK, NEW c \in Conversions, NEW rate \in Rates["ngn"] \cup {NoRate}, Got(c, rate)
  PROVE  /\ conversion' \in [Conversions -> Conversion]
         /\ \A d \in Conversions \ {c} : conversion'[d] = conversion[d]
         /\ IF conversion[c].at \in {"ngn", "ngnLive"}
              THEN conversion'[c].at = "again" /\ conversion'[c].first = rate
              ELSE /\ conversion'[c].at = "done" /\ conversion'[c].first = conversion[c].first
                   /\ conversion'[c].second = rate
<1>1. PICK v \in Conversion : v = conversion[c] BY ConversionTyped
<1>2. CASE v.at \in {"ngn", "ngnLive"}
  <2>1. conversion' = [conversion EXCEPT ![c] = [v EXCEPT !.at = "again", !.first = rate]]
    BY <1>1, <1>2 DEF Got
  <2>2. PICK w : w = [v EXCEPT !.at = "again", !.first = rate] OBVIOUS
  <2>3. w \in Conversion /\ w.at = "again" /\ w.first = rate
    BY <2>2 DEF Conversion, ConversionPoints
  <2> QED BY <1>1, <1>2, <2>1, <2>2, <2>3, ConversionTyped
<1>3. CASE v.at \notin {"ngn", "ngnLive"}
  <2>1. conversion' = [conversion EXCEPT ![c] = [v EXCEPT !.at = "done", !.second = rate]]
    BY <1>1, <1>3 DEF Got
  <2>2. PICK w : w = [v EXCEPT !.at = "done", !.second = rate] OBVIOUS
  <2>3. w \in Conversion /\ w.at = "done" /\ w.first = v.first /\ w.second = rate
    BY <2>2 DEF Conversion, ConversionPoints
  <2> QED BY <1>1, <1>3, <2>1, <2>2, <2>3, ConversionTyped
<1> QED BY <1>2, <1>3

LEMMA WorkKeeps ==
  ASSUME PricesInv, NEW c \in Conversions, Work(c)
  PROVE  PricesInv'
<1> USE DEF PricesInv
<1>1. OnlyConversions
  BY DEF Work, Convert, GetMonUsdtPrice, GetUsdNgnRate, Got, AskLive, Finish
<1>2. moved \subseteq Conversions BY DEF PricesTypeOK
<1>3. Reading(c) BY DEF Rested
<1>4. CASE Convert(c)
  <2>1. PICK point \in {"mon", "again"} : Goto(c, point) BY <1>4 DEF Convert
  <2>2. point \in ConversionPoints BY <2>1 DEF ConversionPoints
  <2>3. conversion[c].first = NoRate BY <1>3, <1>4 DEF Convert, Reading
  <2>4. moved' = moved BY <1>4 DEF Convert
  <2> HIDE DEF PricesInv
  <2> QED BY <1>1, <1>2, <2>1, <2>2, <2>3, <2>4, GotoTyped, ConversionKeeps DEF PricesInv
<1>5. CASE GetMonUsdtPrice(c)
  <2>1. PICK point \in {"monLive", "ngn"} : Goto(c, point) BY <1>5 DEF GetMonUsdtPrice
  <2>2. point \in ConversionPoints BY <2>1 DEF ConversionPoints
  <2>3. moved' = moved BY <1>5 DEF GetMonUsdtPrice
  <2> QED BY <1>1, <1>2, <2>1, <2>2, <2>3, GotoTyped, ConversionKeeps
<1>6. CASE GetUsdNgnRate(c)
  <2>1. moved' = moved /\ conversion[c].at \in {"ngn", "again"} BY <1>6 DEF GetUsdNgnRate
  <2>2. CASE Cold("ngn")
    <3>1. PICK point \in {"ngnLive", "againLive"} : Goto(c, point) BY <1>6, <2>2 DEF GetUsdNgnRate
    <3>2. point \in ConversionPoints BY <3>1 DEF ConversionPoints
    <3> QED BY <1>1, <1>2, <2>1, <3>1, <3>2, GotoTyped, ConversionKeeps
  <2>3. CASE ~Cold("ngn")
    <3>1. Got(c, cached["ngn"]) BY <1>6, <2>3 DEF GetUsdNgnRate
    <3>2. cached["ngn"] \in Rates["ngn"] \cup {NoRate} BY ConversionTyped
    <3>3. /\ conversion' \in [Conversions -> Conversion]
          /\ \A d \in Conversions \ {c} : conversion'[d] = conversion[d]
          /\ conversion'[c].at \in {"again", "done"}
          /\ conversion'[c].at = "again" => conversion'[c].first = cached["ngn"]
          /\ conversion'[c].at = "done" =>
               /\ conversion[c].at = "again"
               /\ conversion'[c].first = conversion[c].first /\ conversion'[c].second = cached["ngn"]
      BY <2>1, <3>1, <3>2, GotTyped
    <3>4. c \notin moved /\ conversion[c].at = "again" /\ conversion[c].first # NoRate =>
            cached["ngn"] = conversion[c].first
      BY <1>3 DEF Reading
    <3> QED BY <1>1, <1>2, <2>1, <3>3, <3>4, ConversionKeeps
  <2> QED BY <2>2, <2>3
<1>7. CASE AskLive(c)
  <2>1. CASE \E rate \in Rates["ngn"] : Got(c, rate) /\ moved' = moved \cup {c}
    <3>1. PICK rate \in Rates["ngn"] : Got(c, rate) /\ moved' = moved \cup {c} BY <2>1
    <3>2. /\ conversion' \in [Conversions -> Conversion]
          /\ \A d \in Conversions \ {c} : conversion'[d] = conversion[d]
          /\ conversion'[c].at \in {"again", "done"}
      BY <3>1, GotTyped
    <3> QED BY <1>1, <1>2, <3>1, <3>2, ConversionKeeps
  <2>2. CASE conversion' = [conversion EXCEPT ![c] = Idle] /\ moved' = moved \ {c}
    BY <1>1, <1>2, <2>2, ConversionTyped, ConversionKeeps DEF Idle
  <2> QED BY <1>7, <2>1, <2>2 DEF AskLive
<1>8. CASE Finish(c)
  <2>1. conversion' = [conversion EXCEPT ![c] = Idle] /\ moved' = moved \ {c} BY <1>8 DEF Finish
  <2> QED BY <1>1, <1>2, <2>1, ConversionTyped, ConversionKeeps DEF Idle
<1> QED BY <1>4, <1>5, <1>6, <1>7, <1>8 DEF Work

(************************************ Feeds ************************************)

\* The conversions stand when what they may have read does.
LEMMA ReadingsKept ==
  ASSUME PricesInv, conversion' = conversion, moved \subseteq moved',
         cached'["ngn"] # cached["ngn"] =>
           \A c \in Between : conversion[c].first # NoRate => c \in moved' \/ Cold("ngn")
  PROVE  Rested' /\ RatesAgree'
<1> USE DEF PricesInv
<1>1. ASSUME NEW c \in Conversions PROVE Reading(c)'
  <2>1. Reading(c) BY DEF Rested
  <2>2. conversion[c].at = "again" => c \in Between BY DEF Between
  <2> QED BY <2>1, <2>2 DEF Reading, Cold
<1>2. RatesAgree' BY DEF RatesAgree
<1> QED BY <1>1, <1>2 DEF Rested

\* A step about one feed.
LEMMA OneFeed ==
  ASSUME PricesInv, NEW f \in Feeds, UNCHANGED <<up, conversion>>, Functions',
         \A h \in Feeds \ {f} :
           /\ cached'[h] = cached[h] /\ left'[h] = left[h] /\ timer'[h] = timer[h]
           /\ polls'[h] = polls[h] /\ missed'[h] = missed[h],
         ~up => polls'[f] \subseteq polls[f],
         cached'[f] \in Rates[f] \cup {NoRate}, left'[f] <= TTL[f], timer'[f] <= Interval[f],
         polls'[f] \subseteq [age : 0..Latency[f], rate : Rates[f]],
         missed' \in [Feeds -> 0..MaxSetbacks + 1], moved' \subseteq Conversions,
         setbacks' \in 0..MaxSetbacks,
         Fed(f)', moved \subseteq moved',
         f = "ngn" /\ cached'[f] # cached[f] => Between \subseteq moved'
  PROVE  PricesInv'
<1> USE DEF PricesInv
<1>1. PricesTypeOK'
  <2>1. ASSUME NEW h \in Feeds
        PROVE  /\ cached'[h] \in Rates[h] \cup {NoRate}
               /\ left'[h] \in 0..TTL[h] /\ timer'[h] \in 0..Interval[h]
               /\ polls'[h] \subseteq [age : 0..Latency[h], rate : Rates[h]]
    <3>1. left'[h] \in Nat /\ timer'[h] \in Nat BY DEF Functions
    <3>2. CASE h = f BY <3>1, <3>2, Times
    <3>3. CASE h # f BY <3>3 DEF PricesTypeOK
    <3> QED BY <3>2, <3>3
  <2> QED BY <2>1 DEF PricesTypeOK
<1>2. ASSUME NEW h \in Feeds \ {f} PROVE Fed(h)'
  <2>1. Present(h)' /\ Questions(h)' /\ Warming(h)'
    BY DEF Fed, Present, Cold, Questions, Warming, AtMostOne
  <2>2. Stored(h)
    BY DEF Fed
  <2>3. Stored(h)'
    BY <2>2 DEF Stored, Since, AtMostOne
  <2> QED BY <2>1, <2>3 DEF Fed
<1>3. Rested' /\ RatesAgree'
  <2>1. cached'["ngn"] # cached["ngn"] => f = "ngn" BY Times
  <2> QED BY <2>1, ReadingsKept
<1> QED BY <1>1, <1>2, <1>3

LEMMA AskKeeps == ASSUME PricesInv, NEW f \in Feeds, Ask(f) PROVE PricesInv'
<1> USE DEF PricesInv
<1>1. PICK poll \in Asked(f) : polls' = [polls EXCEPT ![f] = polls[f] \cup {poll}]
  BY DEF Ask
<1>2. /\ up /\ timer[f] = 0 /\ timer' = [timer EXCEPT ![f] = Interval[f]]
      /\ UNCHANGED <<cached, left, up, conversion, missed, moved, setbacks>>
  BY DEF Ask
<1>3. poll \in [age : 0..Latency[f], rate : Rates[f]] /\ poll \in Poll /\ poll.age = 0
  BY Times DEF Asked, Poll, AnyRate
<1>4. Interval[f] \in Nat \ {0} /\ TTL[f] \in Nat /\ \A g \in Feeds : Latency[g] \in Nat BY Times
<1>5. timer'[f] = Interval[f] /\ polls'[f] = polls[f] \cup {poll}
  BY <1>1, <1>2 DEF Functions
<1>6. Functions'
  <2>1. polls[f] \cup {poll} \in SUBSET Poll BY <1>3 DEF Functions
  <2> QED BY <1>1, <1>2, <1>4, <2>1 DEF Functions
<1>7. Present(f)' BY <1>2 DEF Fed, Present, Cold
<1>8. Questions(f)'
  <2>1. \A p \in polls[f] : p.age # 0 BY <1>2, <1>4 DEF Fed, Questions
  <2> QED BY <1>3, <1>5, <2>1 DEF Fed, Questions
<1>9. Warming(f)' BY <1>2 DEF Warming
<1>10. Stored(f)'
  <2> SUFFICES ASSUME NEW g \in Feeds \ {f}, missed[f] = 0, AtMostOne(f)'
               PROVE  left[f] + Latency[g] + 2 * Interval[f] >= TTL[f] + Interval[f]
    BY <1>2, <1>5 DEF Stored, Since
  <2>1. polls[f] = {}
    <3> SUFFICES ASSUME NEW p \in polls[f] PROVE FALSE OBVIOUS
    <3>1. p.age # 0 BY <1>2, <1>4 DEF Fed, Questions
    <3> QED BY <1>3, <1>5, <3>1 DEF AtMostOne
  <2>2. left[f] + Latency[g] + Interval[f] >= TTL[f] + 0 BY <1>2, <2>1 DEF Fed, Stored, Since
  <2>3. left[f] \in Nat BY Typed
  <2> QED BY <1>4, <2>2, <2>3
<1>11. PricesTypeOK BY DEF PricesInv
<1>12. /\ cached'[f] \in Rates[f] \cup {NoRate} /\ left'[f] <= TTL[f] /\ timer'[f] <= Interval[f]
       /\ polls'[f] \subseteq [age : 0..Latency[f], rate : Rates[f]]
  BY <1>2, <1>3, <1>4, <1>5, <1>11, Typed DEF PricesTypeOK
<1>13. /\ missed' \in [Feeds -> 0..MaxSetbacks + 1] /\ moved' \subseteq Conversions
       /\ setbacks' \in 0..MaxSetbacks
  BY <1>2, <1>11 DEF PricesTypeOK
<1>14. Fed(f)' BY <1>7, <1>8, <1>9, <1>10 DEF Fed
<1>15. \A h \in Feeds \ {f} :
         /\ cached'[h] = cached[h] /\ left'[h] = left[h] /\ timer'[h] = timer[h]
         /\ polls'[h] = polls[h] /\ missed'[h] = missed[h]
  BY <1>1, <1>2 DEF Functions
<1> HIDE DEF PricesInv
<1> QED BY <1>2, <1>6, <1>12, <1>13, <1>14, <1>15, OneFeed

\* A poll in flight is settled.
LEMMA Settling ==
  ASSUME PricesInv, NEW f \in Feeds, NEW poll \in polls[f],
         polls' = [polls EXCEPT ![f] = @ \ {poll}]
  PROVE  /\ polls' \in [Feeds -> SUBSET Poll]
         /\ polls'[f] = polls[f] \ {poll}
         /\ \A h \in Feeds \ {f} : polls'[h] = polls[h]
         /\ polls'[f] \subseteq [age : 0..Latency[f], rate : Rates[f]]
         /\ timer' = timer => Questions(f)'
         /\ AtMostOne(f) => polls'[f] = {}
         /\ polls'[f] = {} => AtMostOne(f)
<1> USE DEF PricesInv
<1>1. /\ polls' \in [Feeds -> SUBSET Poll] /\ polls'[f] = polls[f] \ {poll}
      /\ \A h \in Feeds \ {f} : polls'[h] = polls[h]
  <2>1. polls[f] \ {poll} \in SUBSET Poll BY DEF Functions
  <2> QED BY <2>1 DEF Functions
<1>2. polls'[f] \subseteq [age : 0..Latency[f], rate : Rates[f]]
  BY <1>1 DEF PricesTypeOK
<1>3. timer' = timer => Questions(f)' BY <1>1 DEF Fed, Questions
<1> QED BY <1>1, <1>2, <1>3 DEF AtMostOne

LEMMA RefreshKeeps == ASSUME PricesInv, NEW f \in Feeds, Refresh(f) PROVE PricesInv'
<1> USE DEF PricesInv
<1>1. PICK poll \in polls[f] :
        /\ polls' = [polls EXCEPT ![f] = @ \ {poll}]
        /\ cached' = [cached EXCEPT ![f] = poll.rate]
        /\ left' = [left EXCEPT ![f] = TTL[f]]
        /\ missed' = [missed EXCEPT ![f] = 0]
        /\ moved' = IF f = "ngn" THEN moved \cup Between ELSE moved
        /\ UNCHANGED <<timer, up, conversion, setbacks>>
  BY DEF Refresh, TimeToLive
<1>2. PricesTypeOK /\ Functions /\ Fed(f) OBVIOUS
<1>3. /\ poll.rate \in Rates[f] /\ poll.rate \in AnyRate /\ poll.rate # NoRate
  BY <1>2, Typed, NoRateAssumption DEF AnyRate
<1>4. /\ cached'[f] = poll.rate /\ left'[f] = TTL[f] /\ missed'[f] = 0 /\ timer'[f] = timer[f]
      /\ \A h \in Feeds \ {f} :
           cached'[h] = cached[h] /\ left'[h] = left[h] /\ timer'[h] = timer[h] /\ missed'[h] = missed[h]
  BY <1>1, <1>2 DEF Functions, PricesTypeOK
<1>5. /\ TTL[f] \in Nat \ {0} /\ Interval[f] \in Nat \ {0} /\ timer[f] \in Nat /\ timer[f] <= Interval[f]
      /\ \A g \in Feeds : Latency[g] \in Nat
  BY <1>2, Typed, Times
<1>6. Functions'
  <2>1. \A h \in Feeds : missed'[h] <= setbacks + 1
    BY <1>2, <1>4 DEF Functions, PricesTypeOK
  <2> QED BY <1>1, <1>2, <1>3, <1>5, <2>1, Settling DEF Functions
<1>7. Present(f)' BY <1>3, <1>4, <1>5 DEF Present, Cold
<1>8. Questions(f)' BY <1>1, Settling
<1>9. Warming(f)'
  <2> SUFFICES ASSUME ~up PROVE timer[f] = Interval[f] /\ AtMostOne(f)' /\ polls'[f] = {}
    BY <1>1, <1>4 DEF Warming
  <2>1. timer[f] = Interval[f] /\ AtMostOne(f) BY DEF Fed, Warming
  <2>2. polls'[f] = {} BY <1>1, <2>1, Settling
  <2> QED BY <2>1, <2>2 DEF AtMostOne
<1>10. Stored(f)'
  <2>1. ASSUME NEW g \in Feeds \ {f}, NEW p \in polls[g] PROVE p.age \in Nat
    BY <1>2, Typed
  <2>2. \A g \in Feeds \ {f} : polls'[g] = polls[g] BY <1>1, Settling
  <2> QED BY <1>4, <1>5, <2>1, <2>2 DEF Stored, Since
<1>11. /\ cached'[f] \in Rates[f] \cup {NoRate} /\ left'[f] <= TTL[f] /\ timer'[f] <= Interval[f]
       /\ polls'[f] \subseteq [age : 0..Latency[f], rate : Rates[f]]
  <2>1. polls'[f] \subseteq [age : 0..Latency[f], rate : Rates[f]] BY <1>1, Settling
  <2> QED BY <1>3, <1>4, <1>5, <2>1
<1>12. missed' \in [Feeds -> 0..MaxSetbacks + 1] /\ setbacks' \in 0..MaxSetbacks
  <2>1. 0 \in 0..MaxSetbacks + 1 BY MaxSetbacksAssumption
  <2> QED BY <1>1, <1>2, <2>1 DEF PricesTypeOK
<1>13. /\ moved' \subseteq Conversions /\ moved \subseteq moved'
       /\ (f = "ngn" => Between \subseteq moved')
  BY <1>1, <1>2 DEF PricesTypeOK, Between
<1>14. Fed(f)' BY <1>7, <1>8, <1>9, <1>10 DEF Fed
<1>15. ~up => polls'[f] \subseteq polls[f] BY <1>1, Settling
<1>16. \A h \in Feeds \ {f} : polls'[h] = polls[h] BY <1>1, Settling
<1> HIDE DEF PricesInv
<1> QED BY <1>1, <1>4, <1>6, <1>11, <1>12, <1>13, <1>14, <1>15, <1>16, OneFeed

LEMMA FailRefreshKeeps == ASSUME PricesInv, NEW f \in Feeds, FailRefresh(f) PROVE PricesInv'
<1> USE DEF PricesInv
<1>1. PICK poll \in polls[f] : polls' = [polls EXCEPT ![f] = @ \ {poll}]
  BY DEF FailRefresh
<1>2. PricesTypeOK /\ Functions /\ Fed(f) OBVIOUS
<1>3. /\ setbacks < MaxSetbacks /\ setbacks' = setbacks + 1
      /\ missed' = [missed EXCEPT ![f] = @ + 1]
      /\ UNCHANGED <<cached, left, timer, up, conversion, moved>>
  BY DEF FailRefresh
<1>4. missed'[f] = missed[f] + 1 /\ \A h \in Feeds \ {f} : missed'[h] = missed[h]
  BY <1>2, <1>3 DEF PricesTypeOK
<1>5. missed[f] \in Nat /\ timer[f] <= Interval[f] /\ left[f] <= TTL[f] BY <1>2, Typed
<1>6. setbacks \in Nat /\ setbacks' \in 0..MaxSetbacks /\ \A h \in Feeds : missed[h] \in Nat
  BY <1>2, <1>3, MaxSetbacksAssumption DEF PricesTypeOK
<1>7. \A h \in Feeds : missed'[h] \in Nat /\ missed'[h] <= setbacks' + 1
  BY <1>2, <1>3, <1>4, <1>6 DEF Functions
<1>8. Functions' BY <1>1, <1>2, <1>3, <1>7, Settling DEF Functions
<1>9. missed' \in [Feeds -> 0..MaxSetbacks + 1]
  <2>1. missed' = [h \in Feeds |-> missed'[h]] BY <1>2, <1>3 DEF PricesTypeOK
  <2>2. \A h \in Feeds : missed'[h] \in 0..MaxSetbacks + 1 BY <1>6, <1>7, MaxSetbacksAssumption
  <2> QED BY <2>1, <2>2
<1>10. Present(f)' /\ Questions(f)'
  BY <1>1, <1>2, <1>3, Settling DEF Fed, Present, Cold
<1>11. Warming(f)'
  <2> SUFFICES ASSUME ~up
               PROVE  /\ timer[f] = Interval[f] /\ AtMostOne(f)' /\ polls'[f] = {}
                      /\ missed[f] = 1
    BY <1>3, <1>4 DEF Warming
  <2>1. timer[f] = Interval[f] /\ AtMostOne(f) /\ missed[f] = 1 BY <1>1 DEF Fed, Warming
  <2>2. polls'[f] = {} BY <1>1, <2>1, Settling
  <2> QED BY <2>1, <2>2 DEF AtMostOne
<1>12. Stored(f)'
  <2> SUFFICES ASSUME NEW g \in Feeds \ {f}, up, missed[f] = 0, polls'[f] = {}
               PROVE  Since(f, g, 2 * Interval[f])
    BY <1>3, <1>4, <1>5 DEF Stored, Since
  <2>1. AtMostOne(f) BY <1>1, Settling
  <2> QED BY <2>1 DEF Fed, Stored
<1>13. /\ cached'[f] \in Rates[f] \cup {NoRate} /\ moved' \subseteq Conversions
       /\ polls'[f] \subseteq [age : 0..Latency[f], rate : Rates[f]]
  BY <1>1, <1>2, <1>3, Settling DEF PricesTypeOK
<1>14. Fed(f)' BY <1>10, <1>11, <1>12 DEF Fed
<1>15. ~up => polls'[f] \subseteq polls[f] BY <1>1, Settling
<1>16. \A h \in Feeds \ {f} : polls'[h] = polls[h] BY <1>1, Settling
<1> HIDE DEF PricesInv
<1> QED BY <1>3, <1>4, <1>5, <1>6, <1>8, <1>9, <1>13, <1>14, <1>15, <1>16, OneFeed

(*********************************** The rest ************************************)

LEMMA ComeUpKeeps == ASSUME PricesInv, ComeUp PROVE PricesInv'
<1> USE DEF PricesInv
<1>1. /\ ~up /\ (\A f \in Feeds : polls[f] = {}) /\ up'
      /\ UNCHANGED <<cached, left, polls, timer, conversion, missed, moved, setbacks>>
  BY DEF ComeUp
<1>2. PricesTypeOK' BY <1>1 DEF ComeUp, PricesTypeOK
<1>3. Functions' BY <1>1 DEF Functions
<1>4. ASSUME NEW f \in Feeds PROVE Fed(f)'
  <2>1. Present(f)' /\ Questions(f)' BY <1>1 DEF Fed, Present, Cold, Questions
  <2>2. Warming(f)' BY <1>1 DEF Warming
  <2>3. /\ timer[f] = Interval[f] /\ missed[f] # 1
        /\ missed[f] = 0 => \A g \in Feeds \ {f} : left[f] + Latency[g] >= TTL[f]
    BY <1>1 DEF Fed, Warming, Stored
  <2>4. /\ left[f] \in Nat /\ Interval[f] \in Nat /\ TTL[f] \in Nat
        /\ \A g \in Feeds : Latency[g] \in Nat
    BY Typed, Times
  <2>5. Stored(f)' BY <1>1, <2>3, <2>4 DEF Stored, Since
  <2> QED BY <2>1, <2>2, <2>5 DEF Fed
<1>5. Rested' /\ RatesAgree' BY <1>1, ReadingsKept
<1> QED BY <1>2, <1>3, <1>4, <1>5

LEMMA RestartKeeps == ASSUME PricesInv, Restart PROVE PricesInv'
<1> USE DEF PricesInv
<1>1. /\ setbacks < MaxSetbacks /\ ~up' /\ timer' = Interval
      /\ conversion' = [c \in Conversions |-> Idle] /\ missed' = [f \in Feeds |-> 1]
      /\ moved' = {} /\ setbacks' = setbacks + 1 /\ UNCHANGED <<cached, left>>
  BY DEF Restart
<1>2. /\ polls' \in [Feeds -> SUBSET Poll]
      /\ \A f \in Feeds :
           /\ polls'[f] \subseteq [age : 0..Latency[f], rate : Rates[f]]
           /\ polls'[f] # {} /\ (\A p, q \in polls'[f] : p = q) /\ \A p \in polls'[f] : p.age = 0
  BY Asking DEF Restart
<1>3. setbacks \in Nat /\ setbacks' \in 0..MaxSetbacks
  BY <1>1, MaxSetbacksAssumption DEF PricesTypeOK
<1>4. PricesTypeOK'
  <2>1. conversion' \in [Conversions -> Conversion]
    BY <1>1 DEF Idle, ConversionPoints, Conversion
  <2>2. missed' \in [Feeds -> 0..MaxSetbacks + 1]
    <3>1. 1 \in 0..MaxSetbacks + 1 BY MaxSetbacksAssumption
    <3> QED BY <1>1, <3>1
  <2>3. \A f \in Feeds : timer'[f] \in 0..Interval[f] BY <1>1, Times
  <2>4. up' \in BOOLEAN BY DEF Restart
  <2> QED BY <1>1, <1>2, <1>3, <2>1, <2>2, <2>3, <2>4 DEF PricesTypeOK, Conversion
<1>5. Functions'
  <2>1. timer' \in [Feeds -> Nat] BY <1>1, TimesAssumption
  <2>2. \A f \in Feeds : missed'[f] <= setbacks' + 1 BY <1>1, <1>3
  <2> QED BY <1>1, <1>2, <2>1, <2>2 DEF Functions
<1>6. ASSUME NEW f \in Feeds PROVE Fed(f)'
  <2>1. Present(f)' BY <1>1 DEF Fed, Present, Cold
  <2>2. Questions(f)' /\ Warming(f)' BY <1>1, <1>2 DEF Questions, Warming, AtMostOne
  <2>3. Stored(f)' BY <1>1 DEF Stored
  <2> QED BY <2>1, <2>2, <2>3 DEF Fed
<1>7. Rested' /\ RatesAgree' BY <1>1 DEF Rested, Reading, RatesAgree, Idle
<1> QED BY <1>4, <1>5, <1>6, <1>7

Older(p) == [p EXCEPT !.age = @ + 1]

\* The polls in flight, a tick later.
LEMMA Aging ==
  ASSUME PricesInv, NEW f \in Feeds,
         \A p \in polls[f] : p.age < Latency[f],
         polls'[f] = {Older(p) : p \in polls[f]}
  PROVE  /\ polls'[f] \subseteq [age : 0..Latency[f], rate : Rates[f]] /\ polls'[f] \subseteq Poll
         /\ polls'[f] = {} <=> polls[f] = {}
         /\ Questions(f)' /\ (AtMostOne(f) <=> AtMostOne(f)')
         /\ \A q \in polls'[f] : \E p \in polls[f] : q.age = p.age + 1
<1> USE DEF PricesInv
<1>1. PricesTypeOK /\ Functions /\ Questions(f) BY DEF Fed
<1>2. ASSUME NEW p \in polls[f]
      PROVE  /\ Older(p) \in [age : 0..Latency[f], rate : Rates[f]] /\ Older(p) \in Poll
             /\ Older(p).age = p.age + 1 /\ p.age \in Nat
  <2>1. /\ p \in Poll /\ p \in [age : 0..Latency[f], rate : Rates[f]]
        /\ p.age \in Nat /\ p.age < Latency[f] /\ Latency[f] \in Nat
    BY <1>1, Typed, Times DEF PricesTypeOK
  <2>2. p.age + 1 \in 0..Latency[f] /\ p.age + 1 \in Nat BY <2>1
  <2> HIDE DEF PricesInv
  <2> QED BY <2>1, <2>2 DEF Older, Poll
<1>3. ASSUME NEW p \in polls[f], NEW q \in polls[f], Older(p).age = Older(q).age
      PROVE  p = q
  <2>1. p.age = q.age BY <1>2, <1>3
  <2> QED BY <1>1, <2>1 DEF Questions
<1>4. Questions(f)'
  <2>1. \A p, q \in polls'[f] : p.age = q.age => p = q BY <1>3
  <2>2. \A p \in polls'[f] : p.age # 0 BY <1>2
  <2> QED BY <2>1, <2>2 DEF Questions
<1>5. AtMostOne(f) <=> AtMostOne(f)' BY <1>3 DEF AtMostOne
<1> QED BY <1>2, <1>4, <1>5

LEMMA TickKeeps == ASSUME PricesInv, Tick PROVE PricesInv'
<1> USE DEF PricesInv
<1>1. /\ up \/ \E f \in Feeds : polls[f] # {}
      /\ up => \A f \in Feeds : timer[f] > 0
      /\ \A f \in Feeds : \A p \in polls[f] : p.age < Latency[f]
      /\ polls' = [f \in Feeds |-> {Older(p) : p \in polls[f]}]
      /\ timer' = IF up THEN [f \in Feeds |-> timer[f] - 1] ELSE timer
      /\ left' = [f \in Feeds |-> IF left[f] = 0 THEN 0 ELSE left[f] - 1]
      /\ cached' = [f \in Feeds |-> IF left[f] <= 1 THEN NoRate ELSE cached[f]]
      /\ moved' = IF left["ngn"] = 1 THEN moved \cup Between ELSE moved
      /\ UNCHANGED <<up, conversion, missed, setbacks>>
  BY DEF Tick, Older
<1>2. PricesTypeOK /\ Functions OBVIOUS
<1>3. ASSUME NEW f \in Feeds
      PROVE  /\ polls'[f] \subseteq [age : 0..Latency[f], rate : Rates[f]] /\ polls'[f] \subseteq Poll
             /\ polls'[f] = {} <=> polls[f] = {}
             /\ Questions(f)' /\ (AtMostOne(f) <=> AtMostOne(f)')
             /\ \A q \in polls'[f] : \E p \in polls[f] : q.age = p.age + 1
  BY <1>1, Aging
<1>4. ASSUME NEW f \in Feeds
      PROVE  /\ left'[f] = (IF left[f] = 0 THEN 0 ELSE left[f] - 1)
             /\ left[f] \in Nat /\ left'[f] \in Nat /\ left'[f] <= TTL[f]
             /\ timer'[f] = (IF up THEN timer[f] - 1 ELSE timer[f])
             /\ timer[f] \in Nat /\ timer'[f] \in Nat /\ timer'[f] <= Interval[f]
             /\ cached'[f] = (IF left[f] <= 1 THEN NoRate ELSE cached[f])
             /\ Interval[f] \in Nat \ {0} /\ TTL[f] \in Nat \ {0} /\ Latency[f] \in Nat
  <2>1. /\ left[f] \in Nat /\ left[f] <= TTL[f] /\ timer[f] \in Nat /\ timer[f] <= Interval[f]
    BY <1>2, Typed
  <2>2. Interval[f] \in Nat \ {0} /\ TTL[f] \in Nat \ {0} /\ Latency[f] \in Nat BY Times
  <2>3. /\ left'[f] = (IF left[f] = 0 THEN 0 ELSE left[f] - 1)
        /\ timer'[f] = (IF up THEN timer[f] - 1 ELSE timer[f])
        /\ cached'[f] = (IF left[f] <= 1 THEN NoRate ELSE cached[f])
        /\ up => timer[f] > 0
    BY <1>1
  <2> HIDE DEF PricesInv
  <2> QED BY <2>1, <2>2, <2>3
<1>5. ASSUME NEW f \in Feeds
      PROVE  cached'[f] \in Rates[f] \cup {NoRate} /\ cached'[f] \in AnyRate \cup {NoRate}
  BY <1>2, <1>4 DEF PricesTypeOK, Functions
<1>6. PricesTypeOK'
  <2>1. \A f \in Feeds : left'[f] \in 0..TTL[f] /\ timer'[f] \in 0..Interval[f] BY <1>4
  <2>2. moved' \subseteq Conversions BY <1>1, <1>2 DEF PricesTypeOK, Between
  <2> QED BY <1>1, <1>2, <1>3, <1>5, <2>1, <2>2 DEF PricesTypeOK
<1>7. Functions'
  <2>1. /\ left' \in [Feeds -> Nat] /\ cached' \in [Feeds -> AnyRate \cup {NoRate}]
        /\ polls' \in [Feeds -> SUBSET Poll]
    BY <1>1, <1>3, <1>4, <1>5
  <2>2. timer' \in [Feeds -> Nat] BY <1>1, <1>2, <1>4 DEF Functions
  <2> QED BY <1>1, <1>2, <2>1, <2>2 DEF Functions
<1>8. ASSUME NEW f \in Feeds PROVE Fed(f)'
  <2>1. Fed(f) OBVIOUS
  <2>2. Present(f)' BY <1>4, <2>1 DEF Fed, Present, Cold
  <2>3. Warming(f)'
    <3>1. Warming(f) BY <2>1 DEF Fed
    <3> QED BY <1>1, <1>3, <1>4, <3>1 DEF Warming
  <2>4. ASSUME NEW g \in Feeds \ {f}
        PROVE  /\ ~up /\ missed[f] = 0 =>
                    /\ left'[f] + Latency[g] >= TTL[f]
                    /\ \A q \in polls'[g] : left'[f] + q.age >= TTL[f]
               /\ up /\ missed[f] = 0 /\ polls[f] = {} => Since(f, g, Interval[f])'
               /\ up /\ missed[f] = 0 /\ AtMostOne(f) => Since(f, g, 2 * Interval[f])'
               /\ up /\ missed[f] = 1 /\ polls[f] = {} => Since(f, g, 2 * Interval[f])'
    <3>1. ASSUME NEW time \in Nat, up, Since(f, g, time) PROVE left'[f] + Latency[g] + time >= TTL[f] + timer'[f]
      <4>1. left[f] + Latency[g] + time >= TTL[f] + timer[f] BY <3>1 DEF Since
      <4>2. timer'[f] = timer[f] - 1 /\ left'[f] + 1 >= left[f] BY <1>4, <3>1
      <4>3. Latency[g] \in Nat BY <1>4
      <4> HIDE DEF PricesInv
      <4> QED BY <1>4, <4>1, <4>2, <4>3
    <3>2. ASSUME ~up, missed[f] = 0
          PROVE  /\ left'[f] + Latency[g] >= TTL[f]
                 /\ \A q \in polls'[g] : left'[f] + q.age >= TTL[f]
      <4>1. \A p \in polls[g] : left[f] + p.age >= TTL[f] BY <2>1, <3>2 DEF Fed, Stored
      <4>2. \A p \in polls[g] : p.age \in Nat /\ p.age < Latency[g] BY <1>1, <1>2, Typed
      <4>3. left'[f] + 1 >= left[f] /\ left[f] \in Nat /\ left'[f] \in Nat /\ TTL[f] \in Nat BY <1>4
      <4>4. PICK p \in polls[g] : TRUE
        <5>1. polls[f] = {} BY <2>1, <3>2 DEF Fed, Warming
        <5>2. PICK h \in Feeds : polls[h] # {} BY <1>1, <3>2
        <5>3. h = g BY <5>1, <5>2, Times
        <5> QED BY <5>2, <5>3
      <4>5. left'[f] + Latency[g] >= TTL[f]
        <5>1. left[f] + p.age >= TTL[f] /\ p.age < Latency[g] /\ p.age \in Nat BY <4>1, <4>2
        <5>2. Latency[g] \in Nat BY <1>4
        <5> QED BY <4>3, <5>1, <5>2
      <4>6. ASSUME NEW q \in polls'[g] PROVE left'[f] + q.age >= TTL[f]
        <5>1. PICK r \in polls[g] : q.age = r.age + 1 BY <1>3
        <5>2. left[f] + r.age >= TTL[f] /\ r.age \in Nat BY <4>1, <4>2
        <5> HIDE DEF PricesInv
        <5> QED BY <4>3, <5>1, <5>2
      <4> QED BY <4>5, <4>6
    <3>3. Interval[f] \in Nat /\ 2 * Interval[f] \in Nat BY <1>4
    <3>4. /\ up /\ missed[f] = 0 /\ polls[f] = {} => Since(f, g, Interval[f])
          /\ up /\ missed[f] = 0 /\ AtMostOne(f) => Since(f, g, 2 * Interval[f])
          /\ up /\ missed[f] = 1 /\ polls[f] = {} => Since(f, g, 2 * Interval[f])
      BY <2>1 DEF Fed, Stored
    <3> HIDE DEF PricesInv
    <3>5. up /\ Since(f, g, Interval[f]) => Since(f, g, Interval[f])'
      BY <3>1, <3>3 DEF Since
    <3>6. up /\ Since(f, g, 2 * Interval[f]) => Since(f, g, 2 * Interval[f])'
      BY <3>1, <3>3 DEF Since
    <3> QED BY <3>2, <3>4, <3>5, <3>6
  <2>5. Stored(f)' BY <1>1, <1>3, <2>4 DEF Stored
  <2> QED BY <1>3, <2>2, <2>3, <2>5 DEF Fed
<1>9. Rested' /\ RatesAgree'
  <2>1. cached'["ngn"] # cached["ngn"] => \A c \in Between : c \in moved' \/ Cold("ngn")
    <3>1. "ngn" \in Feeds BY Times
    <3>2. Present("ngn") /\ left["ngn"] \in Nat BY <1>4, <3>1 DEF Fed
    <3> QED BY <1>1, <1>4, <3>1, <3>2 DEF Present
  <2>2. moved \subseteq moved' BY <1>1
  <2> QED BY <1>1, <2>1, <2>2, ReadingsKept
<1> QED BY <1>6, <1>7, <1>8, <1>9

LEMMA PricesInvStep == PricesInv /\ [PricesNext]_priceVars => PricesInv'
<1> SUFFICES ASSUME PricesInv, [PricesNext]_priceVars PROVE PricesInv' OBVIOUS
<1>1. CASE UNCHANGED priceVars
  <2>1. UNCHANGED <<cached, left, polls, timer, up, conversion, missed, moved, setbacks>>
    BY <1>1 DEF priceVars
  <2>2. PricesTypeOK' /\ Functions' BY <2>1 DEF PricesInv, PricesTypeOK, Functions
  <2>3. \A f \in Feeds : Fed(f)'
    BY <2>1 DEF PricesInv, Fed, Present, Cold, Questions, Warming, AtMostOne, Stored, Since
  <2>4. Rested' /\ RatesAgree' BY <2>1 DEF PricesInv, Rested, Reading, RatesAgree
  <2> QED BY <2>2, <2>3, <2>4 DEF PricesInv
<1>2. CASE PricesNext
  BY <1>2, ComeUpKeeps, TickKeeps, RestartKeeps, AskKeeps, RefreshKeeps, FailRefreshKeeps, WorkKeeps
     DEF PricesNext
<1> QED BY <1>1, <1>2

LEMMA PricesInvAlways == PricesSpec => []PricesInv
BY PricesInvInit, PricesInvStep, PTL DEF PricesSpec

LEMMA ColdOnlyWhileOf == PricesInv => ColdOnlyWhile
<1> SUFFICES ASSUME PricesInv, up, NEW f \in Feeds, Cold(f)
             PROVE  \/ missed[f] >= 2
                    \/ missed[f] = 1 /\ polls[f] # {}
                    \/ \E g \in Feeds \ {f} :
                         timer[f] <= Latency[g] /\ (missed[f] = 1 \/ Interval[f] <= Latency[g])
                    \/ \E poll \in polls[f] : poll.age > 0
  BY DEF ColdOnlyWhile
<1>1. PricesTypeOK /\ Functions /\ Present(f) /\ Questions(f) /\ Stored(f) BY DEF PricesInv, Fed
<1>2. PICK g \in Feeds \ {f} : TRUE BY Times
<1>3. /\ left[f] = 0 /\ timer[f] \in Nat /\ missed[f] \in Nat
      /\ \A p \in polls[f] : p.age \in Nat
  BY <1>1, Typed DEF Present
<1>4. /\ Interval[f] \in Nat /\ TTL[f] \in Nat /\ Latency[g] \in Nat
      /\ TTL[f] >= 2 * Interval[f]
  BY Times
<1>5. CASE missed[f] = 1 /\ polls[f] = {}
  <2>1. left[f] + Latency[g] + 2 * Interval[f] >= TTL[f] + timer[f] BY <1>1, <1>5 DEF Stored, Since
  <2>2. timer[f] <= Latency[g] BY <1>3, <1>4, <2>1
  <2> QED BY <1>5, <2>2
\* Without a failure, the warm-up has taken an interval.
<1>6. CASE missed[f] = 0 /\ polls[f] = {}
  <2>1. left[f] + Latency[g] + Interval[f] >= TTL[f] + timer[f] BY <1>1, <1>6 DEF Stored, Since
  <2>2. timer[f] <= Latency[g] /\ Interval[f] <= Latency[g] BY <1>3, <1>4, <2>1
  <2> QED BY <2>2
<1>7. CASE missed[f] = 0 /\ polls[f] # {} /\ \A p \in polls[f] : p.age = 0
  <2>1. AtMostOne(f) /\ timer[f] = Interval[f] BY <1>1, <1>7 DEF Questions, AtMostOne
  <2>2. left[f] + Latency[g] + 2 * Interval[f] >= TTL[f] + timer[f]
    BY <1>1, <1>7, <2>1 DEF Stored, Since
  <2>3. timer[f] <= Latency[g] /\ Interval[f] <= Latency[g] BY <1>3, <1>4, <2>1, <2>2
  <2> QED BY <2>3
<1>8. \/ missed[f] >= 2 \/ missed[f] = 1 \/ missed[f] = 0 BY <1>3
<1>9. (\A p \in polls[f] : p.age = 0) \/ \E p \in polls[f] : p.age > 0 BY <1>3
<1> QED BY <1>5, <1>6, <1>7, <1>8, <1>9

\* Every variable of the price feed keeps its type, in every reachable state.
THEOREM PricesTyped == PricesSpec => []PricesTypeOK
BY PricesInvAlways, PTL DEF PricesInv

\* The two readings of the rate of NGN by one conversion of MON are the same rate
\* unless a poll, an expiry or a live answer came between them: the second is of the
\* cache, and the cache is what the first found as long as nothing has moved it.
THEOREM PricesRatesAgree == PricesSpec => []RatesAgree
BY PricesInvAlways, PTL DEF PricesInv

\* A rate is missing from the cache only while a poll is slow, after one that failed, or
\* when the warm-up has waited for the other source: every poll that is stored on time
\* refreshes the key before its two intervals are over, whatever order the polls in
\* flight are answered in.
THEOREM PricesColdOnlyWhile == PricesSpec => []ColdOnlyWhile
BY PricesInvAlways, ColdOnlyWhileOf, PTL
==================================================================================
