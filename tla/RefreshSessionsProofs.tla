--------------------------- MODULE RefreshSessionsProofs ---------------------------
(*********************************************************************************)
(* Revocation and rotation, for any number of users, sessions, tokens, requests, *)
(* revocations and faults.                                                       *)
(*********************************************************************************)
EXTENDS RefreshSessions, TLAPS

Checking == {"checkUser", "checkGlobal", "drop", "rotate"}
Minting == {"mintUser", "mintGlobal", "save"}

\* What a token and a request stand for, and what a request has in hand.
Shape ==
  /\ TypeOK
  /\ \A t \in Tokens : store[t] # None =>
       t \in issued /\ store[t] \in Entry /\ user[store[t].session] \in Users
  /\ \A r \in Requests :
       /\ pc[r] # "idle" => held[r] \in Entry /\ user[held[r].session] \in Users
       /\ pc[r] \in Checking =>
            presented[r] \in issued /\ store[presented[r]] \in {None, held[r]}
  /\ \A s \in revoked : user[s] \in Users

\* Nobody has an epoch of the future, unless one of its session was deleted.
Past(e) ==
  e.session \in reset \/ /\ e.epochs.user <= userEpoch[user[e.session]]
                         /\ e.epochs.global <= globalEpoch

NoFuture ==
  /\ \A t \in Tokens : store[t] # None => Past(store[t])
  /\ \A r \in Requests : pc[r] # "idle" => Past(held[r])

Survives(s) == s \notin revoked \ reset

\* What a request may still turn into a valid token.
RequestSound(r) ==
  /\ pc[r] = "checkUser" /\ held[r].epochs = Now(user[held[r].session])
       => Survives(held[r].session)
  /\ pc[r] = "checkGlobal" /\ held[r].epochs = [user |-> seen[r], global |-> globalEpoch]
       => Survives(held[r].session)
  /\ pc[r] \in {"rotate"} \cup Minting => Survives(held[r].session)

RequestsSound == \A r \in Requests : RequestSound(r)

Inv == Shape /\ NoFuture /\ RequestsSound /\ OnlyRacedSurvive

LEMMA MintedUser ==
  ASSUME Shape, NEW r \in Requests, MintUser(r)
  PROVE  /\ held' \in [Requests -> Entry \cup {None}]
         /\ held'[r] = [session |-> held[r].session,
                        epochs |-> [user |-> userEpoch[user[held[r].session]],
                                    global |-> held[r].epochs.global]]
         /\ held'[r] \in Entry
         /\ \A q \in Requests \ {r} : held'[q] = held[q]
<1>1. held[r] \in Entry /\ user[held[r].session] \in Users BY DEF MintUser, Shape
<1>2. userEpoch[user[held[r].session]] \in Nat BY <1>1 DEF Shape, TypeOK
<1> QED BY <1>1, <1>2 DEF MintUser, Shape, TypeOK, Entry, Epochs

LEMMA MintedGlobal ==
  ASSUME Shape, NEW r \in Requests, MintGlobal(r)
  PROVE  /\ held' \in [Requests -> Entry \cup {None}]
         /\ held'[r] = [session |-> held[r].session,
                        epochs |-> [user |-> held[r].epochs.user, global |-> globalEpoch]]
         /\ held'[r] \in Entry
         /\ \A q \in Requests \ {r} : held'[q] = held[q]
<1>1. held[r] \in Entry BY DEF MintGlobal, Shape
<1> QED BY <1>1 DEF MintGlobal, Shape, TypeOK, Entry, Epochs

LEMMA LoggedIn ==
  ASSUME Shape, NEW r \in Requests, NEW s \in Sessions, NEW u \in Users, Login(r, s, u)
  PROVE  /\ held' \in [Requests -> Entry \cup {None}] /\ user' \in [Sessions -> Users \cup {None}]
         /\ held'[r] = [session |-> s, epochs |-> Zero] /\ held'[r] \in Entry
         /\ \A q \in Requests \ {r} : held'[q] = held[q]
         /\ user'[s] = u /\ \A z \in Sessions \ {s} : user'[z] = user[z]
  BY DEF Login, Shape, TypeOK, Entry, Epochs, Zero

(******************************** Shape is inductive ********************************)

LEMMA ShapeInit == Init => Shape
<1> SUFFICES ASSUME Init PROVE Shape
  OBVIOUS
<1>1. TypeOK BY BoundsAssumption DEF Init, TypeOK, Points, Epochs, Zero
<1> QED BY <1>1 DEF Init, Shape, Checking

LEMMA ShapeStep == Shape /\ [Next]_vars => Shape'
<1> SUFFICES ASSUME Shape, [Next]_vars PROVE Shape'
  OBVIOUS
<1> USE DEF requestVars, historyVars
<1>1. ASSUME NEW r \in Requests, NEW s \in Sessions, NEW u \in Users, Login(r, s, u)
      PROVE  Shape'
  <2>1. TypeOK' BY <1>1, LoggedIn DEF Login, Goto, Shape, TypeOK, Points
  <2>2. \A z \in Sessions : user[z] \in Users => user'[z] \in Users
    BY <1>1, LoggedIn, NoneAssumption DEF Login
  <2>3. \A q \in Requests \ {r} : pc'[q] = pc[q] BY <1>1 DEF Login, Goto, Shape, TypeOK
  <2>4. pc'[r] = "mintUser" BY <1>1 DEF Login, Goto, Shape, TypeOK
  <2>5. \A t \in Tokens : store[t] # None => user'[store[t].session] \in Users
    BY <2>2 DEF Shape, Entry
  <2>6. \A q \in Requests \ {r} : pc[q] # "idle" => user'[held[q].session] \in Users
    BY <2>2 DEF Shape, Entry
  <2>7. user'[held'[r].session] \in Users
    <3>1. held'[r] = [session |-> s, epochs |-> Zero] /\ user'[s] = u BY <1>1, LoggedIn
    <3> QED BY <3>1
  <2>8. held'[r] \in Entry /\ \A q \in Requests \ {r} : held'[q] = held[q] BY <1>1, LoggedIn
  <2>9. \A z \in revoked' : user'[z] \in Users
    BY <1>1, <2>2 DEF Login, Shape, TypeOK
  <2> QED BY <1>1, <2>1, <2>3, <2>4, <2>5, <2>6, <2>7, <2>8, <2>9 DEF Login, Shape, Checking
<1>2. ASSUME NEW r \in Requests, NEW t \in Tokens, Refresh(r, t) PROVE Shape'
  <2>1. store[t] \in Entry /\ t \in issued BY <1>2 DEF Refresh, Shape
  <2>2. TypeOK' BY <1>2, <2>1 DEF Refresh, FirstCheck, Goto, Shape, TypeOK, Points
  <2> QED BY <1>2, <2>1, <2>2 DEF Refresh, FirstCheck, Goto, Shape, TypeOK, Checking
<1>3. ASSUME NEW r \in Requests, NEW t \in Tokens, Save(r, t) PROVE Shape'
  <2>1. held[r] \in Entry /\ user[held[r].session] \in Users BY <1>3 DEF Save, Shape
  <2>4. TypeOK' BY <1>3, <2>1 DEF Save, Leave, Goto, Shape, TypeOK, Points
  <2>5. \A q \in Requests : pc[q] \in Checking => presented[q] # t BY <1>3 DEF Save, Shape
  <2> QED BY <1>3, <2>1, <2>4, <2>5 DEF Save, Leave, Goto, Shape, TypeOK, Checking
<1>4. ASSUME NEW r \in Requests, CheckUser(r) PROVE Shape'
  <2>1. userEpoch[user[held[r].session]] \in Nat BY <1>4 DEF CheckUser, Shape, TypeOK
  <2>2. TypeOK' BY <1>4, <2>1 DEF CheckUser, Goto, Shape, TypeOK, Points
  <2> QED BY <1>4, <2>2 DEF CheckUser, Goto, Shape, TypeOK, Checking
<1>5. ASSUME NEW r \in Requests, CheckGlobal(r) PROVE Shape'
  <2>1. TypeOK' BY <1>5 DEF CheckGlobal, Goto, Shape, TypeOK, Points
  <2> QED BY <1>5, <2>1 DEF CheckGlobal, Goto, Shape, TypeOK, Checking
<1>6. ASSUME NEW r \in Requests, Drop(r) PROVE Shape'
  <2>1. TypeOK' BY <1>6 DEF Drop, Forget, Leave, Goto, Shape, TypeOK, Points
  <2> QED BY <1>6, <2>1 DEF Drop, Forget, Leave, Goto, Shape, TypeOK, Checking
<1>7. ASSUME NEW r \in Requests, Rotate(r) PROVE Shape'
  <2>1. TypeOK' BY <1>7 DEF Rotate, Forget, Goto, Shape, TypeOK, Points
  <2> QED BY <1>7, <2>1 DEF Rotate, Forget, Goto, Shape, TypeOK, Checking
<1>8. ASSUME NEW r \in Requests, MintUser(r) PROVE Shape'
  <2>1. TypeOK' BY <1>8, MintedUser DEF MintUser, Goto, Shape, TypeOK, Points
  <2>2. held'[r].session = held[r].session
    <3>1. held'[r] = [session |-> held[r].session,
                      epochs |-> [user |-> userEpoch[user[held[r].session]],
                                  global |-> held[r].epochs.global]]
      BY <1>8, MintedUser
    <3> QED BY <3>1
  <2>3. user'[held'[r].session] \in Users BY <1>8, <2>2 DEF MintUser, historyVars, Shape
  <2> QED BY <1>8, <2>1, <2>3, MintedUser DEF MintUser, historyVars, Goto, Shape, TypeOK, Checking
<1>9. ASSUME NEW r \in Requests, MintGlobal(r) PROVE Shape'
  <2>1. TypeOK' BY <1>9, MintedGlobal DEF MintGlobal, Goto, Shape, TypeOK, Points
  <2>2. held'[r].session = held[r].session
    <3>1. held'[r] = [session |-> held[r].session,
                      epochs |-> [user |-> held[r].epochs.user, global |-> globalEpoch]]
      BY <1>9, MintedGlobal
    <3> QED BY <3>1
  <2>3. user'[held'[r].session] \in Users BY <1>9, <2>2 DEF MintGlobal, historyVars, Shape
  <2> QED BY <1>9, <2>1, <2>3, MintedGlobal DEF MintGlobal, historyVars, Goto, Shape, TypeOK, Checking
<1>10. ASSUME NEW r \in Requests, RequestFails(r) PROVE Shape'
  <2>1. TypeOK' BY <1>10 DEF RequestFails, Leave, Goto, Shape, TypeOK, Points, Entry
  <2> QED BY <1>10, <2>1 DEF RequestFails, Leave, Goto, Shape, TypeOK, Checking
<1>11. ASSUME NEW t \in Tokens, Delete(t) PROVE Shape'
  <2>1. TypeOK' BY <1>11 DEF Delete, Forget, Shape, TypeOK, requestVars, Entry
  <2> QED BY <1>11, <2>1 DEF Delete, Forget, Shape, TypeOK, requestVars, Checking
<1>12. ASSUME NEW u \in Users, RevokeUserSessions(u) \/ DeleteUserEpoch(u) PROVE Shape'
  <2>1. TypeOK'
    BY <1>12 DEF RevokeUserSessions, Revoked, DeleteUserEpoch, Reset, requestVars, Of, Shape, TypeOK
  <2>2. \A s \in revoked' : user[s] \in Users
    BY <1>12 DEF RevokeUserSessions, Revoked, DeleteUserEpoch, Reset, Of, Shape
  <2> QED BY <1>12, <2>1, <2>2
          DEF RevokeUserSessions, Revoked, DeleteUserEpoch, Reset, requestVars, Shape, Checking
<1>13. CASE RevokeAllSessions \/ DeleteGlobalEpoch
  <2>1. TypeOK'
    BY <1>13 DEF RevokeAllSessions, Revoked, DeleteGlobalEpoch, Reset, requestVars, Of, Shape, TypeOK
  <2>2. \A s \in revoked' : user[s] \in Users
    BY <1>13 DEF RevokeAllSessions, Revoked, DeleteGlobalEpoch, Reset, Of, Shape
  <2> QED BY <1>13, <2>1, <2>2
          DEF RevokeAllSessions, Revoked, DeleteGlobalEpoch, Reset, requestVars, Shape, Checking
<1>14. CASE Crash
  <2>1. UnderWay \subseteq Sessions
    BY DEF UnderWay, WithRequestAt, Shape, Entry
  <2>2. TypeOK' BY <1>14, <2>1 DEF Crash, Shape, TypeOK, Points
  <2> QED BY <1>14, <2>2 DEF Crash, Shape, Checking
<1>15. CASE UNCHANGED vars
  BY <1>15 DEF vars, requestVars, historyVars, Shape, TypeOK, Checking
<1> QED BY <1>1, <1>2, <1>3, <1>4, <1>5, <1>6, <1>7, <1>8, <1>9, <1>10, <1>11, <1>12,
           <1>13, <1>14, <1>15 DEF Next

(************************* Nobody is ahead of the epochs *************************)

\* Where nothing changes but tokens and points, and entries only move between the store
\* and the requests, no entry gets ahead of the epochs.
LEMMA NoFutureStep == Shape /\ NoFuture /\ [Next]_vars => NoFuture'
<1> SUFFICES ASSUME Shape, NoFuture, [Next]_vars PROVE NoFuture'
  OBVIOUS
<1> USE DEF requestVars, historyVars
<1>1. ASSUME NEW r \in Requests, NEW s \in Sessions, NEW u \in Users, Login(r, s, u)
      PROVE  NoFuture'
  <2>1. \A z \in Sessions : user[z] \in Users => user'[z] = user[z]
    BY <1>1, LoggedIn, NoneAssumption DEF Login
  <2>2. \A t \in Tokens : store[t] # None => Past(store[t])'
    BY <1>1, <2>1 DEF Login, NoFuture, Past, Shape, Entry
  <2>3. \A q \in Requests \ {r} : pc[q] # "idle" => Past(held[q])'
    <3> SUFFICES ASSUME NEW q \in Requests \ {r}, pc[q] # "idle" PROVE Past(held[q])'
      OBVIOUS
    <3>1. held'[q] = held[q] BY <1>1, LoggedIn
    <3>2. user'[held[q].session] = user[held[q].session] BY <2>1 DEF Shape, Entry
    <3> QED BY <1>1, <3>1, <3>2 DEF Login, NoFuture, Past
  <2>4. held'[r] = [session |-> s, epochs |-> Zero] /\ user'[s] = u BY <1>1, LoggedIn
  <2>5. 0 <= userEpoch[u] /\ 0 <= globalEpoch BY DEF Shape, TypeOK
  <2>6. Past(held[r])' BY <1>1, <2>4, <2>5 DEF Login, Past, Zero
  <2>7. \A q \in Requests \ {r} : pc'[q] = pc[q] BY <1>1 DEF Login, Goto, Shape, TypeOK
  <2> QED BY <1>1, <2>2, <2>3, <2>6, <2>7 DEF Login, NoFuture
<1>2. ASSUME NEW r \in Requests, NEW t \in Tokens, Refresh(r, t) PROVE NoFuture'
  BY <1>2 DEF Refresh, Goto, NoFuture, Past, Shape, TypeOK
<1>3. ASSUME NEW r \in Requests, NEW t \in Tokens, Save(r, t) PROVE NoFuture'
  BY <1>3 DEF Save, Leave, Goto, NoFuture, Past, Shape, TypeOK
<1>4. ASSUME NEW r \in Requests, CheckUser(r) \/ CheckGlobal(r) PROVE NoFuture'
  BY <1>4 DEF CheckUser, CheckGlobal, Goto, NoFuture, Past, Shape, TypeOK
<1>5. ASSUME NEW r \in Requests, Drop(r) \/ Rotate(r) PROVE NoFuture'
  BY <1>5 DEF Drop, Rotate, Forget, Leave, Goto, NoFuture, Past, Shape, TypeOK
<1>6. ASSUME NEW r \in Requests, MintUser(r) PROVE NoFuture'
  <2>1. held'[r] = [session |-> held[r].session,
                    epochs |-> [user |-> userEpoch[user[held[r].session]],
                                global |-> held[r].epochs.global]]
    BY <1>6, MintedUser
  <2>2. \A q \in Requests \ {r} : held'[q] = held[q] BY <1>6, MintedUser
  <2>3. Past(held[r]) BY <1>6 DEF MintUser, NoFuture
  <2>4. userEpoch[user[held[r].session]] \in Nat BY <1>6 DEF MintUser, Shape, TypeOK
  <2>5. Past(held[r])' BY <1>6, <2>1, <2>3, <2>4 DEF MintUser, Past
  <2> QED BY <1>6, <2>2, <2>5 DEF MintUser, Goto, NoFuture, Past, Shape, TypeOK
<1>7. ASSUME NEW r \in Requests, MintGlobal(r) PROVE NoFuture'
  <2>1. held'[r] = [session |-> held[r].session,
                    epochs |-> [user |-> held[r].epochs.user, global |-> globalEpoch]]
    BY <1>7, MintedGlobal
  <2>2. \A q \in Requests \ {r} : held'[q] = held[q] BY <1>7, MintedGlobal
  <2>3. Past(held[r]) BY <1>7 DEF MintGlobal, NoFuture
  <2>4. globalEpoch \in Nat BY DEF Shape, TypeOK
  <2>5. Past(held[r])' BY <1>7, <2>1, <2>3, <2>4 DEF MintGlobal, Past
  <2> QED BY <1>7, <2>2, <2>5 DEF MintGlobal, Goto, NoFuture, Past, Shape, TypeOK
<1>8. ASSUME NEW r \in Requests, RequestFails(r) PROVE NoFuture'
  BY <1>8 DEF RequestFails, Leave, Goto, NoFuture, Past, Shape, TypeOK
<1>9. ASSUME NEW t \in Tokens, Delete(t) PROVE NoFuture'
  BY <1>9 DEF Delete, Forget, NoFuture, Past, Shape, TypeOK
<1>10. ASSUME NEW u \in Users, RevokeUserSessions(u) PROVE NoFuture'
  <2>1. \A v \in Users : userEpoch[v] \in Nat /\ userEpoch'[v] >= userEpoch[v]
    BY <1>10 DEF RevokeUserSessions, Shape, TypeOK
  <2>2. \A e \in Entry : user[e.session] \in Users /\ Past(e) => Past(e)'
    BY <1>10, <2>1 DEF RevokeUserSessions, Revoked, Past, Entry, Epochs, Shape, TypeOK
  <2> QED BY <1>10, <2>2 DEF RevokeUserSessions, Revoked, NoFuture, Shape
<1>11. CASE RevokeAllSessions
  <2>1. globalEpoch \in Nat /\ globalEpoch' = globalEpoch + 1
    BY <1>11 DEF RevokeAllSessions, Shape, TypeOK
  <2>2. \A e \in Entry : user[e.session] \in Users /\ Past(e) => Past(e)'
    BY <1>11, <2>1 DEF RevokeAllSessions, Revoked, Past, Entry, Epochs
  <2> QED BY <1>11, <2>2 DEF RevokeAllSessions, Revoked, NoFuture, Shape
<1>12. CASE Crash
  BY <1>12 DEF Crash, NoFuture, Past
<1>13. ASSUME (\E u \in Users : DeleteUserEpoch(u)) \/ DeleteGlobalEpoch PROVE NoFuture'
  <2>1. UNCHANGED <<store, pc, held, user>> /\ reset \subseteq reset'
    BY <1>13 DEF DeleteUserEpoch, DeleteGlobalEpoch, Reset
  <2>2. \A e \in Entry : user[e.session] \in Users /\ Past(e) => Past(e)'
    <3> SUFFICES ASSUME NEW e \in Entry, user[e.session] \in Users, Past(e), e.session \notin reset'
                 PROVE  Past(e)'
      BY DEF Past
    <3>1. e.session \in Sessions BY DEF Entry
    <3>2. ~DeleteGlobalEpoch BY <3>1 DEF DeleteGlobalEpoch, Reset, Of
    <3>3. PICK u \in Users : DeleteUserEpoch(u) BY <1>13, <3>2
    <3>4. user[e.session] # u BY <3>1, <3>3 DEF DeleteUserEpoch, Reset, Of
    <3>5. userEpoch'[user[e.session]] = userEpoch[user[e.session]] /\ globalEpoch' = globalEpoch
      BY <3>3, <3>4 DEF DeleteUserEpoch, Shape, TypeOK
    <3> QED BY <2>1, <3>5 DEF Past
  <2> QED BY <2>1, <2>2 DEF NoFuture, Shape
<1>14. CASE UNCHANGED vars
  BY <1>14 DEF vars, NoFuture, Past
<1> QED BY <1>1, <1>2, <1>3, <1>4, <1>5, <1>6, <1>7, <1>8, <1>9, <1>10, <1>11, <1>12, <1>13,
           <1>14 DEF Next

(*************************** What survives a revocation ***************************)

LEMMA InvInit == Init => Inv
<1> SUFFICES ASSUME Init PROVE Inv
  OBVIOUS
<1>1. NoFuture /\ RequestsSound /\ OnlyRacedSurvive
  BY DEF Init, NoFuture, RequestsSound, RequestSound, OnlyRacedSurvive, Valid, Minting
<1> QED BY <1>1, ShapeInit DEF Inv

\* A step that changes epochs of the users us only, takes them out of reach of what was
\* minted before, and leaves racing requests as they were.
LEMMA EpochStep ==
  ASSUME Inv, NEW us \in SUBSET Users,
         UNCHANGED <<store, issued, requestVars, user>>,
         globalEpoch' # globalEpoch => us = Users,
         \A v \in Users \ us : Now(v)' = Now(v),
         \A s \in Sessions : Survives(s) /\ (s \in Of(us) => s \in Racing) => Survives(s)',
         \A e \in Entry : user[e.session] \in us /\ Past(e) =>
           \/ Survives(e.session)'
           \/ /\ e.epochs # Now(user[e.session])'
              /\ globalEpoch' # globalEpoch => e.epochs.global # globalEpoch'
  PROVE  (RequestsSound /\ OnlyRacedSurvive)'
<1> USE DEF requestVars
<1>1. \A s \in Sessions : user[s] \notin us /\ Survives(s) => Survives(s)' BY DEF Of
<1>2. OnlyRacedSurvive'
  <2> SUFFICES ASSUME NEW t \in Tokens, Valid(t)' PROVE Survives(store[t].session)'
    BY DEF OnlyRacedSurvive, Survives
  <2>1. store[t] \in Entry /\ store[t] # None BY DEF Inv, Shape, Valid
  <2>2. PICK e \in Entry : e = store[t] BY <2>1
  <2>3. PICK v \in Users : v = user[e.session] BY <2>1, <2>2 DEF Inv, Shape
  <2>4. Past(e) BY <2>1, <2>2 DEF Inv, NoFuture
  <2>5. e.epochs = Now(v)' BY <2>2, <2>3 DEF Valid, Now
  <2>6. CASE v \in us
    <3>1. Survives(e.session)' BY <2>3, <2>4, <2>5, <2>6 DEF Now
    <3> QED BY <2>2, <3>1 DEF Survives
  <2>7. CASE v \notin us
    <3>1. Valid(t) BY <2>1, <2>2, <2>3, <2>5, <2>7 DEF Valid
    <3>2. Survives(e.session) BY <2>2, <3>1 DEF Inv, OnlyRacedSurvive, Survives
    <3>3. Survives(e.session)' BY <1>1, <2>3, <2>7, <3>2 DEF Entry
    <3> QED BY <2>2, <3>3 DEF Survives
  <2> QED BY <2>6, <2>7
<1>3. RequestsSound'
  <2> SUFFICES ASSUME NEW r \in Requests, pc[r] # "idle" PROVE RequestSound(r)'
    BY DEF RequestsSound, RequestSound, Minting
  <2>1. PICK e \in Entry : e = held[r] BY DEF Inv, Shape
  <2>2. PICK v \in Users : v = user[e.session] BY <2>1 DEF Inv, Shape
  <2>3. e.session \in Sessions /\ Past(e) BY <2>1 DEF Inv, NoFuture, Past, Entry
  <2>4. Survives(held[r].session)' <=> Survives(e.session)' BY <2>1 DEF Survives
  <2>5. Now(user[held[r].session])' = Now(v)' BY <2>1, <2>2 DEF Now
  <2>6. /\ pc[r] = "checkUser" /\ e.epochs = Now(v) => Survives(e.session)
        /\ pc[r] = "checkGlobal" /\ e.epochs = [user |-> seen[r], global |-> globalEpoch]
             => Survives(e.session)
        /\ pc[r] \in {"rotate"} \cup Minting => Survives(e.session)
    BY <2>1, <2>2 DEF Inv, RequestsSound, RequestSound
  <2>7. pc[r] \in {"checkGlobal", "rotate"} \cup Minting => e.session \in Racing
    BY <2>1 DEF Racing, WithRequestAt, Minting
  <2>8. pc[r] \in {"rotate"} \cup Minting => Survives(e.session)'
    BY <2>3, <2>6, <2>7
  <2>9. pc[r] = "checkUser" /\ e.epochs = Now(v)' => Survives(e.session)'
    <3>1. CASE v \in us BY <2>2, <2>3, <3>1 DEF Now
    <3>2. CASE v \notin us BY <1>1, <2>2, <2>3, <2>6, <3>2
    <3> QED BY <3>1, <3>2
  <2>10. pc[r] = "checkGlobal" /\ e.epochs = [user |-> seen[r], global |-> globalEpoch']
           => Survives(e.session)'
    <3>1. CASE globalEpoch' = globalEpoch BY <2>3, <2>6, <2>7, <3>1
    <3>2. CASE globalEpoch' # globalEpoch BY <2>2, <2>3, <3>2
    <3> QED BY <3>1, <3>2
  <2> QED BY <2>1, <2>4, <2>5, <2>8, <2>9, <2>10 DEF RequestSound, Minting
<1> QED BY <1>2, <1>3

\* Where no epoch changes and no session becomes less safe, what is left alone stays sound.
LEMMA LeftAlone ==
  ASSUME Inv, UNCHANGED <<userEpoch, globalEpoch>>,
         \A s \in Sessions : user[s] \in Users =>
           user'[s] = user[s] /\ (Survives(s) => Survives(s)')
  PROVE  /\ \A t \in Tokens : store'[t] \in {None, store[t]} /\ Valid(t)'
                               => Survives(store[t].session)'
         /\ \A r \in Requests :
              /\ pc'[r] = pc[r] /\ presented'[r] = presented[r]
              /\ held'[r] = held[r] /\ seen'[r] = seen[r]
              => RequestSound(r)'
<1>1. ASSUME NEW t \in Tokens, store'[t] \in {None, store[t]}, Valid(t)'
      PROVE  Survives(store[t].session)'
  <2>1. store'[t] = store[t] /\ store[t] # None BY <1>1 DEF Valid
  <2>2. PICK e \in Entry : e = store[t] BY <2>1 DEF Inv, Shape
  <2>3. user[e.session] \in Users /\ e.session \in Sessions
    BY <2>1, <2>2 DEF Inv, Shape, Entry
  <2>4. user'[e.session] = user[e.session] /\ (Survives(e.session) => Survives(e.session)')
    BY <2>3
  <2>5. Valid(t) BY <1>1, <2>1, <2>2, <2>4 DEF Valid, Now
  <2>6. Survives(e.session) BY <2>2, <2>5 DEF Inv, OnlyRacedSurvive, Survives
  <2> QED BY <2>1, <2>2, <2>4, <2>6 DEF Survives
<1>2. ASSUME NEW r \in Requests, pc'[r] = pc[r], presented'[r] = presented[r],
             held'[r] = held[r], seen'[r] = seen[r]
      PROVE  RequestSound(r)'
  <2>1. CASE pc[r] = "idle" BY <1>2, <2>1 DEF RequestSound, Minting
  <2>2. CASE pc[r] # "idle"
    <3>1. PICK e \in Entry : e = held[r] BY <2>2 DEF Inv, Shape
    <3>2. user[e.session] \in Users /\ e.session \in Sessions
      BY <2>2, <3>1 DEF Inv, Shape, Entry
    <3>3. user'[e.session] = user[e.session] /\ (Survives(e.session) => Survives(e.session)')
      BY <3>2
    <3>4. Survives(held[r].session)' <=> Survives(e.session)'
      BY <1>2, <3>1 DEF Survives
    <3>5. Now(user[held[r].session])' = Now(user[e.session]) BY <1>2, <3>1, <3>3 DEF Now
    <3>6. /\ pc[r] = "checkUser" /\ e.epochs = Now(user[e.session]) => Survives(e.session)
          /\ pc[r] = "checkGlobal" /\ e.epochs = [user |-> seen[r], global |-> globalEpoch]
               => Survives(e.session)
          /\ pc[r] \in {"rotate"} \cup Minting => Survives(e.session)
      BY <3>1 DEF Inv, RequestsSound, RequestSound
    <3> QED BY <1>2, <3>1, <3>3, <3>4, <3>5, <3>6 DEF RequestSound
  <2> QED BY <2>1, <2>2
<1> QED BY <1>1, <1>2

\* The steps of one request, apart from the saving of a token.
LEMMA RequestStep ==
  ASSUME Inv, NEW r \in Requests,
         \/ \E t \in Tokens : Refresh(r, t)
         \/ CheckUser(r) \/ CheckGlobal(r) \/ Drop(r) \/ Rotate(r)
         \/ MintUser(r) \/ MintGlobal(r) \/ RequestFails(r)
  PROVE  (RequestsSound /\ OnlyRacedSurvive)'
<1> USE DEF historyVars, FirstCheck
<1>1. UNCHANGED <<userEpoch, globalEpoch, user, revoked, reset>>
  BY DEF Refresh, CheckUser, CheckGlobal, Drop, Rotate, MintUser, MintGlobal, RequestFails
<1>2. \A s \in Sessions : Survives(s)' <=> Survives(s)
  BY <1>1 DEF Survives
<1>3. \A t \in Tokens : store'[t] \in {None, store[t]}
  BY DEF Refresh, CheckUser, CheckGlobal, Drop, Rotate, MintUser, MintGlobal, RequestFails,
         Forget, Inv, Shape, TypeOK
<1>4. \A t \in Tokens : Valid(t)' => Survives(store[t].session)'
  BY <1>1, <1>2, <1>3, LeftAlone
<1>5. OnlyRacedSurvive' BY <1>4 DEF OnlyRacedSurvive, Survives
<1>6. \A q \in Requests \ {r} : /\ pc'[q] = pc[q] /\ presented'[q] = presented[q]
                                /\ held'[q] = held[q] /\ seen'[q] = seen[q]
  <2>1. CASE MintUser(r) BY <2>1, MintedUser DEF MintUser, Goto, Inv, Shape, TypeOK
  <2>2. CASE MintGlobal(r) BY <2>2, MintedGlobal DEF MintGlobal, Goto, Inv, Shape, TypeOK
  <2> QED
    BY <2>1, <2>2 DEF Refresh, CheckUser, CheckGlobal, Drop, Rotate, RequestFails,
                      Leave, Goto, Inv, Shape, TypeOK
<1>7. \A q \in Requests \ {r} : RequestSound(q)' BY <1>1, <1>2, <1>6, LeftAlone
<1>8. RequestSound(r)'
  <2>1. ASSUME NEW t \in Tokens, Refresh(r, t) PROVE RequestSound(r)'
    <3>1. PICK e \in Entry : e = store[t] BY <2>1 DEF Refresh, Inv, Shape
    <3>2. pc'[r] = "checkUser" /\ held'[r] = e
      BY <2>1, <3>1 DEF Refresh, Goto, Inv, Shape, TypeOK
    <3>3. Survives(e.session)' <=> Survives(e.session) BY <1>2 DEF Entry
    <3>4. e.epochs = Now(user[e.session]) => Survives(e.session)
      BY <2>1, <3>1 DEF Refresh, Valid, Inv, OnlyRacedSurvive, Survives
    <3>5. Now(user[held[r].session])' = Now(user[e.session]) BY <1>1, <3>2 DEF Now
    <3>6. Survives(held[r].session)' <=> Survives(e.session)'
      BY <3>2 DEF Survives
    <3> QED BY <3>2, <3>3, <3>4, <3>5, <3>6 DEF RequestSound, Minting
  <2>2. CASE CheckUser(r)
    <3>1. PICK e \in Entry : e = held[r] BY <2>2 DEF CheckUser, Inv, Shape
    <3>2. /\ pc'[r] = "checkGlobal" /\ held'[r] = e
          /\ seen'[r] = userEpoch[user[e.session]]
      BY <2>2, <3>1 DEF CheckUser, Goto, Inv, Shape, TypeOK
    <3>3. e.epochs = Now(user[e.session]) => Survives(e.session)
      BY <2>2, <3>1 DEF CheckUser, Inv, RequestsSound, RequestSound
    <3>4. e.epochs = [user |-> seen'[r], global |-> globalEpoch'] => Survives(e.session)
      BY <1>1, <3>2, <3>3 DEF Now
    <3>5. Survives(held[r].session)' <=> Survives(e.session)
      BY <1>2, <3>2 DEF Survives, Entry
    <3> QED BY <3>2, <3>4, <3>5 DEF RequestSound, Minting
  <2>3. CASE CheckGlobal(r)
    <3>1. PICK e \in Entry : e = held[r] BY <2>3 DEF CheckGlobal, Inv, Shape
    <3>2. /\ held'[r] = e
          /\ pc'[r] = IF e.epochs = [user |-> seen[r], global |-> globalEpoch]
                       THEN "rotate" ELSE "drop"
      BY <2>3, <3>1 DEF CheckGlobal, Goto, Inv, Shape, TypeOK
    <3>3. e.epochs = [user |-> seen[r], global |-> globalEpoch] => Survives(e.session)
      BY <2>3, <3>1 DEF CheckGlobal, Inv, RequestsSound, RequestSound
    <3>4. Survives(held[r].session)' <=> Survives(e.session)
      BY <1>2, <3>2 DEF Survives, Entry
    <3> QED BY <3>2, <3>3, <3>4 DEF RequestSound, Minting
  <2>4. CASE Drop(r)
    BY <2>4 DEF Drop, Leave, Goto, RequestSound, Minting, Inv, Shape, TypeOK
  <2>5. CASE Rotate(r)
    <3>1. PICK e \in Entry : e = held[r] BY <2>5 DEF Rotate, Inv, Shape
    <3>2. pc'[r] = "mintUser" /\ held'[r] = e
      BY <2>5, <3>1 DEF Rotate, Goto, Inv, Shape, TypeOK
    <3>3. Survives(e.session) BY <2>5, <3>1 DEF Rotate, Inv, RequestsSound, RequestSound
    <3>4. Survives(held[r].session)' <=> Survives(e.session)
      BY <1>2, <3>2 DEF Survives, Entry
    <3> QED BY <3>2, <3>3, <3>4 DEF RequestSound, Minting
  <2>6. CASE MintUser(r) \/ MintGlobal(r)
    <3>1. PICK e \in Entry : e = held[r] BY <2>6 DEF MintUser, MintGlobal, Inv, Shape
    <3>2. /\ pc'[r] \in {"mintGlobal", "save"} /\ presented'[r] = presented[r]
          /\ pc[r] \in Minting
      BY <2>6 DEF MintUser, MintGlobal, Goto, Minting, Inv, Shape, TypeOK
    <3>3. held'[r].session = e.session
      <4>1. CASE MintUser(r)
        <5>1. held'[r] = [session |-> held[r].session,
                          epochs |-> [user |-> userEpoch[user[held[r].session]],
                                      global |-> held[r].epochs.global]]
          BY <4>1, MintedUser DEF Inv
        <5> QED BY <3>1, <5>1
      <4>2. CASE MintGlobal(r)
        <5>1. held'[r] = [session |-> held[r].session,
                          epochs |-> [user |-> held[r].epochs.user, global |-> globalEpoch]]
          BY <4>2, MintedGlobal DEF Inv
        <5> QED BY <3>1, <5>1
      <4> QED BY <2>6, <4>1, <4>2
    <3>4. Survives(e.session)
      BY <3>1, <3>2 DEF Inv, RequestsSound, RequestSound
    <3>5. Survives(held[r].session)' <=> Survives(e.session)
      BY <1>2, <3>3 DEF Survives, Entry
    <3> QED BY <3>2, <3>4, <3>5 DEF RequestSound, Minting
  <2>7. CASE RequestFails(r)
    BY <2>7 DEF RequestFails, Leave, Goto, RequestSound, Minting, Inv, Shape, TypeOK
  <2> QED BY <2>1, <2>2, <2>3, <2>4, <2>5, <2>6, <2>7
<1> QED BY <1>5, <1>7, <1>8 DEF RequestsSound

\* A token that is saved belongs to a session that survived.
LEMMA SaveStep ==
  ASSUME Inv, NEW r \in Requests, NEW t \in Tokens, Save(r, t)
  PROVE  (RequestsSound /\ OnlyRacedSurvive)'
<1> USE DEF historyVars
<1>1. PICK e \in Entry : e = held[r] BY DEF Save, Inv, Shape
<1>2. UNCHANGED <<userEpoch, globalEpoch, user, revoked, reset>> BY DEF Save
<1>3. \A s \in Sessions : user'[s] = user[s] /\ (Survives(s) => Survives(s)')
  BY <1>2 DEF Survives
<1>4. Survives(e.session)'
  <2>1. Survives(e.session) BY <1>1 DEF Save, Inv, RequestsSound, RequestSound, Minting
  <2> QED BY <1>2, <2>1 DEF Survives
<1>5. store'[t] = e /\ \A z \in Tokens \ {t} : store'[z] = store[z]
  BY <1>1 DEF Save, Inv, Shape, TypeOK
<1>6. OnlyRacedSurvive'
  <2> SUFFICES ASSUME NEW z \in Tokens, Valid(z)' PROVE Survives(store[z].session)'
    BY DEF OnlyRacedSurvive, Survives
  <2>1. CASE z = t BY <1>4, <1>5, <2>1 DEF Survives
  <2>2. CASE z # t BY <1>2, <1>3, <1>5, <2>2, LeftAlone
  <2> QED BY <2>1, <2>2
<1>7. \A q \in Requests \ {r} : RequestSound(q)'
  BY <1>2, <1>3, LeftAlone DEF Save, Leave, Goto, Inv, Shape, TypeOK
<1>8. RequestSound(r)'
  BY DEF Save, Leave, Goto, RequestSound, Minting, Inv, Shape, TypeOK
<1> QED BY <1>6, <1>7, <1>8 DEF RequestsSound

LEMMA LoginStep ==
  ASSUME Inv, NEW r \in Requests, NEW s \in Sessions, NEW u \in Users, Login(r, s, u)
  PROVE  (RequestsSound /\ OnlyRacedSurvive)'
<1>1. UNCHANGED <<userEpoch, globalEpoch, store, revoked, reset, presented, seen>>
  BY DEF Login
<1>2. \A z \in Sessions : user[z] \in Users => user'[z] = user[z]
  BY LoggedIn, NoneAssumption DEF Login, Inv
<1>3. \A z \in Sessions : user[z] \in Users => (Survives(z) => Survives(z)')
  BY <1>1, <1>2 DEF Survives
<1>4. OnlyRacedSurvive' BY <1>1, <1>2, <1>3, LeftAlone DEF OnlyRacedSurvive, Survives
<1>5. \A q \in Requests \ {r} : RequestSound(q)'
  <2>1. \A q \in Requests \ {r} : pc'[q] = pc[q] /\ held'[q] = held[q]
    BY LoggedIn DEF Login, Goto, Inv, Shape, TypeOK
  <2> QED BY <1>1, <1>2, <1>3, <2>1, LeftAlone
<1>6. RequestSound(r)'
  <2>1. held'[r] = [session |-> s, epochs |-> Zero] BY LoggedIn DEF Inv
  <2>2. held'[r].session = s /\ pc'[r] = "mintUser"
    BY <2>1 DEF Login, Goto, Inv, Shape, TypeOK
  <2>3. s \notin revoked BY NoneAssumption DEF Login, Inv, Shape
  <2> QED BY <1>1, <2>2, <2>3 DEF RequestSound, Minting, Survives
<1> QED BY <1>4, <1>5, <1>6 DEF RequestsSound

\* Whoever had an entry at a revocation of its user cannot have the epochs of after it.
LEMMA UserRevoked ==
  ASSUME Inv, NEW u \in Users, RevokeUserSessions(u)
  PROVE  (RequestsSound /\ OnlyRacedSurvive)'
<1>1. userEpoch'[u] = userEpoch[u] + 1 /\ userEpoch[u] \in Nat
  BY DEF RevokeUserSessions, Inv, Shape, TypeOK
<1>2. \A v \in Users \ {u} : userEpoch'[v] = userEpoch[v]
  BY DEF RevokeUserSessions, Inv, Shape, TypeOK
<1>3. /\ UNCHANGED <<globalEpoch, store, issued, requestVars, user, reset>>
      /\ revoked' = revoked \cup (Of({u}) \ Racing)
  BY DEF RevokeUserSessions, Revoked
<1>4. \A v \in Users \ {u} : Now(v)' = Now(v) BY <1>2, <1>3 DEF Now
<1>5. \A s \in Sessions : Survives(s) /\ (s \in Of({u}) => s \in Racing) => Survives(s)'
  BY <1>3 DEF Survives
<1>6. \A e \in Entry : user[e.session] \in {u} /\ Past(e) =>
        Survives(e.session)' \/ e.epochs # Now(user[e.session])'
  <2> SUFFICES ASSUME NEW e \in Entry, user[e.session] = u, Past(e), e.session \notin reset
               PROVE  e.epochs # Now(user[e.session])'
    BY <1>3 DEF Survives
  <2>1. e.epochs.user <= userEpoch[u] /\ e.epochs.user \in Nat BY DEF Past, Entry, Epochs
  <2>2. e.epochs.user # userEpoch'[u] BY <1>1, <2>1
  <2> QED BY <1>3, <2>2 DEF Now
<1> QED BY <1>3, <1>4, <1>5, <1>6, EpochStep

LEMMA AllRevoked ==
  ASSUME Inv, RevokeAllSessions
  PROVE  (RequestsSound /\ OnlyRacedSurvive)'
<1>1. globalEpoch' = globalEpoch + 1 /\ globalEpoch \in Nat
  BY DEF RevokeAllSessions, Inv, Shape, TypeOK
<1>2. /\ UNCHANGED <<userEpoch, store, issued, requestVars, user, reset>>
      /\ revoked' = revoked \cup (Of(Users) \ Racing)
  BY DEF RevokeAllSessions, Revoked
<1>3. \A s \in Sessions : Survives(s) /\ (s \in Of(Users) => s \in Racing) => Survives(s)'
  BY <1>2 DEF Survives
<1>4. \A e \in Entry : user[e.session] \in Users /\ Past(e) =>
        \/ Survives(e.session)'
        \/ e.epochs # Now(user[e.session])' /\ e.epochs.global # globalEpoch'
  <2> SUFFICES ASSUME NEW e \in Entry, Past(e), e.session \notin reset
               PROVE  e.epochs # Now(user[e.session])' /\ e.epochs.global # globalEpoch'
    BY <1>2 DEF Survives
  <2>1. e.epochs.global <= globalEpoch /\ e.epochs.global \in Nat BY DEF Past, Entry, Epochs
  <2>2. e.epochs.global # globalEpoch' BY <1>1, <2>1
  <2> QED BY <2>2 DEF Now
<1> QED BY <1>2, <1>3, <1>4, EpochStep

\* The deletion of an epoch excuses every session it concerns.
LEMMA EpochDeleted ==
  ASSUME Inv, (\E u \in Users : DeleteUserEpoch(u)) \/ DeleteGlobalEpoch
  PROVE  (RequestsSound /\ OnlyRacedSurvive)'
<1>1. PICK us \in SUBSET Users :
        /\ Reset(us) /\ (globalEpoch' # globalEpoch => us = Users)
        /\ \A v \in Users \ us : userEpoch'[v] = userEpoch[v] /\ globalEpoch' = globalEpoch
  <2>1. CASE DeleteGlobalEpoch BY <2>1 DEF DeleteGlobalEpoch
  <2>2. ASSUME NEW u \in Users, DeleteUserEpoch(u)
        PROVE  /\ Reset({u}) /\ globalEpoch' = globalEpoch
               /\ \A v \in Users \ {u} : userEpoch'[v] = userEpoch[v]
    BY <2>2 DEF DeleteUserEpoch, Inv, Shape, TypeOK
  <2> QED BY <2>1, <2>2
<1>2. UNCHANGED <<store, issued, requestVars, user, revoked>> /\ reset' = reset \cup Of(us)
  BY <1>1 DEF Reset
<1>3. \A v \in Users \ us : Now(v)' = Now(v) BY <1>1 DEF Now
<1>4. \A s \in Sessions : (Survives(s) => Survives(s)') /\ (user[s] \in us => Survives(s)')
  BY <1>2 DEF Survives, Of
<1>5. \A e \in Entry : user[e.session] \in us => Survives(e.session)' BY <1>4 DEF Entry
<1> QED BY <1>1, <1>2, <1>3, <1>4, <1>5, EpochStep

LEMMA InvStep == Inv /\ [Next]_vars => Inv'
<1> SUFFICES ASSUME Inv, [Next]_vars PROVE Inv'
  OBVIOUS
<1>1. Shape' /\ NoFuture' BY ShapeStep, NoFutureStep DEF Inv
<1>2. (RequestsSound /\ OnlyRacedSurvive)'
  <2>1. ASSUME NEW r \in Requests, NEW s \in Sessions, NEW u \in Users, Login(r, s, u)
        PROVE  (RequestsSound /\ OnlyRacedSurvive)'
    BY <2>1, LoginStep
  <2>2. ASSUME NEW r \in Requests, NEW t \in Tokens, Save(r, t)
        PROVE  (RequestsSound /\ OnlyRacedSurvive)'
    BY <2>2, SaveStep
  <2>3. ASSUME NEW r \in Requests,
               \/ \E t \in Tokens : Refresh(r, t)
               \/ CheckUser(r) \/ CheckGlobal(r) \/ Drop(r) \/ Rotate(r)
               \/ MintUser(r) \/ MintGlobal(r) \/ RequestFails(r)
        PROVE  (RequestsSound /\ OnlyRacedSurvive)'
    BY <2>3, RequestStep
  <2>4. CASE \/ \E t \in Tokens : Delete(t)
             \/ Crash \/ UNCHANGED vars
    <3>1. UNCHANGED <<userEpoch, globalEpoch, user, revoked, reset>>
      BY <2>4 DEF Delete, Crash, vars, historyVars
    <3>2. \A s \in Sessions : Survives(s)' <=> Survives(s)
      BY <3>1 DEF Survives
    <3>3. \A t \in Tokens : store'[t] \in {None, store[t]}
      BY <2>4 DEF Delete, Crash, vars, Forget, Inv, Shape, TypeOK
    <3>4. OnlyRacedSurvive' BY <3>1, <3>2, <3>3, LeftAlone DEF OnlyRacedSurvive, Survives
    <3>5. CASE Crash BY <3>4, <3>5 DEF Crash, RequestsSound, RequestSound, Minting
    <3>6. CASE ~Crash
      <4>1. UNCHANGED requestVars BY <2>4, <3>6 DEF Delete, vars
      <4>2. \A r \in Requests : RequestSound(r)'
        BY <3>1, <3>2, <4>1, LeftAlone DEF requestVars
      <4> QED BY <3>4, <4>2 DEF RequestsSound
    <3> QED BY <3>5, <3>6
  <2>5. ASSUME NEW u \in Users, RevokeUserSessions(u)
        PROVE  (RequestsSound /\ OnlyRacedSurvive)'
    BY <2>5, UserRevoked
  <2>6. CASE RevokeAllSessions BY <2>6, AllRevoked
  <2>7. CASE (\E u \in Users : DeleteUserEpoch(u)) \/ DeleteGlobalEpoch BY <2>7, EpochDeleted
  <2> QED BY <2>1, <2>2, <2>3, <2>4, <2>5, <2>6, <2>7 DEF Next
<1> QED BY <1>1, <1>2 DEF Inv

LEMMA InvAlways == Spec => []Inv
BY InvInit, InvStep, PTL DEF Spec

(******************************* What a refresh keeps *******************************)

Open(s) == user[s] \in Users /\ s \notin closed
Intact(e) == e.epochs = Now(user[e.session])
Alive(s) ==
  \/ \E t \in Tokens : store[t] # None /\ store[t].session = s /\ Intact(store[t])
  \/ \E r \in Requests : pc[r] \in Minting /\ held[r].session = s

\* While a session is open nothing of it is out of date: its tokens have the epochs of
\* now, a request finds them so, and mints under the same.
TokenKept(t) == store[t] # None /\ Open(store[t].session) => Intact(store[t])
RequestKept(r) ==
  pc[r] # "idle" /\ Open(held[r].session) =>
    /\ pc[r] # "drop"
    /\ pc[r] \in {"checkUser", "checkGlobal", "rotate", "save"} => Intact(held[r])
    /\ pc[r] = "checkGlobal" => seen[r] = userEpoch[user[held[r].session]]
    /\ pc[r] = "mintGlobal" => held[r].epochs.user = userEpoch[user[held[r].session]]

Kept ==
  /\ \A t \in Tokens : TokenKept(t)
  /\ \A r \in Requests : RequestKept(r)
  /\ \A s \in Sessions : Open(s) => Alive(s)

\* A session that is still open was so, under the same epochs.
Steady ==
  \A s \in Sessions : user[s] \in Users /\ s \notin closed' =>
    /\ user'[s] = user[s] /\ s \notin closed
    /\ userEpoch'[user[s]] = userEpoch[user[s]] /\ globalEpoch' = globalEpoch

LEMMA KeptAlone ==
  ASSUME Shape, Kept, Steady
  PROVE  /\ \A t \in Tokens : store'[t] \in {None, store[t]} => TokenKept(t)'
         /\ \A r \in Requests :
              pc'[r] = pc[r] /\ held'[r] = held[r] /\ seen'[r] = seen[r] => RequestKept(r)'
         /\ \A e \in Entry : user[e.session] \in Users /\ Open(e.session)' =>
              (Intact(e)' <=> Intact(e)) /\ Open(e.session)
<1>1. ASSUME NEW e \in Entry, user[e.session] \in Users, e.session \notin closed'
      PROVE  /\ Intact(e)' <=> Intact(e)
             /\ Open(e.session) /\ user'[e.session] = user[e.session]
             /\ userEpoch'[user[e.session]] = userEpoch[user[e.session]]
  <2>1. e.session \in Sessions BY DEF Entry
  <2>2. /\ user'[e.session] = user[e.session] /\ e.session \notin closed
        /\ userEpoch'[user[e.session]] = userEpoch[user[e.session]] /\ globalEpoch' = globalEpoch
    BY <1>1, <2>1 DEF Steady
  <2> QED BY <1>1, <2>2 DEF Intact, Now, Open
<1>2. ASSUME NEW t \in Tokens, store'[t] \in {None, store[t]}, store'[t] # None, Open(store[t].session)'
      PROVE  Intact(store[t])'
  <2>1. PICK e \in Entry : e = store[t] /\ e = store'[t] BY <1>2 DEF Shape
  <2>2. user[e.session] \in Users BY <1>2, <2>1 DEF Shape
  <2>3. e.session \notin closed' BY <1>2, <2>1 DEF Open
  <2>4. Intact(e) BY <1>1, <1>2, <2>1, <2>2, <2>3 DEF Kept, TokenKept
  <2>5. Intact(e)' BY <1>1, <2>2, <2>3, <2>4
  <2> QED BY <2>1, <2>5 DEF Intact, Now
<1>3. ASSUME NEW r \in Requests, pc'[r] = pc[r], held'[r] = held[r], seen'[r] = seen[r],
             pc[r] # "idle", Open(held[r].session)'
      PROVE  RequestKept(r)'
  <2>1. PICK e \in Entry : e = held[r] /\ e = held'[r] BY <1>3 DEF Shape
  <2>2. user[e.session] \in Users BY <1>3, <2>1 DEF Shape
  <2>3. e.session \notin closed' BY <1>3, <2>1 DEF Open
  <2>4. /\ pc[r] # "drop"
        /\ pc[r] \in {"checkUser", "checkGlobal", "rotate", "save"} => Intact(e)
        /\ pc[r] = "checkGlobal" => seen[r] = userEpoch[user[e.session]]
        /\ pc[r] = "mintGlobal" => e.epochs.user = userEpoch[user[e.session]]
    BY <1>1, <1>3, <2>1, <2>2, <2>3 DEF Kept, RequestKept
  <2>5. Intact(held[r])' <=> Intact(e)' BY <2>1 DEF Intact, Now
  <2> QED BY <1>1, <1>3, <2>1, <2>2, <2>3, <2>4, <2>5 DEF RequestKept
<1> QED BY <1>1, <1>2, <1>3 DEF TokenKept, RequestKept, Open

\* A session lives on while its tokens and the requests that mint for it do.
LEMMA AliveStays ==
  ASSUME Shape, Kept, Steady, NEW s \in Sessions, user[s] \in Users, Open(s)',
         \A t \in Tokens : store[t] # None /\ store[t].session = s => store'[t] = store[t],
         \A r \in Requests : pc[r] \in Minting /\ held[r].session = s =>
           pc'[r] \in Minting /\ held'[r].session = s
  PROVE  Alive(s)'
<1>1. Alive(s) BY DEF Steady, Open, Kept
<1>2. CASE \E r \in Requests : pc[r] \in Minting /\ held[r].session = s
  BY <1>2 DEF Alive
<1>3. ASSUME NEW t \in Tokens, store[t] # None, store[t].session = s, Intact(store[t])
      PROVE  Alive(s)'
  <2>1. PICK e \in Entry : e = store[t] /\ e = store'[t] BY <1>3 DEF Shape
  <2>2. Intact(e)' BY <1>3, <2>1, KeptAlone
  <2>3. Intact(store[t])' BY <2>1, <2>2 DEF Intact, Now
  <2> QED BY <1>3, <2>1, <2>3 DEF Alive
<1> QED BY <1>1, <1>2, <1>3 DEF Alive

LEMMA KeptInit == Init => Kept
BY NoneAssumption DEF Init, Kept, TokenKept, RequestKept, Open

\* A step that closes sessions and touches nothing else of them.
LEMMA KeptClosing ==
  ASSUME Shape, Kept, Steady, UNCHANGED <<pc, held, seen>>,
         \A t \in Tokens : store'[t] \in {None, store[t]},
         \A t \in Tokens : store[t] # None /\ store'[t] = None => store[t].session \in closed',
         \A s \in Sessions : user'[s] = user[s]
  PROVE  Kept'
<1>1. ASSUME NEW s \in Sessions, Open(s)' PROVE Alive(s)'
  <2>1. user[s] \in Users /\ s \notin closed' BY <1>1 DEF Open
  <2>2. \A t \in Tokens : store[t] # None /\ store[t].session = s => store'[t] = store[t]
    BY <2>1
  <2> QED BY <1>1, <2>1, <2>2, AliveStays
<1> QED BY <1>1, KeptAlone DEF Kept

LEMMA KeptLogin ==
  ASSUME Shape, Kept, NEW r \in Requests, NEW s \in Sessions, NEW u \in Users, Login(r, s, u)
  PROVE  Kept'
<1>1. /\ UNCHANGED <<userEpoch, globalEpoch, store, seen, closed>>
      /\ user[s] = None /\ pc[r] = "idle"
      /\ pc'[r] = "mintUser" /\ \A q \in Requests \ {r} : pc'[q] = pc[q]
  BY DEF Login, Goto, Shape, TypeOK
<1>2. /\ held'[r] \in Entry /\ held'[r].session = s
      /\ \A q \in Requests \ {r} : held'[q] = held[q]
      /\ \A z \in Sessions \ {s} : user'[z] = user[z]
  <2>1. held'[r] = [session |-> s, epochs |-> Zero] BY LoggedIn
  <2> QED BY <2>1, LoggedIn
<1>3. Steady BY <1>1, <1>2, NoneAssumption DEF Steady
<1>4. \A t \in Tokens : TokenKept(t)' BY <1>1, <1>3, KeptAlone
<1>5. \A q \in Requests \ {r} : RequestKept(q)' BY <1>1, <1>2, <1>3, KeptAlone
<1>6. RequestKept(r)' BY <1>1 DEF RequestKept
<1>7. Alive(s)' BY <1>1, <1>2 DEF Alive, Minting
<1>8. ASSUME NEW z \in Sessions \ {s}, Open(z)' PROVE Alive(z)'
  <2>1. user[z] \in Users BY <1>2, <1>8 DEF Open
  <2>2. \A q \in Requests : pc[q] \in Minting => q # r BY <1>1 DEF Minting
  <2> QED BY <1>1, <1>2, <1>3, <1>8, <2>1, <2>2, AliveStays
<1> QED BY <1>4, <1>5, <1>6, <1>7, <1>8 DEF Kept

\* A step of one request for a session, that changes no epoch and no other session.
LEMMA KeptRequest ==
  ASSUME Shape, Kept, NEW r \in Requests, NEW s \in Sessions,
         UNCHANGED <<userEpoch, globalEpoch, user>>, closed \subseteq closed',
         pc[r] \in Minting => held[r].session = s,
         \A q \in Requests \ {r} : pc'[q] = pc[q] /\ held'[q] = held[q] /\ seen'[q] = seen[q],
         \A t \in Tokens : store[t] # None /\ store[t].session # s => store'[t] = store[t],
         \A t \in Tokens : TokenKept(t)',
         RequestKept(r)',
         Open(s)' => Alive(s)'
  PROVE  Kept'
<1>1. Steady BY DEF Steady
<1>2. \A q \in Requests \ {r} : RequestKept(q)' BY <1>1, KeptAlone
<1>3. ASSUME NEW z \in Sessions, Open(z)' PROVE Alive(z)'
  <2>1. user[z] \in Users BY <1>3 DEF Open
  <2>2. CASE z = s BY <1>3, <2>2
  <2>3. CASE z # s BY <1>1, <1>3, <2>1, <2>3, AliveStays
  <2> QED BY <2>2, <2>3
<1> QED BY <1>2, <1>3 DEF Kept

\* A step of one request that leaves the tokens alone and goes on working for its session.
LEMMA KeptReading ==
  ASSUME Shape, Kept, NEW r \in Requests,
         UNCHANGED <<userEpoch, globalEpoch, store, user, closed>>,
         \A q \in Requests \ {r} : pc'[q] = pc[q] /\ held'[q] = held[q] /\ seen'[q] = seen[q],
         pc[r] \in Minting => pc'[r] \in Minting /\ held'[r].session = held[r].session,
         RequestKept(r)'
  PROVE  Kept'
<1>1. Steady BY DEF Steady
<1>2. \A q \in Requests \ {r} : RequestKept(q)' BY <1>1, KeptAlone
<1>3. \A t \in Tokens : TokenKept(t)' BY <1>1, KeptAlone
<1>4. ASSUME NEW z \in Sessions, Open(z)' PROVE Alive(z)'
  <2>1. user[z] \in Users BY <1>4 DEF Open
  <2> QED BY <1>1, <1>4, <2>1, AliveStays
<1> QED BY <1>2, <1>3, <1>4 DEF Kept

LEMMA KeptRefresh ==
  ASSUME Shape, Kept, NEW r \in Requests, NEW t \in Tokens, Refresh(r, t)
  PROVE  Kept'
<1>1. /\ UNCHANGED <<userEpoch, globalEpoch, store, user, closed>>
      /\ pc[r] = "idle" /\ pc'[r] = "checkUser" /\ held'[r] = store[t] /\ store[t] # None
      /\ \A q \in Requests \ {r} : pc'[q] = pc[q] /\ held'[q] = held[q] /\ seen'[q] = seen[q]
  BY DEF Refresh, FirstCheck, Goto, historyVars, Shape, TypeOK
<1>2. PICK e \in Entry : e = store[t] BY <1>1 DEF Shape
<1>3. Open(e.session) => Intact(e) BY <1>1, <1>2 DEF Kept, TokenKept
<1>4. RequestKept(r)' BY <1>1, <1>2, <1>3 DEF RequestKept, Open, Intact, Now
<1> QED BY <1>1, <1>4, KeptReading DEF Minting

LEMMA KeptChecks ==
  ASSUME Shape, Kept, NEW r \in Requests, CheckUser(r) \/ CheckGlobal(r)
  PROVE  Kept'
<1>1. /\ UNCHANGED <<userEpoch, globalEpoch, store, user, closed, held>>
      /\ \A q \in Requests \ {r} : pc'[q] = pc[q] /\ seen'[q] = seen[q]
      /\ pc[r] \in {"checkUser", "checkGlobal"}
  BY DEF CheckUser, CheckGlobal, Goto, historyVars, Shape, TypeOK
<1>2. PICK e \in Entry : e = held[r] BY <1>1 DEF Shape
<1>3. Open(e.session) => Intact(e) BY <1>1, <1>2 DEF Kept, RequestKept
<1>4. Intact(held[r])' <=> Intact(e) BY <1>1, <1>2 DEF Intact, Now
<1>5. CASE CheckUser(r)
  <2>1. pc'[r] = "checkGlobal" /\ seen'[r] = userEpoch[user[e.session]]
    BY <1>2, <1>5 DEF CheckUser, Goto, Shape, TypeOK
  <2> QED BY <1>1, <1>2, <1>3, <1>4, <2>1, KeptReading DEF RequestKept, Open, Minting
<1>6. CASE CheckGlobal(r)
  <2>1. pc'[r] = IF e.epochs = [user |-> seen[r], global |-> globalEpoch] THEN "rotate" ELSE "drop"
    BY <1>2, <1>6 DEF CheckGlobal, Goto, Shape, TypeOK
  <2>2. Open(e.session) => seen[r] = userEpoch[user[e.session]]
    BY <1>2, <1>6 DEF CheckGlobal, Kept, RequestKept
  <2>3. Open(e.session) => pc'[r] = "rotate" BY <1>3, <2>1, <2>2 DEF Intact, Now
  <2>4. RequestKept(r)' BY <1>1, <1>2, <1>3, <1>4, <2>1, <2>3 DEF RequestKept, Open
  <2> QED BY <1>1, <2>4, KeptReading DEF Minting
<1> QED BY <1>5, <1>6

\* The session of a token that is dropped is closed: had it not been, its epochs would
\* not have differed.
LEMMA KeptDrop == ASSUME Shape, Kept, NEW r \in Requests, Drop(r) PROVE Kept'
<1>1. /\ UNCHANGED <<userEpoch, globalEpoch, user, closed>>
      /\ pc[r] = "drop" /\ pc'[r] = "idle" /\ store' = [store EXCEPT ![presented[r]] = None]
      /\ \A q \in Requests \ {r} : pc'[q] = pc[q] /\ held'[q] = held[q] /\ seen'[q] = seen[q]
  BY DEF Drop, Forget, Leave, Goto, historyVars, Shape, TypeOK
<1>2. PICK e \in Entry : e = held[r] BY <1>1 DEF Shape
<1>3. e.session \in Sessions /\ ~Open(e.session) BY <1>1, <1>2 DEF Kept, RequestKept, Entry
<1>4. store[presented[r]] \in {None, e} BY <1>1, <1>2 DEF Shape, Checking
<1>5. \A t \in Tokens : store'[t] \in {None, store[t]} BY <1>1 DEF Shape, TypeOK
<1>6. \A t \in Tokens : store[t] # None /\ store[t].session # e.session => store'[t] = store[t]
  BY <1>1, <1>4 DEF Shape, TypeOK
<1>7. Steady BY <1>1 DEF Steady
<1>8. \A t \in Tokens : TokenKept(t)' BY <1>5, <1>7, KeptAlone
<1>9. ~Open(e.session)' BY <1>1, <1>3 DEF Open
<1>10. RequestKept(r)' BY <1>1 DEF RequestKept
<1>11. pc[r] \notin Minting BY <1>1 DEF Minting
<1> QED BY <1>1, <1>3, <1>6, <1>8, <1>9, <1>10, <1>11, KeptRequest

\* From the deletion of the old token on, the request stands for the session.
LEMMA KeptRotate == ASSUME Shape, Kept, NEW r \in Requests, Rotate(r) PROVE Kept'
<1>1. /\ UNCHANGED <<userEpoch, globalEpoch, user, closed, held, seen>>
      /\ pc[r] = "rotate" /\ pc'[r] = "mintUser" /\ store' = [store EXCEPT ![presented[r]] = None]
      /\ \A q \in Requests \ {r} : pc'[q] = pc[q]
  BY DEF Rotate, Forget, Goto, historyVars, Shape, TypeOK
<1>2. PICK e \in Entry : e = held[r] BY <1>1 DEF Shape
<1>3. e.session \in Sessions BY DEF Entry
<1>4. store[presented[r]] \in {None, e} BY <1>1, <1>2 DEF Shape, Checking
<1>5. \A t \in Tokens : store'[t] \in {None, store[t]} BY <1>1 DEF Shape, TypeOK
<1>6. \A t \in Tokens : store[t] # None /\ store[t].session # e.session => store'[t] = store[t]
  BY <1>1, <1>4 DEF Shape, TypeOK
<1>7. Steady BY <1>1 DEF Steady
<1>8. \A t \in Tokens : TokenKept(t)' BY <1>5, <1>7, KeptAlone
<1>9. RequestKept(r)' BY <1>1 DEF RequestKept
<1>10. pc[r] \notin Minting /\ pc'[r] \in Minting BY <1>1 DEF Minting
<1>11. Alive(e.session)'
  <2>1. pc'[r] \in Minting /\ held'[r].session = e.session BY <1>1, <1>2, <1>10
  <2> QED BY <2>1 DEF Alive
<1> QED BY <1>1, <1>3, <1>6, <1>8, <1>9, <1>10, <1>11, KeptRequest

LEMMA KeptMints ==
  ASSUME Shape, Kept, NEW r \in Requests, MintUser(r) \/ MintGlobal(r)
  PROVE  Kept'
<1>1. /\ UNCHANGED <<userEpoch, globalEpoch, store, user, closed, seen>>
      /\ \A q \in Requests \ {r} : pc'[q] = pc[q]
      /\ pc[r] \in {"mintUser", "mintGlobal"}
  BY DEF MintUser, MintGlobal, Goto, historyVars, Shape, TypeOK
<1>2. PICK e \in Entry : e = held[r] BY <1>1 DEF Shape
<1>3. \A q \in Requests \ {r} : held'[q] = held[q] BY MintedUser, MintedGlobal
<1>4. CASE MintUser(r)
  <2>1. pc'[r] = "mintGlobal" BY <1>4 DEF MintUser, Goto, Shape, TypeOK
  <2>2. held'[r].session = e.session /\ held'[r].epochs.user = userEpoch[user[e.session]]
    <3>1. held'[r] = [session |-> e.session,
                      epochs |-> [user |-> userEpoch[user[e.session]], global |-> e.epochs.global]]
      BY <1>2, <1>4, MintedUser
    <3> QED BY <3>1
  <2>3. RequestKept(r)' BY <1>1, <2>1, <2>2 DEF RequestKept
  <2> QED BY <1>1, <1>2, <1>3, <2>1, <2>2, <2>3, KeptReading DEF Minting
<1>5. CASE MintGlobal(r)
  <2>1. pc[r] = "mintGlobal" /\ pc'[r] = "save" BY <1>5 DEF MintGlobal, Goto, Shape, TypeOK
  <2>2. held'[r].session = e.session /\ held'[r].epochs = [user |-> e.epochs.user, global |-> globalEpoch]
    <3>1. held'[r] = [session |-> e.session,
                      epochs |-> [user |-> e.epochs.user, global |-> globalEpoch]]
      BY <1>2, <1>5, MintedGlobal
    <3> QED BY <3>1
  <2>3. Open(e.session) => e.epochs.user = userEpoch[user[e.session]]
    BY <1>2, <2>1 DEF Kept, RequestKept
  <2>4. Open(e.session) => Intact(held[r])' BY <1>1, <2>2, <2>3 DEF Intact, Now
  <2>5. RequestKept(r)' BY <1>1, <2>1, <2>2, <2>4 DEF RequestKept, Open
  <2> QED BY <1>1, <1>2, <1>3, <2>1, <2>2, <2>5, KeptReading DEF Minting
<1> QED BY <1>4, <1>5

LEMMA KeptSave ==
  ASSUME Shape, Kept, NEW r \in Requests, NEW t \in Tokens, Save(r, t)
  PROVE  Kept'
<1>1. /\ UNCHANGED <<userEpoch, globalEpoch, user, closed>>
      /\ pc[r] = "save" /\ pc'[r] = "idle" /\ t \notin issued
      /\ store'[t] = held[r] /\ \A z \in Tokens \ {t} : store'[z] = store[z]
      /\ \A q \in Requests \ {r} : pc'[q] = pc[q] /\ held'[q] = held[q] /\ seen'[q] = seen[q]
  BY DEF Save, Leave, Goto, historyVars, Shape, TypeOK
<1>2. PICK e \in Entry : e = held[r] BY <1>1 DEF Shape
<1>3. e.session \in Sessions /\ e # None BY NoneAssumption DEF Entry
<1>4. store[t] = None BY <1>1 DEF Shape
<1>5. Steady BY <1>1 DEF Steady
<1>6. Open(e.session) => Intact(e) BY <1>1, <1>2 DEF Kept, RequestKept
<1>7. Intact(store[t])' <=> Intact(e) BY <1>1, <1>2 DEF Intact, Now
<1>8. \A z \in Tokens : TokenKept(z)'
  <2>1. \A z \in Tokens \ {t} : TokenKept(z)' BY <1>1, <1>5, KeptAlone
  <2>2. TokenKept(t)' BY <1>1, <1>2, <1>6, <1>7 DEF TokenKept, Open
  <2> QED BY <2>1, <2>2
<1>9. RequestKept(r)' BY <1>1 DEF RequestKept
<1>10. Open(e.session)' => Alive(e.session)'
  <2> SUFFICES ASSUME Open(e.session) PROVE Alive(e.session)' BY <1>1 DEF Open
  <2>1. store'[t] # None /\ store'[t].session = e.session /\ Intact(store[t])'
    BY <1>1, <1>2, <1>3, <1>6, <1>7
  <2> QED BY <2>1 DEF Alive
<1>11. \A z \in Tokens : store[z] # None => store'[z] = store[z] BY <1>1, <1>4
<1> QED BY <1>1, <1>2, <1>3, <1>8, <1>9, <1>10, <1>11, KeptRequest

LEMMA KeptFault ==
  ASSUME Shape, Kept, (\E r \in Requests : RequestFails(r)) \/ Crash
  PROVE  Kept'
<1>1. UNCHANGED <<userEpoch, globalEpoch, store, user>> /\ closed \subseteq closed'
  BY DEF RequestFails, Crash
<1>2. Steady BY <1>1 DEF Steady
<1>3. \A t \in Tokens : TokenKept(t)' BY <1>1, <1>2, KeptAlone
<1>4. CASE Crash
  <2>1. \A r \in Requests : pc'[r] = "idle" BY <1>4 DEF Crash
  <2>2. \A r \in Requests : pc[r] \in Minting => held[r].session \in closed'
    BY <1>4 DEF Crash, UnderWay, WithRequestAt, Points, Minting
  <2>3. ASSUME NEW s \in Sessions, Open(s)' PROVE Alive(s)'
    <3>1. user[s] \in Users /\ s \notin closed' BY <1>1, <2>3 DEF Open
    <3> QED BY <1>1, <1>2, <2>2, <2>3, <3>1, AliveStays
  <2> QED BY <1>3, <2>1, <2>3 DEF Kept, RequestKept
<1>5. ASSUME NEW r \in Requests, RequestFails(r) PROVE Kept'
  <2>1. /\ pc[r] # "idle" /\ pc'[r] = "idle" /\ closed' = closed \cup {held[r].session}
        /\ \A q \in Requests \ {r} : pc'[q] = pc[q] /\ held'[q] = held[q] /\ seen'[q] = seen[q]
    BY <1>5 DEF RequestFails, Leave, Goto, Shape, TypeOK
  <2>2. PICK e \in Entry : e = held[r] BY <2>1 DEF Shape
  <2>3. e.session \in Sessions /\ ~Open(e.session)' BY <2>1, <2>2 DEF Entry, Open
  <2>4. RequestKept(r)' BY <2>1 DEF RequestKept
  <2> QED BY <1>1, <1>3, <2>1, <2>2, <2>3, <2>4, KeptRequest
<1> QED BY <1>4, <1>5

LEMMA KeptDelete == ASSUME Shape, Kept, NEW t \in Tokens, Delete(t) PROVE Kept'
<1>1. /\ UNCHANGED <<userEpoch, globalEpoch, pc, held, seen, user>>
      /\ store' = [store EXCEPT ![t] = None] /\ closed' = closed \cup {store[t].session}
  BY DEF Delete, Forget, requestVars
<1>2. Steady BY <1>1 DEF Steady
<1>3. \A z \in Tokens : store'[z] \in {None, store[z]} BY <1>1 DEF Shape, TypeOK
<1>4. \A z \in Tokens : store[z] # None /\ store'[z] = None => store[z].session \in closed'
  BY <1>1 DEF Shape, TypeOK
<1> QED BY <1>1, <1>2, <1>3, <1>4, KeptClosing

\* A revocation or the deletion of an epoch closes every session whose epochs it changes.
LEMMA KeptRevocation ==
  ASSUME Shape, Kept,
         \/ \E u \in Users : RevokeUserSessions(u) \/ DeleteUserEpoch(u)
         \/ RevokeAllSessions \/ DeleteGlobalEpoch
  PROVE  Kept'
<1>1. UNCHANGED <<store, pc, held, seen, user>>
  BY DEF RevokeUserSessions, RevokeAllSessions, Revoked, DeleteUserEpoch, DeleteGlobalEpoch,
         Reset, requestVars
<1>2. Steady
  <2>1. CASE RevokeAllSessions \/ DeleteGlobalEpoch
    BY <2>1 DEF RevokeAllSessions, Revoked, DeleteGlobalEpoch, Reset, Of, Steady
  <2>2. ASSUME NEW u \in Users, RevokeUserSessions(u) \/ DeleteUserEpoch(u) PROVE Steady
    <3>1. /\ \A v \in Users \ {u} : userEpoch'[v] = userEpoch[v]
          /\ globalEpoch' = globalEpoch /\ closed' = closed \cup Of({u}) /\ user' = user
      BY <2>2 DEF RevokeUserSessions, Revoked, DeleteUserEpoch, Reset, Shape, TypeOK
    <3> QED BY <3>1 DEF Of, Steady
  <2> QED BY <2>1, <2>2
<1> QED BY <1>1, <1>2, KeptClosing

LEMMA KeptStep == Shape /\ Kept /\ [Next]_vars => Kept'
<1> SUFFICES ASSUME Shape, Kept, [Next]_vars PROVE Kept' OBVIOUS
<1>1. CASE UNCHANGED vars
  <2>1. UNCHANGED <<userEpoch, globalEpoch, store, pc, held, seen, user, closed>>
    BY <1>1 DEF vars, requestVars, historyVars
  <2>2. Steady BY <2>1 DEF Steady
  <2> QED BY <2>1, <2>2, KeptClosing
<1>2. CASE Next
  BY <1>2, KeptLogin, KeptRefresh, KeptSave, KeptChecks, KeptDrop, KeptRotate, KeptMints,
     KeptFault, KeptDelete, KeptRevocation
     DEF Next
<1> QED BY <1>1, <1>2

LEMMA KeptGives == Shape /\ Kept => SessionKept
<1> SUFFICES ASSUME Shape, Kept, NEW s \in Sessions, user[s] # None, s \notin closed
             PROVE  \/ \E t \in Tokens : store[t] # None /\ store[t].session = s /\ Valid(t)
                    \/ \E r \in Requests :
                         pc[r] \in {"mintUser", "mintGlobal", "save"} /\ held[r].session = s
  BY DEF SessionKept
<1>1. Alive(s) BY DEF Kept, Open, Shape, TypeOK
<1>2. \A t \in Tokens : store[t] # None /\ Intact(store[t]) => Valid(t) BY DEF Intact, Valid
<1> QED BY <1>1, <1>2 DEF Alive, Minting


(*********************************** Theorems ***********************************)

\* Tokens carry the session and the epochs they were minted under, whatever the redis
\* calls of concurrent requests do.
THEOREM RefreshTyped == Spec => []TypeOK
<1>1. Inv => TypeOK BY DEF Inv, Shape
<1> QED BY <1>1, InvAlways, PTL

\* refresh(), the two revocations and logout(): a session outlives a revocation only if one
\* of its requests was between its first epoch read and its end at that moment, or if a
\* key of an epoch of its user was deleted, after which epochs count from 0 again.
THEOREM RefreshOnlyRacedSurvive == Spec => []OnlyRacedSurvive
<1>1. Inv => OnlyRacedSurvive BY DEF Inv
<1> QED BY <1>1, InvAlways, PTL

\* refresh(): a session that nobody ended, no revocation or deletion of an epoch concerned
\* and no fault hit has a token that works, or a request that is about to save one,
\* though the old token is deleted before the new one is made and several requests may
\* present it at once.
THEOREM RefreshSessionKept == Spec => []SessionKept
<1>1. Init => Shape /\ Kept BY ShapeInit, KeptInit
<1>2. Shape /\ Kept /\ [Next]_vars => (Shape /\ Kept)' BY ShapeStep, KeptStep
<1> QED BY <1>1, <1>2, KeptGives, PTL DEF Spec

\* A token deleted by a rotation, a logout or a refusal is never in redis again.
THEOREM RefreshDeletedForGood == Spec => DeletedForGood
<1>1. Inv /\ [Next]_vars => [\A t \in issued : store[t] = None => store'[t] = None]_vars
  <2> SUFFICES ASSUME Inv, Next, NEW t \in issued, store[t] = None PROVE store'[t] = None
    OBVIOUS
  <2> USE DEF requestVars, historyVars, Inv, Shape, TypeOK, Forget
  <2>1. t \in Tokens OBVIOUS
  <2>2. ASSUME NEW r \in Requests,
               \/ \E s \in Sessions, u \in Users : Login(r, s, u)
               \/ \E z \in Tokens : Refresh(r, z)
        PROVE  store'[t] = None
    BY <2>2 DEF Login, Refresh
  <2>3. ASSUME NEW r \in Requests, NEW z \in Tokens, Save(r, z) PROVE store'[t] = None
    BY <2>1, <2>3 DEF Save
  <2>4. ASSUME NEW r \in Requests,
               \/ CheckUser(r) \/ CheckGlobal(r) \/ Drop(r) \/ Rotate(r)
               \/ MintUser(r) \/ MintGlobal(r) \/ RequestFails(r)
        PROVE  store'[t] = None
    BY <2>1, <2>4 DEF CheckUser, CheckGlobal, Drop, Rotate, MintUser, MintGlobal, RequestFails
  <2>5. CASE \E z \in Tokens : Delete(z) BY <2>1, <2>5 DEF Delete
  <2>6. CASE \E u \in Users : RevokeUserSessions(u) \/ DeleteUserEpoch(u)
    BY <2>6 DEF RevokeUserSessions, Revoked, DeleteUserEpoch, Reset
  <2>7. CASE RevokeAllSessions \/ DeleteGlobalEpoch \/ Crash
    BY <2>7 DEF RevokeAllSessions, Revoked, DeleteGlobalEpoch, Reset, Crash
  <2> QED BY <2>2, <2>3, <2>4, <2>5, <2>6, <2>7 DEF Next
<1> QED BY <1>1, InvAlways, PTL DEF Spec, DeletedForGood
=================================================================================
