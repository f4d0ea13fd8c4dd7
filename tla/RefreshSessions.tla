----------------------------- MODULE RefreshSessions -----------------------------
(*********************************************************************************)
(* Refresh tokens and their revocation.  Redis keeps, for every live token, its  *)
(* user and the two revocation epochs it was minted under: the user's and the    *)
(* global one.  An admin revokes by incrementing an epoch.  A refresh exchanges  *)
(* a token for a new one; each of its Redis calls is a step, and requests         *)
(* interleave.  The keys of the epochs have the prefix of the tokens' keys, and a  *)
(* logout deletes the key it is given.  Access tokens are stateless and left out. *)
(*                                                                               *)
(* A session is what a login begins and refreshes carry on; it is history, the   *)
(* code knows only tokens.                                                       *)
(*********************************************************************************)
EXTENDS Naturals

CONSTANTS
  Users, Sessions, Tokens, Requests, None,
  MaxEpoch, \* bound: revocations
  MaxFaults \* bound: crashes and failed calls

Epochs == [user : Nat, global : Nat]
Entry == [session : Sessions, epochs : Epochs]

ASSUME NoneAssumption ==
  None \notin Users /\ None \notin Sessions /\ None \notin Tokens /\ None \notin Entry
ASSUME BoundsAssumption == MaxEpoch \in Nat /\ MaxFaults \in Nat

VARIABLES
  userEpoch, globalEpoch, \* refresh:epoch:user:<id> and refresh:epoch:global
  store,   \* refresh:<token>: what Redis has under a token, or None
  issued,  \* tokens minted so far (a random UUID is never minted twice)
  pc, presented, held, seen, \* each request's control point, token, record, epoch read
  user,    \* history: a session's user
  revoked, \* history: sessions revoked while no request of theirs was racing with it
  reset,   \* history: sessions an epoch of which was deleted since their login began
  closed,  \* history: sessions logged out, expired, revoked, reset or hit by a fault
  faults

requestVars == <<pc, presented, held, seen>>
historyVars == <<user, revoked, reset, closed>>
vars ==
  <<userEpoch, globalEpoch, store, issued, requestVars, historyVars, faults>>

Zero == [user |-> 0, global |-> 0]
Points == {"idle", "checkUser", "checkGlobal", "drop", "rotate", "mintUser",
           "mintGlobal", "save"}

\* The epochs of u now.
Now(u) == [user |-> userEpoch[u], global |-> globalEpoch]

Init ==
  /\ userEpoch = [u \in Users |-> 0] /\ globalEpoch = 0
  /\ store = [t \in Tokens |-> None] /\ issued = {}
  /\ pc = [r \in Requests |-> "idle"]
  /\ presented = [r \in Requests |-> None]
  /\ held = [r \in Requests |-> None]
  /\ seen = [r \in Requests |-> 0]
  /\ user = [s \in Sessions |-> None]
  /\ revoked = {} /\ reset = {} /\ closed = {} /\ faults = 0

Goto(r, next) == pc' = [pc EXCEPT ![r] = next]
Forget(t) == store' = [store EXCEPT ![t] = None]

\* The sessions of a set of users, the ones some request is working for, and those of
\* them whose request has read an epoch already, or never will compare it.
Of(us) == {s \in Sessions : user[s] \in us}
WithRequestAt(points) == {held[r].session : r \in {q \in Requests : pc[q] \in points}}
UnderWay == WithRequestAt(Points \ {"idle"})
Racing == WithRequestAt({"checkGlobal", "rotate", "mintUser", "mintGlobal", "save"})

\* A request ends.
Leave(r) ==
  /\ Goto(r, "idle")
  /\ presented' = [presented EXCEPT ![r] = None]
  /\ held' = [held EXCEPT ![r] = None]
  /\ seen' = [seen EXCEPT ![r] = 0]

(****************************** generateRefreshToken ******************************)

\* A login, an OAuth login, or a password change: the user is authenticated.
Login(r, s, u) ==
  /\ pc[r] = "idle" /\ user[s] = None
  /\ user' = [user EXCEPT ![s] = u]
  /\ held' = [held EXCEPT ![r] = [session |-> s, epochs |-> Zero]]
  /\ Goto(r, "mintUser")
  /\ UNCHANGED <<userEpoch, globalEpoch, store, issued, presented, seen, revoked, reset, closed, faults>>

MintUser(r) ==
  /\ pc[r] = "mintUser"
  /\ held' = [held EXCEPT ![r].epochs.user = userEpoch[user[held[r].session]]]
  /\ Goto(r, "mintGlobal")
  /\ UNCHANGED <<userEpoch, globalEpoch, store, issued, presented, seen, historyVars, faults>>

MintGlobal(r) ==
  /\ pc[r] = "mintGlobal"
  /\ held' = [held EXCEPT ![r].epochs.global = globalEpoch]
  /\ Goto(r, "save")
  /\ UNCHANGED <<userEpoch, globalEpoch, store, issued, presented, seen, historyVars, faults>>

Save(r, t) ==
  /\ pc[r] = "save" /\ t \notin issued
  /\ store' = [store EXCEPT ![t] = held[r]]
  /\ issued' = issued \cup {t}
  /\ Leave(r)
  /\ UNCHANGED <<userEpoch, globalEpoch, historyVars, faults>>

(************************************ refresh ************************************)

\* Variant: the epochs are not looked at before the token is exchanged.
FirstCheckNone == "rotate"
FirstCheck == "checkUser"

\* A token Redis does not know is refused at once.
Refresh(r, t) ==
  /\ pc[r] = "idle" /\ store[t] # None
  /\ presented' = [presented EXCEPT ![r] = t]
  /\ held' = [held EXCEPT ![r] = store[t]]
  /\ Goto(r, FirstCheck)
  /\ UNCHANGED <<userEpoch, globalEpoch, store, issued, seen, historyVars, faults>>

CheckUser(r) ==
  /\ pc[r] = "checkUser"
  /\ seen' = [seen EXCEPT ![r] = userEpoch[user[held[r].session]]]
  /\ Goto(r, "checkGlobal")
  /\ UNCHANGED <<userEpoch, globalEpoch, store, issued, presented, held, historyVars, faults>>

CheckGlobal(r) ==
  /\ pc[r] = "checkGlobal"
  /\ Goto(r, IF held[r].epochs = [user |-> seen[r], global |-> globalEpoch]
             THEN "rotate" ELSE "drop")
  /\ UNCHANGED <<userEpoch, globalEpoch, store, issued, presented, held, seen, historyVars, faults>>

\* The token was revoked: it is deleted and the request refused.
Drop(r) ==
  /\ pc[r] = "drop"
  /\ Forget(presented[r])
  /\ Leave(r)
  /\ UNCHANGED <<userEpoch, globalEpoch, issued, historyVars, faults>>

\* The old token is deleted, whether or not it is still there; a new one is minted
\* after the user is read, under the epochs of then.
Rotate(r) ==
  /\ pc[r] = "rotate"
  /\ Forget(presented[r])
  /\ Goto(r, "mintUser")
  /\ UNCHANGED <<userEpoch, globalEpoch, issued, presented, held, seen, historyVars, faults>>

(******************************* Logout, expiry, admin *******************************)

\* Logout deletes a token, if that is what it is given; so does Redis when its time is up.
Delete(t) ==
  /\ store[t] # None
  /\ Forget(t)
  /\ closed' = closed \cup {store[t].session}
  /\ UNCHANGED <<userEpoch, globalEpoch, issued, requestVars, user, revoked, reset, faults>>

\* A logout deletes any key under refresh:, that of an epoch too, which then counts as 0; a
\* refresh that is given such a key finds no epochs in its value and deletes it as well.
Reset(us) ==
  /\ reset' = reset \cup Of(us)
  /\ closed' = closed \cup Of(us)
  /\ UNCHANGED <<store, issued, requestVars, user, revoked, faults>>

DeleteUserEpoch(u) ==
  /\ userEpoch[u] > 0
  /\ userEpoch' = [userEpoch EXCEPT ![u] = 0]
  /\ Reset({u})
  /\ UNCHANGED globalEpoch

DeleteGlobalEpoch ==
  /\ globalEpoch > 0
  /\ globalEpoch' = 0
  /\ Reset(Users)
  /\ UNCHANGED userEpoch

\* What a revocation of the users us does to the history.
Revoked(us) ==
  /\ closed' = closed \cup Of(us)
  /\ revoked' = revoked \cup (Of(us) \ Racing)
  /\ UNCHANGED <<store, issued, requestVars, user, reset, faults>>

\* Variant: another user's epoch is incremented.
RevokeOther(u) ==
  /\ userEpoch[u] < MaxEpoch
  /\ \E v \in Users \ {u} : userEpoch' = [userEpoch EXCEPT ![v] = @ + 1]
  /\ Revoked({u})
  /\ UNCHANGED globalEpoch
RevokeUserSessions(u) ==
  /\ userEpoch[u] < MaxEpoch
  /\ userEpoch' = [userEpoch EXCEPT ![u] = @ + 1]
  /\ Revoked({u})
  /\ UNCHANGED globalEpoch

RevokeAllSessions ==
  /\ globalEpoch < MaxEpoch
  /\ globalEpoch' = globalEpoch + 1
  /\ Revoked(Users)
  /\ UNCHANGED userEpoch

(************************************ Faults ************************************)

\* A call of Redis or the database fails, and the request with it.
RequestFails(r) ==
  /\ pc[r] # "idle" /\ faults < MaxFaults
  /\ faults' = faults + 1
  /\ closed' = closed \cup {held[r].session}
  /\ Leave(r)
  /\ UNCHANGED <<userEpoch, globalEpoch, store, issued, user, revoked, reset>>

Crash ==
  /\ faults < MaxFaults
  /\ faults' = faults + 1
  /\ closed' = closed \cup UnderWay
  /\ pc' = [r \in Requests |-> "idle"]
  /\ presented' = [r \in Requests |-> None]
  /\ held' = [r \in Requests |-> None]
  /\ seen' = [r \in Requests |-> 0]
  /\ UNCHANGED <<userEpoch, globalEpoch, store, issued, user, revoked, reset>>

Next ==
  \/ \E r \in Requests :
       \/ \E s \in Sessions, u \in Users : Login(r, s, u)
       \/ \E t \in Tokens : Refresh(r, t) \/ Save(r, t)
       \/ CheckUser(r) \/ CheckGlobal(r) \/ Drop(r) \/ Rotate(r)
       \/ MintUser(r) \/ MintGlobal(r)
       \/ RequestFails(r)
  \/ \E t \in Tokens : Delete(t)
  \/ \E u \in Users : RevokeUserSessions(u) \/ DeleteUserEpoch(u)
  \/ RevokeAllSessions \/ DeleteGlobalEpoch
  \/ Crash

Spec == Init /\ [][Next]_vars

(********************************** Properties **********************************)

TypeOK ==
  /\ userEpoch \in [Users -> Nat] /\ globalEpoch \in Nat /\ faults \in Nat
  /\ store \in [Tokens -> Entry \cup {None}] /\ issued \subseteq Tokens
  /\ pc \in [Requests -> Points]
  /\ presented \in [Requests -> Tokens \cup {None}]
  /\ held \in [Requests -> Entry \cup {None}]
  /\ seen \in [Requests -> Nat]
  /\ user \in [Sessions -> Users \cup {None}]
  /\ revoked \subseteq Sessions /\ reset \subseteq Sessions /\ closed \subseteq Sessions

\* A refresh with t that starts now passes the check of the epochs.
Valid(t) == store[t] # None /\ store[t].epochs = Now(user[store[t].session])

\* A revocation ends every session of which no request had read an epoch, or would never
\* compare it, at that moment: its tokens are refused from then on, though Redis still
\* has them, whatever is interleaved with the reads of the two epochs.  That lasts until
\* an epoch of the session is deleted, and counts from 0 again.
OnlyRacedSurvive ==
  \A t \in Tokens : Valid(t) => store[t].session \notin revoked \ reset

\* A refresh loses no session: one that was neither logged out, revoked, expired, nor hit
\* by a fault or by the deletion of an epoch has a token in Redis that works, or is about
\* to have one, also while several requests refresh it at once.
SessionKept ==
  \A s \in Sessions : user[s] # None /\ s \notin closed =>
    \/ \E t \in Tokens : store[t] # None /\ store[t].session = s /\ Valid(t)
    \/ \E r \in Requests :
         pc[r] \in {"mintUser", "mintGlobal", "save"} /\ held[r].session = s

\* A token that was exchanged, deleted or dropped never works again.
DeletedForGood ==
  [][\A t \in issued : store[t] = None => store'[t] = None]_vars
=================================================================================
