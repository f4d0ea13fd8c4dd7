--------------------------------- MODULE Roles ---------------------------------
(*******************************************************************************)
(* The roles of users and who may change them.  The routes of administrators   *)
(* are guarded by AuthGuard and RolesGuard, which look at the role in the      *)
(* access token and not at the row: a token keeps the role it was signed with  *)
(* until it expires, whatever becomes of its user.  A change of a role reads   *)
(* the user it is about, decides, and writes the row and a row of RoleChange   *)
(* in one transaction; activation reads, decides and writes likewise.          *)
(*******************************************************************************)
EXTENDS Actors

CONSTANT Seed \* the administrator that prisma/seed.ts creates

ASSUME SeedAssumption == Seed \in Users /\ None \notin Users

VARIABLES
  role, active, \* the row of each user
  token,   \* the administrators' roles that live access tokens of each user carry
  change,  \* each request: by whom, about whom, the role it read and what it writes
  been,    \* history: who has been SUPER_ADMIN
  stale    \* history: requests that read a role before its last change

roleVars == <<role, active, token, change, been, stale>>

Admins == {"ADMIN", "SUPER_ADMIN"}
AllRoles == {"USER"} \cup Admins
Activations == {"activate", "deactivate"}

Change == [by : Users, user : Users, read : AllRoles \cup {None}, to : AllRoles \cup Activations]

RolesInit ==
  /\ role = [u \in Users |-> IF u = Seed THEN "SUPER_ADMIN" ELSE "USER"]
  /\ active = [u \in Users |-> TRUE]
  /\ token = [u \in Users |-> {}]
  /\ change = [r \in Requests |-> None]
  /\ been = {Seed} /\ stale = {}

(****************************** Access tokens ******************************)

\* A login or a refresh reads the row and signs its role; the life of the token is
\* counted from the reading here.  RolesGuard refuses every token of a USER.
SignIn(u) ==
  /\ role[u] \in Admins
  /\ token' = [token EXCEPT ![u] = @ \cup {role[u]}]
  /\ UNCHANGED <<role, active, change, been, stale>>

\* The last token with that role expires.
TokenExpires(u, as) ==
  /\ as \in token[u]
  /\ token' = [token EXCEPT ![u] = @ \ {as}]
  /\ UNCHANGED <<role, active, change, been, stale>>

(******************************** Requests *********************************)

\* AuthGuard verifies the token, RolesGuard compares the role in it.
AdmittedAs(q, as) == as \in token[q]

\* Variant: whom an administrator appoints is not looked at.
MayAssignAny(as, current, new) == as = "ADMIN" => current \notin Admins
\* An ADMIN changes no other administrator, and makes nobody a SUPER_ADMIN.
MayAssign(as, current, new) ==
  as = "ADMIN" => new # "SUPER_ADMIN" /\ current \notin Admins

\* Variant: only a SUPER_ADMIN is out of an ADMIN's reach.
MayActivateAdmins(as, current) == as = "ADMIN" => current # "SUPER_ADMIN"
MayActivate(as, current) == as = "ADMIN" => current \notin Admins

\* A request that is not refused goes on with what it has read.
BeginChange(r, t) ==
  /\ change[r] = None
  /\ change' = [change EXCEPT ![r] = t]
  /\ UNCHANGED <<role, active, token, been, stale>>

UpdateUserRole(r, q, as, u, new) ==
  /\ AdmittedAs(q, as) /\ MayAssign(as, role[u], new)
  /\ BeginChange(r, [by |-> q, user |-> u, read |-> role[u], to |-> new])

UpdateUserActiveState(r, q, as, u, activation) ==
  /\ AdmittedAs(q, as) /\ MayActivate(as, role[u])
  /\ BeginChange(r, [by |-> q, user |-> u, read |-> None, to |-> activation])

EndChange(r) == change' = [change EXCEPT ![r] = None]

\* Variant: the two roles are swapped.
EntrySwapped(t) == [from |-> t.to, to |-> t.read]
\* The row of RoleChange, which no decision ever reads.
Entry(t) == [from |-> t.read, to |-> t.to]

\* One transaction writes the row, whatever it is by now, and the entry.
WriteRole(r) ==
  LET t == change[r] IN
  /\ t # None /\ t.to \in AllRoles
  /\ role' = [role EXCEPT ![t.user] = t.to]
  /\ been' = IF t.to = "SUPER_ADMIN" THEN been \cup {t.user} ELSE been
  /\ stale' = {q \in Requests \ {r} :
                  \/ q \in stale
                  \/ change[q] # None /\ change[q].user = t.user /\ role[t.user] # t.to}
  /\ EndChange(r)
  /\ UNCHANGED <<active, token>>

WriteActive(r) ==
  LET t == change[r] IN
  /\ t # None /\ t.to \in Activations
  /\ active' = [active EXCEPT ![t.user] = t.to = "activate"]
  /\ stale' = stale \ {r}
  /\ EndChange(r)
  /\ UNCHANGED <<role, token, been>>

\* A call of the database fails, which rolls a transaction back, or the process dies.
RequestFails(r) ==
  /\ change[r] # None
  /\ stale' = stale \ {r}
  /\ EndChange(r)
  /\ UNCHANGED <<role, active, token, been>>

RolesNext ==
  \/ \E u \in Users : SignIn(u) \/ \E as \in Admins : TokenExpires(u, as)
  \/ \E r \in Requests, q, u \in Users, as \in Admins :
       \/ \E new \in AllRoles : UpdateUserRole(r, q, as, u, new)
       \/ \E activation \in Activations : UpdateUserActiveState(r, q, as, u, activation)
  \/ \E r \in Requests : WriteRole(r) \/ WriteActive(r) \/ RequestFails(r)

RolesSpec == RolesInit /\ [][RolesNext]_roleVars

(******************************* Properties ********************************)

RolesTypeOK ==
  /\ role \in [Users -> AllRoles] /\ active \in [Users -> BOOLEAN]
  /\ token \in [Users -> SUBSET Admins]
  /\ change \in [Requests -> Change \cup {None}]
  /\ been \subseteq Users /\ stale \subseteq Requests

\* The request whose write this step is.
Writes(r, u) == change[r] # None /\ change'[r] = None /\ change[r].user = u

\* Nobody becomes SUPER_ADMIN but by the hand of one who has been, however old the
\* token he shows and whatever else changes while his request is under way.
SuperFromSuper ==
  [][\A u \in been' \ been : \E r \in Requests : Writes(r, u) /\ change[r].by \in been]_roleVars

\* The role and the activation of an administrator are changed by nobody but one who
\* has been SUPER_ADMIN, unless the request had read his row before he was promoted.
AdminsAboveReach ==
  [][\A u \in Users :
       role[u] \in Admins /\ (role'[u] # role[u] \/ active'[u] # active[u]) =>
         \E r \in Requests : Writes(r, u) /\ (change[r].by \in been \/ r \in stale)]_roleVars

\* The role history has no gap: the entry a change leaves begins with the role the
\* user had and ends with the one he has now, unless another change came between
\* its reading and its writing.
HistoryTells ==
  [][\A r \in Requests, u \in Users :
       Writes(r, u) /\ role'[u] # role[u] =>
         \/ Entry(change[r]) = [from |-> role[u], to |-> role'[u]]
         \/ r \in stale]_roleVars
================================================================================
