-------------------------------- MODULE Accounts --------------------------------
(*******************************************************************************)
(* Accounts and the ways into them: registration, login, the code that proves  *)
(* an address, a change of address, the password and the Google identity.  A   *)
(* verification code is in Redis under its address ("verify:<email>"), a       *)
(* pending change of address under its user ("email-change:<id>"); the rows    *)
(* are in the database.  Each call of either is a step, and requests           *)
(* interleave, fail and die.  Codes are numbers in the order of their issue;   *)
(* the mailboxes, and the people who read them, are the environment.           *)
(*******************************************************************************)
EXTENDS Naturals, Actors

CONSTANTS
  Addresses, Googles,
  EmailOf,  \* the address Google has verified for each of its identities
  MaxCodes  \* bound: codes issued

\* What a request is.
Kinds == {"register", "login", "verifyEmail", "requestEmailChange", "confirmEmailChange",
          "handleOauthLogin", "setPassword", "linkGoogleAccount", "unlinkGoogleAccount"}

ASSUME NoneAssumption == None \notin Addresses \cup Googles \cup Users \cup Kinds
ASSUME EmailOfAssumption == EmailOf \in [Googles -> Addresses]
ASSUME MaxCodesAssumption == MaxCodes \in Nat

VARIABLES
  row,     \* the users of the database
  code,    \* the verification code of each address; sentAt is "fresh" for five minutes
  pending, \* the change of address each user has asked for
  task,    \* what each request is doing, with what it has read
  issued,  \* how many codes have been issued
  mailed,  \* the codes mailed to each address
  proven,  \* history: addresses that Google or an administrator vouches for, or from
           \* whose mailbox a code was read and presented
  had,     \* history: the addresses each user's row has had
  crossed  \* history: requests whose key another has stored since they read it

vars == <<row, code, pending, task, issued, mailed, proven, had, crossed>>

Absent == [email |-> None, isVerified |-> FALSE, password |-> FALSE, googleId |-> None]
NoCode == [code |-> 0, fresh |-> FALSE]
NoPending == [code |-> 0, fresh |-> FALSE, newEmail |-> None]
Idle == [kind |-> None, at |-> "idle", user |-> None, email |-> None, google |-> None, code |-> 0]

Points == {"idle", "find", "store", "compare", "delete", "recheck", "write", "verify"}

Init ==
  /\ row = [u \in Users |-> Absent]
  /\ code = [a \in Addresses |-> NoCode]
  /\ pending = [u \in Users |-> NoPending]
  /\ task = [r \in Requests |-> Idle]
  /\ issued = 0
  /\ mailed = [a \in Addresses |-> {}]
  /\ proven = {} /\ crossed = {}
  /\ had = [u \in Users |-> {}]

Exists(u) == row[u] # Absent
Owns(u, a) == row[u].email = a
Free(a) == \A u \in Users : ~Owns(u, a)

\* A request begins with its task, goes on at a point, and ends.
Begin(r, t) == task[r] = Idle /\ task' = [task EXCEPT ![r] = t] /\ UNCHANGED crossed
Goto(r, point) == task' = [task EXCEPT ![r].at = point] /\ UNCHANGED crossed
End(r) == task' = [task EXCEPT ![r] = Idle] /\ crossed' = crossed \ {r}

At(r, point, kinds) == task[r].at = point /\ task[r].kind \in kinds

Task(k, point, u, a) == [Idle EXCEPT !.kind = k, !.at = point, !.user = u, !.email = a]

\* A code that somebody reads in a mailbox and presents.
Present(c, a) == c \in mailed[a] /\ proven' = proven \cup {a}

\* The other requests that have read the key that r stores, or will store it unread.
Overtaken(r) ==
  {q \in Requests \ {r} :
     IF task[r].kind = "requestEmailChange"
     THEN /\ task[q].kind \in {"requestEmailChange", "confirmEmailChange"}
          /\ task[q].at # "find" /\ task[q].user = task[r].user
     ELSE At(q, "store", {"register", "login"}) /\ task[q].email = task[r].email}

(**************************** Verifying an address *****************************)

\* register: the row with its wallet is created before its code.
Register(r, u, a) ==
  /\ ~Exists(u) /\ Free(a)
  /\ row' = [row EXCEPT ![u] = [Absent EXCEPT !.email = a, !.password = TRUE]]
  /\ had' = [had EXCEPT ![u] = {a}]
  /\ Begin(r, Task("register", "store", u, a))
  /\ UNCHANGED <<code, pending, issued, mailed, proven>>

\* login with a password, or requestVerification, of an account not verified yet.
Login(r, u) ==
  /\ Exists(u) /\ ~row[u].isVerified
  /\ Begin(r, Task("login", "find", u, row[u].email))
  /\ UNCHANGED <<row, code, pending, issued, mailed, proven, had>>

\* generateAndStoreCode: a code sent less than five minutes ago is mailed again.
FindCode(r) ==
  LET a == task[r].email IN
  /\ At(r, "find", {"login"})
  /\ IF code[a].fresh
     THEN /\ mailed' = [mailed EXCEPT ![a] = @ \cup {code[a].code}]
          /\ End(r)
     ELSE /\ task' = [task EXCEPT ![r].at = "store", ![r].code = code[a].code]
          /\ UNCHANGED <<mailed, crossed>>
  /\ UNCHANGED <<row, code, pending, issued, proven, had>>

\* Variant: a request after the five minutes issues another code.
CodeIssued(r) == issued + 1
\* The code found is kept, a missing one issued.
CodeToStore(r) == IF task[r].code = 0 THEN issued + 1 ELSE task[r].code

\* register stores a code too, whatever the key holds, and mails nothing.
StoreCode(r) ==
  LET a == task[r].email
      c == CodeToStore(r)
  IN
  /\ At(r, "store", {"register", "login"})
  /\ c \in 1..MaxCodes
  /\ issued' = IF c > issued THEN c ELSE issued
  /\ code' = [code EXCEPT ![a] = [code |-> c, fresh |-> TRUE]]
  /\ mailed' = IF task[r].kind = "register" THEN mailed ELSE [mailed EXCEPT ![a] = @ \cup {c}]
  /\ task' = [task EXCEPT ![r] = Idle]
  /\ crossed' = (crossed \cup Overtaken(r)) \ {r}
  /\ UNCHANGED <<row, pending, proven, had>>

VerifyEmail(r, u, c, a) ==
  /\ Exists(u) /\ ~row[u].isVerified
  /\ Present(c, a)
  /\ Begin(r, [Task("verifyEmail", "compare", None, row[u].email) EXCEPT !.code = c])
  /\ UNCHANGED <<row, code, pending, issued, mailed, had>>

CompareCode(r) ==
  /\ At(r, "compare", {"verifyEmail"})
  /\ IF code[task[r].email].code = task[r].code
     THEN task' = [task EXCEPT ![r].at = "delete", ![r].code = 0] /\ UNCHANGED crossed
     ELSE End(r)
  /\ UNCHANGED <<row, code, pending, issued, mailed, proven, had>>

DeleteCode(r) ==
  /\ At(r, "delete", {"verifyEmail"})
  /\ code' = [code EXCEPT ![task[r].email] = NoCode]
  /\ Goto(r, "verify")
  /\ UNCHANGED <<row, pending, issued, mailed, proven, had>>

\* The row with that address by now, if there is one.
MarkVerified(r) ==
  /\ At(r, "verify", {"verifyEmail"})
  /\ row' = [u \in Users |->
               IF Owns(u, task[r].email) THEN [row[u] EXCEPT !.isVerified = TRUE] ELSE row[u]]
  /\ End(r)
  /\ UNCHANGED <<code, pending, issued, mailed, proven, had>>

\* updateUserVerification by an administrator.
AdminVerify(u) ==
  /\ Exists(u)
  /\ row' = [row EXCEPT ![u].isVerified = TRUE]
  /\ proven' = proven \cup {row[u].email}
  /\ UNCHANGED <<code, pending, task, issued, mailed, had, crossed>>

(***************************** Changing the address ****************************)

RequestEmailChange(r, u, newEmail) ==
  /\ Exists(u) /\ Free(newEmail)
  /\ Begin(r, Task("requestEmailChange", "find", u, newEmail))
  /\ UNCHANGED <<row, code, pending, issued, mailed, proven, had>>

\* Variant: a change can be asked for again at once.
FindPendingUnlimited(r) ==
  /\ At(r, "find", {"requestEmailChange"})
  /\ Goto(r, "store")
  /\ UNCHANGED <<row, code, pending, issued, mailed, proven, had>>

FindPending(r) ==
  /\ At(r, "find", {"requestEmailChange"})
  /\ IF pending[task[r].user].fresh THEN End(r) ELSE Goto(r, "store")
  /\ UNCHANGED <<row, code, pending, issued, mailed, proven, had>>

\* Variant: as for the verification of an address, a code that is there is kept.
StorePendingKept(r) ==
  LET u == task[r].user
      c == IF pending[u].code = 0 THEN issued + 1 ELSE pending[u].code
  IN
  /\ At(r, "store", {"requestEmailChange"})
  /\ c \in 1..MaxCodes
  /\ issued' = IF c > issued THEN c ELSE issued
  /\ pending' = [pending EXCEPT ![u] = [code |-> c, fresh |-> TRUE, newEmail |-> task[r].email]]
  /\ mailed' = [mailed EXCEPT ![task[r].email] = @ \cup {c}]
  /\ task' = [task EXCEPT ![r] = Idle]
  /\ crossed' = (crossed \cup Overtaken(r)) \ {r}
  /\ UNCHANGED <<row, code, proven, had>>

StorePending(r) ==
  LET a == task[r].email IN
  /\ At(r, "store", {"requestEmailChange"})
  /\ issued < MaxCodes
  /\ issued' = issued + 1
  /\ pending' = [pending EXCEPT ![task[r].user] = [code |-> issued + 1, fresh |-> TRUE, newEmail |-> a]]
  /\ mailed' = [mailed EXCEPT ![a] = @ \cup {issued + 1}]
  /\ task' = [task EXCEPT ![r] = Idle]
  /\ crossed' = (crossed \cup Overtaken(r)) \ {r}
  /\ UNCHANGED <<row, code, proven, had>>

ConfirmEmailChange(r, u, c, a) ==
  /\ Exists(u) /\ Present(c, a)
  /\ pending[u].code = c
  /\ Begin(r, Task("confirmEmailChange", "recheck", u, pending[u].newEmail))
  /\ UNCHANGED <<row, code, pending, issued, mailed, had>>

DeletePending(r) ==
  /\ At(r, "delete", {"confirmEmailChange"})
  /\ pending' = [pending EXCEPT ![task[r].user] = NoPending]
  /\ End(r)
  /\ UNCHANGED <<row, code, issued, mailed, proven, had>>

(************************** Google and the password ****************************)

\* The identity's token is verified with Google, which answers for its address.
Vouch(g) == proven' = proven \cup {EmailOf[g]}

\* handleOauthLogin: the row with Google's address is attached to the identity
\* and verified; without one a row is created.
HandleOauthLogin(r, g) ==
  /\ Vouch(g)
  /\ \E u \in Users :
       \/ /\ Owns(u, EmailOf[g])
          /\ row[u].googleId = None \/ ~row[u].isVerified
          /\ Begin(r, [Task("handleOauthLogin", IF row[u].googleId = None THEN "write" ELSE "verify",
                            u, EmailOf[g]) EXCEPT !.google = g])
       \/ /\ Free(EmailOf[g]) /\ ~Exists(u)
          /\ Begin(r, [Task("handleOauthLogin", "write", None, EmailOf[g]) EXCEPT !.google = g])
  /\ UNCHANGED <<row, code, pending, issued, mailed, had>>

SetPassword(r, u) ==
  /\ Exists(u) /\ ~row[u].password
  /\ Begin(r, Task("setPassword", "write", u, None))
  /\ UNCHANGED <<row, code, pending, issued, mailed, proven, had>>

\* JwtGuard, before the routes to link and unlink, reads the row.
Admitted(u) == row[u].isVerified

LinkGoogleAccount(r, u, g) ==
  /\ Admitted(u) /\ row[u].googleId = None
  /\ Owns(u, EmailOf[g])
  /\ Begin(r, [Task("linkGoogleAccount", "recheck", u, None) EXCEPT !.google = g])
  /\ UNCHANGED <<row, code, pending, issued, mailed, proven, had>>

\* Variant: whoever has a Google identity can unlink it.
UnlinkGoogleAccountAnyway(r, u) ==
  /\ Admitted(u) /\ row[u].googleId # None
  /\ Begin(r, Task("unlinkGoogleAccount", "write", u, None))
  /\ UNCHANGED <<row, code, pending, issued, mailed, proven, had>>

UnlinkGoogleAccount(r, u) ==
  /\ Admitted(u) /\ row[u].googleId # None /\ row[u].password
  /\ Begin(r, Task("unlinkGoogleAccount", "write", u, None))
  /\ UNCHANGED <<row, code, pending, issued, mailed, proven, had>>

(***************************** Writing the row *********************************)

\* The address or the identity that r is to write belongs to another row.
Taken(r) ==
  \E u \in Users \ {task[r].user} :
     \/ task[r].email # None /\ task[r].kind = "confirmEmailChange" /\ Owns(u, task[r].email)
     \/ task[r].user = None /\ Owns(u, task[r].email)
     \/ task[r].google # None /\ row[u].googleId = task[r].google

Recheck(r) ==
  /\ task[r].at = "recheck"
  /\ IF Taken(r) THEN End(r) ELSE Goto(r, "write")
  /\ UNCHANGED <<row, code, pending, issued, mailed, proven, had>>

\* handleOauthLogin creates an account for an identity whose address is free.
Created(r) == [email |-> task[r].email, isVerified |-> TRUE, password |-> FALSE,
               googleId |-> task[r].google]

\* What the other writers make of the row as it is by now.
Updated(r, u) ==
  CASE task[r].kind = "confirmEmailChange" -> [row[u] EXCEPT !.email = task[r].email, !.isVerified = TRUE]
    [] task[r].kind = "setPassword" -> [row[u] EXCEPT !.password = TRUE]
    [] task[r].kind \in {"handleOauthLogin", "linkGoogleAccount"} -> [row[u] EXCEPT !.googleId = task[r].google]
    [] task[r].kind = "unlinkGoogleAccount" -> [row[u] EXCEPT !.googleId = None]

\* The row is updated, or created for a new Google identity; the database
\* refuses an address or an identity that another row has.
Write(r) ==
  /\ task[r].at = "write"
  /\ \/ /\ Taken(r) /\ End(r)
        /\ UNCHANGED <<row, had>>
     \/ \E u \in Users :
          /\ ~Taken(r)
          /\ IF task[r].user = None THEN ~Exists(u) ELSE u = task[r].user
          /\ row' = [row EXCEPT ![u] = IF task[r].user = None THEN Created(r) ELSE Updated(r, u)]
          /\ had' = [had EXCEPT ![u] = @ \cup {row'[u].email}]
          /\ IF task[r].kind = "confirmEmailChange" THEN Goto(r, "delete")
             ELSE IF task[r].kind = "handleOauthLogin" /\ task[r].user # None THEN Goto(r, "verify")
             ELSE End(r)
  /\ UNCHANGED <<code, pending, issued, mailed, proven>>

\* handleOauthLogin verifies the row it found.
VerifyByGoogle(r) ==
  /\ At(r, "verify", {"handleOauthLogin"})
  /\ row' = [row EXCEPT ![task[r].user].isVerified = TRUE]
  /\ End(r)
  /\ UNCHANGED <<code, pending, issued, mailed, proven, had>>

(************************ Time, failures and the system ************************)

\* A key is fresh for five minutes and lives for ten (VERIFICATION_CODE_TTL).
AgeCode(a) ==
  /\ code[a] # NoCode
  /\ code' = [code EXCEPT ![a] = IF code[a].fresh THEN [@ EXCEPT !.fresh = FALSE] ELSE NoCode]
  /\ UNCHANGED <<row, pending, task, issued, mailed, proven, had, crossed>>

AgePending(u) ==
  /\ pending[u] # NoPending
  /\ pending' = [pending EXCEPT ![u] = IF pending[u].fresh THEN [@ EXCEPT !.fresh = FALSE] ELSE NoPending]
  /\ UNCHANGED <<row, code, task, issued, mailed, proven, had, crossed>>

\* A call fails or the process dies between the two writes of a request: the
\* identity is attached and the row not verified, the address changed and the key
\* left.  A code that is not stored, or deleted and not used, has as good as
\* expired; a request that has changed nothing has as good as never come.
Fail(r) ==
  /\ At(r, "verify", {"handleOauthLogin"}) \/ At(r, "delete", {"confirmEmailChange"})
  /\ End(r)
  /\ UNCHANGED <<row, code, pending, issued, mailed, proven, had>>

Enter(r) ==
  \E u \in Users :
    \/ \E a \in Addresses : Register(r, u, a) \/ RequestEmailChange(r, u, a)
    \/ \E a \in Addresses : \E c \in mailed[a] : VerifyEmail(r, u, c, a) \/ ConfirmEmailChange(r, u, c, a)
    \/ \E g \in Googles : LinkGoogleAccount(r, u, g)
    \/ Login(r, u) \/ SetPassword(r, u) \/ UnlinkGoogleAccount(r, u)

Step(r) ==
  \/ FindCode(r) \/ StoreCode(r) \/ CompareCode(r) \/ DeleteCode(r) \/ MarkVerified(r)
  \/ FindPending(r) \/ StorePending(r) \/ DeletePending(r)
  \/ Recheck(r) \/ Write(r) \/ VerifyByGoogle(r)

Next ==
  \/ \E r \in Requests : Enter(r) \/ Step(r) \/ Fail(r)
  \/ \E r \in Requests, g \in Googles : HandleOauthLogin(r, g)
  \/ \E u \in Users : AdminVerify(u) \/ AgePending(u)
  \/ \E a \in Addresses : AgeCode(a)

Spec == Init /\ [][Next]_vars

(********************************* Properties **********************************)

\* Every variable keeps its type.
TypeOK ==
  /\ row \in [Users -> [email : Addresses \cup {None}, isVerified : BOOLEAN,
                        password : BOOLEAN, googleId : Googles \cup {None}]]
  /\ code \in [Addresses -> [code : 0..MaxCodes, fresh : BOOLEAN]]
  /\ pending \in [Users -> [code : 0..MaxCodes, fresh : BOOLEAN, newEmail : Addresses \cup {None}]]
  /\ task \in [Requests -> [kind : Kinds \cup {None}, at : Points, user : Users \cup {None},
                            email : Addresses \cup {None}, google : Googles \cup {None},
                            code : 0..MaxCodes]]
  /\ issued \in 0..MaxCodes
  /\ mailed \in [Addresses -> SUBSET (1..MaxCodes)]
  /\ proven \subseteq Addresses /\ crossed \subseteq Requests
  /\ had \in [Users -> SUBSET Addresses]

\* The address of a verified account has been proven: a code mailed to that very
\* address was presented, or Google or an administrator vouches for it.
AddressProven == \A u \in Users : row[u].isVerified => row[u].email \in proven

\* Whoever has no password has a Google identity, and Google's address is the
\* account's, so that the login finds it; only a change of address separates them.
WayIn ==
  \A u \in Users : Exists(u) /\ ~row[u].password =>
    /\ row[u].googleId # None
    /\ Owns(u, EmailOf[row[u].googleId]) \/ had[u] # {row[u].email}

\* The step of a request: it was at a point of some kinds and has left it.
Leaves(r, point, kinds) == At(r, point, kinds) /\ task'[r] # task[r]

\* A verification code that may be in a mail stays the one that is accepted until
\* it expires or is used: the key is given another code only by a registration, or
\* by a request that had looked before the key was last stored.
CodeKept ==
  [][\A a \in Addresses :
       code[a].code # 0 /\ code'[a].code \notin {0, code[a].code} =>
         \E r \in Requests :
           /\ Leaves(r, "store", {"register", "login"})
           /\ task[r].kind = "register" \/ r \in crossed]_vars

\* A pending change of address is not lost: a request of the same user removes or
\* replaces it after five minutes, or once the row has had the new address, unless
\* the two had crossed.
PendingKept ==
  [][\A u \in Users :
       pending[u].code # 0 /\ pending'[u].code # pending[u].code =>
         \/ task' = task
         \/ \E r \in Requests :
              \/ Leaves(r, "store", {"requestEmailChange"})
                 /\ (~pending[u].fresh \/ r \in crossed)
              \/ Leaves(r, "delete", {"confirmEmailChange"})
                 /\ (pending[u].newEmail \in had[u] \/ r \in crossed)]_vars
=================================================================================
