------------------------------ MODULE AccountsProofs ------------------------------
(**********************************************************************************)
(* Credentials, verification codes and changes of address, then roles, for every  *)
(* value of the constants: any users, addresses, Google identities and requests.  *)
(*                                                                                *)
(* Neither invariant of Accounts is inductive.  A request writes from what it     *)
(* read some steps before, so the proof says of every request at every point what *)
(* it still knows there, whatever the others have done since (Known): that the    *)
(* code it compares was mailed to an address proven by whoever has read the mail, *)
(* that the address it is about to verify is proven, that the password it is      *)
(* about to rely on is there.  For the codes it also says that no code was ever   *)
(* given out for two addresses (CodesApart), and that what a request has read of  *)
(* a key is what the key holds unless it was overtaken (Abreast).                 *)
(**********************************************************************************)
EXTENDS Accounts, Roles, TLAPS

\* A user's row has an address and remembers it; without a row there has been none.
Rows ==
  \A u \in Users :
    IF Exists(u) THEN row[u].email \in Addresses /\ row[u].email \in had[u] ELSE had[u] = {}

\* What is stored under a key is a code, and a pending change has its address.
Keys ==
  /\ \A a \in Addresses : code[a].fresh => code[a].code # 0
  /\ \A u \in Users : pending[u].code # 0 => pending[u].newEmail \in Addresses

\* The points of the requests of each kind, and what they have in hand there.
Shape(t) ==
  \/ t = Idle
  \/ /\ t.email \in Addresses /\ t.google = None
     /\ \/ t.kind = "register" /\ t.at = "store" /\ t.user \in Users /\ t.code = 0
        \/ t.kind = "login" /\ t.at = "find" /\ t.user \in Users /\ t.code = 0
        \/ t.kind = "login" /\ t.at = "store" /\ t.user \in Users
        \/ t.kind = "verifyEmail" /\ t.at = "compare" /\ t.user = None
        \/ t.kind = "verifyEmail" /\ t.at \in {"delete", "verify"} /\ t.user = None /\ t.code = 0
        \/ t.kind = "requestEmailChange" /\ t.at \in {"find", "store"} /\ t.user \in Users /\ t.code = 0
        \/ t.kind = "confirmEmailChange" /\ t.at \in {"recheck", "write", "delete"}
           /\ t.user \in Users /\ t.code = 0
  \/ /\ t.kind = "handleOauthLogin" /\ t.google \in Googles /\ t.email = EmailOf[t.google] /\ t.code = 0
     /\ t.user \in Users \/ (t.user = None /\ t.at = "write")
     /\ t.at \in {"write", "verify"}
  \/ /\ t.kind \in {"setPassword", "unlinkGoogleAccount"} /\ t.at = "write"
     /\ t.user \in Users /\ t.email = None /\ t.google = None /\ t.code = 0
  \/ /\ t.kind = "linkGoogleAccount" /\ t.at \in {"recheck", "write"}
     /\ t.user \in Users /\ t.email = None /\ t.google \in Googles /\ t.code = 0

\* What a request knows, whatever the others have done since.
Known(t) ==
  /\ t.user \in Users => Exists(t.user)
  /\ t.kind = "verifyEmail" =>
       IF t.at = "compare" THEN \E a \in proven : t.code \in mailed[a] ELSE t.email \in proven
  /\ t.kind = "confirmEmailChange" =>
       t.email \in proven /\ (t.at = "delete" => t.email \in had[t.user])
  /\ t.kind = "handleOauthLogin" =>
       /\ t.email \in proven
       /\ t.user \in Users => row[t.user].email \in proven /\ t.email \in had[t.user]
  /\ t.kind = "linkGoogleAccount" => EmailOf[t.google] \in had[t.user]
  /\ t.kind = "unlinkGoogleAccount" => row[t.user].password

\* Both, of every request.
Tasks == \A r \in Requests : Shape(task[r]) /\ Known(task[r])

\* A code is of one address.
Belongs(c, a) ==
  \/ c \in mailed[a] \/ code[a].code = c
  \/ \E u \in Users : pending[u].code = c /\ pending[u].newEmail = a
  \/ \E r \in Requests : At(r, "store", {"login"}) /\ task[r].code = c /\ task[r].email = a
\* No code is of two addresses, and none is in use that was not issued.
CodesApart ==
  \A c \in 1..MaxCodes, a, b \in Addresses :
    Belongs(c, a) => c <= issued /\ (Belongs(c, b) => a = b)

\* What a request has read of a key is what the key has, unless it was overtaken.
Abreast(r) ==
  r \notin crossed =>
    /\ At(r, "store", {"login"}) => code[task[r].email].code \in {0, task[r].code}
    /\ At(r, "store", {"requestEmailChange"}) => ~pending[task[r].user].fresh
    /\ task[r].kind = "confirmEmailChange" =>
         pending[task[r].user].code = 0 \/ pending[task[r].user].newEmail = task[r].email

\* The inductive invariant, with the two properties in it.
AccountsInv ==
  /\ TypeOK /\ Rows /\ Keys /\ Tasks /\ CodesApart /\ (\A r \in Requests : Abreast(r))
  /\ AddressProven /\ WayIn

\* What TypeOK says of a request and of a row.
TaskType == [kind : Kinds \cup {None}, at : Points, user : Users \cup {None},
             email : Addresses \cup {None}, google : Googles \cup {None}, code : 0..MaxCodes]
RowType == [email : Addresses \cup {None}, isVerified : BOOLEAN, password : BOOLEAN,
            googleId : Googles \cup {None}]

\* The values a key, a row or a request may start with are typed.
LEMMA Constants ==
  /\ Idle \in TaskType /\ Absent \in RowType /\ Shape(Idle)
  /\ Idle.user = None /\ Idle.at = "idle" /\ Idle.kind = None
  /\ 0 \in 0..MaxCodes /\ NoCode \in [code : 0..MaxCodes, fresh : BOOLEAN]
  /\ NoPending \in [code : 0..MaxCodes, fresh : BOOLEAN, newEmail : Addresses \cup {None}]
BY MaxCodesAssumption DEF Idle, TaskType, Points, Absent, RowType, Shape, NoCode, NoPending

LEMMA AccountsInit == Init => AccountsInv
<1> SUFFICES ASSUME Init PROVE AccountsInv OBVIOUS
<1>1. TypeOK
  <2>1. row \in [Users -> RowType] BY Constants DEF Init
  <2>2. task \in [Requests -> TaskType] BY Constants DEF Init
  <2>3. /\ code \in [Addresses -> [code : 0..MaxCodes, fresh : BOOLEAN]]
        /\ pending \in [Users -> [code : 0..MaxCodes, fresh : BOOLEAN, newEmail : Addresses \cup {None}]]
    BY MaxCodesAssumption DEF Init, NoCode, NoPending
  <2>4. /\ issued \in 0..MaxCodes /\ mailed \in [Addresses -> SUBSET (1..MaxCodes)]
        /\ proven \subseteq Addresses /\ crossed \subseteq Requests
        /\ had \in [Users -> SUBSET Addresses]
    BY MaxCodesAssumption DEF Init
  <2> QED BY <2>1, <2>2, <2>3, <2>4 DEF TypeOK, RowType, TaskType
<1>2. \A u \in Users : row[u] = Absent BY DEF Init
<1>3. Rows /\ WayIn BY <1>2 DEF Rows, WayIn, Exists, Init
<1>4. AddressProven BY <1>2 DEF AddressProven, Absent
<1>5. Keys BY DEF Init, Keys, NoCode, NoPending
<1>6. \A r \in Requests : task[r] = Idle BY DEF Init
<1>7. Known(Idle) BY NoneAssumption DEF Known, Idle, Kinds
<1>8. Tasks BY <1>6, <1>7, Constants DEF Tasks
<1>9. CodesApart
  BY <1>6, Constants DEF CodesApart, Belongs, At, Init, NoCode, NoPending
<1>10. \A r \in Requests : Abreast(r)
  BY <1>6, Constants, NoneAssumption DEF Abreast, At, Kinds
<1> QED BY <1>1, <1>3, <1>4, <1>8, <1>9, <1>10, <1>5 DEF AccountsInv

(*************************** What every step keeps ***************************)

\* What has been proven, mailed or had stays so, and rows do not go.
Grows ==
  /\ proven \subseteq proven' /\ \A a \in Addresses : mailed[a] \subseteq mailed'[a]
  /\ \A u \in Users : had[u] \subseteq had'[u]
  /\ \A u \in Users : Exists(u) =>
       /\ Exists(u)' /\ (row[u].password => row'[u].password)
       /\ row'[u].email = row[u].email \/ row'[u].email \in proven'

LEMMA KnownKept ==
  ASSUME TypeOK, NEW t, Shape(t), Known(t), Grows
  PROVE  Known(t)'
<1>1. t.user \in Users => Exists(t.user)' BY DEF Known, Grows
<1>2. ASSUME t.kind = "verifyEmail"

PROVE   IF t.at = "compare" THEN \E a \in proven' : t.code \in mailed'[a] ELSE t.email \in proven'
  BY <1>2 DEF Known, Grows, TypeOK
<1>3. ASSUME t.kind = "confirmEmailChange"
      PROVE  t.email \in proven' /\ (t.at = "delete" => t.email \in had'[t.user])
  <2>1. t.user \in Users BY <1>3, Constants, NoneAssumption DEF Shape, Kinds
  <2> QED BY <1>3, <2>1 DEF Known, Grows
<1>4. ASSUME t.kind = "handleOauthLogin"
      PROVE  /\ t.email \in proven'
             /\ t.user \in Users => row'[t.user].email \in proven' /\ t.email \in had'[t.user]
  BY <1>4 DEF Known, Grows
<1>5. ASSUME t.kind = "linkGoogleAccount" PROVE EmailOf[t.google] \in had'[t.user]
  <2>1. t.user \in Users BY <1>5, Constants, NoneAssumption DEF Shape, Kinds
  <2> QED BY <1>5, <2>1 DEF Known, Grows
<1>6. ASSUME t.kind = "unlinkGoogleAccount" PROVE row'[t.user].password
  <2>1. t.user \in Users BY <1>6, Constants, NoneAssumption DEF Shape, Kinds
  <2> QED BY <1>6, <2>1 DEF Known, Grows
<1> QED BY <1>1, <1>2, <1>3, <1>4, <1>5, <1>6 DEF Known

\* The requests other than r go on as they were, and stay overtaken.
Others(r) == \A q \in Requests \ {r} : task'[q] = task[q] /\ (q \in crossed => q \in crossed')

LEMMA TasksKept ==
  ASSUME AccountsInv, NEW r \in Requests, Others(r), Grows, Shape(task'[r]), Known(task[r])'
  PROVE  Tasks'
<1> SUFFICES ASSUME NEW q \in Requests \ {r} PROVE Shape(task[q])' /\ Known(task[q])'
  BY DEF Tasks, Shape
<1>1. task'[q] = task[q] BY DEF Others
<1>2. Shape(task[q]) /\ Known(task[q]) BY DEF AccountsInv, Tasks
<1>3. PICK t : t = task[q] OBVIOUS
<1>4. Known(t)' BY <1>2, <1>3, KnownKept DEF AccountsInv
<1>5. Shape(t)' BY <1>2, <1>3 DEF Shape
<1> QED BY <1>1, <1>3, <1>4, <1>5 DEF Known, Shape

\* Keys lose codes at most.
Quiet ==
  /\ \A a \in Addresses :
       code'[a].code \in {0, code[a].code} /\ (code'[a].fresh => code'[a] = code[a])
  /\ \A u \in Users :
       /\ pending'[u].fresh => pending[u].fresh
       /\ \/ pending'[u].code = 0
          \/ pending'[u].code = pending[u].code /\ pending'[u].newEmail = pending[u].newEmail

LEMMA OthersAbreast ==
  ASSUME AccountsInv, NEW r, Others(r), Quiet, NEW q \in Requests \ {r}
  PROVE  Abreast(q)'
<1> SUFFICES ASSUME q \notin crossed' PROVE Abreast(q)'
  BY DEF Abreast
<1>1. task'[q] = task[q] /\ q \notin crossed BY DEF Others
<1>2. Abreast(q) /\ Shape(task[q]) BY DEF AccountsInv, Tasks
<1>3. At(q, "store", {"login"}) => task[q].email \in Addresses
  BY <1>2, Constants DEF At, Shape
<1>4. task[q].kind \in {"requestEmailChange", "confirmEmailChange"} => task[q].user \in Users
  BY <1>2, Constants, NoneAssumption DEF Shape, Kinds
<1>5. At(q, "store", {"login"}) => code'[task[q].email].code \in {0, task[q].code}
  BY <1>1, <1>2, <1>3 DEF Abreast, Quiet
<1>6. At(q, "store", {"requestEmailChange"}) => ~pending'[task[q].user].fresh
  BY <1>1, <1>2, <1>4 DEF Abreast, Quiet, At
<1>7. task[q].kind = "confirmEmailChange" =>
        pending'[task[q].user].code = 0 \/ pending'[task[q].user].newEmail = task[q].email
  BY <1>1, <1>2, <1>4 DEF Abreast, Quiet
<1> QED BY <1>1, <1>5, <1>6, <1>7 DEF Abreast, At

LEMMA CodesKept ==
  ASSUME AccountsInv, NEW x \in Addresses, issued' \in 0..MaxCodes, issued' >= issued,
         \A c \in 1..MaxCodes, a \in Addresses : Belongs(c, a)' =>
           Belongs(c, a) \/ (c = issued + 1 /\ c = issued' /\ a = x)
  PROVE  CodesApart'
<1> SUFFICES ASSUME NEW c \in 1..MaxCodes, NEW a \in Addresses, NEW b \in Addresses, Belongs(c, a)'
             PROVE  c <= issued' /\ (Belongs(c, b)' => a = b)
  BY DEF CodesApart
<1>1. issued \in 0..MaxCodes BY DEF AccountsInv, TypeOK
<1>2. \A d \in Addresses : Belongs(c, d) => c <= issued
  BY DEF AccountsInv, CodesApart
<1>3. Belongs(c, a) /\ Belongs(c, b) => a = b BY DEF AccountsInv, CodesApart
<1>4. Belongs(c, a) \/ (c = issued + 1 /\ c = issued' /\ a = x) OBVIOUS
<1>5. Belongs(c, b)' => Belongs(c, b) \/ (c = issued + 1 /\ c = issued' /\ b = x) OBVIOUS
<1> HIDE DEF Belongs
<1> QED BY <1>1, <1>2, <1>3, <1>4, <1>5, MaxCodesAssumption

\* A step that stores no code: it mails at most the code of a key, reads at most that.
LEMMA QuietCodes ==
  ASSUME AccountsInv, NEW r, Others(r), Quiet, issued' = issued,
         \A a \in Addresses : mailed'[a] \subseteq mailed[a] \cup {code[a].code},
         \/ task'[r] = task[r]
         \/ At(r, "store", {"login"})' => task'[r].code \in {0, code[task'[r].email].code}
  PROVE  CodesApart'
<1>1. ASSUME NEW c \in 1..MaxCodes, NEW a \in Addresses, Belongs(c, a)' PROVE Belongs(c, a)
  <2>1. c # 0 OBVIOUS
  <2>2. CASE c \in mailed'[a] BY <2>2 DEF Belongs
  <2>3. CASE code'[a].code = c BY <2>1, <2>3 DEF Belongs, Quiet
  <2>4. CASE \E u \in Users : pending'[u].code = c /\ pending'[u].newEmail = a
    BY <2>1, <2>4 DEF Belongs, Quiet
  <2>5. CASE \E q \in Requests : At(q, "store", {"login"})' /\ task'[q].code = c /\ task'[q].email = a
    <3>1. PICK q \in Requests : At(q, "store", {"login"})' /\ task'[q].code = c /\ task'[q].email = a
      BY <2>5
    <3>2. CASE q = r BY <2>1, <3>1, <3>2 DEF Belongs, At
    <3>3. CASE q # r BY <3>1, <3>3 DEF Belongs, Others, At
    <3> QED BY <3>2, <3>3
  <2> QED BY <1>1, <2>2, <2>3, <2>4, <2>5 DEF Belongs
<1>2. CASE Addresses = {} BY <1>2 DEF CodesApart
<1>3. CASE Addresses # {}
  <2>1. PICK x \in Addresses : TRUE BY <1>3
  <2> QED BY <1>1, <2>1, CodesKept DEF AccountsInv, TypeOK
<1> QED BY <1>2, <1>3

\* What remains to be shown of a step of r that stores no code.
LEMMA QuietKeeps ==
  ASSUME AccountsInv, NEW r \in Requests, Others(r), Grows, Quiet, issued' = issued,
         TypeOK', Rows', AddressProven', WayIn',
         \A a \in Addresses : mailed'[a] \subseteq mailed[a] \cup {code[a].code},
         Shape(task'[r]), Known(task[r])', Abreast(r)',
         At(r, "store", {"login"})' => task'[r].code \in {0, code[task'[r].email].code}
  PROVE  AccountsInv'
<1>1. Tasks' BY TasksKept
<1>2. CodesApart' BY QuietCodes
<1>3. \A q \in Requests : Abreast(q)' BY OthersAbreast
<1>4. Keys' BY DEF Keys, Quiet, AccountsInv
<1> QED BY <1>1, <1>2, <1>3, <1>4 DEF AccountsInv

\* A step that leaves the rows.
LEMMA RowsKept ==
  ASSUME AccountsInv, UNCHANGED <<row, had>>, proven \subseteq proven',
         \A a \in Addresses : mailed[a] \subseteq mailed'[a]
  PROVE  Grows /\ Rows' /\ AddressProven' /\ WayIn'
BY DEF AccountsInv, Grows, Rows, AddressProven, WayIn, Exists, Owns

\* A step of nobody's: the requests are left alone.
LEMMA NobodyKeeps ==
  ASSUME AccountsInv, UNCHANGED <<task, crossed, issued, mailed>>, Grows, Quiet,
         TypeOK', Rows', AddressProven', WayIn'
  PROVE  AccountsInv'
<1>1. \A r : Others(r) BY DEF Others
<1>2. CodesApart'
  <2>1. Others(None) /\ task'[None] = task[None] BY <1>1
  <2> QED BY <2>1, QuietCodes
<1>3. ASSUME NEW q \in Requests PROVE Shape(task[q])' /\ Known(task[q])' /\ Abreast(q)'
  <2>1. Shape(task[q]) /\ Known(task[q]) /\ Abreast(q) BY DEF AccountsInv, Tasks
  <2>2. PICK t : t = task[q] OBVIOUS
  <2>3. Known(t)' BY <2>1, <2>2, KnownKept DEF AccountsInv
  <2>4. t = task'[q] BY <2>2
  <2>5. Known(task[q])' BY <2>3, <2>4 DEF Known
  <2>6. Shape(task[q])' BY <2>1, <2>2, <2>4 DEF Shape
  <2>7. Abreast(q)'
    <3>1. At(q, "store", {"login"}) => task[q].email \in Addresses
      BY <2>1, Constants DEF At, Shape
    <3>2. task[q].kind \in {"requestEmailChange", "confirmEmailChange"} => task[q].user \in Users
      BY <2>1, Constants, NoneAssumption DEF Shape, Kinds
    <3>3. At(q, "store", {"login"}) /\ q \notin crossed => code'[task[q].email].code \in {0, task[q].code}
      BY <2>1, <3>1 DEF Abreast, Quiet
    <3>4. At(q, "store", {"requestEmailChange"}) /\ q \notin crossed => ~pending'[task[q].user].fresh
      BY <2>1, <3>2 DEF Abreast, Quiet, At
    <3>5. task[q].kind = "confirmEmailChange" /\ q \notin crossed =>
            pending'[task[q].user].code = 0 \/ pending'[task[q].user].newEmail = task[q].email
      BY <2>1, <3>2 DEF Abreast, Quiet
    <3> QED BY <3>3, <3>4, <3>5 DEF Abreast, At
  <2> QED BY <2>5, <2>6, <2>7
<1>4. Keys' BY DEF Keys, Quiet, AccountsInv
<1> QED BY <1>2, <1>3, <1>4 DEF AccountsInv, Tasks

(********************* How requests begin, go on and end *********************)

LEMMA BeginKeeps ==
  ASSUME AccountsInv, NEW r \in Requests, NEW t \in TaskType, Begin(r, t), Shape(t),
         UNCHANGED <<row, code, pending, issued, mailed, had>>,
         proven \subseteq proven', proven' \subseteq Addresses,
         Known(t)', t.kind = "login" => t.at = "find", t.kind = "requestEmailChange" => t.at = "find",
         t.kind = "confirmEmailChange" => pending[t.user].newEmail = t.email
  PROVE  AccountsInv'
<1>1. task' = [task EXCEPT ![r] = t] /\ crossed' = crossed BY DEF Begin
<1>2. task'[r] = t /\ task' \in [Requests -> TaskType] /\ Others(r)
  BY <1>1 DEF AccountsInv, TypeOK, TaskType, Others
<1>3. TypeOK' BY <1>1, <1>2 DEF AccountsInv, TypeOK, TaskType
<1>4. Grows /\ Rows' /\ AddressProven' /\ WayIn' BY RowsKept
<1>5. Quiet BY DEF Quiet
<1>6. Abreast(r)' BY <1>2 DEF Abreast, At
<1>7. Shape(task'[r]) /\ Known(task[r])' BY <1>2 DEF Known
<1>8. ~At(r, "store", {"login"})' BY <1>2 DEF At
<1> QED BY <1>2, <1>3, <1>4, <1>5, <1>6, <1>7, <1>8, QuietKeeps

LEMMA Ended ==
  ASSUME TypeOK, NEW r \in Requests, End(r)
  PROVE  /\ task' \in [Requests -> TaskType] /\ crossed' \subseteq Requests
         /\ Others(r) /\ Shape(task'[r]) /\ Known(task[r])' /\ Abreast(r)'
         /\ ~At(r, "store", {"login"})'
<1>1. task' \in [Requests -> TaskType] /\ task'[r] = Idle
  BY Constants DEF End, TypeOK, TaskType
<1>2. Others(r) /\ crossed' \subseteq Requests BY DEF End, TypeOK, Others
<1>3. Known(task[r])' BY <1>1, Constants, NoneAssumption DEF Known, Kinds
<1>4. Abreast(r)' /\ ~At(r, "store", {"login"})'
  BY <1>1, Constants, NoneAssumption DEF Abreast, At, Kinds
<1> QED BY <1>1, <1>2, <1>3, <1>4, Constants

LEMMA GoneTo ==
  ASSUME TypeOK, NEW r \in Requests, NEW point \in Points, Goto(r, point)
  PROVE  /\ task' \in [Requests -> TaskType] /\ crossed' \subseteq Requests
         /\ Others(r) /\ task'[r] = [task[r] EXCEPT !.at = point] /\ crossed' = crossed
<1>1. task[r] \in TaskType BY DEF TypeOK, TaskType
<1>2. [task[r] EXCEPT !.at = point] \in TaskType BY <1>1 DEF TaskType
<1>3. task' = [task EXCEPT ![r].at = point] /\ crossed' = crossed BY DEF Goto
<1>4. task' \in [Requests -> TaskType] /\ task'[r] = [task[r] EXCEPT !.at = point]
  BY <1>2, <1>3 DEF TypeOK, TaskType
<1> QED BY <1>3, <1>4 DEF TypeOK, Others

\* A request that ends without a trace in the rows.
LEMMA EndKeeps ==
  ASSUME AccountsInv, NEW r \in Requests, End(r), Quiet,
         UNCHANGED <<row, had, issued, proven>>,
         mailed' \in [Addresses -> SUBSET (1..MaxCodes)],
         \A a \in Addresses : mailed[a] \subseteq mailed'[a] /\ mailed'[a] \subseteq mailed[a] \cup {code[a].code},
         code' \in [Addresses -> [code : 0..MaxCodes, fresh : BOOLEAN]],
         pending' \in [Users -> [code : 0..MaxCodes, fresh : BOOLEAN, newEmail : Addresses \cup {None}]]
  PROVE  AccountsInv'
<1>1. /\ task' \in [Requests -> TaskType] /\ crossed' \subseteq Requests
      /\ Others(r) /\ Shape(task'[r]) /\ Known(task[r])' /\ Abreast(r)'
      /\ ~At(r, "store", {"login"})'
  BY Ended DEF AccountsInv
<1>2. TypeOK' BY <1>1 DEF AccountsInv, TypeOK, TaskType
<1>3. Grows /\ Rows' /\ AddressProven' /\ WayIn' BY RowsKept
<1> QED BY <1>1, <1>2, <1>3, QuietKeeps

\* A request that goes on without a trace in the rows.
LEMMA GotoKeeps ==
  ASSUME AccountsInv, NEW r \in Requests, NEW point \in Points, Goto(r, point), Quiet,
         UNCHANGED <<row, had, issued, proven, mailed>>,
         code' \in [Addresses -> [code : 0..MaxCodes, fresh : BOOLEAN]],
         pending' \in [Users -> [code : 0..MaxCodes, fresh : BOOLEAN, newEmail : Addresses \cup {None}]],
         Shape(task'[r]), Known(task[r])', Abreast(r)', ~At(r, "store", {"login"})'
  PROVE  AccountsInv'
<1>1. task' \in [Requests -> TaskType] /\ crossed' \subseteq Requests /\ Others(r)
  BY GoneTo DEF AccountsInv
<1>2. TypeOK' BY <1>1 DEF AccountsInv, TypeOK, TaskType
<1>3. Grows /\ Rows' /\ AddressProven' /\ WayIn' BY RowsKept
<1> QED BY <1>1, <1>2, <1>3, QuietKeeps

(********************************* The beginnings ******************************)

\* The fields of a task.
Reads(t, k, point, u, a, g, c) ==
  /\ t \in TaskType
  /\ t.kind = k /\ t.at = point /\ t.user = u /\ t.email = a /\ t.google = g /\ t.code = c

LEMMA TaskReads ==
  ASSUME NEW k \in Kinds, NEW point \in Points, NEW u \in Users \cup {None},
         NEW a \in Addresses \cup {None}
  PROVE  /\ Reads(Task(k, point, u, a), k, point, u, a, None, 0)
         /\ \A g \in Googles :
              Reads([Task(k, point, u, a) EXCEPT !.google = g], k, point, u, a, g, 0)
         /\ \A c \in 0..MaxCodes :
              Reads([Task(k, point, u, a) EXCEPT !.code = c], k, point, u, a, None, c)
<1>1. Reads(Idle, None, "idle", None, None, None, 0)
  BY MaxCodesAssumption DEF Reads, Idle, TaskType, Points
<1>2. PICK t1 : t1 = [Idle EXCEPT !.kind = k] OBVIOUS
<1>3. Reads(t1, k, "idle", None, None, None, 0) BY <1>1, <1>2 DEF Reads, TaskType
<1>4. PICK t2 : t2 = [t1 EXCEPT !.at = point] OBVIOUS
<1>5. Reads(t2, k, point, None, None, None, 0) BY <1>3, <1>4 DEF Reads, TaskType
<1>6. PICK t3 : t3 = [t2 EXCEPT !.user = u] OBVIOUS
<1>7. Reads(t3, k, point, u, None, None, 0) BY <1>5, <1>6 DEF Reads, TaskType
<1>8. PICK t4 : t4 = [t3 EXCEPT !.email = a] OBVIOUS
<1>9. Reads(t4, k, point, u, a, None, 0) BY <1>7, <1>8 DEF Reads, TaskType
<1>10. Task(k, point, u, a) = t4 BY <1>2, <1>4, <1>6, <1>8, Zenon DEF Task
<1>11. /\ \A g \in Googles : Reads([t4 EXCEPT !.google = g], k, point, u, a, g, 0)
       /\ \A c \in 0..MaxCodes : Reads([t4 EXCEPT !.code = c], k, point, u, a, None, c)
  BY <1>9 DEF Reads, TaskType
<1> QED BY <1>9, <1>10, <1>11

LEMMA LoginKeeps ==
  ASSUME AccountsInv, NEW r \in Requests, NEW u \in Users, Login(r, u)
  PROVE  AccountsInv'
<1>1. PICK t : t = Task("login", "find", u, row[u].email) OBVIOUS
<1>2. row[u].email \in Addresses BY DEF AccountsInv, Rows, Login
<1>3. Reads(t, "login", "find", u, row[u].email, None, 0)
  BY <1>1, <1>2, TaskReads DEF Kinds, Points
<1>4. t \in TaskType /\ Shape(t)
  BY <1>3, <1>2 DEF Reads, Shape
<1>5. t.kind = "login" /\ t.at = "find" /\ t.user = u BY <1>3 DEF Reads
<1>6. Known(t)' BY <1>5 DEF Known, Login, Exists
<1>7. Begin(r, t) /\ UNCHANGED <<row, code, pending, issued, mailed, had>>
  BY <1>1 DEF Login
<1>8. proven \subseteq proven' /\ proven' \subseteq Addresses
  BY DEF Login, AccountsInv, TypeOK
<1> QED BY <1>4, <1>5, <1>6, <1>7, <1>8, BeginKeeps

LEMMA VerifyEmailKeeps ==
  ASSUME AccountsInv, NEW r \in Requests, NEW u \in Users, NEW a \in Addresses, NEW c \in mailed[a],
         VerifyEmail(r, u, c, a)
  PROVE  AccountsInv'
<1>1. PICK t : t = [Task("verifyEmail", "compare", None, row[u].email) EXCEPT !.code = c] OBVIOUS
<1>2. row[u].email \in Addresses BY DEF AccountsInv, Rows, VerifyEmail
<1>3. c \in 0..MaxCodes BY MaxCodesAssumption DEF AccountsInv, TypeOK
<1>4. Reads(t, "verifyEmail", "compare", None, row[u].email, None, c)
  BY <1>1, <1>2, <1>3, TaskReads DEF Kinds, Points
<1>5. t \in TaskType /\ Shape(t)
  BY <1>4, <1>2, <1>3 DEF Reads, Shape
<1>6. t.kind = "verifyEmail" /\ t.at = "compare" /\ t.user = None /\ t.code = c
  BY <1>4 DEF Reads
<1>7. a \in proven' /\ c \in mailed'[a] BY DEF VerifyEmail, Present
<1>8. Known(t)' BY <1>6, <1>7, NoneAssumption DEF Known
<1>9. proven \subseteq proven' /\ proven' \subseteq Addresses
  BY DEF VerifyEmail, Present, AccountsInv, TypeOK
<1>10. Begin(r, t) /\ UNCHANGED <<row, code, pending, issued, mailed, had>>
  BY <1>1 DEF VerifyEmail
<1> QED BY <1>5, <1>6, <1>8, <1>9, <1>10, BeginKeeps

LEMMA RequestEmailChangeKeeps ==
  ASSUME AccountsInv, NEW r \in Requests, NEW u \in Users, NEW a \in Addresses,
         RequestEmailChange(r, u, a)
  PROVE  AccountsInv'
<1>1. PICK t : t = Task("requestEmailChange", "find", u, a) OBVIOUS
<1>2. Reads(t, "requestEmailChange", "find", u, a, None, 0)
  BY <1>1, TaskReads DEF Kinds, Points
<1>3. t \in TaskType /\ Shape(t)
  BY <1>2 DEF Reads, Shape
<1>4. t.kind = "requestEmailChange" /\ t.at = "find" /\ t.user = u BY <1>2 DEF Reads
<1>5. Known(t)' BY <1>4 DEF Known, RequestEmailChange, Exists
<1>6. Begin(r, t) /\ UNCHANGED <<row, code, pending, issued, mailed, had>>
  BY <1>1 DEF RequestEmailChange
<1>7. proven \subseteq proven' /\ proven' \subseteq Addresses
  BY DEF RequestEmailChange, AccountsInv, TypeOK
<1> QED BY <1>3, <1>4, <1>5, <1>6, <1>7, BeginKeeps

\* The code of a pending change is mailed to the new address alone.
LEMMA ConfirmEmailChangeKeeps ==
  ASSUME AccountsInv, NEW r \in Requests, NEW u \in Users, NEW a \in Addresses, NEW c \in mailed[a],
         ConfirmEmailChange(r, u, c, a)
  PROVE  AccountsInv'
<1>1. PICK t : t = Task("confirmEmailChange", "recheck", u, pending[u].newEmail) OBVIOUS
<1>2. pending[u].newEmail = a
  <2>1. c \in 1..MaxCodes BY DEF AccountsInv, TypeOK
  <2>2. Belongs(c, a) BY DEF Belongs
  <2>3. pending[u].code = c BY DEF ConfirmEmailChange
  <2>4. CASE pending[u].newEmail \in Addresses
    <3>1. Belongs(c, pending[u].newEmail) BY <2>3 DEF Belongs
    <3> QED BY <2>1, <2>2, <2>4, <3>1 DEF AccountsInv, CodesApart
  <2>5. CASE pending[u].newEmail \notin Addresses
    BY <2>1, <2>3, <2>5 DEF AccountsInv, Keys
  <2> QED BY <2>4, <2>5
<1>3. Reads(t, "confirmEmailChange", "recheck", u, pending[u].newEmail, None, 0)
  BY <1>1, <1>2, TaskReads DEF Kinds, Points
<1>4. t \in TaskType /\ Shape(t)
  BY <1>3, <1>2 DEF Reads, Shape
<1>5. /\ t.kind = "confirmEmailChange" /\ t.at = "recheck" /\ t.user = u /\ t.email = a
      /\ pending[u].newEmail = t.email
  BY <1>3, <1>2 DEF Reads
<1>6. a \in proven' /\ proven \subseteq proven' /\ proven' \subseteq Addresses
  BY DEF ConfirmEmailChange, Present, AccountsInv, TypeOK
<1>7. Known(t)' BY <1>5, <1>6 DEF Known, ConfirmEmailChange, Exists
<1>8. Begin(r, t) /\ UNCHANGED <<row, code, pending, issued, mailed, had>>
  BY <1>1 DEF ConfirmEmailChange
<1> QED BY <1>4, <1>5, <1>6, <1>7, <1>8, BeginKeeps

LEMMA SetPasswordKeeps ==
  ASSUME AccountsInv, NEW r \in Requests, NEW u \in Users, SetPassword(r, u)
  PROVE  AccountsInv'
<1>1. PICK t : t = Task("setPassword", "write", u, None) OBVIOUS
<1>2. Reads(t, "setPassword", "write", u, None, None, 0)
  BY <1>1, TaskReads DEF Kinds, Points
<1>3. t \in TaskType /\ Shape(t)
  BY <1>2 DEF Reads, Shape
<1>4. t.kind = "setPassword" /\ t.user = u BY <1>2 DEF Reads
<1>5. Known(t)' BY <1>4 DEF Known, SetPassword, Exists
<1>6. Begin(r, t) /\ UNCHANGED <<row, code, pending, issued, mailed, had>>
  BY <1>1 DEF SetPassword
<1>7. proven \subseteq proven' /\ proven' \subseteq Addresses
  BY DEF SetPassword, AccountsInv, TypeOK
<1> QED BY <1>3, <1>4, <1>5, <1>6, <1>7, BeginKeeps

LEMMA LinkGoogleAccountKeeps ==
  ASSUME AccountsInv, NEW r \in Requests, NEW u \in Users, NEW g \in Googles, LinkGoogleAccount(r, u, g)
  PROVE  AccountsInv'
<1>1. PICK t : t = [Task("linkGoogleAccount", "recheck", u, None) EXCEPT !.google = g] OBVIOUS
<1>2. Reads(t, "linkGoogleAccount", "recheck", u, None, g, 0)
  BY <1>1, TaskReads DEF Kinds, Points
<1>3. t \in TaskType /\ Shape(t)
  BY <1>2 DEF Reads, Shape
<1>4. t.kind = "linkGoogleAccount" /\ t.user = u /\ t.google = g BY <1>2 DEF Reads
<1>5. Exists(u) /\ row[u].email = EmailOf[g]
  BY DEF LinkGoogleAccount, Admitted, Owns, Exists, Absent
<1>6. EmailOf[g] \in had[u] BY <1>5 DEF AccountsInv, Rows
<1>7. Known(t)' BY <1>4, <1>5, <1>6 DEF Known, LinkGoogleAccount, Exists
<1>8. Begin(r, t) /\ UNCHANGED <<row, code, pending, issued, mailed, had>>
  BY <1>1 DEF LinkGoogleAccount
<1>9. proven \subseteq proven' /\ proven' \subseteq Addresses
  BY DEF LinkGoogleAccount, AccountsInv, TypeOK
<1> QED BY <1>3, <1>4, <1>7, <1>8, <1>9, BeginKeeps

LEMMA UnlinkGoogleAccountKeeps ==
  ASSUME AccountsInv, NEW r \in Requests, NEW u \in Users, UnlinkGoogleAccount(r, u)
  PROVE  AccountsInv'
<1>1. PICK t : t = Task("unlinkGoogleAccount", "write", u, None) OBVIOUS
<1>2. Reads(t, "unlinkGoogleAccount", "write", u, None, None, 0)
  BY <1>1, TaskReads DEF Kinds, Points
<1>3. t \in TaskType /\ Shape(t)
  BY <1>2 DEF Reads, Shape
<1>4. t.kind = "unlinkGoogleAccount" /\ t.user = u BY <1>2 DEF Reads
<1>5. Known(t)'
  BY <1>4 DEF Known, UnlinkGoogleAccount, Admitted, Exists, Absent
<1>6. Begin(r, t) /\ UNCHANGED <<row, code, pending, issued, mailed, had>>
  BY <1>1 DEF UnlinkGoogleAccount
<1>7. proven \subseteq proven' /\ proven' \subseteq Addresses
  BY DEF UnlinkGoogleAccount, AccountsInv, TypeOK
<1> QED BY <1>3, <1>4, <1>5, <1>6, <1>7, BeginKeeps

LEMMA HandleOauthLoginKeeps ==
  ASSUME AccountsInv, NEW r \in Requests, NEW g \in Googles, HandleOauthLogin(r, g)
  PROVE  AccountsInv'
<1>1. EmailOf[g] \in Addresses BY EmailOfAssumption
<1>2. EmailOf[g] \in proven' /\ proven \subseteq proven' /\ proven' \subseteq Addresses
  BY <1>1 DEF HandleOauthLogin, Vouch, AccountsInv, TypeOK
<1>3. ASSUME NEW u \in Users \cup {None}, NEW at \in {"write", "verify"},
             u \in Users => Exists(u) /\ row[u].email = EmailOf[g],
             u = None => at = "write",
             Begin(r, [Task("handleOauthLogin", at, u, EmailOf[g]) EXCEPT !.google = g])
      PROVE  AccountsInv'
  <2>1. PICK t : t = [Task("handleOauthLogin", at, u, EmailOf[g]) EXCEPT !.google = g] OBVIOUS
  <2>2. Reads(t, "handleOauthLogin", at, u, EmailOf[g], g, 0)
    BY <2>1, <1>1, <1>3, TaskReads DEF Kinds, Points
  <2>3. t \in TaskType /\ Shape(t)
    BY <2>2, <1>1, <1>3 DEF Reads, Shape
  <2>4. t.kind = "handleOauthLogin" /\ t.user = u /\ t.email = EmailOf[g] BY <2>2 DEF Reads
  <2>5. u \in Users => EmailOf[g] \in had[u] BY <1>3 DEF AccountsInv, Rows
  <2>6. Known(t)' BY <1>2, <1>3, <2>4, <2>5 DEF Known, HandleOauthLogin, Exists
  <2>7. Begin(r, t) /\ UNCHANGED <<row, code, pending, issued, mailed, had>>
    BY <2>1, <1>3 DEF HandleOauthLogin
  <2> QED BY <1>2, <1>3, <2>3, <2>4, <2>6, <2>7, BeginKeeps
<1>4. PICK u \in Users :
       \/ /\ Owns(u, EmailOf[g])
          /\ Begin(r, [Task("handleOauthLogin", IF row[u].googleId = None THEN "write" ELSE "verify",
                            u, EmailOf[g]) EXCEPT !.google = g])
       \/ Begin(r, [Task("handleOauthLogin", "write", None, EmailOf[g]) EXCEPT !.google = g])
  BY DEF HandleOauthLogin
<1>5. CASE /\ Owns(u, EmailOf[g])
           /\ Begin(r, [Task("handleOauthLogin", IF row[u].googleId = None THEN "write" ELSE "verify",
                            u, EmailOf[g]) EXCEPT !.google = g])
  <2>1. Exists(u) /\ row[u].email = EmailOf[g]
    BY <1>1, <1>5, NoneAssumption DEF Owns, Exists, Absent
  <2>2. u # None BY NoneAssumption
  <2>3. CASE row[u].googleId = None BY <1>3, <1>5, <2>1, <2>2, <2>3
  <2>4. CASE row[u].googleId # None BY <1>3, <1>5, <2>1, <2>2, <2>4
  <2> QED BY <2>3, <2>4
<1>6. CASE Begin(r, [Task("handleOauthLogin", "write", None, EmailOf[g]) EXCEPT !.google = g])
  BY <1>3, <1>6, NoneAssumption
<1> QED BY <1>4, <1>5, <1>6

(*************************** Steps that leave the rows *************************)

\* The type of the keys, which most steps leave alone.
LEMMA KeyTypes ==
  ASSUME AccountsInv
  PROVE  /\ code \in [Addresses -> [code : 0..MaxCodes, fresh : BOOLEAN]]
         /\ pending \in [Users -> [code : 0..MaxCodes, fresh : BOOLEAN, newEmail : Addresses \cup {None}]]
         /\ mailed \in [Addresses -> SUBSET (1..MaxCodes)]
         /\ task \in [Requests -> TaskType] /\ row \in [Users -> RowType]
         /\ issued \in 0..MaxCodes /\ proven \subseteq Addresses /\ crossed \subseteq Requests
         /\ had \in [Users -> SUBSET Addresses]
BY DEF AccountsInv, TypeOK, TaskType, RowType

LEMMA FindCodeKeeps ==
  ASSUME AccountsInv, NEW r \in Requests, FindCode(r)
  PROVE  AccountsInv'
<1> DEFINE a == task[r].email
<1>1. Shape(task[r]) /\ Known(task[r]) BY DEF AccountsInv, Tasks
<1>2. task[r].kind = "login" /\ task[r].at = "find" BY DEF FindCode, At
<1>3. /\ a \in Addresses /\ task[r].user \in Users /\ task[r].google = None
  BY <1>1, <1>2, Constants, NoneAssumption DEF Shape, Kinds
<1>4. Quiet BY DEF Quiet, FindCode
<1>5. code[a] \in [code : 0..MaxCodes, fresh : BOOLEAN] BY <1>3, KeyTypes
<1>6. CASE code[a].fresh
  <2>1. End(r) /\ mailed' = [mailed EXCEPT ![a] = @ \cup {code[a].code}]
    BY <1>6 DEF FindCode
  <2>2. code[a].code \in 1..MaxCodes
    BY <1>3, <1>5, <1>6, MaxCodesAssumption DEF AccountsInv, Keys
  <2>3. mailed' \in [Addresses -> SUBSET (1..MaxCodes)] BY <2>1, <2>2, KeyTypes
  <2>4. \A b \in Addresses : mailed[b] \subseteq mailed'[b] /\ mailed'[b] \subseteq mailed[b] \cup {code[b].code}
    BY <2>1, KeyTypes
  <2>5. UNCHANGED <<row, code, pending, issued, proven, had>> BY DEF FindCode
  <2> QED BY <1>4, <2>1, <2>3, <2>4, <2>5, EndKeeps, KeyTypes
<1>7. CASE ~code[a].fresh
  <2>1. /\ task' = [task EXCEPT ![r].at = "store", ![r].code = code[a].code]
        /\ UNCHANGED <<row, code, pending, issued, proven, had, mailed, crossed>>
    BY <1>7 DEF FindCode
  <2>2. task[r] \in TaskType BY KeyTypes
  <2>3. PICK t : t = [[task[r] EXCEPT !.at = "store"] EXCEPT !.code = code[a].code] OBVIOUS
  <2>4. t \in TaskType BY <1>5, <2>2, <2>3 DEF TaskType, Points
  <2>5. /\ t.at = "store" /\ t.kind = "login" /\ t.email = a /\ t.code = code[a].code
        /\ t.user \in Users /\ t.google = None
    BY <1>2, <1>3, <2>2, <2>3 DEF TaskType
  <2>6. task' = [task EXCEPT ![r] = t] BY <2>1, <2>3, KeyTypes
  <2>7. task'[r] = t /\ task' \in [Requests -> TaskType] BY <2>4, <2>6, KeyTypes
  <2>8. Others(r) BY <2>1, <2>6, KeyTypes DEF Others
  <2>9. Shape(task'[r]) BY <1>3, <2>5, <2>7 DEF Shape
  <2>10. Known(task[r])'
    <3>1. Exists(t.user)' BY <1>1, <2>1, <2>2, <2>3, <2>5 DEF Known, Exists, TaskType
    <3> QED BY <2>5, <2>7, <3>1 DEF Known
  <2>11. Abreast(r)' BY <2>1, <2>5, <2>7 DEF Abreast, At
  <2>12. TypeOK' BY <2>1, <2>7 DEF AccountsInv, TypeOK, TaskType
  <2>13. Grows /\ Rows' /\ AddressProven' /\ WayIn' BY <2>1, RowsKept
  <2>14. task'[r].code \in {0, code[task'[r].email].code} BY <2>5, <2>7
  <2> QED BY <1>4, <2>1, <2>8, <2>9, <2>10, <2>11, <2>12, <2>13, <2>14, QuietKeeps
<1> QED BY <1>6, <1>7

\* A code that a mailbox and the key both have is of the key's address.
LEMMA CompareCodeKeeps ==
  ASSUME AccountsInv, NEW r \in Requests, CompareCode(r)
  PROVE  AccountsInv'
<1> DEFINE e == task[r].email
<1>1. Shape(task[r]) /\ Known(task[r]) BY DEF AccountsInv, Tasks
<1>2. task[r].kind = "verifyEmail" /\ task[r].at = "compare" BY DEF CompareCode, At
<1>3. e \in Addresses /\ task[r].google = None /\ task[r].user = None
  BY <1>1, <1>2, Constants, NoneAssumption DEF Shape, Kinds
<1>4. UNCHANGED <<row, code, pending, issued, mailed, proven, had>> BY DEF CompareCode
<1>5. Quiet BY <1>4 DEF Quiet
<1>6. CASE code[e].code # task[r].code
  <2>1. End(r) BY <1>6 DEF CompareCode
  <2> QED BY <1>4, <1>5, <2>1, EndKeeps, KeyTypes
<1>7. CASE code[e].code = task[r].code
  <2>1. task' = [task EXCEPT ![r].at = "delete", ![r].code = 0] /\ UNCHANGED crossed
    BY <1>7 DEF CompareCode
  <2>2. e \in proven
    <3>1. PICK b \in proven : task[r].code \in mailed[b] BY <1>1, <1>2 DEF Known
    <3>2. b \in Addresses /\ task[r].code \in 1..MaxCodes BY <3>1, KeyTypes
    <3>3. Belongs(task[r].code, b) BY <3>1 DEF Belongs
    <3>4. Belongs(task[r].code, e) BY <1>3, <1>7 DEF Belongs
    <3>5. e = b BY <1>3, <3>2, <3>3, <3>4 DEF AccountsInv, CodesApart
    <3> QED BY <3>1, <3>5
  <2>3. task[r] \in TaskType BY KeyTypes
  <2>4. PICK t : t = [[task[r] EXCEPT !.at = "delete"] EXCEPT !.code = 0] OBVIOUS
  <2>5. t \in TaskType BY <2>3, <2>4, Constants DEF TaskType, Points
  <2>6. /\ t.at = "delete" /\ t.kind = "verifyEmail" /\ t.email = e /\ t.code = 0
        /\ t.user = None /\ t.google = None
    BY <1>2, <1>3, <2>3, <2>4 DEF TaskType
  <2>7. task' = [task EXCEPT ![r] = t] BY <2>1, <2>4, KeyTypes
  <2>8. task'[r] = t /\ task' \in [Requests -> TaskType] BY <2>5, <2>7, KeyTypes
  <2>9. Others(r) BY <2>1, <2>7, KeyTypes DEF Others
  <2>10. Shape(task'[r]) BY <1>3, <2>6, <2>8 DEF Shape
  <2>11. Known(task[r])' BY <1>4, <2>2, <2>6, <2>8, NoneAssumption DEF Known
  <2>12. Abreast(r)' BY <2>6, <2>8 DEF Abreast, At
  <2>13. TypeOK' BY <1>4, <2>1, <2>8 DEF AccountsInv, TypeOK, TaskType
  <2>14. Grows /\ Rows' /\ AddressProven' /\ WayIn' BY <1>4, RowsKept
  <2>15. ~At(r, "store", {"login"})' BY <2>6, <2>8 DEF At
  <2> QED BY <1>4, <1>5, <2>9, <2>10, <2>11, <2>12, <2>13, <2>14, <2>15, QuietKeeps
<1> QED BY <1>6, <1>7

LEMMA DeleteCodeKeeps ==
  ASSUME AccountsInv, NEW r \in Requests, DeleteCode(r)
  PROVE  AccountsInv'
<1>1. Shape(task[r]) /\ Known(task[r]) BY DEF AccountsInv, Tasks
<1>2. task[r].kind = "verifyEmail" /\ task[r].at = "delete" BY DEF DeleteCode, At
<1>3. /\ task[r].email \in Addresses /\ task[r].google = None /\ task[r].user = None
      /\ task[r].code = 0 /\ task[r].email \in proven
  BY <1>1, <1>2, Constants, NoneAssumption DEF Shape, Kinds, Known
<1>4. /\ code' = [code EXCEPT ![task[r].email] = NoCode] /\ Goto(r, "verify")
      /\ UNCHANGED <<row, pending, issued, mailed, proven, had>>
  BY DEF DeleteCode
<1>5. Quiet BY <1>3, <1>4, KeyTypes DEF Quiet, NoCode
<1>6. code' \in [Addresses -> [code : 0..MaxCodes, fresh : BOOLEAN]]
  BY <1>4, KeyTypes, Constants
<1>7. task'[r] = [task[r] EXCEPT !.at = "verify"]
  BY <1>4, GoneTo DEF AccountsInv, Points
<1>8. /\ task'[r].at = "verify" /\ task'[r].kind = "verifyEmail" /\ task'[r].email = task[r].email
      /\ task'[r].code = 0 /\ task'[r].user = None /\ task'[r].google = None
  BY <1>2, <1>3, <1>7, KeyTypes DEF TaskType
<1>9. Shape(task'[r]) BY <1>3, <1>8 DEF Shape
<1>10. Known(task[r])' BY <1>3, <1>4, <1>8, NoneAssumption DEF Known
<1>11. Abreast(r)' /\ ~At(r, "store", {"login"})' BY <1>8 DEF Abreast, At
<1>12. "verify" \in Points BY DEF Points
<1> QED BY <1>4, <1>5, <1>6, <1>9, <1>10, <1>11, <1>12, GotoKeeps, KeyTypes

LEMMA FindPendingKeeps ==
  ASSUME AccountsInv, NEW r \in Requests, FindPending(r)
  PROVE  AccountsInv'
<1>1. Shape(task[r]) /\ Known(task[r]) BY DEF AccountsInv, Tasks
<1>2. task[r].kind = "requestEmailChange" /\ task[r].at = "find" BY DEF FindPending, At
<1>3. /\ task[r].email \in Addresses /\ task[r].google = None /\ task[r].user \in Users
      /\ task[r].code = 0 /\ Exists(task[r].user)
  BY <1>1, <1>2, Constants, NoneAssumption DEF Shape, Kinds, Known
<1>4. UNCHANGED <<row, code, pending, issued, mailed, proven, had>> BY DEF FindPending
<1>5. Quiet BY <1>4 DEF Quiet
<1>6. CASE pending[task[r].user].fresh
  <2>1. End(r) BY <1>6 DEF FindPending
  <2> QED BY <1>4, <1>5, <2>1, EndKeeps, KeyTypes
<1>7. CASE ~pending[task[r].user].fresh
  <2>1. Goto(r, "store") /\ "store" \in Points BY <1>7 DEF FindPending, Points
  <2>2. task'[r] = [task[r] EXCEPT !.at = "store"] BY <2>1, GoneTo DEF AccountsInv
  <2>3. /\ task'[r].at = "store" /\ task'[r].kind = "requestEmailChange"
        /\ task'[r].email = task[r].email
        /\ task'[r].code = 0 /\ task'[r].user = task[r].user /\ task'[r].google = None
    BY <1>2, <1>3, <2>2, KeyTypes DEF TaskType
  <2>4. Shape(task'[r]) BY <1>3, <2>3 DEF Shape
  <2>5. Known(task[r])' BY <1>3, <1>4, <2>3 DEF Known, Exists
  <2>6. Abreast(r)' /\ ~At(r, "store", {"login"})' BY <1>4, <1>7, <2>3 DEF Abreast, At
  <2> QED BY <1>4, <1>5, <2>1, <2>4, <2>5, <2>6, GotoKeeps, KeyTypes
<1> QED BY <1>6, <1>7

LEMMA DeletePendingKeeps ==
  ASSUME AccountsInv, NEW r \in Requests, DeletePending(r)
  PROVE  AccountsInv'
<1>1. /\ pending' = [pending EXCEPT ![task[r].user] = NoPending] /\ End(r)
      /\ UNCHANGED <<row, code, issued, mailed, proven, had>>
  BY DEF DeletePending
<1>2. Quiet BY <1>1, KeyTypes DEF Quiet, NoPending
<1>3. pending' \in [Users -> [code : 0..MaxCodes, fresh : BOOLEAN, newEmail : Addresses \cup {None}]]
  BY <1>1, KeyTypes, Constants
<1> QED BY <1>1, <1>2, <1>3, EndKeeps, KeyTypes

LEMMA FailKeeps ==
  ASSUME AccountsInv, NEW r \in Requests, Fail(r)
  PROVE  AccountsInv'
<1>1. End(r) /\ UNCHANGED <<row, code, pending, issued, mailed, proven, had>> BY DEF Fail
<1>2. Quiet BY <1>1 DEF Quiet
<1> QED BY <1>1, <1>2, EndKeeps, KeyTypes

LEMMA RecheckKeeps ==
  ASSUME AccountsInv, NEW r \in Requests, Recheck(r)
  PROVE  AccountsInv'
<1>1. UNCHANGED <<row, code, pending, issued, mailed, proven, had>> BY DEF Recheck
<1>2. Quiet BY <1>1 DEF Quiet
<1>3. CASE Taken(r)
  <2>1. End(r) BY <1>3 DEF Recheck
  <2> QED BY <1>1, <1>2, <2>1, EndKeeps, KeyTypes
<1>4. CASE ~Taken(r)
  <2>1. Goto(r, "write") /\ "write" \in Points BY <1>4 DEF Recheck, Points
  <2>2. task'[r] = [task[r] EXCEPT !.at = "write"] /\ crossed' = crossed
    BY <2>1, GoneTo DEF AccountsInv
  <2>3. Shape(task[r]) /\ Known(task[r]) /\ Abreast(r) BY DEF AccountsInv, Tasks
  <2>4. task[r].at = "recheck" BY DEF Recheck
  <2>5. /\ task[r].kind \in {"confirmEmailChange", "linkGoogleAccount"}
        /\ task[r].user \in Users /\ task[r].code = 0
        /\ task[r].kind = "confirmEmailChange" => task[r].email \in Addresses /\ task[r].google = None
        /\ task[r].kind = "linkGoogleAccount" => task[r].email = None /\ task[r].google \in Googles
    BY <2>3, <2>4, Constants DEF Shape
  <2>6. /\ task'[r].at = "write" /\ task'[r].kind = task[r].kind /\ task'[r].email = task[r].email
        /\ task'[r].code = 0 /\ task'[r].user = task[r].user /\ task'[r].google = task[r].google
    BY <2>2, <2>5, KeyTypes DEF TaskType
  <2>7. Shape(task'[r]) BY <2>5, <2>6 DEF Shape
  <2>8. Known(task[r])' BY <1>1, <2>3, <2>5, <2>6 DEF Known, Exists
  <2>9. Abreast(r)' /\ ~At(r, "store", {"login"})' BY <1>1, <2>2, <2>3, <2>5, <2>6 DEF Abreast, At
  <2> QED BY <1>1, <1>2, <2>1, <2>7, <2>8, <2>9, GotoKeeps, KeyTypes
<1> QED BY <1>3, <1>4

LEMMA AgeKeeps ==
  ASSUME AccountsInv, (\E a \in Addresses : AgeCode(a)) \/ (\E u \in Users : AgePending(u))
  PROVE  AccountsInv'
<1>1. CASE \E a \in Addresses : AgeCode(a)
  <2>1. PICK a \in Addresses : AgeCode(a) BY <1>1
  <2>2. UNCHANGED <<row, pending, task, issued, mailed, proven, had, crossed>> BY <2>1 DEF AgeCode
  <2>3. code' = [code EXCEPT ![a] = IF code[a].fresh THEN [code[a] EXCEPT !.fresh = FALSE] ELSE NoCode]
    BY <2>1 DEF AgeCode
  <2>4. code' \in [Addresses -> [code : 0..MaxCodes, fresh : BOOLEAN]]
    BY <2>3, KeyTypes, Constants
  <2>5. code'[a].code \in {0, code[a].code} /\ ~code'[a].fresh
    <3>1. CASE code[a].fresh
      <4>1. code'[a] = [code[a] EXCEPT !.fresh = FALSE] BY <2>3, <3>1, KeyTypes
      <4> QED BY <4>1, KeyTypes
    <3>2. CASE ~code[a].fresh
      <4>1. code'[a] = NoCode BY <2>3, <3>2, KeyTypes
      <4> QED BY <4>1 DEF NoCode
    <3> QED BY <3>1, <3>2
  <2>6. \A b \in Addresses \ {a} : code'[b] = code[b] BY <2>3, KeyTypes
  <2>7. Quiet BY <2>2, <2>5, <2>6 DEF Quiet
  <2>8. TypeOK' BY <2>2, <2>4 DEF AccountsInv, TypeOK
  <2>9. Grows /\ Rows' /\ AddressProven' /\ WayIn' BY <2>2, RowsKept
  <2> QED BY <2>2, <2>7, <2>8, <2>9, NobodyKeeps
<1>2. CASE \E u \in Users : AgePending(u)
  <2>1. PICK u \in Users : AgePending(u) BY <1>2
  <2>2. UNCHANGED <<row, code, task, issued, mailed, proven, had, crossed>> BY <2>1 DEF AgePending
  <2>3. pending' = [pending EXCEPT ![u] =
                      IF pending[u].fresh THEN [pending[u] EXCEPT !.fresh = FALSE] ELSE NoPending]
    BY <2>1 DEF AgePending
  <2>4. pending' \in [Users -> [code : 0..MaxCodes, fresh : BOOLEAN, newEmail : Addresses \cup {None}]]
    BY <2>3, KeyTypes, Constants
  <2>5. /\ ~pending'[u].fresh
        /\ \/ pending'[u].code = 0
           \/ pending'[u].code = pending[u].code /\ pending'[u].newEmail = pending[u].newEmail
    <3>1. CASE pending[u].fresh
      <4>1. pending'[u] = [pending[u] EXCEPT !.fresh = FALSE] BY <2>3, <3>1, KeyTypes
      <4> QED BY <4>1, KeyTypes
    <3>2. CASE ~pending[u].fresh
      <4>1. pending'[u] = NoPending BY <2>3, <3>2, KeyTypes
      <4> QED BY <4>1 DEF NoPending
    <3> QED BY <3>1, <3>2
  <2>6. \A v \in Users \ {u} : pending'[v] = pending[v] BY <2>3, KeyTypes
  <2>7. Quiet BY <2>2, <2>5, <2>6 DEF Quiet
  <2>8. TypeOK' BY <2>2, <2>4 DEF AccountsInv, TypeOK
  <2>9. Grows /\ Rows' /\ AddressProven' /\ WayIn' BY <2>2, RowsKept
  <2> QED BY <2>2, <2>7, <2>8, <2>9, NobodyKeeps
<1> QED BY <1>1, <1>2

\* A request that stores a code ends, and overtakes others.
LEMMA Stored ==
  ASSUME AccountsInv, NEW r \in Requests,
         task' = [task EXCEPT ![r] = Idle], crossed' = (crossed \cup Overtaken(r)) \ {r}
  PROVE  /\ task' \in [Requests -> TaskType] /\ crossed' \subseteq Requests
         /\ Others(r) /\ Shape(task'[r]) /\ Known(task[r])' /\ Abreast(r)' /\ task'[r] = Idle
<1>1. task' \in [Requests -> TaskType] /\ task'[r] = Idle BY KeyTypes, Constants
<1>2. Others(r) /\ crossed' \subseteq Requests BY KeyTypes DEF Others, Overtaken
<1>3. Known(task[r])' BY <1>1, Constants, NoneAssumption DEF Known, Kinds
<1>4. Abreast(r)' BY <1>1, Constants, NoneAssumption DEF Abreast, At, Kinds
<1> QED BY <1>1, <1>2, <1>3, <1>4, Constants

\* What remains to be shown of a request that stores a code.
LEMMA StoreKeeps ==
  ASSUME AccountsInv, NEW r \in Requests, UNCHANGED <<row, proven, had>>,
         task' = [task EXCEPT ![r] = Idle], crossed' = (crossed \cup Overtaken(r)) \ {r},
         code' \in [Addresses -> [code : 0..MaxCodes, fresh : BOOLEAN]],
         pending' \in [Users -> [code : 0..MaxCodes, fresh : BOOLEAN, newEmail : Addresses \cup {None}]],
         mailed' \in [Addresses -> SUBSET (1..MaxCodes)],
         issued' \in 0..MaxCodes, \A a \in Addresses : mailed[a] \subseteq mailed'[a],
         Keys', CodesApart', \A q \in Requests \ {r} : Abreast(q)'
  PROVE  AccountsInv'
<1>1. /\ task' \in [Requests -> TaskType] /\ crossed' \subseteq Requests
      /\ Others(r) /\ Shape(task'[r]) /\ Known(task[r])' /\ Abreast(r)'
  BY Stored
<1>2. TypeOK' BY <1>1 DEF AccountsInv, TypeOK, TaskType
<1>3. Grows /\ Rows' /\ AddressProven' /\ WayIn' BY RowsKept
<1>4. Tasks' BY <1>1, <1>3, TasksKept
<1>5. \A q \in Requests : Abreast(q)' BY <1>1
<1> QED BY <1>2, <1>3, <1>4, <1>5 DEF AccountsInv

LEMMA StoreCodeKeeps ==
  ASSUME AccountsInv, NEW r \in Requests, StoreCode(r)
  PROVE  AccountsInv'
<1>1. PICK a : a = task[r].email OBVIOUS
<1>2. PICK c : c = CodeToStore(r) OBVIOUS
<1>3. PICK entry : entry = [code |-> c, fresh |-> TRUE] OBVIOUS
<1>4. /\ task' = [task EXCEPT ![r] = Idle] /\ crossed' = (crossed \cup Overtaken(r)) \ {r}
      /\ UNCHANGED <<row, pending, proven, had>>
      /\ code' = [code EXCEPT ![a] = entry]
      /\ c \in 1..MaxCodes /\ issued' = IF c > issued THEN c ELSE issued
      /\ mailed' = IF task[r].kind = "register" THEN mailed ELSE [mailed EXCEPT ![a] = @ \cup {c}]
      /\ task[r].at = "store" /\ task[r].kind \in {"register", "login"}
  BY <1>1, <1>2, <1>3 DEF StoreCode, At
<1>5. a \in Addresses /\ (task[r].kind = "register" => task[r].code = 0)
  <2>1. Shape(task[r]) BY DEF AccountsInv, Tasks
  <2> QED BY <1>1, <1>4, <2>1, Constants, NoneAssumption DEF Shape, Kinds
<1>6. /\ code' \in [Addresses -> [code : 0..MaxCodes, fresh : BOOLEAN]]
      /\ code'[a].code = c /\ \A b \in Addresses \ {a} : code'[b] = code[b]
  <2>1. c \in 0..MaxCodes BY <1>4, MaxCodesAssumption
  <2>2. entry \in [code : 0..MaxCodes, fresh : BOOLEAN] /\ entry.code = c BY <1>3, <2>1
  <2>3. code \in [Addresses -> [code : 0..MaxCodes, fresh : BOOLEAN]] BY KeyTypes
  <2>4. code' = [code EXCEPT ![a] = entry] /\ a \in Addresses BY <1>4, <1>5
  <2>5. code' \in [Addresses -> [code : 0..MaxCodes, fresh : BOOLEAN]] BY <2>2, <2>3, <2>4
  <2>6. code'[a] = entry /\ \A b \in Addresses \ {a} : code'[b] = code[b] BY <2>3, <2>4
  <2> QED BY <2>2, <2>5, <2>6
<1>7. /\ mailed' \in [Addresses -> SUBSET (1..MaxCodes)]
      /\ \A b \in Addresses : mailed[b] \subseteq mailed'[b]
      /\ \A b \in Addresses : mailed'[b] \subseteq mailed[b] \cup (IF b = a THEN {c} ELSE {})
  <2>1. mailed \in [Addresses -> SUBSET (1..MaxCodes)] BY KeyTypes
  <2>2. c \in 1..MaxCodes /\ a \in Addresses BY <1>4, <1>5
  <2>3. CASE mailed' = mailed BY <2>1, <2>3, Zenon
  <2>4. CASE mailed' = [mailed EXCEPT ![a] = @ \cup {c}]
    BY <2>1, <2>2, <2>4
  <2> QED BY <1>4, <2>3, <2>4
<1>8. issued' \in 0..MaxCodes /\ issued' >= issued
  BY <1>4, KeyTypes, MaxCodesAssumption
<1>9. Keys'
  <2>1. c # 0 BY <1>4
  <2>2. \A b \in Addresses : code'[b].fresh => code'[b].code # 0
    BY <1>5, <1>6, <2>1 DEF AccountsInv, Keys
  <2>3. \A u \in Users : pending'[u].code # 0 => pending'[u].newEmail \in Addresses
    BY <1>4 DEF AccountsInv, Keys
  <2> QED BY <2>2, <2>3 DEF Keys
<1>10. Belongs(c, a) \/ (c = issued + 1 /\ c = issued')
  <2>1. CASE task[r].code = 0
    <3>1. c = issued + 1 BY <1>2, <2>1 DEF CodeToStore
    <3> QED BY <1>4, <3>1, KeyTypes
  <2>2. CASE task[r].code # 0
    <3>1. c = task[r].code BY <1>2, <2>2 DEF CodeToStore
    <3>2. At(r, "store", {"login"}) BY <1>4, <1>5, <2>2 DEF At
    <3> QED BY <1>1, <3>1, <3>2 DEF Belongs
  <2> QED BY <2>1, <2>2
<1>11. Others(r) /\ task'[r] = Idle BY <1>4, Stored
<1>12. ASSUME NEW d \in 1..MaxCodes, NEW b \in Addresses, Belongs(d, b)'
      PROVE  Belongs(d, b) \/ (d = issued + 1 /\ d = issued' /\ b = a)
  <2>1. CASE d \in mailed'[b] /\ d \notin mailed[b]
    <3>1. d = c /\ b = a BY <1>7, <2>1
    <3> QED BY <1>10, <3>1
  <2>2. CASE d \in mailed[b] BY <2>2 DEF Belongs
  <2>3. CASE code'[b].code = d
    <3>1. CASE b = a
      <4>1. d = c BY <1>6, <2>3, <3>1
      <4> QED BY <1>10, <3>1, <4>1
    <3>2. CASE b # a BY <1>6, <2>3, <3>2 DEF Belongs
    <3> QED BY <3>1, <3>2
  <2>4. CASE \E u \in Users : pending'[u].code = d /\ pending'[u].newEmail = b
    BY <1>4, <2>4 DEF Belongs
  <2>5. CASE \E q \in Requests : At(q, "store", {"login"})' /\ task'[q].code = d /\ task'[q].email = b
    <3>1. PICK q \in Requests : At(q, "store", {"login"})' /\ task'[q].code = d /\ task'[q].email = b
      BY <2>5
    <3>2. q # r BY <1>11, <3>1, Constants DEF At
    <3> QED BY <1>11, <3>1, <3>2 DEF Belongs, Others, At
  <2> QED BY <1>12, <2>1, <2>2, <2>3, <2>4, <2>5 DEF Belongs
<1>13. CodesApart' BY <1>5, <1>8, <1>12, CodesKept
<1>14. ASSUME NEW q \in Requests \ {r} PROVE Abreast(q)'
  <2> SUFFICES ASSUME q \notin crossed' PROVE Abreast(q)'
    BY DEF Abreast
  <2>1. task'[q] = task[q] /\ q \notin crossed /\ q \notin Overtaken(r)
    BY <1>4, <1>11 DEF Others
  <2>2. Abreast(q) /\ Shape(task[q]) BY DEF AccountsInv, Tasks
  <2>3. At(q, "store", {"login"}) => task[q].email \in Addresses \ {a}
    BY <1>1, <1>4, <2>1, <2>2, Constants DEF At, Shape, Overtaken
  <2> QED BY <1>4, <1>6, <2>1, <2>2, <2>3 DEF Abreast, At
<1> QED BY <1>4, <1>6, <1>7, <1>8, <1>9, <1>13, <1>14, KeyTypes, StoreKeeps

LEMMA StorePendingKeeps ==
  ASSUME AccountsInv, NEW r \in Requests, StorePending(r)
  PROVE  AccountsInv'
<1> DEFINE a == task[r].email
           u == task[r].user
           new == [code |-> issued + 1, fresh |-> TRUE, newEmail |-> a]
<1>1. /\ task' = [task EXCEPT ![r] = Idle] /\ crossed' = (crossed \cup Overtaken(r)) \ {r}
      /\ UNCHANGED <<row, code, proven, had>>
      /\ issued < MaxCodes /\ issued' = issued + 1
      /\ pending' = [pending EXCEPT ![u] = new]
      /\ mailed' = [mailed EXCEPT ![a] = @ \cup {issued + 1}]
      /\ task[r].at = "store" /\ task[r].kind = "requestEmailChange"
  BY DEF StorePending, At
<1>2. a \in Addresses /\ u \in Users
  <2>1. Shape(task[r]) BY DEF AccountsInv, Tasks
  <2> QED BY <1>1, <2>1, Constants, NoneAssumption DEF Shape, Kinds
<1>3. issued + 1 \in 1..MaxCodes /\ issued' \in 0..MaxCodes /\ issued' >= issued
  BY <1>1, KeyTypes, MaxCodesAssumption
<1>4. /\ pending' \in [Users -> [code : 0..MaxCodes, fresh : BOOLEAN, newEmail : Addresses \cup {None}]]
      /\ pending'[u] = new /\ \A v \in Users \ {u} : pending'[v] = pending[v]
  <2>1. issued + 1 \in 0..MaxCodes BY <1>1, <1>3
  <2>2. new \in [code : 0..MaxCodes, fresh : BOOLEAN, newEmail : Addresses \cup {None}]
    BY <1>2, <2>1
  <2>3. pending \in [Users -> [code : 0..MaxCodes, fresh : BOOLEAN, newEmail : Addresses \cup {None}]]
    BY KeyTypes
  <2> HIDE DEF new, u
  <2> QED BY <1>1, <1>2, <2>2, <2>3
<1>5. /\ mailed' \in [Addresses -> SUBSET (1..MaxCodes)]
      /\ \A b \in Addresses : mailed[b] \subseteq mailed'[b]
      /\ \A b \in Addresses : mailed'[b] \subseteq mailed[b] \cup (IF b = a THEN {issued + 1} ELSE {})
  <2>1. mailed \in [Addresses -> SUBSET (1..MaxCodes)] BY KeyTypes
  <2> HIDE DEF a
  <2> QED BY <1>1, <1>2, <1>3, <2>1
<1>6. Keys'
  <2>1. \A b \in Addresses : code'[b].fresh => code'[b].code # 0
    BY <1>1 DEF AccountsInv, Keys
  <2>2. \A v \in Users : pending'[v].code # 0 => pending'[v].newEmail \in Addresses
    <3>1. pending'[u].newEmail \in Addresses BY <1>2, <1>4
    <3> QED BY <1>4, <3>1 DEF AccountsInv, Keys
  <2> QED BY <2>1, <2>2 DEF Keys
<1>7. Others(r) /\ task'[r] = Idle BY <1>1, Stored
<1>8. ASSUME NEW d \in 1..MaxCodes, NEW b \in Addresses, Belongs(d, b)'
      PROVE  Belongs(d, b) \/ (d = issued + 1 /\ d = issued' /\ b = a)
  <2>1. CASE d \in mailed'[b] /\ d \notin mailed[b]
    <3>1. d = issued + 1 /\ b = a BY <1>5, <2>1
    <3> QED BY <1>1, <3>1
  <2>2. CASE d \in mailed[b] BY <2>2 DEF Belongs
  <2>3. CASE code'[b].code = d BY <1>1, <2>3 DEF Belongs
  <2>4. CASE \E v \in Users : pending'[v].code = d /\ pending'[v].newEmail = b
    <3>1. PICK v \in Users : pending'[v].code = d /\ pending'[v].newEmail = b BY <2>4
    <3>2. CASE v = u
      <4>1. d = issued + 1 /\ b = a BY <1>4, <3>1, <3>2
      <4> QED BY <1>1, <4>1
    <3>3. CASE v # u BY <1>4, <3>1, <3>3 DEF Belongs
    <3> QED BY <3>2, <3>3
  <2>5. CASE \E q \in Requests : At(q, "store", {"login"})' /\ task'[q].code = d /\ task'[q].email = b
    <3>1. PICK q \in Requests : At(q, "store", {"login"})' /\ task'[q].code = d /\ task'[q].email = b
      BY <2>5
    <3>2. q # r BY <1>7, <3>1, Constants DEF At
    <3> QED BY <1>7, <3>1, <3>2 DEF Belongs, Others, At
  <2> QED BY <1>8, <2>1, <2>2, <2>3, <2>4, <2>5 DEF Belongs
<1>9. CodesApart' BY <1>2, <1>3, <1>8, CodesKept
<1>10. ASSUME NEW q \in Requests \ {r} PROVE Abreast(q)'
  <2> SUFFICES ASSUME q \notin crossed' PROVE Abreast(q)'
    BY DEF Abreast
  <2>1. task'[q] = task[q] /\ q \notin crossed /\ q \notin Overtaken(r)
    BY <1>1, <1>7 DEF Others
  <2>2. Abreast(q) /\ Shape(task[q]) BY DEF AccountsInv, Tasks
  <2>3. At(q, "store", {"requestEmailChange"}) => task[q].user \in Users \ {u}
    BY <1>1, <2>1, <2>2, Constants, NoneAssumption DEF At, Shape, Overtaken, Kinds
  <2>4. task[q].kind = "confirmEmailChange" => task[q].user \in Users \ {u}
    BY <1>1, <2>1, <2>2, Constants, NoneAssumption DEF Shape, Overtaken, Kinds
  <2> QED BY <1>1, <1>4, <2>1, <2>2, <2>3, <2>4 DEF Abreast, At
<1> HIDE DEF a, u, new
<1> QED BY <1>1, <1>3, <1>4, <1>5, <1>6, <1>9, <1>10, KeyTypes, StoreKeeps

(*************************** Steps that write a row ***************************)

\* A row that a step has created or changed, with all that is asked of it.
Rewritten(u) ==
  /\ row'[u].email \in Addresses /\ had'[u] = had[u] \cup {row'[u].email}
  /\ Exists(u) => /\ row[u].password => row'[u].password
                  /\ row'[u].email = row[u].email \/ row'[u].email \in proven'
  /\ row'[u].isVerified => row'[u].email \in proven'
  /\ ~row'[u].password =>
       /\ row'[u].googleId # None
       /\ row'[u].email = EmailOf[row'[u].googleId] \/ had'[u] # {row'[u].email}

LEMMA RowsWritten ==
  ASSUME AccountsInv, UNCHANGED mailed, proven \subseteq proven',
         \A u \in Users : (row'[u] = row[u] /\ had'[u] = had[u]) \/ Rewritten(u)
  PROVE  Grows /\ Rows' /\ AddressProven' /\ WayIn'
<1>1. \A u \in Users : Rewritten(u) => Exists(u)'
  BY NoneAssumption DEF Rewritten, Exists, Absent
<1>2. Grows BY <1>1 DEF Grows, Rewritten, Exists
<1>3. Rows' BY <1>1 DEF Rows, AccountsInv, Rewritten, Exists
<1>4. AddressProven' BY DEF AddressProven, AccountsInv, Rewritten
<1>5. WayIn'
  <2> SUFFICES ASSUME NEW u \in Users, Exists(u)', ~row'[u].password
               PROVE  /\ row'[u].googleId # None
                      /\ row'[u].email = EmailOf[row'[u].googleId] \/ had'[u] # {row'[u].email}
    BY DEF WayIn, Owns
  <2>1. CASE row'[u] = row[u] /\ had'[u] = had[u]
    BY <2>1 DEF AccountsInv, WayIn, Owns, Exists
  <2>2. CASE Rewritten(u) BY <2>2 DEF Rewritten
  <2> QED BY <2>1, <2>2
<1> QED BY <1>2, <1>3, <1>4, <1>5

\* What remains to be shown of a step of r that writes rows.
LEMMA WriteKeeps ==
  ASSUME AccountsInv, NEW r \in Requests, Others(r), UNCHANGED <<code, pending, issued, mailed, proven>>,
         row' \in [Users -> RowType], had' \in [Users -> SUBSET Addresses],
         \A u \in Users : (row'[u] = row[u] /\ had'[u] = had[u]) \/ Rewritten(u),
         task' \in [Requests -> TaskType], crossed' \subseteq Requests,
         Shape(task'[r]), Grows => Known(task[r])', Abreast(r)', ~At(r, "store", {"login"})'
  PROVE  AccountsInv'
<1>1. Grows /\ Rows' /\ AddressProven' /\ WayIn' BY RowsWritten
<1>2. TypeOK' BY DEF AccountsInv, TypeOK, TaskType, RowType
<1>3. Quiet BY DEF Quiet
<1> QED BY <1>1, <1>2, <1>3, QuietKeeps

LEMMA RegisterKeeps ==
  ASSUME AccountsInv, NEW r \in Requests, NEW u \in Users, NEW a \in Addresses, Register(r, u, a)
  PROVE  AccountsInv'
<1>1. /\ ~Exists(u) /\ row' = [row EXCEPT ![u] = [Absent EXCEPT !.email = a, !.password = TRUE]]
      /\ had' = [had EXCEPT ![u] = {a}]
      /\ UNCHANGED <<code, pending, issued, mailed, proven>>
  BY DEF Register
<1>2. PICK new : new = [[Absent EXCEPT !.email = a] EXCEPT !.password = TRUE] OBVIOUS
<1>3. new \in RowType /\ new.email = a /\ new.password /\ ~new.isVerified /\ new.googleId = None
  BY <1>2 DEF Absent, RowType
<1>4. row' = [row EXCEPT ![u] = new] BY <1>1, <1>2
<1>5. /\ row' \in [Users -> RowType] /\ had' \in [Users -> SUBSET Addresses]
      /\ row'[u] = new /\ had'[u] = {a}
      /\ \A v \in Users \ {u} : row'[v] = row[v] /\ had'[v] = had[v]
  <2>1. row \in [Users -> RowType] /\ had \in [Users -> SUBSET Addresses] BY KeyTypes
  <2> QED BY <1>1, <1>3, <1>4, <2>1
<1>6. Rewritten(u)
  <2>1. had[u] = {} BY <1>1 DEF AccountsInv, Rows
  <2> QED BY <1>1, <1>3, <1>5, <2>1 DEF Rewritten
<1>7. PICK t : t = Task("register", "store", u, a) OBVIOUS
<1>8. Reads(t, "register", "store", u, a, None, 0) BY <1>7, TaskReads DEF Kinds, Points
<1>9. task' = [task EXCEPT ![r] = t] /\ crossed' = crossed BY <1>7 DEF Register, Begin
<1>10. task'[r] = t /\ task' \in [Requests -> TaskType] /\ Others(r)
  BY <1>8, <1>9, KeyTypes DEF Others, Reads
<1>11. Shape(task'[r]) BY <1>8, <1>10 DEF Reads, Shape
<1>12. Known(task[r])'
  <2>1. Exists(u)' BY <1>3, <1>5, NoneAssumption DEF Exists, Absent
  <2> QED BY <1>8, <1>10, <2>1 DEF Known, Reads
<1>13. Abreast(r)' /\ ~At(r, "store", {"login"})' BY <1>8, <1>10 DEF Abreast, At, Reads
<1>14. crossed' \subseteq Requests BY <1>9, KeyTypes
<1>15. \A v \in Users : (row'[v] = row[v] /\ had'[v] = had[v]) \/ Rewritten(v) BY <1>5, <1>6
<1> QED BY <1>1, <1>5, <1>10, <1>11, <1>12, <1>13, <1>14, <1>15, WriteKeeps

\* A row that is verified, and has been proven.
LEMMA Verified ==
  ASSUME AccountsInv, NEW u \in Users, Exists(u), row'[u] = [row[u] EXCEPT !.isVerified = TRUE],
         had' = had, row[u].email \in proven'
  PROVE  Rewritten(u) /\ row'[u] \in RowType
<1>1. row[u] \in RowType BY KeyTypes
<1>2. /\ row'[u].email = row[u].email /\ row'[u].password = row[u].password
      /\ row'[u].googleId = row[u].googleId /\ row'[u] \in RowType
  BY <1>1 DEF RowType
<1>3. row[u].email \in Addresses /\ row[u].email \in had[u] BY DEF AccountsInv, Rows
<1>4. ~row[u].password => /\ row[u].googleId # None
                          /\ row[u].email = EmailOf[row[u].googleId] \/ had[u] # {row[u].email}
  BY DEF AccountsInv, WayIn, Owns
<1> QED BY <1>2, <1>3, <1>4 DEF Rewritten

LEMMA MarkVerifiedKeeps ==
  ASSUME AccountsInv, NEW r \in Requests, MarkVerified(r)
  PROVE  AccountsInv'
<1>1. Shape(task[r]) /\ Known(task[r]) BY DEF AccountsInv, Tasks
<1>2. task[r].kind = "verifyEmail" /\ task[r].at = "verify" BY DEF MarkVerified, At
<1>3. task[r].email \in Addresses /\ task[r].email \in proven
  BY <1>1, <1>2, Constants, NoneAssumption DEF Shape, Kinds, Known
<1>4. /\ row' = [u \in Users |->
                   IF Owns(u, task[r].email) THEN [row[u] EXCEPT !.isVerified = TRUE] ELSE row[u]]
      /\ UNCHANGED <<code, pending, issued, mailed, proven, had>> /\ End(r)
  BY DEF MarkVerified
<1>5. ASSUME NEW u \in Users
      PROVE  ((row'[u] = row[u] /\ had'[u] = had[u]) \/ Rewritten(u)) /\ row'[u] \in RowType
  <2>1. CASE Owns(u, task[r].email)
    <3>1. row'[u] = [row[u] EXCEPT !.isVerified = TRUE] BY <1>4, <2>1
    <3>2. Exists(u) /\ row[u].email \in proven'
      BY <1>3, <1>4, <2>1, NoneAssumption DEF Owns, Exists, Absent
    <3> QED BY <1>4, <3>1, <3>2, Verified
  <2>2. CASE ~Owns(u, task[r].email)
    <3>1. row'[u] = row[u] BY <1>4, <2>2
    <3> QED BY <1>4, <3>1, KeyTypes
  <2> QED BY <2>1, <2>2
<1>6. row' \in [Users -> RowType]
  <2>1. row' = [u \in Users |-> row'[u]] BY <1>4
  <2> QED BY <1>5, <2>1
<1>7. /\ task' \in [Requests -> TaskType] /\ crossed' \subseteq Requests
      /\ Others(r) /\ Shape(task'[r]) /\ Known(task[r])' /\ Abreast(r)'
      /\ ~At(r, "store", {"login"})'
  BY <1>4, Ended DEF AccountsInv
<1>8. had' \in [Users -> SUBSET Addresses] BY <1>4, KeyTypes
<1> QED BY <1>4, <1>5, <1>6, <1>7, <1>8, WriteKeeps

LEMMA AdminVerifyKeeps ==
  ASSUME AccountsInv, NEW u \in Users, AdminVerify(u)
  PROVE  AccountsInv'
<1>1. /\ Exists(u) /\ row' = [row EXCEPT ![u].isVerified = TRUE]
      /\ proven' = proven \cup {row[u].email}
      /\ UNCHANGED <<code, pending, task, issued, mailed, had, crossed>>
  BY DEF AdminVerify
<1>2. row'[u] = [row[u] EXCEPT !.isVerified = TRUE] /\ \A v \in Users \ {u} : row'[v] = row[v]
  BY <1>1, KeyTypes
<1>3. Rewritten(u) /\ row'[u] \in RowType BY <1>1, <1>2, Verified
<1>4. row' \in [Users -> RowType]
  <2>1. row' = [v \in Users |-> row'[v]] BY <1>1, KeyTypes
  <2>2. \A v \in Users : row'[v] \in RowType BY <1>2, <1>3, KeyTypes
  <2> QED BY <2>1, <2>2
<1>5. proven \subseteq proven' /\ proven' \subseteq Addresses
  BY <1>1, KeyTypes DEF AccountsInv, Rows
<1>6. TypeOK' BY <1>1, <1>4, <1>5 DEF AccountsInv, TypeOK, RowType
<1>7. Quiet BY <1>1 DEF Quiet
<1>8. Grows /\ Rows' /\ AddressProven' /\ WayIn' BY <1>1, <1>2, <1>3, <1>5, RowsWritten
<1> QED BY <1>1, <1>6, <1>7, <1>8, NobodyKeeps

\* The address that Google vouched for, or the one the row has got since, is proven.
LEMMA VerifyByGoogleKeeps ==
  ASSUME AccountsInv, NEW r \in Requests, VerifyByGoogle(r)
  PROVE  AccountsInv'
<1>1. Shape(task[r]) /\ Known(task[r]) BY DEF AccountsInv, Tasks
<1>2. task[r].kind = "handleOauthLogin" /\ task[r].at = "verify" BY DEF VerifyByGoogle, At
<1>3. PICK u : u = task[r].user OBVIOUS
<1>4. u \in Users /\ Exists(u) /\ row[u].email \in proven
  BY <1>3, <1>1, <1>2, Constants, NoneAssumption DEF Shape, Kinds, Known
<1>5. /\ row' = [row EXCEPT ![u].isVerified = TRUE]
      /\ UNCHANGED <<code, pending, issued, mailed, proven, had>> /\ End(r)
  BY <1>3 DEF VerifyByGoogle
<1>6. row'[u] = [row[u] EXCEPT !.isVerified = TRUE] /\ \A v \in Users \ {u} : row'[v] = row[v]
  BY <1>4, <1>5, KeyTypes
<1>7. Rewritten(u) /\ row'[u] \in RowType BY <1>4, <1>5, <1>6, Verified
<1>8. row' \in [Users -> RowType]
  <2>1. row' = [v \in Users |-> row'[v]] BY <1>5, KeyTypes
  <2>2. \A v \in Users : row'[v] \in RowType BY <1>6, <1>7, KeyTypes
  <2> QED BY <2>1, <2>2
<1>9. /\ task' \in [Requests -> TaskType] /\ crossed' \subseteq Requests
      /\ Others(r) /\ Shape(task'[r]) /\ Known(task[r])' /\ Abreast(r)'
      /\ ~At(r, "store", {"login"})'
  BY <1>5, Ended DEF AccountsInv
<1>10. had' \in [Users -> SUBSET Addresses] BY <1>5, KeyTypes
<1> QED BY <1>5, <1>6, <1>7, <1>8, <1>9, <1>10, WriteKeeps

\* What a request at its write is, and what it knows of the row it is to write.
LEMMA AtWrite ==
  ASSUME AccountsInv, NEW r \in Requests, task[r].at = "write"
  PROVE  /\ task[r].kind \in {"confirmEmailChange", "handleOauthLogin", "setPassword",
                               "linkGoogleAccount", "unlinkGoogleAccount"}
         /\ task[r].code = 0
         /\ task[r].user = None \/ (task[r].user \in Users /\ Exists(task[r].user))
         /\ task[r].user = None => task[r].kind = "handleOauthLogin"
         /\ task[r].kind = "confirmEmailChange" =>
              task[r].email \in Addresses /\ task[r].email \in proven /\ task[r].google = None
         /\ task[r].kind = "handleOauthLogin" =>
              /\ task[r].google \in Googles /\ task[r].email = EmailOf[task[r].google]
              /\ task[r].email \in proven
              /\ task[r].user \in Users =>
                   row[task[r].user].email \in proven /\ task[r].email \in had[task[r].user]
         /\ task[r].kind = "linkGoogleAccount" =>
              task[r].google \in Googles /\ EmailOf[task[r].google] \in had[task[r].user]
         /\ task[r].kind = "unlinkGoogleAccount" => row[task[r].user].password
<1>1. Shape(task[r]) /\ Known(task[r]) BY DEF AccountsInv, Tasks
<1>2. /\ task[r].kind \in {"confirmEmailChange", "handleOauthLogin", "setPassword",
                            "linkGoogleAccount", "unlinkGoogleAccount"}
      /\ task[r].code = 0 /\ (task[r].user \in Users \/ task[r].user = None)
      /\ task[r].user = None => task[r].kind = "handleOauthLogin"
  BY <1>1, Constants, NoneAssumption DEF Shape
<1>3. /\ task[r].kind = "confirmEmailChange" => task[r].email \in Addresses /\ task[r].google = None
      /\ task[r].kind = "handleOauthLogin" =>
           task[r].google \in Googles /\ task[r].email = EmailOf[task[r].google]
      /\ task[r].kind = "linkGoogleAccount" => task[r].google \in Googles
  BY <1>1, Constants, NoneAssumption DEF Shape, Kinds
<1> QED BY <1>1, <1>2, <1>3 DEF Known

\* The row that is created for an identity.
LEMMA CreatedWell ==
  ASSUME AccountsInv, NEW r \in Requests, task[r].at = "write", task[r].user = None,
         NEW u \in Users, ~Exists(u), row'[u] = Created(r), proven' = proven,
         had'[u] = had[u] \cup {row'[u].email}
  PROVE  Rewritten(u) /\ row'[u] \in RowType
<1>1. /\ task[r].google \in Googles /\ task[r].email = EmailOf[task[r].google]
      /\ task[r].email \in proven
  BY AtWrite
<1>2. task[r].email \in Addresses /\ task[r].google # None
  BY <1>1, EmailOfAssumption, NoneAssumption
<1>3. /\ row'[u].email = task[r].email /\ row'[u].googleId = task[r].google
      /\ row'[u] \in RowType
  BY <1>1, <1>2 DEF Created, RowType
<1> QED BY <1>1, <1>2, <1>3 DEF Rewritten

\* The row that a request found, as it writes it.
LEMMA UpdatedWell ==
  ASSUME AccountsInv, NEW r \in Requests, task[r].at = "write", NEW u \in Users, task[r].user = u,
         row'[u] = Updated(r, u), proven' = proven, had'[u] = had[u] \cup {row'[u].email}
  PROVE  /\ Rewritten(u) /\ row'[u] \in RowType
         /\ task[r].kind = "confirmEmailChange" => task[r].email \in had'[u]
         /\ task[r].kind = "handleOauthLogin" => row'[u].email \in proven'
<1>1. /\ task[r].kind \in {"confirmEmailChange", "handleOauthLogin", "setPassword",
                            "linkGoogleAccount", "unlinkGoogleAccount"}
      /\ Exists(u)
      /\ task[r].kind = "confirmEmailChange" => task[r].email \in Addresses /\ task[r].email \in proven
      /\ task[r].kind \in {"handleOauthLogin", "linkGoogleAccount"} =>
           task[r].google \in Googles /\ EmailOf[task[r].google] \in had[u]
      /\ task[r].kind = "handleOauthLogin" => row[u].email \in proven
      /\ task[r].kind = "unlinkGoogleAccount" => row[u].password
  BY AtWrite, NoneAssumption
<1>2. row[u] \in RowType BY KeyTypes
<1>3. row[u].email \in Addresses /\ row[u].email \in had[u] BY <1>1 DEF AccountsInv, Rows
<1>4. /\ row[u].isVerified => row[u].email \in proven
      /\ ~row[u].password => /\ row[u].googleId # None
                             /\ row[u].email = EmailOf[row[u].googleId] \/ had[u] # {row[u].email}
  BY <1>1 DEF AccountsInv, AddressProven, WayIn, Owns
<1>5. CASE task[r].kind = "confirmEmailChange"
  <2>1. row'[u] = [row[u] EXCEPT !.email = task[r].email, !.isVerified = TRUE]
    BY <1>5 DEF Updated
  <2>2. PICK new : new = [row[u] EXCEPT !.email = task[r].email] OBVIOUS
  <2>3. /\ new \in RowType /\ new.email = task[r].email /\ new.password = row[u].password
        /\ new.googleId = row[u].googleId
    BY <1>1, <1>2, <1>5, <2>2 DEF RowType
  <2>4. row'[u] = [new EXCEPT !.isVerified = TRUE] BY <2>1, <2>2
  <2>5. /\ row'[u] \in RowType /\ row'[u].email = task[r].email /\ row'[u].password = row[u].password
        /\ row'[u].googleId = row[u].googleId
    BY <2>3, <2>4 DEF RowType
  <2> QED BY <1>1, <1>3, <1>4, <1>5, <2>5 DEF Rewritten
<1>6. CASE task[r].kind = "setPassword"
  <2>1. row'[u] = [row[u] EXCEPT !.password = TRUE] BY <1>6 DEF Updated
  <2>2. /\ row'[u] \in RowType /\ row'[u].email = row[u].email /\ row'[u].password
        /\ row'[u].isVerified = row[u].isVerified
    BY <1>2, <2>1 DEF RowType
  <2> QED BY <1>3, <1>4, <1>6, <2>2 DEF Rewritten
<1>7. CASE task[r].kind \in {"handleOauthLogin", "linkGoogleAccount"}
  <2>1. row'[u] = [row[u] EXCEPT !.googleId = task[r].google] BY <1>7 DEF Updated
  <2>2. /\ row'[u] \in RowType /\ row'[u].email = row[u].email /\ row'[u].password = row[u].password
        /\ row'[u].isVerified = row[u].isVerified /\ row'[u].googleId = task[r].google
    BY <1>1, <1>2, <1>7, <2>1 DEF RowType
  <2>3. task[r].google # None BY <1>1, <1>7, NoneAssumption
  <2>4. row[u].email = EmailOf[task[r].google] \/ had'[u] # {row[u].email}
    BY <1>1, <1>3, <1>7
  <2> QED BY <1>1, <1>3, <1>4, <1>7, <2>2, <2>3, <2>4 DEF Rewritten
<1>8. CASE task[r].kind = "unlinkGoogleAccount"
  <2>1. row'[u] = [row[u] EXCEPT !.googleId = None] BY <1>8 DEF Updated
  <2>2. /\ row'[u] \in RowType /\ row'[u].email = row[u].email /\ row'[u].password = row[u].password
        /\ row'[u].isVerified = row[u].isVerified
    BY <1>2, <2>1 DEF RowType
  <2> QED BY <1>1, <1>3, <1>4, <1>8, <2>2 DEF Rewritten
<1> QED BY <1>1, <1>5, <1>6, <1>7, <1>8

LEMMA WritesOneRow ==
  ASSUME AccountsInv, NEW r \in Requests, NEW u \in Users, task[r].at = "write",
         IF task[r].user = None THEN ~Exists(u) ELSE u = task[r].user,
         row' = [row EXCEPT ![u] = IF task[r].user = None THEN Created(r) ELSE Updated(r, u)],
         had' = [had EXCEPT ![u] = @ \cup {row'[u].email}],
         UNCHANGED <<code, pending, issued, mailed, proven>>,
         IF task[r].kind = "confirmEmailChange" THEN Goto(r, "delete")
         ELSE IF task[r].kind = "handleOauthLogin" /\ task[r].user # None THEN Goto(r, "verify")
         ELSE End(r)
  PROVE  AccountsInv'
<1>1. /\ row \in [Users -> RowType] /\ had \in [Users -> SUBSET Addresses]
  BY KeyTypes
<1>2. /\ row'[u] = IF task[r].user = None THEN Created(r) ELSE Updated(r, u)
      /\ had'[u] = had[u] \cup {row'[u].email}
      /\ \A v \in Users \ {u} : row'[v] = row[v] /\ had'[v] = had[v]
  BY <1>1
<1>3. Rewritten(u) /\ row'[u] \in RowType
  <2>1. CASE task[r].user = None BY <1>2, <2>1, CreatedWell
  <2>2. CASE task[r].user # None BY <1>2, <2>2, UpdatedWell
  <2> QED BY <2>1, <2>2
<1>4. /\ row' \in [Users -> RowType] /\ had' \in [Users -> SUBSET Addresses]
  <2>1. row' = [v \in Users |-> row'[v]] BY <1>1
  <2>2. \A v \in Users : row'[v] \in RowType BY <1>1, <1>2, <1>3
  <2>3. had' = [v \in Users |-> had'[v]] BY <1>1
  <2>4. \A v \in Users : had'[v] \subseteq Addresses BY <1>1, <1>2, <1>3 DEF Rewritten
  <2> QED BY <2>1, <2>2, <2>3, <2>4
<1>5. \A v \in Users : (row'[v] = row[v] /\ had'[v] = had[v]) \/ Rewritten(v) BY <1>2, <1>3
<1>6. CASE End(r)
  <2>1. /\ task' \in [Requests -> TaskType] /\ crossed' \subseteq Requests
        /\ Others(r) /\ Shape(task'[r]) /\ Known(task[r])' /\ Abreast(r)'
        /\ ~At(r, "store", {"login"})'
    BY <1>6, Ended DEF AccountsInv
  <2> QED BY <1>4, <1>5, <2>1, WriteKeeps
<1>7. CASE ~End(r)
  <2>1. PICK point : point = IF task[r].kind = "confirmEmailChange" THEN "delete" ELSE "verify"
    OBVIOUS
  <2>2. /\ Goto(r, point) /\ point \in Points /\ u = task[r].user /\ u \in Users /\ Exists(u)
        /\ task[r].kind \in {"confirmEmailChange", "handleOauthLogin"}
    <3>1. task[r].user # None BY <1>7, AtWrite
    <3> QED BY <1>7, <2>1, <3>1, AtWrite DEF Points
  <2>3. /\ task' \in [Requests -> TaskType] /\ crossed' \subseteq Requests
        /\ Others(r) /\ task'[r] = [task[r] EXCEPT !.at = point] /\ crossed' = crossed
    BY <2>2, GoneTo DEF AccountsInv
  <2>4. /\ task'[r].at = point /\ task'[r].kind = task[r].kind /\ task'[r].email = task[r].email
        /\ task'[r].code = task[r].code /\ task'[r].user = u /\ task'[r].google = task[r].google
    BY <2>2, <2>3, KeyTypes DEF TaskType
  <2>5. /\ task[r].code = 0
        /\ task[r].kind = "confirmEmailChange" =>
             task[r].email \in Addresses /\ task[r].email \in proven /\ task[r].google = None
        /\ task[r].kind = "handleOauthLogin" =>
             /\ task[r].google \in Googles /\ task[r].email = EmailOf[task[r].google]
             /\ task[r].email \in proven /\ task[r].email \in had[u]
    BY <2>2, AtWrite
  <2>6. Shape(task'[r]) BY <2>1, <2>2, <2>4, <2>5 DEF Shape
  <2>7. /\ task[r].kind = "confirmEmailChange" => task[r].email \in had'[u]
        /\ task[r].kind = "handleOauthLogin" => row'[u].email \in proven'
    BY <1>2, <2>2, NoneAssumption, UpdatedWell
  <2>8. Grows => Known(task[r])'
    BY <2>2, <2>4, <2>5, <2>7 DEF Known, Grows
  <2>9. Abreast(r)' /\ ~At(r, "store", {"login"})'
    <3>1. Abreast(r) BY DEF AccountsInv
    <3> QED BY <2>1, <2>2, <2>3, <2>4, <3>1 DEF Abreast, At
  <2> QED BY <1>4, <1>5, <2>3, <2>6, <2>8, <2>9, WriteKeeps
<1> QED BY <1>6, <1>7

LEMMA WriteStepKeeps ==
  ASSUME AccountsInv, NEW r \in Requests, Write(r)
  PROVE  AccountsInv'
<1>1. CASE Taken(r) /\ End(r) /\ UNCHANGED <<row, had>>
  <2>1. UNCHANGED <<code, pending, issued, mailed, proven>> BY DEF Write
  <2>2. Quiet BY <2>1 DEF Quiet
  <2> QED BY <1>1, <2>1, <2>2, EndKeeps, KeyTypes
<1>2. CASE ~(Taken(r) /\ End(r) /\ UNCHANGED <<row, had>>)
  <2>1. PICK u \in Users :
          /\ IF task[r].user = None THEN ~Exists(u) ELSE u = task[r].user
          /\ row' = [row EXCEPT ![u] = IF task[r].user = None THEN Created(r) ELSE Updated(r, u)]
          /\ had' = [had EXCEPT ![u] = @ \cup {row'[u].email}]
          /\ IF task[r].kind = "confirmEmailChange" THEN Goto(r, "delete")
             ELSE IF task[r].kind = "handleOauthLogin" /\ task[r].user # None THEN Goto(r, "verify")
             ELSE End(r)
    BY <1>2 DEF Write
  <2>2. task[r].at = "write" /\ UNCHANGED <<code, pending, issued, mailed, proven>> BY DEF Write
  <2> QED BY <2>1, <2>2, WritesOneRow
<1> QED BY <1>1, <1>2

(*********************************** The whole ********************************)

LEMMA AccountsStep ==
  ASSUME AccountsInv, [Next]_vars
  PROVE  AccountsInv'
<1>1. CASE \E r \in Requests : Enter(r)
  <2>1. PICK r \in Requests : Enter(r) BY <1>1
  <2>2. PICK u \in Users :
          \/ \E a \in Addresses : Register(r, u, a) \/ RequestEmailChange(r, u, a)
          \/ \E a \in Addresses : \E c \in mailed[a] : VerifyEmail(r, u, c, a) \/ ConfirmEmailChange(r, u, c, a)
          \/ \E g \in Googles : LinkGoogleAccount(r, u, g)
          \/ Login(r, u) \/ SetPassword(r, u) \/ UnlinkGoogleAccount(r, u)
    BY <2>1 DEF Enter
  <2> QED
    BY <2>2, RegisterKeeps, RequestEmailChangeKeeps, VerifyEmailKeeps, ConfirmEmailChangeKeeps,
             LinkGoogleAccountKeeps, LoginKeeps, SetPasswordKeeps, UnlinkGoogleAccountKeeps
<1>2. CASE \E r \in Requests : Step(r)
  BY <1>2, FindCodeKeeps, StoreCodeKeeps, CompareCodeKeeps, DeleteCodeKeeps, MarkVerifiedKeeps,
     FindPendingKeeps, StorePendingKeeps, DeletePendingKeeps, RecheckKeeps, WriteStepKeeps,
     VerifyByGoogleKeeps DEF Step
<1>3. CASE \E r \in Requests : Fail(r) BY <1>3, FailKeeps
<1>4. CASE \E r \in Requests, g \in Googles : HandleOauthLogin(r, g) BY <1>4, HandleOauthLoginKeeps
<1>5. CASE \E u \in Users : AdminVerify(u) BY <1>5, AdminVerifyKeeps
<1>6. CASE (\E a \in Addresses : AgeCode(a)) \/ (\E u \in Users : AgePending(u)) BY <1>6, AgeKeeps
<1>7. CASE UNCHANGED vars
  <2>1. UNCHANGED <<row, code, pending, task, issued, mailed, proven, had, crossed>>
    BY <1>7 DEF vars
  <2>2. Quiet BY <2>1 DEF Quiet
  <2>3. TypeOK' BY <2>1 DEF AccountsInv, TypeOK
  <2>4. Grows /\ Rows' /\ AddressProven' /\ WayIn' BY <2>1, RowsKept
  <2> QED BY <2>1, <2>2, <2>3, <2>4, NobodyKeeps
<1> QED BY <1>1, <1>2, <1>3, <1>4, <1>5, <1>6, <1>7 DEF Next

LEMMA AccountsAlways == Spec => []AccountsInv
<1>1. Init => AccountsInv BY AccountsInit
<1>2. AccountsInv /\ [Next]_vars => AccountsInv' BY AccountsStep
<1> QED BY <1>1, <1>2, PTL DEF Spec

\* Every variable stays in its type: AuthService writes no row, key or code outside it.
THEOREM AccountsTyped == Spec => []TypeOK
<1>1. AccountsInv => TypeOK BY DEF AccountsInv
<1> QED BY <1>1, AccountsAlways, PTL

\* A row is marked verified only with an address whose owner has shown that mail to
\* it, or Google's word for it, reaches him: verifyEmail, confirmEmailChange,
\* handleOauthLogin and the administrator's verification, in any interleaving.
THEOREM AccountsAddressProven == Spec => []AddressProven
<1>1. AccountsInv => AddressProven BY DEF AccountsInv
<1> QED BY <1>1, AccountsAlways, PTL

\* No interleaving of registrations, links, unlinks and changes of address leaves an
\* account that neither a password nor a Google login opens.
THEOREM AccountsWayIn == Spec => []WayIn
<1>1. AccountsInv => WayIn BY DEF AccountsInv
<1> QED BY <1>1, AccountsAlways, PTL

(****************************** What a step may not do *************************)

\* The steps that store, remove or age a code or a pending change.
LEMMA KeySteps ==
  ASSUME Next
  PROVE  /\ \/ UNCHANGED code
            \/ \E r \in Requests : StoreCode(r) \/ DeleteCode(r)
            \/ \E a \in Addresses : AgeCode(a)
         /\ \/ UNCHANGED pending
            \/ \E r \in Requests : StorePending(r) \/ DeletePending(r)
            \/ \E u \in Users : AgePending(u)
<1>1. ASSUME NEW r \in Requests, NEW u \in Users,
             \/ \E a \in Addresses : Register(r, u, a) \/ RequestEmailChange(r, u, a)
             \/ \E a \in Addresses : \E c \in mailed[a] : VerifyEmail(r, u, c, a) \/ ConfirmEmailChange(r, u, c, a)
             \/ \E g \in Googles : LinkGoogleAccount(r, u, g)
             \/ Login(r, u) \/ SetPassword(r, u) \/ UnlinkGoogleAccount(r, u)
      PROVE  UNCHANGED code /\ UNCHANGED pending
  <2>1. ASSUME NEW a \in Addresses, Register(r, u, a) PROVE UNCHANGED code /\ UNCHANGED pending
    BY <2>1 DEF Register
  <2>2. ASSUME NEW a \in Addresses, RequestEmailChange(r, u, a)
        PROVE  UNCHANGED code /\ UNCHANGED pending
    BY <2>2 DEF RequestEmailChange
  <2>3. ASSUME NEW a \in Addresses, NEW c \in mailed[a], VerifyEmail(r, u, c, a)
        PROVE  UNCHANGED code /\ UNCHANGED pending
    BY <2>3 DEF VerifyEmail
  <2>4. ASSUME NEW a \in Addresses, NEW c \in mailed[a], ConfirmEmailChange(r, u, c, a)
        PROVE  UNCHANGED code /\ UNCHANGED pending
    BY <2>4 DEF ConfirmEmailChange
  <2>5. ASSUME NEW g \in Googles, LinkGoogleAccount(r, u, g)
        PROVE  UNCHANGED code /\ UNCHANGED pending
    BY <2>5 DEF LinkGoogleAccount
  <2>6. CASE Login(r, u) BY <2>6 DEF Login
  <2>7. CASE SetPassword(r, u) BY <2>7 DEF SetPassword
  <2>8. CASE UnlinkGoogleAccount(r, u) BY <2>8 DEF UnlinkGoogleAccount
  <2> QED BY <1>1, <2>1, <2>2, <2>3, <2>4, <2>5, <2>6, <2>7, <2>8
<1>2. ASSUME NEW r \in Requests, Step(r)
      PROVE  /\ UNCHANGED code \/ StoreCode(r) \/ DeleteCode(r)
             /\ UNCHANGED pending \/ StorePending(r) \/ DeletePending(r)
  <2>1. CASE FindCode(r) \/ StoreCode(r) \/ CompareCode(r) \/ DeleteCode(r)
    BY <2>1 DEF FindCode, StoreCode, CompareCode, DeleteCode
  <2>2. CASE MarkVerified(r) \/ FindPending(r) \/ StorePending(r) \/ DeletePending(r)
    BY <2>2 DEF MarkVerified, FindPending, StorePending, DeletePending
  <2>3. CASE Recheck(r) \/ Write(r) \/ VerifyByGoogle(r)
    BY <2>3 DEF Recheck, Write, VerifyByGoogle
  <2> QED BY <1>2, <2>1, <2>2, <2>3 DEF Step
<1>3. CASE \E r \in Requests : Fail(r) BY <1>3 DEF Fail
<1>4. CASE \E r \in Requests, g \in Googles : HandleOauthLogin(r, g) BY <1>4 DEF HandleOauthLogin
<1>5. CASE \E u \in Users : AdminVerify(u) \/ AgePending(u) BY <1>5 DEF AdminVerify, AgePending
<1>6. CASE \E a \in Addresses : AgeCode(a) BY <1>6 DEF AgeCode
<1>7. CASE \E r \in Requests : Enter(r) BY <1>1, <1>7 DEF Enter
<1> QED BY <1>2, <1>3, <1>4, <1>5, <1>6, <1>7 DEF Next

LEMMA CodeKeptStep ==
  ASSUME AccountsInv, [Next]_vars, NEW a \in Addresses,
         code[a].code # 0, code'[a].code \notin {0, code[a].code}
  PROVE  \E r \in Requests :
           /\ Leaves(r, "store", {"register", "login"})
           /\ task[r].kind = "register" \/ r \in crossed
<1>1. ~UNCHANGED vars BY DEF vars
<1>2. ASSUME NEW b \in Addresses, AgeCode(b) PROVE code'[a].code \in {0, code[a].code}
  <2>1. code' = [code EXCEPT ![b] = IF code[b].fresh THEN [code[b] EXCEPT !.fresh = FALSE] ELSE NoCode]
    BY <1>2 DEF AgeCode
  <2>2. CASE a # b BY <2>1, <2>2, KeyTypes
  <2>3. CASE a = b /\ code[b].fresh
    <3>1. code'[a] = [code[a] EXCEPT !.fresh = FALSE] BY <2>1, <2>3, KeyTypes
    <3> QED BY <3>1, KeyTypes
  <2>4. CASE a = b /\ ~code[b].fresh
    <3>1. code'[a] = NoCode BY <2>1, <2>4, KeyTypes
    <3> QED BY <3>1 DEF NoCode
  <2> QED BY <2>2, <2>3, <2>4
<1>3. ASSUME NEW r \in Requests, DeleteCode(r) PROVE code'[a].code \in {0, code[a].code}
  <2>1. code' = [code EXCEPT ![task[r].email] = NoCode] BY <1>3 DEF DeleteCode
  <2>2. CASE a # task[r].email BY <2>1, <2>2, KeyTypes
  <2>3. CASE a = task[r].email BY <2>1, <2>3, KeyTypes DEF NoCode
  <2> QED BY <2>2, <2>3
<1>4. PICK r \in Requests : StoreCode(r)
  BY <1>1, <1>2, <1>3, KeySteps
<1>5. PICK c : c = CodeToStore(r) OBVIOUS
<1>6. /\ code' = [code EXCEPT ![task[r].email] = [code |-> c, fresh |-> TRUE]]
      /\ At(r, "store", {"register", "login"}) /\ task' = [task EXCEPT ![r] = Idle]
  BY <1>4, <1>5 DEF StoreCode
<1>7. a = task[r].email /\ c # code[a].code
  <2>1. CASE a # task[r].email BY <1>6, <2>1, KeyTypes
  <2>2. CASE a = task[r].email
    <3>1. code'[a] = [code |-> c, fresh |-> TRUE] BY <1>6, <2>2, KeyTypes
    <3> QED BY <2>2, <3>1
  <2> QED BY <2>1, <2>2
<1>8. Leaves(r, "store", {"register", "login"})
  BY <1>6, KeyTypes, Constants DEF Leaves, At
<1>9. ASSUME task[r].kind = "login", r \notin crossed PROVE FALSE
  <2>1. Abreast(r) BY DEF AccountsInv
  <2>2. code[a].code = task[r].code BY <1>6, <1>7, <1>9, <2>1 DEF Abreast, At
  <2> QED BY <1>5, <1>7, <2>2 DEF CodeToStore
<1> QED BY <1>6, <1>8, <1>9 DEF At

LEMMA PendingKeptStep ==
  ASSUME AccountsInv, [Next]_vars, NEW u \in Users,
         pending[u].code # 0, pending'[u].code # pending[u].code
  PROVE  \/ task' = task
         \/ \E r \in Requests :
              \/ Leaves(r, "store", {"requestEmailChange"})
                 /\ (~pending[u].fresh \/ r \in crossed)
              \/ Leaves(r, "delete", {"confirmEmailChange"})
                 /\ (pending[u].newEmail \in had[u] \/ r \in crossed)
<1>1. ~UNCHANGED vars BY DEF vars
<1>2. CASE \E v \in Users : AgePending(v) BY <1>2 DEF AgePending
<1>3. ASSUME NEW r \in Requests, StorePending(r)
      PROVE  Leaves(r, "store", {"requestEmailChange"}) /\ (~pending[u].fresh \/ r \in crossed)
  <2>1. PICK new :
          /\ pending' = [pending EXCEPT ![task[r].user] = new]
          /\ At(r, "store", {"requestEmailChange"}) /\ task' = [task EXCEPT ![r] = Idle]
    BY <1>3 DEF StorePending
  <2>2. u = task[r].user BY <2>1, KeyTypes
  <2>3. Abreast(r) BY DEF AccountsInv
  <2>4. Leaves(r, "store", {"requestEmailChange"}) BY <2>1, KeyTypes, Constants DEF Leaves, At
  <2> QED BY <2>1, <2>2, <2>3, <2>4 DEF Abreast
<1>4. ASSUME NEW r \in Requests, DeletePending(r)
      PROVE  /\ Leaves(r, "delete", {"confirmEmailChange"})
             /\ pending[u].newEmail \in had[u] \/ r \in crossed
  <2>1. /\ pending' = [pending EXCEPT ![task[r].user] = NoPending]
        /\ At(r, "delete", {"confirmEmailChange"}) /\ task' = [task EXCEPT ![r] = Idle]
    BY <1>4 DEF DeletePending, End
  <2>2. u = task[r].user BY <2>1, KeyTypes
  <2>3. Abreast(r) /\ Known(task[r]) BY DEF AccountsInv, Tasks
  <2>4. Leaves(r, "delete", {"confirmEmailChange"}) BY <2>1, KeyTypes, Constants DEF Leaves, At
  <2> QED BY <2>1, <2>2, <2>3, <2>4 DEF Abreast, Known, At
<1> QED BY <1>1, <1>2, <1>3, <1>4, KeySteps

\* A code once mailed is replaced by another only by a registration, or by a login
\* that had looked at the key before it was last stored.
THEOREM AccountsCodeKept == Spec => CodeKept
<1>1. AccountsInv /\ [Next]_vars =>
       [\A a \in Addresses :
          code[a].code # 0 /\ code'[a].code \notin {0, code[a].code} =>
            \E r \in Requests :
              /\ Leaves(r, "store", {"register", "login"})
              /\ task[r].kind = "register" \/ r \in crossed]_vars
  BY CodeKeptStep
<1> QED BY <1>1, AccountsAlways, PTL DEF Spec, CodeKept

\* A pending change of address goes by expiry, by a request of the user after its five
\* minutes, by its confirmation, or by one of two requests that crossed.
THEOREM AccountsPendingKept == Spec => PendingKept
<1>1. AccountsInv /\ [Next]_vars =>
       [\A u \in Users :
          pending[u].code # 0 /\ pending'[u].code # pending[u].code =>
            \/ task' = task
            \/ \E r \in Requests :
                 \/ Leaves(r, "store", {"requestEmailChange"})
                    /\ (~pending[u].fresh \/ r \in crossed)
                 \/ Leaves(r, "delete", {"confirmEmailChange"})
                    /\ (pending[u].newEmail \in had[u] \/ r \in crossed)]_vars
  BY PendingKeptStep
<1> QED BY <1>1, AccountsAlways, PTL DEF Spec, PendingKept

(**********************************************************************************)
(* Roles.  What a guard has let through rests on tokens and readings that may be  *)
(* out of date: the invariant says what is left of them, that whoever shows the   *)
(* role of a super administrator has been one.                                    *)
(**********************************************************************************)

\* A super administrator, and whoever has a token that says so, has been one.
Titles == \A u \in Users : role[u] = "SUPER_ADMIN" \/ "SUPER_ADMIN" \in token[u] => u \in been

\* What holds of a request that was admitted, and of what it read until it is overtaken.
Decided(r) ==
  change[r] # None =>
    LET t == change[r] IN
    /\ t.to = "SUPER_ADMIN" => t.by \in been
    /\ r \notin stale =>
         /\ role[t.user] \in Admins => t.by \in been
         /\ t.to \in AllRoles => t.read = role[t.user]

\* The inductive invariant of roles.
RolesInv == RolesTypeOK /\ Titles /\ \A r \in Requests : Decided(r)

LEMMA RolesInvInit == RolesInit => RolesInv
<1> SUFFICES ASSUME RolesInit PROVE RolesInv OBVIOUS
<1> QED BY SeedAssumption DEF RolesInit, RolesInv, RolesTypeOK, Titles, Decided, AllRoles, Admins

LEMMA AdmittedSound ==
  ASSUME RolesInv, NEW q \in Users, NEW as \in Admins, AdmittedAs(q, as)
  PROVE as = "ADMIN" \/ q \in been
BY DEF RolesInv, Titles, AdmittedAs, Admins

LEMMA BeginStep ==
  ASSUME RolesInv, NEW r \in Requests, NEW t \in Change, BeginChange(r, t),
         t.to = "SUPER_ADMIN" => t.by \in been,
         role[t.user] \in Admins => t.by \in been,
         t.to \in AllRoles => t.read = role[t.user]
  PROVE  RolesInv'
<1>1. RolesTypeOK' /\ Titles' BY DEF BeginChange, RolesInv, RolesTypeOK, Titles
<1>2. ASSUME NEW q \in Requests PROVE Decided(q)'
  <2>1. CASE q = r
    <3>1. change'[r] = t BY DEF BeginChange, RolesInv, RolesTypeOK
    <3> QED BY <2>1, <3>1 DEF BeginChange, Decided
  <2>2. CASE q # r
    <3>1. change'[q] = change[q] BY <2>2 DEF BeginChange, RolesInv, RolesTypeOK
    <3> QED BY <3>1 DEF BeginChange, Decided, RolesInv
  <2> QED BY <2>1, <2>2
<1> QED BY <1>1, <1>2 DEF RolesInv

\* A request of r that ends; the others are as they were, but may be overtaken.
LEMMA EndStep ==
  ASSUME RolesInv, NEW r \in Requests, EndChange(r), token' = token,
         NEW x \in Users, RolesTypeOK', been \subseteq been',
         \A u \in Users \ {x} : role'[u] = role[u],
         role'[x] = "SUPER_ADMIN" => x \in been',
         stale \ {r} \subseteq stale',
         role'[x] # role[x] =>
           \A q \in Requests \ {r} : change[q] # None /\ change[q].user = x => q \in stale'
  PROVE  RolesInv'
<1>1. Titles' BY DEF RolesInv, Titles
<1>2. ASSUME NEW q \in Requests PROVE Decided(q)'
  <2>1. CASE q = r BY <2>1 DEF EndChange, Decided, RolesInv, RolesTypeOK
  <2>2. CASE q # r
    <3>1. change'[q] = change[q] BY <2>2 DEF EndChange, RolesInv, RolesTypeOK
    <3>2. change[q] # None => change[q] \in Change BY DEF RolesInv, RolesTypeOK
    <3> QED BY <2>2, <3>1, <3>2 DEF Decided, RolesInv, Change
  <2> QED BY <2>1, <2>2
<1> QED BY <1>1, <1>2 DEF RolesInv

LEMMA RolesInvStep == RolesInv /\ [RolesNext]_roleVars => RolesInv'
<1> SUFFICES ASSUME RolesInv, [RolesNext]_roleVars PROVE RolesInv' OBVIOUS
<1>1. ASSUME NEW u \in Users, SignIn(u) \/ \E as \in Admins : TokenExpires(u, as)
      PROVE  RolesInv'
  <2>1. UNCHANGED <<role, active, change, been, stale>> BY <1>1 DEF SignIn, TokenExpires
  <2>2. /\ token' \in [Users -> SUBSET Admins]
        /\ \A v \in Users \ {u} : token'[v] = token[v]
        /\ token'[u] \subseteq token[u] \cup {role[u]}
    BY <1>1 DEF SignIn, TokenExpires, RolesInv, RolesTypeOK
  <2>3. RolesTypeOK' /\ Titles' BY <2>1, <2>2 DEF RolesInv, RolesTypeOK, Titles
  <2>4. \A r \in Requests : Decided(r)' BY <2>1 DEF RolesInv, Decided
  <2> QED BY <2>3, <2>4 DEF RolesInv
<1>2. ASSUME NEW r \in Requests, NEW q \in Users, NEW u \in Users, NEW as \in Admins,
             NEW new \in AllRoles, UpdateUserRole(r, q, as, u, new)
      PROVE  RolesInv'
  <2> DEFINE t == [by |-> q, user |-> u, read |-> role[u], to |-> new]
  <2>1. t \in Change BY DEF Change, RolesInv, RolesTypeOK
  <2>2. AdmittedAs(q, as) /\ MayAssign(as, role[u], new) /\ BeginChange(r, t)
    BY <1>2 DEF UpdateUserRole
  <2>3. as = "ADMIN" \/ q \in been BY <2>2, AdmittedSound
  <2>4. new = "SUPER_ADMIN" \/ role[u] \in Admins => q \in been
    BY <2>2, <2>3 DEF MayAssign
  <2> QED BY <2>1, <2>2, <2>4, BeginStep
<1>3. ASSUME NEW r \in Requests, NEW q \in Users, NEW u \in Users, NEW as \in Admins,
             NEW a \in Activations, UpdateUserActiveState(r, q, as, u, a)
      PROVE  RolesInv'
  <2> DEFINE t == [by |-> q, user |-> u, read |-> None, to |-> a]
  <2>1. t \in Change BY DEF Change
  <2>2. AdmittedAs(q, as) /\ MayActivate(as, role[u]) /\ BeginChange(r, t)
    BY <1>3 DEF UpdateUserActiveState
  <2>3. as = "ADMIN" \/ q \in been BY <2>2, AdmittedSound
  <2>4. role[u] \in Admins => q \in been BY <2>2, <2>3 DEF MayActivate
  <2>5. a \notin AllRoles BY DEF Activations, AllRoles, Admins
  <2> QED BY <2>1, <2>2, <2>4, <2>5, BeginStep DEF AllRoles, Admins
<1>4. ASSUME NEW r \in Requests, WriteRole(r) PROVE RolesInv'
  <2>1. PICK t \in Change : t = change[r] BY <1>4 DEF WriteRole, RolesInv, RolesTypeOK
  <2>2. /\ t.user \in Users /\ t.to \in AllRoles
        /\ role' = [role EXCEPT ![t.user] = t.to]
        /\ been' = IF t.to = "SUPER_ADMIN" THEN been \cup {t.user} ELSE been
        /\ stale' = {q \in Requests \ {r} :
                       \/ q \in stale
                       \/ change[q] # None /\ change[q].user = t.user /\ role[t.user] # t.to}
        /\ EndChange(r) /\ UNCHANGED <<active, token>>
    BY <1>4, <2>1 DEF WriteRole, Change
  <2>3. RolesTypeOK' BY <2>2 DEF RolesInv, RolesTypeOK, EndChange
  <2>4. /\ role'[t.user] = t.to
        /\ \A u \in Users \ {t.user} : role'[u] = role[u]
        /\ stale \ {r} \subseteq stale'
        /\ been \subseteq been' /\ (t.to = "SUPER_ADMIN" => t.user \in been')
    BY <2>2 DEF RolesInv, RolesTypeOK
  <2> QED BY <2>2, <2>3, <2>4, EndStep
<1>5. ASSUME NEW r \in Requests, WriteActive(r) PROVE RolesInv'
  <2>1. PICK t \in Change : t = change[r] BY <1>5 DEF WriteActive, RolesInv, RolesTypeOK
  <2>2. /\ t.user \in Users /\ EndChange(r) /\ stale' = stale \ {r}
        /\ UNCHANGED <<role, token, been>>
        /\ active' = [active EXCEPT ![t.user] = t.to = "activate"]
    BY <1>5, <2>1 DEF WriteActive, Change
  <2>3. RolesTypeOK' BY <2>2 DEF RolesInv, RolesTypeOK, EndChange
  <2> QED BY <2>2, <2>3, EndStep DEF RolesInv, Titles
<1>6. ASSUME NEW r \in Requests, RequestFails(r) PROVE RolesInv'
  <2>1. PICK t \in Change : t = change[r] BY <1>6 DEF RequestFails, RolesInv, RolesTypeOK
  <2>2. RolesTypeOK' BY <1>6 DEF RequestFails, RolesInv, RolesTypeOK, EndChange
  <2> QED BY <1>6, <2>1, <2>2, EndStep DEF RequestFails, RolesInv, Titles, Change
<1>7. CASE UNCHANGED roleVars BY <1>7 DEF roleVars, RolesInv, RolesTypeOK, Titles, Decided
<1> QED BY <1>1, <1>2, <1>3, <1>4, <1>5, <1>6, <1>7 DEF RolesNext

LEMMA RolesAlways == RolesSpec => []RolesInv
BY RolesInvInit, RolesInvStep, PTL DEF RolesSpec

\* A step that changes a role or the activation of a user is the write of a request
\* about him.
LEMMA ChangeIsWrite ==
  ASSUME RolesInv, RolesNext, NEW u \in Users, role'[u] # role[u] \/ active'[u] # active[u]
  PROVE  \E r \in Requests : Writes(r, u) /\ (WriteRole(r) \/ WriteActive(r))
<1>1. PICK r \in Requests : WriteRole(r) \/ WriteActive(r)
  BY DEF RolesNext, SignIn, TokenExpires, UpdateUserRole, UpdateUserActiveState, BeginChange, RequestFails
<1>2. change[r] # None /\ change'[r] = None
  BY <1>1 DEF WriteRole, WriteActive, EndChange, RolesInv, RolesTypeOK
<1>3. change[r].user = u
  BY <1>1 DEF WriteRole, WriteActive, RolesInv, RolesTypeOK
<1> QED BY <1>1, <1>2, <1>3 DEF Writes

\* The request whose write a step is, is the one that ends.
LEMMA WritesOwn ==
  ASSUME RolesInv, RolesNext, NEW r \in Requests, NEW u \in Users, Writes(r, u), role'[u] # role[u]
  PROVE  WriteRole(r)
<1>1. PICK q \in Requests : WriteRole(q)
  BY DEF RolesNext, SignIn, TokenExpires, UpdateUserRole, UpdateUserActiveState, BeginChange, RequestFails,
         WriteActive
<1>2. q = r BY <1>1 DEF WriteRole, EndChange, Writes, RolesInv, RolesTypeOK
<1> QED BY <1>1, <1>2

\* Every variable of Roles stays in its type: UsersService stores only roles there are.
THEOREM RolesTyped == RolesSpec => []RolesTypeOK
<1>1. RolesInv => RolesTypeOK BY DEF RolesInv
<1> QED BY <1>1, RolesAlways, PTL

\* Whoever becomes a super administrator was made one by a request of somebody who has
\* been one himself, though the title may have been taken from him since the guard.
THEOREM RolesSuperFromSuper == RolesSpec => SuperFromSuper
<1> DEFINE A == \A u \in been' \ been : \E r \in Requests : Writes(r, u) /\ change[r].by \in been
<1>1. RolesInv /\ [RolesNext]_roleVars => [A]_roleVars
  <2> SUFFICES ASSUME RolesInv, RolesNext, NEW u \in been' \ been
               PROVE  \E r \in Requests : Writes(r, u) /\ change[r].by \in been
    OBVIOUS
  <2>1. PICK r \in Requests : WriteRole(r)
    BY DEF RolesNext, SignIn, TokenExpires, UpdateUserRole, UpdateUserActiveState, BeginChange,
           RequestFails, WriteActive
  <2>2. change[r] # None /\ change[r].to = "SUPER_ADMIN" /\ change[r].user = u
    BY <2>1 DEF WriteRole
  <2>3. change'[r] = None BY <2>1 DEF WriteRole, EndChange, RolesInv, RolesTypeOK
  <2>4. change[r].by \in been BY <2>2 DEF RolesInv, Decided
  <2> QED BY <2>2, <2>3, <2>4 DEF Writes
<1> QED BY <1>1, RolesAlways, PTL DEF RolesSpec, SuperFromSuper

\* The role or activation of an administrator is changed only for somebody who has been
\* a super administrator, or by a request whose check of the role had gone stale.
THEOREM RolesAdminsAboveReach == RolesSpec => AdminsAboveReach
<1> DEFINE A == \A u \in Users :
       role[u] \in Admins /\ (role'[u] # role[u] \/ active'[u] # active[u]) =>
         \E r \in Requests : Writes(r, u) /\ (change[r].by \in been \/ r \in stale)
<1>1. RolesInv /\ [RolesNext]_roleVars => [A]_roleVars
  <2> SUFFICES ASSUME RolesInv, RolesNext, NEW u \in Users, role[u] \in Admins,
                      role'[u] # role[u] \/ active'[u] # active[u]
               PROVE  \E r \in Requests : Writes(r, u) /\ (change[r].by \in been \/ r \in stale)
    OBVIOUS
  <2>1. PICK r \in Requests : Writes(r, u) BY ChangeIsWrite
  <2> QED BY <2>1 DEF Writes, RolesInv, Decided
<1> QED BY <1>1, RolesAlways, PTL DEF RolesSpec, AdminsAboveReach

\* The entry updateUserRole adds to the history names the role the write has replaced
\* and the one it has set, unless another write came between its read and its own.
THEOREM RolesHistoryTells == RolesSpec => HistoryTells
<1> DEFINE A == \A r \in Requests, u \in Users :
       Writes(r, u) /\ role'[u] # role[u] =>
         \/ Entry(change[r]) = [from |-> role[u], to |-> role'[u]]
         \/ r \in stale
<1>1. RolesInv /\ [RolesNext]_roleVars => [A]_roleVars
  <2> SUFFICES ASSUME RolesInv, RolesNext, NEW r \in Requests, NEW u \in Users,
                      Writes(r, u), role'[u] # role[u], r \notin stale
               PROVE  Entry(change[r]) = [from |-> role[u], to |-> role'[u]]
    BY DEF roleVars
  <2>1. WriteRole(r) BY WritesOwn
  <2>2. change[r].read = role[u] BY <2>1 DEF WriteRole, Writes, RolesInv, Decided
  <2>3. role'[u] = change[r].to BY <2>1 DEF WriteRole, Writes, RolesInv, RolesTypeOK
  <2> QED BY <2>2, <2>3 DEF Entry
<1> QED BY <1>1, RolesAlways, PTL DEF RolesSpec, HistoryTells
==================================================================================
