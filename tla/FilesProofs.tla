------------------------------- MODULE FilesProofs -------------------------------
(**********************************************************************************)
(* Uploaded files, for any books, users, objects and requests, and any number of  *)
(* faults.  Neither property of Files is inductive: that a deletion leaves every  *)
(* row's file in storage rests on whom each object belongs to.  An object that    *)
(* was stored and not written to a row is in one hand only (Stock), no two fields *)
(* refer to one object and none refers to what another has given up (Apart), and  *)
(* what is about to be deleted is referred to by no row (Removed).                *)
(**********************************************************************************)
EXTENDS Files, TLAPS

\* The points at which a request is still to write its row.
Working == {"upload", "read", "write"}

\* An object that is not in storage yet is known to nobody.
Unused ==
  \A o \in Objects : object[o] = "unused" =>
    \A f \in Fields :
      /\ refers[f] # o
      /\ \A r \in Requests : inHand[r][f] # o /\ before[r][f] # o

\* What a request has stored and not written yet is its own.
Own(r, f) ==
  LET o == inHand[r][f] IN
  /\ f \in fields[r] /\ object[o] = "stored"
  /\ \A g \in Fields :
       /\ refers[g] # o
       /\ \A q \in Requests : before[q][g] # o /\ (inHand[q][g] = o => q = r /\ g = f)
\* So it is for every request that is at work on its upload.
Stock == \A r \in Requests, f \in Fields :
  pc[r] \in Working /\ inHand[r][f] # None => Own(r, f)

\* No two fields refer to one object; what one has referred to, another never does.
Apart ==
  /\ \A f, g \in Fields : refers[f] = refers[g] /\ refers[f] # None => f = g
  /\ \A r \in Requests, f, g \in Fields :
       before[r][f] # None => f \in fields[r] /\ (refers[g] = before[r][f] => g = f)

\* What is about to be deleted, no row refers to.
Removed == \A r \in Requests, f, g \in Fields :
  pc[r] = "delete" /\ inHand[r][f] # None /\ refers[g] = inHand[r][f] => refers[g] \in doubted

\* A request that is over has nothing in hand.
Resting == \A r \in Requests : pc[r] = "idle" => inHand[r] = Nothing

\* The inductive invariant, with the two properties in it.
FilesInv == TypeOK /\ Unused /\ Stock /\ Apart /\ Removed /\ Resting /\ NoDangling /\ OrphansExplained

LEMMA FilesInit == Init => FilesInv
<1> SUFFICES ASSUME Init PROVE FilesInv OBVIOUS
<1>1. TypeOK BY BoundsAssumption DEF Init, TypeOK, Nothing, References, Points
<1>2. \A f \in Fields : Nothing[f] = None BY DEF Nothing
<1>3. Unused BY <1>2, NoneAssumption DEF Init, Unused
<1>4. Stock /\ Removed /\ Resting /\ OrphansExplained
  BY DEF Init, Stock, Working, Removed, Resting, OrphansExplained
<1>5. Apart /\ NoDangling BY <1>2 DEF Init, Apart, NoDangling
<1> QED BY <1>1, <1>3, <1>4, <1>5 DEF FilesInv

LEMMA NothingTyped == Nothing \in References /\ \A f \in Fields : Nothing[f] = None
BY DEF Nothing, References

\* The other requests have what they had.
Kept(r) ==
  \A q \in Requests \ {r} :
    pc'[q] = pc[q] /\ fields'[q] = fields[q] /\ inHand'[q] = inHand[q] /\ before'[q] = before[q]

\* The part of TypeOK that is about the requests.
RequestsTyped ==
  /\ pc \in [Requests -> Points]
  /\ kind \in [Requests -> Kinds \cup {None}]
  /\ fields \in [Requests -> SUBSET Fields]
  /\ inHand \in [Requests -> References] /\ before \in [Requests -> References]

\* How r ends its work, or goes on to delete what is now in its hand.
Ended(r) ==
  /\ RequestsTyped' /\ Kept(r)
  /\ pc'[r] \in {"idle", "delete"} /\ before'[r] = Nothing
  /\ pc'[r] = "idle" => inHand'[r] = Nothing

LEMMA LeaveEnds ==
  ASSUME TypeOK, NEW r \in Requests, Leave(r)
  PROVE  Ended(r) /\ inHand'[r] = Nothing
BY NothingTyped DEF Leave, Goto, TypeOK, RequestsTyped, Ended, Kept, Points

LEMMA DeleteEnds ==
  ASSUME TypeOK, NEW r \in Requests, NEW objects \in References, Delete(r, objects)
  PROVE  Ended(r) /\ inHand'[r] = objects
<1>1. CASE objects = Nothing BY <1>1, LeaveEnds DEF Delete
<1>2. CASE objects # Nothing
  BY <1>2, NothingTyped DEF Delete, Goto, TypeOK, RequestsTyped, Ended, Kept, Points
<1> QED BY <1>1, <1>2

(******************* What every step of a request keeps *******************)

\* What a step of r does to the objects, to the rows and to what r knows.
Change(r) ==
  /\ TypeOK' /\ Kept(r) /\ doubted \subseteq doubted'
  /\ \A o \in Objects :
       \/ object'[o] = object[o]
       \/ object[o] = "unused" /\ object'[o] = "stored"
       \/ pc[r] = "delete" /\ object'[o] = "deleted" /\ \E g \in Fields : inHand[r][g] = o
  /\ \A f \in Fields :
       refers'[f] \in {refers[f], None} \/ (pc[r] = "write" /\ refers'[f] = inHand[r][f])
  /\ \A f \in Fields : before'[r][f] # None =>
       /\ f \in fields'[r] /\ refers' = refers
       /\ before'[r][f] = refers[f] \/ before'[r][f] = before[r][f]
  /\ \A f \in Fields :
       \/ inHand'[r][f] \in {None, inHand[r][f], before[r][f]}
       \/ object[inHand'[r][f]] = "unused" /\ object'[inHand'[r][f]] = "stored"

LEMMA UnusedKept == ASSUME FilesInv, NEW r \in Requests, Change(r) PROVE Unused'
<1> SUFFICES ASSUME NEW o \in Objects, object'[o] = "unused", NEW f \in Fields
             PROVE  /\ refers'[f] # o
                    /\ \A q \in Requests : inHand'[q][f] # o /\ before'[q][f] # o
  BY DEF Unused
<1>1. object[o] = "unused" BY DEF Change
<1>2. /\ refers[f] # o
      /\ \A q \in Requests : inHand[q][f] # o /\ before[q][f] # o
  BY <1>1 DEF FilesInv, Unused
<1>3. refers'[f] # o BY <1>2, NoneAssumption DEF Change
<1>4. inHand'[r][f] # o /\ before'[r][f] # o
  BY <1>2, NoneAssumption DEF Change
<1> QED BY <1>2, <1>3, <1>4 DEF Change, Kept

LEMMA ApartKept == ASSUME FilesInv, NEW r \in Requests, Change(r) PROVE Apart'
<1> USE DEF FilesInv
<1>1. \A f \in Fields : pc[r] = "write" /\ inHand[r][f] # None => Own(r, f)
  BY DEF Stock, Working
<1>2. ASSUME NEW f \in Fields, NEW g \in Fields, refers'[f] = refers'[g], refers'[f] # None
      PROVE  f = g
  <2>1. refers'[f] = refers[f] \/ (pc[r] = "write" /\ refers'[f] = inHand[r][f])
    BY <1>2 DEF Change
  <2>2. refers'[g] = refers[g] \/ (pc[r] = "write" /\ refers'[g] = inHand[r][g])
    BY <1>2 DEF Change
  <2>3. CASE refers'[f] # refers[f]
    <3>1. Own(r, f) /\ refers'[f] = inHand[r][f] BY <1>1, <1>2, <2>1, <2>3
    <3>2. refers[g] # refers'[f] /\ (inHand[r][g] = refers'[f] => g = f) BY <3>1 DEF Own
    <3> QED BY <1>2, <2>2, <3>2
  <2>4. CASE refers'[g] # refers[g]
    <3>1. Own(r, g) /\ refers'[g] = inHand[r][g] BY <1>1, <1>2, <2>2, <2>4
    <3>2. refers[f] # refers'[g] /\ (inHand[r][f] = refers'[g] => f = g) BY <3>1 DEF Own
    <3> QED BY <1>2, <2>1, <3>2
  <2> QED BY <1>2, <2>3, <2>4 DEF Apart
<1>3. ASSUME NEW q \in Requests, NEW f \in Fields, NEW g \in Fields, before'[q][f] # None
      PROVE  f \in fields'[q] /\ (refers'[g] = before'[q][f] => g = f)
  <2>1. CASE q = r
    <3>1. /\ f \in fields'[r] /\ refers' = refers
          /\ before'[r][f] = refers[f] \/ before'[r][f] = before[r][f]
      BY <1>3, <2>1 DEF Change
    <3> QED BY <1>3, <2>1, <3>1 DEF Apart
  <2>2. CASE q # r
    <3>1. before'[q][f] = before[q][f] /\ fields'[q] = fields[q]
      BY <2>2 DEF Change, Kept
    <3>2. refers'[g] \in {refers[g], None} \/ (pc[r] = "write" /\ refers'[g] = inHand[r][g])
      BY DEF Change
    <3>3. inHand[r][g] # None /\ pc[r] = "write" => inHand[r][g] # before[q][f]
      BY <1>1 DEF Own
    <3> QED BY <1>3, <3>1, <3>2, <3>3 DEF Apart
  <2> QED BY <2>1, <2>2
<1> QED BY <1>2, <1>3 DEF Apart

\* Another request's objects stay its own.
LEMMA OthersOwn ==
  ASSUME FilesInv, NEW r \in Requests, Change(r), NEW q \in Requests \ {r}, NEW f \in Fields,
         pc'[q] \in Working, inHand'[q][f] # None
  PROVE  Own(q, f)'
<1> USE DEF FilesInv
<1>1. /\ pc[q] = pc'[q] /\ inHand'[q] = inHand[q] /\ fields'[q] = fields[q] /\ before'[q] = before[q]
  BY DEF Change, Kept
<1>2. Own(q, f) BY <1>1 DEF Stock
<1>3. PICK o \in Objects : o = inHand[q][f] BY <1>1 DEF TypeOK, References
<1>4. /\ f \in fields[q] /\ object[o] = "stored"
      /\ \A g \in Fields :
           /\ refers[g] # o
           /\ \A p \in Requests : before[p][g] # o /\ (inHand[p][g] = o => p = q /\ g = f)
  BY <1>2, <1>3 DEF Own
<1>5. object'[o] = "stored"
  <2>1. ~ \E g \in Fields : inHand[r][g] = o BY <1>4
  <2> QED BY <1>4, <2>1 DEF Change
<1>6. ASSUME NEW g \in Fields PROVE refers'[g] # o
  <2>1. inHand[r][g] # o BY <1>4
  <2> QED BY <1>4, <2>1, NoneAssumption DEF Change
<1>7. ASSUME NEW g \in Fields, NEW p \in Requests
      PROVE  before'[p][g] # o /\ (inHand'[p][g] = o => p = q /\ g = f)
  <2>1. CASE p = r
    <3>1. before'[r][g] # o BY <1>4, NoneAssumption DEF Change
    <3>2. inHand[r][g] # o /\ before[r][g] # o BY <1>4
    <3>3. inHand'[r][g] # o BY <1>4, <3>2, NoneAssumption DEF Change
    <3> QED BY <2>1, <3>1, <3>3
  <2>2. CASE p # r BY <1>4, <2>2 DEF Change, Kept
  <2> QED BY <2>1, <2>2
<1> QED BY <1>1, <1>3, <1>4, <1>5, <1>6, <1>7 DEF Own

LEMMA StockKept ==
  ASSUME FilesInv, NEW r \in Requests, Change(r),
         \A f \in Fields : pc'[r] \in Working /\ inHand'[r][f] # None => Own(r, f)'
  PROVE  Stock'
BY OthersOwn DEF Stock

LEMMA RemovedKept ==
  ASSUME FilesInv, NEW r \in Requests, Change(r),
         pc'[r] = "delete" => \A f, g \in Fields :
           inHand'[r][f] # None /\ refers'[g] = inHand'[r][f] => refers'[g] \in doubted'
  PROVE  Removed'
<1> USE DEF FilesInv
<1> SUFFICES ASSUME NEW q \in Requests \ {r}, NEW f \in Fields, NEW g \in Fields,
                    pc'[q] = "delete", inHand'[q][f] # None, refers'[g] = inHand'[q][f]
             PROVE  refers'[g] \in doubted'
  BY DEF Removed
<1>1. pc[q] = pc'[q] /\ inHand'[q] = inHand[q] BY DEF Change, Kept
<1>2. pc[r] = "write" /\ inHand[r][g] # None => Own(r, g) BY DEF Stock, Working
<1>3. refers'[g] = refers[g] BY <1>1, <1>2 DEF Change, Own
<1> QED BY <1>1, <1>3 DEF Removed, Change

LEMMA NoDanglingKept == ASSUME FilesInv, NEW r \in Requests, Change(r) PROVE NoDangling'
<1> USE DEF FilesInv
<1> SUFFICES ASSUME NEW f \in Fields, refers'[f] # None
             PROVE  object'[refers'[f]] = "stored" \/ refers'[f] \in doubted'
  BY DEF NoDangling
<1>1. CASE refers'[f] = refers[f]
  <2>1. PICK o \in Objects : o = refers[f] BY <1>1 DEF TypeOK, References
  <2>2. object[o] = "stored" \/ o \in doubted BY <2>1, <1>1 DEF NoDangling
  <2>3. CASE object'[o] = object[o] BY <1>1, <2>1, <2>2, <2>3 DEF Change
  <2>4. CASE object'[o] # object[o]
    <3>1. object[o] # "unused" BY <2>1 DEF Unused
    <3>2. pc[r] = "delete" /\ \E g \in Fields : inHand[r][g] = o BY <2>4, <3>1 DEF Change
    <3>3. o \in doubted BY <2>1, <3>2, NoneAssumption DEF Removed
    <3> QED BY <1>1, <2>1, <3>3 DEF Change
  <2> QED BY <2>3, <2>4
<1>2. CASE refers'[f] # refers[f]
  <2>1. pc[r] = "write" /\ refers'[f] = inHand[r][f] BY <1>2 DEF Change
  <2>2. Own(r, f) BY <2>1 DEF Stock, Working
  <2>3. inHand[r][f] \in Objects BY <2>1 DEF TypeOK, References
  <2> QED BY <2>1, <2>2, <2>3 DEF Own, Change
<1> QED BY <1>1, <1>2

\* Whom an object in storage belongs to, as far as r's step can change it.
Accounted(r, o) == o \in Held(refers) \/ o \in Held(inHand[r]) \/ o \in overtaken \cup lost

LEMMA OrphansKept ==
  ASSUME FilesInv, NEW r \in Requests, Change(r),
         overtaken \subseteq overtaken', lost \subseteq lost',
         \A o \in Objects : object'[o] = "stored" /\
           (object[o] # "stored" \/ o \in Held(refers) \/ o \in Held(inHand[r])) => Accounted(r, o)'
  PROVE  OrphansExplained'
<1> USE DEF FilesInv
<1> SUFFICES ASSUME NEW o \in Objects, object'[o] = "stored"
             PROVE  \/ o \in Held(refers')
                    \/ \E q \in Requests : o \in Held(inHand'[q])
                    \/ o \in overtaken' \cup lost'
  BY DEF OrphansExplained
<1>1. CASE Accounted(r, o)' BY <1>1 DEF Accounted
<1>2. CASE ~Accounted(r, o)'
  <2>1. object[o] = "stored" /\ o \notin Held(refers) /\ o \notin Held(inHand[r]) BY <1>2
  <2>2. \/ \E q \in Requests \ {r} : o \in Held(inHand[q])
        \/ o \in overtaken \cup lost
    BY <2>1 DEF OrphansExplained
  <2> QED BY <2>2 DEF Change, Kept
<1> QED BY <1>1, <1>2

\* What remains to be shown of a step.
LEMMA ChangeKeeps ==
  ASSUME FilesInv, NEW r \in Requests, Change(r),
         \A f \in Fields : pc'[r] \in Working /\ inHand'[r][f] # None => Own(r, f)',
         pc'[r] = "delete" => \A f, g \in Fields :
           inHand'[r][f] # None /\ refers'[g] = inHand'[r][f] => refers'[g] \in doubted',
         pc'[r] = "idle" => inHand'[r] = Nothing,
         overtaken \subseteq overtaken', lost \subseteq lost',
         \A o \in Objects : object'[o] = "stored" /\
           (object[o] # "stored" \/ o \in Held(refers) \/ o \in Held(inHand[r])) => Accounted(r, o)'
  PROVE  FilesInv'
<1>1. Unused' /\ Apart' /\ NoDangling' BY UnusedKept, ApartKept, NoDanglingKept
<1>2. Stock' BY StockKept
<1>3. Removed' BY RemovedKept
<1>4. OrphansExplained' BY OrphansKept
<1>5. Resting' BY DEF Resting, Change, Kept, FilesInv
<1> QED BY <1>1, <1>2, <1>3, <1>4, <1>5 DEF FilesInv, Change

(******************************** The steps ********************************)

\* A step that ends the work of r and leaves the rows.
LEMMA EndKeeps ==
  ASSUME FilesInv, NEW r \in Requests, Ended(r), UNCHANGED <<refers, overtaken, doubted>>,
         object' \in [Objects -> {"unused", "stored", "deleted"}], lost' \subseteq Objects,
         lost \subseteq lost', faults' \in Nat,
         pc[r] \in Working \cup {"delete"},
         \A f \in Fields : inHand'[r][f] \in {None, inHand[r][f]},
         \A o \in Objects :
           \/ object'[o] = object[o]
           \/ object[o] = "unused" /\ object'[o] = "stored" /\ o \in lost'
           \/ pc[r] = "delete" /\ object'[o] = "deleted" /\ \E g \in Fields : inHand[r][g] = o,
         \A o \in Held(inHand[r]) : o \in Held(inHand'[r]) \cup lost' \/ object'[o] = "deleted"
  PROVE  FilesInv'
<1> USE DEF FilesInv
<1>1. \A f \in Fields : before'[r][f] = None BY NothingTyped DEF Ended
<1>2. TypeOK' BY DEF Ended, RequestsTyped, TypeOK
<1>3. Change(r)
  <2>1. \A o \in Objects :
          \/ object'[o] = object[o]
          \/ object[o] = "unused" /\ object'[o] = "stored"
          \/ pc[r] = "delete" /\ object'[o] = "deleted" /\ \E g \in Fields : inHand[r][g] = o
    OBVIOUS
  <2>2. refers' = refers /\ doubted' = doubted OBVIOUS
  <2>3. \A f \in Fields : inHand'[r][f] \in {None, inHand[r][f], before[r][f]} OBVIOUS
  <2>4. Kept(r) BY DEF Ended
  <2> HIDE DEF FilesInv
  <2> QED BY ONLY <1>1, <1>2, <2>1, <2>2, <2>3, <2>4 DEF Change
<1>4. ASSUME NEW f \in Fields, NEW g \in Fields,
             inHand'[r][f] # None, refers'[g] = inHand'[r][f]
      PROVE  refers'[g] \in doubted'
  <2>1. inHand'[r][f] = inHand[r][f] BY <1>4
  <2>2. CASE pc[r] = "delete" BY <1>4, <2>1, <2>2 DEF Removed
  <2>3. CASE pc[r] \in Working
    <3>1. Own(r, f) BY <1>4, <2>1, <2>3 DEF Stock
    <3> QED BY <1>4, <2>1, <3>1 DEF Own
  <2> QED BY <2>2, <2>3
<1>5. ASSUME NEW o \in Objects, object'[o] = "stored",
             object[o] # "stored" \/ o \in Held(refers) \/ o \in Held(inHand[r])
      PROVE  Accounted(r, o)'
  BY <1>5 DEF Accounted
<1>6. pc'[r] \notin Working BY DEF Ended, Working
<1>7. pc'[r] = "idle" => inHand'[r] = Nothing BY DEF Ended
<1>8. overtaken \subseteq overtaken' OBVIOUS
<1> HIDE DEF FilesInv
<1> QED BY <1>3, <1>4, <1>5, <1>6, <1>7, <1>8, ChangeKeeps

LEMMA EnterKeeps ==
  ASSUME FilesInv, NEW r \in Requests, NEW k \in Kinds, NEW fs \in SUBSET Fields,
         NEW read \in References, Enter(r, k, fs, read),
         \A f \in Fields : read[f] # None => f \in fs /\ read[f] = refers[f]
  PROVE  FilesInv'
<1> USE DEF FilesInv
<1>1. /\ pc[r] = "idle" /\ pc'[r] = "upload" /\ fields'[r] = fs /\ before'[r] = read
      /\ UNCHANGED <<object, refers, inHand, overtaken, lost, doubted, faults>>
      /\ TypeOK' /\ Kept(r)
  BY DEF Enter, Goto, TypeOK, Kept, Points
<1>2. inHand[r] = Nothing /\ \A f \in Fields : inHand[r][f] = None
  BY <1>1, NothingTyped DEF Resting
<1>3. Change(r) BY <1>1 DEF Change
<1>4. \A f \in Fields : inHand'[r][f] = None BY <1>1, <1>2
<1>5. \A o \in Objects : o \in Held(refers) \/ o \in Held(inHand[r]) => Accounted(r, o)'
  BY <1>1 DEF Accounted
<1> HIDE DEF FilesInv
<1> QED BY <1>1, <1>3, <1>4, <1>5, ChangeKeeps

LEMMA StoreFileKeeps ==
  ASSUME FilesInv, NEW r \in Requests, NEW f \in Fields, NEW o \in Objects, StoreFile(r, f, o)
  PROVE  FilesInv'
<1> USE DEF FilesInv
<1>1. pc[r] = "upload" /\ object[o] = "unused" /\ f \in fields[r] /\ inHand[r][f] = None
  BY DEF StoreFile, CanUpload, Missing
<1>2. /\ pc'[r] \in Working /\ object'[o] = "stored" /\ inHand'[r][f] = o
      /\ \A x \in Objects \ {o} : object'[x] = object[x]
      /\ \A g \in Fields \ {f} : inHand'[r][g] = inHand[r][g]
      /\ UNCHANGED <<refers, kind, fields, before, overtaken, lost, doubted, faults>>
  BY DEF StoreFile, Goto, TypeOK, Working, References
<1>3. TypeOK' /\ Kept(r) BY DEF StoreFile, Goto, TypeOK, References, Kept, Points
<1>4. Change(r)
  <2>1. \A g \in Fields : before'[r][g] # None => g \in fields'[r] /\ before'[r][g] = before[r][g]
    BY <1>2 DEF Apart
  <2> QED BY <1>1, <1>2, <1>3, <2>1 DEF Change
<1>5. ASSUME NEW g \in Fields, inHand'[r][g] # None PROVE Own(r, g)'
  <2>1. /\ \A h \in Fields : refers[h] # o
        /\ \A h \in Fields, q \in Requests : inHand[q][h] # o /\ before[q][h] # o
    BY <1>1 DEF Unused
  <2>2. \A q \in Requests \ {r} : inHand'[q] = inHand[q] BY <1>3 DEF Kept
  <2>3. CASE g = f
    <3>1. \A h \in Fields, q \in Requests : inHand'[q][h] = o => q = r /\ h = f
      BY <1>2, <2>1, <2>2
    <3> QED BY <1>1, <1>2, <2>1, <2>3, <3>1 DEF Own
  <2>4. CASE g # f
    <3>1. inHand'[r][g] = inHand[r][g] /\ Own(r, g)
      BY <1>1, <1>2, <1>5, <2>4 DEF Stock, Working
    <3>2. inHand[r][g] \in Objects \ {o} BY <1>1, <1>2, <1>5, <2>4, <3>1 DEF TypeOK, References, Own
    <3>3. \A h \in Fields, q \in Requests : inHand'[q][h] = inHand[r][g] => q = r /\ h = g
      BY <1>2, <2>2, <3>1, <3>2 DEF Own
    <3> QED BY <1>2, <3>1, <3>2, <3>3 DEF Own
  <2> QED BY <2>3, <2>4
<1>6. ASSUME NEW x \in Objects, object[x] # "stored" \/ x \in Held(refers) \/ x \in Held(inHand[r]),
             object'[x] = "stored"
      PROVE  Accounted(r, x)'
  <2>1. CASE x = o
    <3>1. x \in Held(inHand'[r]) BY <1>2, <2>1, NoneAssumption DEF Held
    <3> QED BY <3>1 DEF Accounted
  <2>2. CASE x # o
    <3>1. x \in Held(refers) \/ x \in Held(inHand[r]) BY <1>2, <1>6, <2>2
    <3>2. CASE x \in Held(refers) BY <1>2, <3>2 DEF Accounted
    <3>3. CASE x \in Held(inHand[r])
      <4>1. PICK g \in Fields : inHand[r][g] = x /\ x # None BY <3>3 DEF Held
      <4>2. inHand'[r][g] = x BY <1>1, <1>2, <4>1
      <4>3. x \in Held(inHand'[r]) BY <4>1, <4>2 DEF Held
      <4> QED BY <4>3 DEF Accounted
    <3> QED BY <3>1, <3>2, <3>3
  <2> QED BY <2>1, <2>2
<1> HIDE DEF FilesInv
<1> QED BY <1>2, <1>4, <1>5, <1>6, ChangeKeeps DEF Working

LEMMA ReadAvatarKeeps ==
  ASSUME FilesInv, NEW r \in Requests, ReadAvatar(r)
  PROVE  FilesInv'
<1> USE DEF FilesInv
<1>1. /\ pc[r] = "read" /\ pc'[r] = "write"
      /\ \A f \in Fields : before'[r][f] = IF f \in fields[r] THEN refers[f] ELSE None
      /\ UNCHANGED <<object, refers, kind, fields, inHand, overtaken, lost, doubted, faults>>
  BY DEF ReadAvatar, Goto, Current, TypeOK
<1>2. TypeOK' /\ Kept(r)
  BY DEF ReadAvatar, Goto, Current, TypeOK, References, Kept, Points
<1>3. Change(r) BY <1>1, <1>2 DEF Change
<1>4. ASSUME NEW f \in Fields, inHand'[r][f] # None PROVE Own(r, f)'
  <2>1. Own(r, f) BY <1>1, <1>4 DEF Stock, Working
  <2>2. \A g \in Fields, q \in Requests : before'[q][g] # inHand[r][f]
    BY <1>1, <1>2, <1>4, <2>1 DEF Own, Kept
  <2> QED BY <1>1, <2>1, <2>2 DEF Own
<1>5. \A o \in Objects : o \in Held(refers) \/ o \in Held(inHand[r]) => Accounted(r, o)'
  BY <1>1 DEF Accounted
<1> HIDE DEF FilesInv
<1> QED BY <1>1, <1>3, <1>4, <1>5, ChangeKeeps

\* The write of the row: what it replaces is what r had read, or recorded as overtaken.
LEMMA WrittenEffect ==
  ASSUME FilesInv, NEW r \in Requests, Written(r), pc[r] = "write"
  PROVE  /\ refers' \in References /\ overtaken' \subseteq Objects /\ overtaken \subseteq overtaken'
         /\ \A f \in Fields : refers'[f] = IF f \in fields[r] THEN inHand[r][f] ELSE refers[f]
         /\ \A f \in Fields : refers[f] # None =>
              refers'[f] = refers[f] \/ refers[f] = before[r][f] \/ refers[f] \in overtaken'
         /\ Held(inHand[r]) \subseteq Held(refers')
<1> USE DEF FilesInv
<1>1. \A f \in Fields : refers'[f] = IF f \in fields[r] THEN inHand[r][f] ELSE refers[f]
  BY DEF Written
<1>2. refers' \in References BY DEF Written, TypeOK, References
<1>3. overtaken' \subseteq Objects /\ overtaken \subseteq overtaken'
  BY DEF Written, TypeOK, References
<1>4. ASSUME NEW f \in Fields, refers[f] # None, refers'[f] # refers[f], refers[f] # before[r][f]
      PROVE  refers[f] \in overtaken'
  <2>1. f \in {g \in fields[r] : refers[g] \notin {None, before[r][g]}}
    BY <1>1, <1>4
  <2> QED BY <2>1 DEF Written
<1>5. \A f \in Fields : inHand[r][f] # None => f \in fields[r]
  BY DEF Stock, Own, Working
<1>6. Held(inHand[r]) \subseteq Held(refers') BY <1>1, <1>5 DEF Held
<1> QED BY <1>1, <1>2, <1>3, <1>4, <1>6

\* After the write r has nothing, or goes on with what it had stored or read.
LEMMA WriteKeeps ==
  ASSUME FilesInv, NEW r \in Requests, pc[r] = "write", Written(r), Ended(r),
         object' = object, doubted' \subseteq Objects, doubted \subseteq doubted',
         lost' \subseteq Objects, lost \subseteq lost', faults' \in Nat,
         inHand'[r] \in {Nothing, inHand[r], before[r]},
         inHand'[r] = before[r] \/ Held(before[r]) \subseteq lost',
         inHand'[r] = before[r] \/ inHand'[r] = Nothing \/ Held(inHand[r]) \subseteq doubted'
  PROVE  FilesInv'
<1> USE DEF FilesInv
<1>1. /\ refers' \in References /\ overtaken' \subseteq Objects /\ overtaken \subseteq overtaken'
      /\ \A f \in Fields : refers'[f] = IF f \in fields[r] THEN inHand[r][f] ELSE refers[f]
      /\ \A f \in Fields : refers[f] # None =>
           refers'[f] = refers[f] \/ refers[f] = before[r][f] \/ refers[f] \in overtaken'
      /\ Held(inHand[r]) \subseteq Held(refers')
  BY WrittenEffect
<1>2. \A f \in Fields : before'[r][f] = None BY NothingTyped DEF Ended
<1>3. TypeOK' BY <1>1 DEF Ended, RequestsTyped, TypeOK
<1>4. \A f \in Fields : inHand'[r][f] \in {None, inHand[r][f], before[r][f]}
  BY NothingTyped
<1>5. Change(r) BY <1>1, <1>2, <1>3, <1>4 DEF Change, Ended
<1>6. ASSUME NEW f \in Fields, NEW g \in Fields,
             inHand'[r][f] # None, refers'[g] = inHand'[r][f]
      PROVE  refers'[g] \in doubted'
  <2>1. CASE inHand'[r] = before[r]
    <3>1. f \in fields[r] /\ (refers[g] = before[r][f] => g = f) BY <1>6, <2>1 DEF Apart
    <3>2. inHand[r][g] # None => inHand[r][g] # before[r][f] BY DEF Stock, Own, Working
    <3> QED BY <1>1, <1>6, <2>1, <3>1, <3>2
  <2>2. CASE inHand'[r] # before[r]
    <3>1. inHand'[r] = inHand[r] /\ Held(inHand[r]) \subseteq doubted' BY <1>6, <2>2, NothingTyped
    <3> QED BY <1>6, <3>1 DEF Held
  <2> QED BY <2>1, <2>2
<1>7. ASSUME NEW o \in Objects, object'[o] = "stored",
             object[o] # "stored" \/ o \in Held(refers) \/ o \in Held(inHand[r])
      PROVE  Accounted(r, o)'
  <2>1. CASE o \in Held(inHand[r]) BY <1>1, <2>1 DEF Accounted
  <2>2. CASE o \in Held(refers)
    <3>1. PICK f \in Fields : o = refers[f] /\ o # None BY <2>2 DEF Held
    <3>2. refers'[f] = o \/ o = before[r][f] \/ o \in overtaken' BY <1>1, <3>1
    <3>3. o = before[r][f] => o \in Held(before[r]) BY <3>1 DEF Held
    <3>4. o \in Held(before[r]) => o \in Held(inHand'[r]) \cup lost' OBVIOUS
    <3> QED BY <3>1, <3>2, <3>3, <3>4 DEF Accounted, Held
  <2> QED BY <1>7, <2>1, <2>2
<1>8. pc'[r] \notin Working BY DEF Ended, Working
<1>9. pc'[r] = "idle" => inHand'[r] = Nothing BY DEF Ended
<1> HIDE DEF FilesInv
<1> QED BY <1>1, <1>5, <1>6, <1>7, <1>8, <1>9, ChangeKeeps

LEMMA FilesStep == FilesInv /\ [Next]_vars => FilesInv'
<1> SUFFICES ASSUME FilesInv, [Next]_vars PROVE FilesInv' OBVIOUS
<1> TypeOK BY DEF FilesInv
<1>1. ASSUME NEW r \in Requests, NEW b \in Books, StoreBook(r, b) PROVE FilesInv'
  <2>1. Enter(r, "storeBook", {File(b), Cover(b)}, Nothing) BY <1>1 DEF StoreBook
  <2>2. {File(b), Cover(b)} \subseteq Fields BY DEF Fields
  <2> QED BY <2>1, <2>2, EnterKeeps, NothingTyped DEF Kinds
<1>2. ASSUME NEW r \in Requests, NEW b \in Books, NEW fs \in SUBSET {File(b), Cover(b)},
             UpdateBook(r, b, fs)
      PROVE  FilesInv'
  <2>1. Enter(r, "updateBook", fs, Current(fs)) BY <1>2 DEF UpdateBook
  <2>2. fs \subseteq Fields BY DEF Fields
  <2>3. Current(fs) \in References BY DEF Current, References, TypeOK
  <2>4. \A f \in Fields : Current(fs)[f] # None => f \in fs /\ Current(fs)[f] = refers[f]
    BY DEF Current
  <2> QED BY <2>1, <2>2, <2>3, <2>4, EnterKeeps DEF Kinds
<1>3. ASSUME NEW r \in Requests, NEW u \in Users, UpdateAvatar(r, u) PROVE FilesInv'
  <2>1. Enter(r, "updateAvatar", {Avatar(u)}, Nothing) BY <1>3 DEF UpdateAvatar
  <2>2. {Avatar(u)} \subseteq Fields BY DEF Fields
  <2> QED BY <2>1, <2>2, EnterKeeps, NothingTyped DEF Kinds
<1>4. ASSUME NEW r \in Requests, NEW f \in Fields, NEW o \in Objects, UploadLost(r, f, o)
      PROVE  FilesInv'
  <2>1. /\ pc[r] = "upload" /\ object[o] = "unused" /\ Delete(r, inHand[r])
        /\ UNCHANGED <<refers, overtaken, doubted>>
        /\ lost' = lost \cup {o} /\ object' = [object EXCEPT ![o] = "stored"]
        /\ faults' = faults + 1
    BY <1>4 DEF UploadLost, CanUpload
  <2>2. Ended(r) /\ inHand'[r] = inHand[r] BY <2>1, DeleteEnds DEF TypeOK
  <2>3. \A x \in Objects : object'[x] = object[x] \/ (x = o /\ object'[x] = "stored")
    BY <2>1 DEF TypeOK
  <2> QED BY <2>1, <2>2, <2>3, EndKeeps DEF TypeOK, Working
<1>5. ASSUME NEW r \in Requests, UploadFails(r) PROVE FilesInv'
  <2>1. Ended(r) /\ inHand'[r] = inHand[r] BY <1>5, DeleteEnds DEF UploadFails, TypeOK
  <2> QED BY <1>5, <2>1, EndKeeps DEF UploadFails, TypeOK, Working
<1>6. ASSUME NEW r \in Requests, NEW f \in Fields, DeleteFile(r, f) \/ DeleteFails(r, f)
      PROVE  FilesInv'
  <2> DEFINE rest == [inHand[r] EXCEPT ![f] = None]
  <2>1. pc[r] = "delete" /\ inHand[r][f] # None /\ Delete(r, rest)
    BY <1>6 DEF DeleteFile, DeleteFails, Dropped
  <2>2. inHand[r] \in References /\ rest \in References BY DEF TypeOK, References
  <2>3. Ended(r) /\ inHand'[r] = rest BY <2>1, <2>2, DeleteEnds
  <2>4. /\ inHand[r][f] \in Objects
        /\ \A g \in Fields : inHand'[r][g] = IF g = f THEN None ELSE inHand[r][g]
    BY <2>1, <2>2, <2>3 DEF References
  <2>5. \A o \in Held(inHand[r]) : o \in Held(inHand'[r]) \/ o = inHand[r][f]
    BY <2>4 DEF Held
  <2>6. CASE DeleteFile(r, f)
    <3>1. /\ object' = [object EXCEPT ![inHand[r][f]] = "deleted"]
          /\ UNCHANGED <<refers, overtaken, lost, doubted, faults>>
      BY <2>6 DEF DeleteFile
    <3>2. /\ object' \in [Objects -> {"unused", "stored", "deleted"}]
          /\ object'[inHand[r][f]] = "deleted"
          /\ \A o \in Objects : object'[o] = object[o]
                                \/ (object'[o] = "deleted" /\ o = inHand[r][f])
      BY <2>4, <3>1 DEF TypeOK
    <3>3. lost' \subseteq Objects /\ lost \subseteq lost' /\ faults' \in Nat BY <3>1 DEF TypeOK
    <3> QED BY <2>1, <2>3, <2>4, <2>5, <3>1, <3>2, <3>3, EndKeeps
  <2>7. CASE DeleteFails(r, f)
    <3>1. UNCHANGED <<object, refers, overtaken, doubted>> /\ lost' = lost \cup {inHand[r][f]}
      BY <2>7 DEF DeleteFails
    <3>2. /\ object' \in [Objects -> {"unused", "stored", "deleted"}]
          /\ lost' \subseteq Objects /\ lost \subseteq lost' /\ faults' \in Nat
      BY <2>4, <2>7, <3>1 DEF DeleteFails, TypeOK
    <3> QED BY <2>1, <2>3, <2>4, <2>5, <3>1, <3>2, EndKeeps
  <2> QED BY <1>6, <2>6, <2>7
<1>7. ASSUME NEW r \in Requests, Write(r) PROVE FilesInv'
  <2>1. Ended(r) /\ inHand'[r] = before[r] BY <1>7, DeleteEnds DEF Write, TypeOK
  <2> QED BY <1>7, <2>1, WriteKeeps DEF Write, TypeOK
<1>8. ASSUME NEW r \in Requests, WriteFails(r) PROVE FilesInv'
  <2>1. pc[r] = "write" /\ object' = object /\ faults' = faults + 1
    BY <1>8 DEF WriteFails
  <2>2. inHand[r] \in References /\ before[r] \in References BY DEF TypeOK
  <2>3. /\ Ended(r) /\ inHand'[r] \in {Nothing, inHand[r]}
        /\ kind[r] = "storeBook" => inHand'[r] = inHand[r]
    <3>1. CASE kind[r] = "storeBook" BY <1>8, <2>2, <3>1, DeleteEnds DEF WriteFails
    <3>2. CASE kind[r] # "storeBook" BY <1>8, <3>2, LeaveEnds DEF WriteFails
    <3> QED BY <3>1, <3>2
  <2>4. Held(inHand[r]) \subseteq Objects /\ Held(before[r]) \subseteq Objects
    BY <2>2 DEF Held, References
  <2>5. CASE /\ lost' = IF kind[r] = "storeBook" THEN lost ELSE lost \cup Held(inHand[r])
             /\ UNCHANGED <<refers, overtaken, doubted>>
    <3>1. lost' \subseteq Objects /\ lost \subseteq lost' BY <2>4, <2>5 DEF TypeOK
    <3>2. \A f \in Fields : inHand'[r][f] \in {None, inHand[r][f]} BY <2>3, NothingTyped
    <3>3. Held(inHand[r]) \subseteq Held(inHand'[r]) \cup lost' BY <2>3, <2>5
    <3>4. faults' \in Nat /\ object' \in [Objects -> {"unused", "stored", "deleted"}]
      BY <2>1 DEF TypeOK
    <3> QED BY <2>1, <2>3, <2>5, <3>1, <3>2, <3>3, <3>4, EndKeeps DEF Working
  <2>6. CASE /\ Written(r)
             /\ lost' = lost \cup Held(before[r])
             /\ doubted' = IF kind[r] = "storeBook" THEN doubted \cup Held(inHand[r]) ELSE doubted
    <3>1. lost' \subseteq Objects /\ lost \subseteq lost' /\ Held(before[r]) \subseteq lost'
      BY <2>4, <2>6 DEF TypeOK
    <3>2. doubted' \subseteq Objects /\ doubted \subseteq doubted' BY <2>4, <2>6 DEF TypeOK
    <3>3. inHand'[r] = Nothing \/ Held(inHand[r]) \subseteq doubted'
      <4>1. CASE kind[r] = "storeBook" BY <2>6, <4>1
      <4>2. CASE kind[r] # "storeBook" BY <1>8, <4>2, LeaveEnds DEF WriteFails
      <4> QED BY <4>1, <4>2
    <3>4. faults' \in Nat BY <2>1 DEF TypeOK
    <3> QED BY <2>1, <2>3, <2>6, <3>1, <3>2, <3>3, <3>4, WriteKeeps
  <2> QED BY <1>8, <2>5, <2>6 DEF WriteFails
<1>9. ASSUME NEW r \in Requests, Die(r) PROVE FilesInv'
  <2>1. /\ pc[r] \in Working \cup {"delete"} /\ UNCHANGED <<object, refers, overtaken, doubted>>
        /\ lost' = lost \cup Held(inHand[r]) /\ faults' = faults + 1
    BY <1>9 DEF Die, TypeOK, Points, Working
  <2>2. Ended(r) /\ \A f \in Fields : inHand'[r][f] = None
    BY <1>9, LeaveEnds, NothingTyped DEF Die
  <2>3. Held(inHand[r]) \subseteq Objects BY DEF Held, References, TypeOK
  <2>4. /\ lost' \subseteq Objects /\ lost \subseteq lost' /\ faults' \in Nat
        /\ object' \in [Objects -> {"unused", "stored", "deleted"}]
    BY <2>1, <2>3 DEF TypeOK
  <2> QED BY <2>1, <2>2, <2>4, EndKeeps
<1>10. CASE UNCHANGED vars
  BY <1>10 DEF vars, requestVars, FilesInv, TypeOK, Unused, Stock, Own, Apart, Removed, Resting,
               NoDangling, OrphansExplained
<1> QED
  BY <1>1, <1>2, <1>3, <1>4, <1>5, <1>6, <1>7, <1>8, <1>9, <1>10, StoreFileKeeps, ReadAvatarKeeps
  DEF Next

LEMMA FilesAlways == Spec => []FilesInv
BY FilesInit, FilesStep, PTL DEF Spec

\* Every variable of Files stays in its type.
THEOREM FilesTyped == Spec => []TypeOK
<1>1. FilesInv => TypeOK BY DEF FilesInv
<1> QED BY <1>1, FilesAlways, PTL

\* The file, cover or avatar a row names is in storage, whatever updates interleave
\* and fail in BooksService and UsersService, but for a book whose creation was
\* reported as failed after it had taken place.
THEOREM FilesNoDangling == Spec => []NoDangling
<1>1. FilesInv => NoDangling BY DEF FilesInv
<1> QED BY <1>1, FilesAlways, PTL

\* An object stays in storage that nobody refers to and nobody is at work on only
\* after a fault, or after two requests that both read the row before either wrote it.
THEOREM FilesOrphansExplained == Spec => []OrphansExplained
<1>1. FilesInv => OrphansExplained BY DEF FilesInv
<1> QED BY <1>1, FilesAlways, PTL
=====
