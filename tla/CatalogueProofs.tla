----------------------------- MODULE CatalogueProofs -----------------------------
(*********************************************************************************)
(* What holds of Catalogue whatever the admins, the requests and the bounds.  The *)
(* inductive invariant says of every request what its read has established: a     *)
(* writer that deletes or updates has seen a book that was not deleted, one that  *)
(* restores a book that its user deleted, a reader for the public a visible book. *)
(*********************************************************************************)
EXTENDS Catalogue, TLAPS

\* A request about to write, and what it read.
Writer(r) ==
  /\ op[r] \in {"deleteBook", "updateBook", "restoreBook"}
  /\ who[r] \in Admins \cup {Author}
  /\ seen[r] \in Row
  /\ op[r] # "restoreBook" => seen[r].deletedBy = None
  /\ op[r] = "restoreBook" => who[r] \in Admins \/ seen[r].deletedBy = who[r]
Writers == \A r \in Requests : pc[r] = "write" => Writer(r)

\* A request about to store, and what it read.
Readers ==
  \A r \in Requests :
    /\ pc[r] \in {"load", "fill"} => op[r] \in Keys
    /\ pc[r] = "fill" => seen[r] \in Row
    /\ pc[r] = "fill" /\ op[r] = "id" /\ who[r] \notin Admins => seen[r].deletedBy = None

\* Only an admin's read stores a deleted book.
Stored == cache["id"] # None /\ ~byAdmin => cache["id"].deletedBy = None

Pending == \E r \in Requests : pc[r] = "invalidate"

Inv == TypeOK /\ Writers /\ Readers /\ Stored /\ PublicServed

(************************************ Types ************************************)

LEMMA AnswerTyped ==
  ASSUME row \in Row, NEW k
  PROVE  Answer(k) \in Row /\ (k = "id" => Answer(k) = row)
BY ListsAssumption DEF Answer, Row, Absent, BookStatus

\* A request that enters at a point reached after reading a book, or nothing.
LEMMA EnterTyped ==
  ASSUME TypeOK, NEW r \in Requests, NEW point \in Points, NEW o \in Ops,
         NEW w \in People, NEW book \in Row \cup {None}, Enter(r, point, o, w, book)
  PROVE  /\ pc' \in [Requests -> Points]
         /\ op' \in [Requests -> Ops \cup {None}]
         /\ who' \in [Requests -> People \cup {None}]
         /\ seen' \in [Requests -> Row \cup {None}]
BY DEF TypeOK, Enter

LEMMA LeaveTyped ==
  ASSUME TypeOK, NEW r \in Requests, Leave(r) \/ ToInvalidate(r)
  PROVE  /\ pc' \in [Requests -> Points]
         /\ op' \in [Requests -> Ops \cup {None}]
         /\ who' \in [Requests -> People \cup {None}]
         /\ seen' \in [Requests -> Row \cup {None}]
BY DEF TypeOK, Leave, ToInvalidate, Points

LEMMA PutTyped ==
  ASSUME TypeOK, NEW k \in Keys, NEW book \in Row \cup {None}, NEW b \in BOOLEAN, NEW w,
         Put(k, book, b, w)
  PROVE  cache' \in [Keys -> Row \cup {None}] /\ late' \in BOOLEAN /\ byAdmin' \in BOOLEAN
<1>1. cache' \in [Keys -> Row \cup {None}]
  BY DEF TypeOK, Put
<1>2. late' \in BOOLEAN
  BY DEF TypeOK, Put
<1>3. byAdmin' \in BOOLEAN
  <2>1. CASE k = "id"
    BY <2>1 DEF Put
  <2>2. CASE k # "id"
    BY <2>2 DEF TypeOK, Put
  <2> QED BY <2>1, <2>2
<1> QED BY <1>1, <1>2, <1>3

\* The row after the write of a request, or of a review.
LEMMA ChangedTyped ==
  ASSUME TypeOK, NEW new \in Row, Changed(new)
  PROVE  row' \in Row /\ writes' \in Nat
BY DEF TypeOK, Changed

LEMMA WrittenTyped ==
  ASSUME row \in Row, NEW o \in {"deleteBook", "updateBook", "restoreBook"},
         NEW w \in Admins \cup {Author}
  PROVE  Written(o, w) \in Row
<1>1. CASE o = "deleteBook"
  BY <1>1 DEF Written, Row
<1>2. CASE o = "updateBook"
  BY <1>2 DEF Written, Row
<1>3. CASE o = "restoreBook"
  BY <1>3 DEF Written, Row
<1> QED BY <1>1, <1>2, <1>3

\* The book an update of the status, and perhaps of the content, leaves.
LEMMA ReviewedTyped ==
  ASSUME row \in Row, NEW status \in BookStatus
  PROVE  /\ [row EXCEPT !.status = status] \in Row
         /\ [row EXCEPT !.version = @ + 1, !.status = status] \in Row
<1>1. [row EXCEPT !.status = status] \in Row
  BY DEF Row
<1>2. [row EXCEPT !.version = @ + 1] \in Row
  BY DEF Row
<1>3. [[row EXCEPT !.version = @ + 1] EXCEPT !.status = status] \in Row
  BY <1>2 DEF Row
<1> QED BY <1>1, <1>3 DEF Row

LEMMA ReviewsAre ==
  ASSUME NEW r \in Requests, ReviewBook(r) \/ AdminUpdateBook(r), row \in Row
  PROVE  \E new \in Row : Review(r, new)
BY ReviewedTyped DEF ReviewBook, AdminUpdateBook, BookStatus

LEMMA TypeStep ==
  ASSUME TypeOK, Writers, Readers, [Next]_vars
  PROVE  TypeOK'
<1> USE DEF cacheVars, requestVars
<1>1. CASE UNCHANGED vars
  BY <1>1 DEF TypeOK, vars
<1>2. ASSUME NEW r \in Requests, NEW k \in Keys, NEW w \in People, Get(r, k, w)
      PROVE  TypeOK'
  BY <1>2, EnterTyped DEF Get, TypeOK, Points, Ops
<1>3. ASSUME NEW r \in Requests, Load(r)
      PROVE  TypeOK'
  <2>1. CASE Leave(r) /\ UNCHANGED <<row, cacheVars, writes, faults>>
    BY <2>1, LeaveTyped DEF TypeOK
  <2>2. CASE /\ seen' = [seen EXCEPT ![r] = Answer(op[r])]
             /\ pc' = [pc EXCEPT ![r] = "fill"]
             /\ UNCHANGED <<op, who, row, cacheVars, writes, faults>>
    BY <2>2, AnswerTyped DEF TypeOK, Points
  <2> QED BY <1>3, <2>1, <2>2 DEF Load
<1>4. ASSUME NEW r \in Requests, Fill(r)
      PROVE  TypeOK'
  <2>1. op[r] \in Keys /\ seen[r] \in Row /\ Overtaken(r) \in BOOLEAN
    BY <1>4 DEF Fill, Readers, Overtaken
  <2> QED BY <1>4, <2>1, PutTyped, LeaveTyped DEF Fill, TypeOK
<1>5. ASSUME NEW r \in Requests, NEW o \in Ops, FindAuthorBook(r, o)
      PROVE  TypeOK'
  BY <1>5, EnterTyped DEF FindAuthorBook, TypeOK, Points, Ops, People
<1>6. ASSUME NEW r \in Requests, NEW w \in Admins \cup {Author}, FindDeleted(r, w)
      PROVE  TypeOK'
  BY <1>6, EnterTyped DEF FindDeleted, TypeOK, Points, Ops, People
<1>7. ASSUME NEW r \in Requests, Write(r)
      PROVE  TypeOK'
  BY <1>7, WrittenTyped, ChangedTyped, LeaveTyped DEF Write, Writers, Writer, TypeOK
<1>8. ASSUME NEW r \in Requests, ReviewBook(r) \/ AdminUpdateBook(r)
      PROVE  TypeOK'
  BY <1>8, ReviewsAre, ChangedTyped, LeaveTyped DEF Review, TypeOK
<1>9. ASSUME NEW r \in Requests, Invalidate(r)
      PROVE  TypeOK'
  BY <1>9, PutTyped, LeaveTyped DEF Invalidate, TypeOK, Keys
<1>10. ASSUME NEW r \in Requests, Fail(r)
       PROVE  TypeOK'
  <2>1. late' \in BOOLEAN
    BY <1>10 DEF Fail, TypeOK
  <2> QED BY <1>10, <2>1, LeaveTyped DEF Fail, TypeOK
<1>11. ASSUME NEW a \in Admins, BanBook(a)
       PROVE  TypeOK'
  <2>1. [row EXCEPT !.deletedBy = a] \in Row
    BY DEF TypeOK, Row
  <2> QED BY <1>11, <2>1, ChangedTyped DEF BanBook, TypeOK
<1>12. ASSUME NEW k \in Keys, Expire(k)
       PROVE  TypeOK'
  BY <1>12, PutTyped DEF Expire, TypeOK
<1> QED
  BY <1>1, <1>2, <1>3, <1>4, <1>5, <1>6, <1>7, <1>8, <1>9, <1>10, <1>11, <1>12 DEF Next

(****************************** Inductive invariant ******************************)

\* A step of one request tells nothing new of another.
Untouched(r) ==
  /\ pc'[r] = pc[r] /\ op'[r] = op[r] /\ who'[r] = who[r] /\ seen'[r] = seen[r]

LEMMA Others ==
  ASSUME TypeOK, NEW r \in Requests, NEW q \in Requests \ {r},
         \/ Leave(r) \/ ToInvalidate(r)
         \/ \E point \in Points, o \in Ops, w \in People, book \in Row \cup {None} :
              Enter(r, point, o, w, book)
  PROVE  Untouched(q)
BY DEF TypeOK, Leave, ToInvalidate, Enter, Untouched

\* What a request knows is kept while it waits.
LEMMA Waiting ==
  ASSUME Writers, Readers, NEW q \in Requests, Untouched(q)
  PROVE  /\ pc'[q] = "write" => Writer(q)'
         /\ pc'[q] \in {"load", "fill"} => op'[q] \in Keys
         /\ pc'[q] = "fill" => seen'[q] \in Row
         /\ pc'[q] = "fill" /\ op'[q] = "id" /\ who'[q] \notin Admins
              => seen'[q].deletedBy = None
BY DEF Untouched, Writers, Writer, Readers

LEMMA KnownStep ==
  ASSUME TypeOK, Writers, Readers, [Next]_vars
  PROVE  Writers' /\ Readers'
<1> USE DEF cacheVars, requestVars
<1> DEFINE Known(q) ==
      /\ pc'[q] = "write" => Writer(q)'
      /\ pc'[q] \in {"load", "fill"} => op'[q] \in Keys
      /\ pc'[q] = "fill" => seen'[q] \in Row
      /\ pc'[q] = "fill" /\ op'[q] = "id" /\ who'[q] \notin Admins
           => seen'[q].deletedBy = None
<1> SUFFICES ASSUME NEW q \in Requests
             PROVE  Known(q)
  BY DEF Writers, Readers
<1>0. Untouched(q) => Known(q)
  BY Waiting
<1>1. CASE UNCHANGED requestVars
  BY <1>0, <1>1 DEF Untouched
<1>2. ASSUME NEW r \in Requests, NEW k \in Keys, NEW w \in People, Get(r, k, w)
      PROVE  Known(q)
  <2>1. CASE q = r
    BY <1>2, <2>1 DEF Get, Enter, TypeOK
  <2>2. CASE q # r
    BY <1>0, <1>2, <2>2, Others DEF Get, Points, Ops
  <2> QED BY <2>1, <2>2
<1>3. ASSUME NEW r \in Requests, Load(r)
      PROVE  Known(q)
  <2>1. CASE Leave(r)
    <3>1. CASE q = r
      BY <2>1, <3>1 DEF Leave, TypeOK
    <3>2. CASE q # r
      BY <1>0, <2>1, <3>2, Others
    <3> QED BY <3>1, <3>2
  <2>2. CASE /\ ~(op[r] = "id" /\ row.deletedBy # None /\ who[r] \notin Admins)
             /\ seen' = [seen EXCEPT ![r] = Answer(op[r])]
             /\ pc' = [pc EXCEPT ![r] = "fill"]
             /\ UNCHANGED <<op, who>>
    <3>1. CASE q = r
      BY <1>3, <2>2, <3>1, AnswerTyped DEF Load, Readers, TypeOK
    <3>2. CASE q # r
      BY <1>0, <2>2, <3>2 DEF TypeOK, Untouched
    <3> QED BY <3>1, <3>2
  <2> QED BY <1>3, <2>1, <2>2 DEF Load
<1>4. ASSUME NEW r \in Requests, Leave(r) \/ ToInvalidate(r)
      PROVE  Known(q)
  <2>1. CASE q = r
    BY <1>4, <2>1 DEF Leave, ToInvalidate, TypeOK
  <2>2. CASE q # r
    BY <1>0, <1>4, <2>2, Others
  <2> QED BY <2>1, <2>2
<1>5. ASSUME NEW r \in Requests, NEW o \in Ops, FindAuthorBook(r, o)
      PROVE  Known(q)
  <2>1. CASE q = r
    BY <1>5, <2>1 DEF FindAuthorBook, Enter, TypeOK, Writer
  <2>2. CASE q # r
    BY <1>0, <1>5, <2>2, Others DEF FindAuthorBook, Points, People, TypeOK
  <2> QED BY <2>1, <2>2
<1>6. ASSUME NEW r \in Requests, NEW w \in Admins \cup {Author}, FindDeleted(r, w)
      PROVE  Known(q)
  <2>1. CASE q = r
    BY <1>6, <2>1 DEF FindDeleted, Enter, TypeOK, Writer
  <2>2. CASE q # r
    BY <1>0, <1>6, <2>2, Others DEF FindDeleted, Points, People, Ops, TypeOK
  <2> QED BY <2>1, <2>2
<1>7. CASE UNCHANGED vars
  BY <1>1, <1>7 DEF vars
<1> QED
  BY <1>1, <1>2, <1>3, <1>4, <1>5, <1>6, <1>7
     DEF Next, Fill, Write, ReviewBook, AdminUpdateBook, Review, Invalidate, Fail, BanBook, Expire

\* A change of the row by a request leaves the request with the key to delete.
LEMMA ChangeServed ==
  ASSUME TypeOK, NEW r \in Requests, ToInvalidate(r)
  PROVE  Pending'
BY DEF TypeOK, ToInvalidate, Pending

\* Whoever has a key to delete still has it after the step of another.
LEMMA PendingKept ==
  ASSUME TypeOK, Pending, NEW r \in Requests, pc[r] # "invalidate",
         \A q \in Requests \ {r} : pc'[q] = pc[q]
  PROVE  Pending'
BY DEF Pending

LEMMA ServedStep ==
  ASSUME TypeOK, Readers, Stored, PublicServed, [Next]_vars
  PROVE  Stored' /\ PublicServed'
<1> USE DEF cacheVars, requestVars
<1>0. PublicServed <=> (cache["id"] # None =>
                          \/ cache["id"] = row /\ (row.deletedBy = None \/ byAdmin)
                          \/ late \/ row.deletedBy \in Admins \/ Pending)
  BY DEF PublicServed, Pending
<1>00. PublicServed' <=> (cache'["id"] # None =>
                            \/ cache'["id"] = row' /\ (row'.deletedBy = None \/ byAdmin')
                            \/ late' \/ row'.deletedBy \in Admins \/ Pending')
  BY DEF PublicServed, Pending
<1>1. CASE UNCHANGED vars
  BY <1>1 DEF vars, Stored, PublicServed
<1>2. ASSUME NEW r \in Requests, pc[r] # "invalidate",
             \A q \in Requests \ {r} : pc'[q] = pc[q], UNCHANGED <<row, cacheVars>>
      PROVE  Stored' /\ PublicServed'
  BY <1>0, <1>00, <1>2, PendingKept DEF Stored
<1>3. ASSUME NEW r \in Requests,
             \/ \E k \in Keys, w \in People : Get(r, k, w)
             \/ Load(r)
             \/ \E o \in Ops : FindAuthorBook(r, o)
             \/ \E w \in Admins \cup {Author} : FindDeleted(r, w)
      PROVE  Stored' /\ PublicServed'
  BY <1>2, <1>3 DEF Get, Load, FindAuthorBook, FindDeleted, Enter, Leave, TypeOK
<1>4. ASSUME NEW r \in Requests, Fill(r)
      PROVE  Stored' /\ PublicServed'
  <2>1. CASE op[r] = "id"
    <3>1. cache'["id"] = seen[r] /\ late' = Overtaken(r) /\ byAdmin' = (who[r] \in Admins)
      BY <1>4, <2>1 DEF Fill, Put, TypeOK, Keys
    <3>2. Stored'
      BY <1>4, <2>1, <3>1 DEF Fill, Readers, Stored
    <3>3. ~late' => cache'["id"] = row'
      BY <1>4, <2>1, <3>1, AnswerTyped DEF Fill, Overtaken, TypeOK
    <3> QED BY <1>00, <3>2, <3>3 DEF Stored
  <2>2. CASE op[r] # "id"
    <3>1. cache'["id"] = cache["id"] /\ late' = late /\ byAdmin' = byAdmin /\ row' = row
      BY <1>4, <2>2 DEF Fill, Put, TypeOK, Keys
    <3>2. Pending => Pending'
      BY <1>4, PendingKept DEF Fill, Leave, TypeOK
    <3> QED BY <1>0, <1>00, <3>1, <3>2 DEF Stored
  <2> QED BY <2>1, <2>2
<1>5. ASSUME NEW r \in Requests, ToInvalidate(r), UNCHANGED cacheVars
      PROVE  Stored' /\ PublicServed'
  BY <1>00, <1>5, ChangeServed DEF Stored
<1>6. ASSUME NEW r \in Requests, Invalidate(r)
      PROVE  Stored' /\ PublicServed'
  BY <1>00, <1>6 DEF Invalidate, Put, TypeOK, Keys, Stored
<1>7. ASSUME NEW r \in Requests, Fail(r)
      PROVE  Stored' /\ PublicServed'
  <2>1. CASE pc[r] = "invalidate" /\ cache["id"] # None
    BY <1>00, <1>7, <2>1 DEF Fail, Stored
  <2>2. CASE pc[r] = "invalidate" /\ cache["id"] = None
    BY <1>00, <1>7, <2>2 DEF Fail, Stored
  <2>3. CASE pc[r] # "invalidate"
    <3>1. late' = late
      BY <1>7, <2>3 DEF Fail, TypeOK
    <3>2. \A q \in Requests \ {r} : pc'[q] = pc[q]
      BY <1>7 DEF Fail, Leave, TypeOK
    <3> QED BY <1>2, <1>7, <2>3, <3>1, <3>2 DEF Fail
  <2> QED BY <2>1, <2>2, <2>3
<1>8. ASSUME NEW a \in Admins, BanBook(a)
      PROVE  Stored' /\ PublicServed'
  <2>1. row'.deletedBy = a
    BY <1>8 DEF BanBook, Changed, TypeOK, Row
  <2> QED BY <1>00, <1>8, <2>1 DEF BanBook, Stored
<1>9. ASSUME NEW k \in Keys, Expire(k)
      PROVE  Stored' /\ PublicServed'
  <2>1. CASE k = "id"
    BY <1>00, <1>9, <2>1 DEF Expire, Put, TypeOK, Stored
  <2>2. CASE k # "id"
    <3>1. cache'["id"] = cache["id"] /\ UNCHANGED <<late, byAdmin, row>>
      BY <1>9, <2>2 DEF Expire, Put, TypeOK, Keys
    <3>2. Pending' <=> Pending
      BY <1>9 DEF Expire, Pending
    <3> QED BY <1>0, <1>00, <3>1, <3>2 DEF Stored
  <2> QED BY <2>1, <2>2
<1> QED
  BY <1>1, <1>3, <1>4, <1>5, <1>6, <1>7, <1>8, <1>9
     DEF Next, Write, ReviewBook, AdminUpdateBook, Review

(*********************************** Theorems ***********************************)

LEMMA InvInit == Init => Inv
<1> SUFFICES ASSUME Init PROVE Inv
  OBVIOUS
<1>1. row \in Row
  BY DEF Init, Row, BookStatus
<1>2. TypeOK
  BY <1>1 DEF Init, TypeOK, Points
<1> QED BY <1>2 DEF Init, Inv, Writers, Readers, Stored, PublicServed, Keys

LEMMA InvAlways == Spec => []Inv
<1>1. Inv /\ [Next]_vars => Inv'
  BY TypeStep, KnownStep, ServedStep DEF Inv
<1> QED BY InvInit, <1>1, PTL DEF Spec

\* The row, the copies in Redis and what requests hold have their types, whatever
\* interleaves.
THEOREM CatalogueTyped == Spec => []TypeOK
<1>1. Inv => TypeOK
  BY DEF Inv
<1> QED BY <1>1, InvAlways, PTL

\* What the public is served under the key of a book is the book as it is, but for the
\* gaps PublicServed names.
THEOREM CataloguePublicServed == Spec => []PublicServed
<1>1. Inv => PublicServed
  BY DEF Inv
<1> QED BY <1>1, InvAlways, PTL

LEMMA BanStep ==
  ASSUME Inv, [Next]_vars, row.deletedBy \in Admins, row'.deletedBy \notin Admins
  PROVE  \E r \in Requests :
           /\ pc[r] = "write" /\ pc'[r] = "invalidate"
           /\ op[r] \in {"deleteBook", "restoreBook"}
           /\ who[r] \in Admins \/ seen[r].deletedBy \notin Admins
<1> USE DEF cacheVars, requestVars
<1>1. PICK r \in Requests : Write(r)
  <2>1. ASSUME NEW new, Changed(new), NEW status,
               \/ new = [row EXCEPT !.status = status]
               \/ new = [row EXCEPT !.version = @ + 1, !.status = status]
        PROVE  FALSE
    BY <2>1 DEF Changed, Inv, TypeOK, Row
  <2>2. ASSUME NEW a \in Admins, BanBook(a)
        PROVE  FALSE
    BY <2>2 DEF BanBook, Changed, Inv, TypeOK, Row
  <2> QED
    BY <2>1, <2>2
       DEF Next, vars, Get, Load, Fill, FindAuthorBook, FindDeleted, ReviewBook,
           AdminUpdateBook, Review, Invalidate, Fail, Expire
<1>2. pc[r] = "write" /\ pc'[r] = "invalidate" /\ Writer(r)
  BY <1>1 DEF Write, ToInvalidate, Inv, TypeOK, Writers
<1>3. row' = Written(op[r], who[r])
  BY <1>1 DEF Write, Changed
<1>4. op[r] # "updateBook"
  BY <1>3 DEF Written, Inv, TypeOK, Row
<1>5. who[r] \in Admins \/ seen[r].deletedBy \notin Admins
  BY <1>2, <1>4, PeopleAssumption DEF Writer
<1> QED BY <1>2, <1>4, <1>5 DEF Writer

\* A ban is undone only by an admin, or by a request of the author that had read the book
\* before the ban.
THEOREM CatalogueBanHolds == Spec => BanHolds
<1>1. Inv /\ [Next]_vars =>
        (row.deletedBy \in Admins /\ row'.deletedBy \notin Admins =>
           \E r \in Requests :
             /\ pc[r] = "write" /\ pc'[r] = "invalidate"
             /\ op[r] \in {"deleteBook", "restoreBook"}
             /\ who[r] \in Admins \/ seen[r].deletedBy \notin Admins)
  BY BanStep
<1> QED BY <1>1, InvAlways, PTL DEF Spec, BanHolds

=================================================================================
