-------------------------------- MODULE Catalogue --------------------------------
(*********************************************************************************)
(* One book of the catalogue: its row, and the copies Redis has of it, under the *)
(* key of the book and in the cached lists.  The author deletes, updates and     *)
(* restores it, admins ban, review, edit and restore it, and everybody reads it. *)
(* A request's calls of the database and of Redis are its steps; requests        *)
(* interleave.  What an update writes is abstracted to a version number.         *)
(*********************************************************************************)
EXTENDS Naturals

CONSTANTS
  Author, Admins, Public, \* who asks: the author, admins, anybody else
  Lists, \* the cached lists: the one of the public, that of admins
  Requests, None,
  MaxWrites, \* bound: changes of the row
  MaxFaults  \* bound: requests that fail or die half-way

ASSUME PeopleAssumption ==
  /\ Author \notin Admins /\ Public \notin Admins /\ None \notin Admins
  /\ Author # Public /\ Author # None
ASSUME ListsAssumption == Lists \subseteq {"public", "admin"}
ASSUME BoundsAssumption == MaxWrites \in Nat /\ MaxFaults \in Nat

VARIABLES
  row,    \* the book: version, deletedBy (isDeleted is deletedBy # None), status
  cache,  \* what Redis has under each key, or None
  late, byAdmin, \* history of the copy under the key of the book: was it out of date when
                 \* it was stored, or its invalidation lost; did an admin's read store it?
  pc, op, who, seen, \* each request's control point, operation, user, what it read
  writes, faults

requestVars == <<pc, op, who, seen>>
cacheVars == <<cache, late, byAdmin>>
vars == <<row, cacheVars, requestVars, writes, faults>>

\* books:id:<id>, and books:list:<filters> for the filters of the public and of admins.
Keys == {"id"} \cup Lists
BookStatus == {"PENDING_APPROVAL", "APPROVED", "REJECTED"}
People == Admins \cup {Author, Public}
Row == [version : Nat, deletedBy : Admins \cup {Author, None}, status : BookStatus]
\* Not in the list.
Absent == [version |-> 0, deletedBy |-> None, status |-> "REJECTED"]

Points == {"idle", "load", "fill", "write", "invalidate"}
Ops == Keys \cup {"deleteBook", "updateBook", "restoreBook"}

Init ==
  /\ row = [version |-> 1, deletedBy |-> None, status |-> "PENDING_APPROVAL"]
  /\ cache = [k \in Keys |-> None] /\ late = FALSE /\ byAdmin = FALSE
  /\ pc = [r \in Requests |-> "idle"]
  /\ op = [r \in Requests |-> None]
  /\ who = [r \in Requests |-> None]
  /\ seen = [r \in Requests |-> None]
  /\ writes = 0 /\ faults = 0

Leave(r) ==
  /\ pc' = [pc EXCEPT ![r] = "idle"]
  /\ op' = [op EXCEPT ![r] = None]
  /\ who' = [who EXCEPT ![r] = None]
  /\ seen' = [seen EXCEPT ![r] = None]

Enter(r, point, o, w, book) ==
  /\ pc[r] = "idle"
  /\ pc' = [pc EXCEPT ![r] = point]
  /\ op' = [op EXCEPT ![r] = o]
  /\ who' = [who EXCEPT ![r] = w]
  /\ seen' = [seen EXCEPT ![r] = book]

(************************** findBookById and getBooks **************************)

Listed(k) == k = "admin" \/ (row.deletedBy = None /\ row.status = "APPROVED")

\* What the database answers to a read that fills key k.
Answer(k) == IF k \in Lists /\ ~Listed(k) THEN Absent ELSE row

\* A book that is cached is answered at once.  The author reads like the public.
Get(r, k, w) ==
  /\ w = Public \/ w \in Admins
  /\ k \in Lists => (w \in Admins <=> k = "admin")
  /\ cache[k] = None
  /\ Enter(r, "load", k, w, None)
  /\ UNCHANGED <<row, cacheVars, writes, faults>>

\* Only an admin finds a deleted book by its id.
Load(r) ==
  /\ pc[r] = "load"
  /\ IF op[r] = "id" /\ row.deletedBy # None /\ who[r] \notin Admins
     THEN Leave(r)
     ELSE /\ seen' = [seen EXCEPT ![r] = Answer(op[r])]
          /\ pc' = [pc EXCEPT ![r] = "fill"]
          /\ UNCHANGED <<op, who>>
  /\ UNCHANGED <<row, cacheVars, writes, faults>>

\* Is what r read no longer what the database would answer?
Overtaken(r) == seen[r] # Answer(op[r])

\* One key of Redis is set, to what a request of w read or to None.
Put(k, book, outOfDate, w) ==
  /\ cache' = [cache EXCEPT ![k] = book]
  /\ late' = IF k = "id" THEN outOfDate ELSE late
  /\ byAdmin' = IF k = "id" THEN w \in Admins ELSE byAdmin

Fill(r) ==
  /\ pc[r] = "fill"
  /\ Put(op[r], seen[r], Overtaken(r), who[r])
  /\ Leave(r)
  /\ UNCHANGED <<row, writes, faults>>

(******************** deleteBook, updateBook and restoreBook ********************)

\* The author's own book that is not deleted (findAuthorBookById).
FindAuthorBook(r, o) ==
  /\ o \in {"deleteBook", "updateBook"}
  /\ row.deletedBy = None
  /\ Enter(r, "write", o, Author, row)
  /\ UNCHANGED <<row, cacheVars, writes, faults>>

\* A deleted book, by an admin or by the one who deleted it.
FindDeleted(r, w) ==
  /\ row.deletedBy # None
  /\ w \in Admins \/ w = row.deletedBy
  /\ Enter(r, "write", "restoreBook", w, row)
  /\ UNCHANGED <<row, cacheVars, writes, faults>>

\* The fields an operation of w writes; the others keep the value of now.
Written(o, w) ==
  CASE o = "deleteBook" -> [row EXCEPT !.deletedBy = w]
    [] o = "updateBook" -> [row EXCEPT !.version = @ + 1]
    [] o = "restoreBook" -> [row EXCEPT !.deletedBy = None]

\* What is left of a request is the deletion of the key of the book.
ToInvalidate(r) ==
  /\ pc' = [pc EXCEPT ![r] = "invalidate"]
  /\ op' = [op EXCEPT ![r] = None]
  /\ who' = [who EXCEPT ![r] = None]
  /\ seen' = [seen EXCEPT ![r] = None]

Changed(new) ==
  /\ writes < MaxWrites
  /\ writes' = writes + 1
  /\ row' = new

\* Variant: the fields read earlier are written back.
WriteBack(r) ==
  /\ pc[r] = "write"
  /\ Changed([seen[r] EXCEPT !.version = @ + 1])
  /\ ToInvalidate(r)
  /\ UNCHANGED <<cacheVars, faults>>
Write(r) ==
  /\ pc[r] = "write"
  /\ Changed(Written(op[r], who[r]))
  /\ ToInvalidate(r)
  /\ UNCHANGED <<cacheVars, faults>>

(****************************** Decisions of admins ******************************)

\* A ban leaves the cache as it is.
BanBook(a) ==
  /\ Changed([row EXCEPT !.deletedBy = a])
  /\ UNCHANGED <<cacheVars, requestVars, faults>>

\* Variant: the cache keeps what it has.
ReviewOnly(r, new) ==
  /\ pc[r] = "idle"
  /\ Changed(new)
  /\ UNCHANGED <<cacheVars, requestVars, faults>>
\* reviewBook sets a decision, adminUpdateBook any field of its own, the status included.
Review(r, new) ==
  /\ pc[r] = "idle"
  /\ Changed(new)
  /\ ToInvalidate(r)
  /\ UNCHANGED <<cacheVars, faults>>

ReviewBook(r) ==
  \E status \in {"APPROVED", "REJECTED"} : Review(r, [row EXCEPT !.status = status])
AdminUpdateBook(r) ==
  \E status \in BookStatus :
    Review(r, [row EXCEPT !.version = @ + 1, !.status = status])

(**************************** Invalidation and expiry ****************************)

\* Only the key of the book is deleted; lists wait for their time to live.
Invalidate(r) ==
  /\ pc[r] = "invalidate"
  /\ Put("id", None, FALSE, None)
  /\ Leave(r)
  /\ UNCHANGED <<row, writes, faults>>

\* Variant: what is cached under the key of a book has no time to live.
ExpireLists(k) ==
  /\ cache[k] # None /\ k \in Lists
  /\ Put(k, None, FALSE, None)
  /\ UNCHANGED <<row, requestVars, writes, faults>>
Expire(k) ==
  /\ cache[k] # None
  /\ Put(k, None, FALSE, None)
  /\ UNCHANGED <<row, requestVars, writes, faults>>

\* A call fails, or the process stops: the request ends where it is.  A deletion of the
\* key that is lost leaves the copy there.
Fail(r) ==
  /\ pc[r] # "idle" /\ faults < MaxFaults
  /\ faults' = faults + 1
  /\ late' = (late \/ (pc[r] = "invalidate" /\ cache["id"] # None))
  /\ Leave(r)
  /\ UNCHANGED <<row, cache, byAdmin, writes>>

Next ==
  \/ \E r \in Requests :
       \/ \E k \in Keys, w \in People : Get(r, k, w)
       \/ Load(r) \/ Fill(r)
       \/ \E o \in Ops : FindAuthorBook(r, o)
       \/ \E w \in Admins \cup {Author} : FindDeleted(r, w)
       \/ Write(r)
       \/ ReviewBook(r) \/ AdminUpdateBook(r)
       \/ Invalidate(r)
       \/ Fail(r)
  \/ \E a \in Admins : BanBook(a)
  \/ \E k \in Keys : Expire(k)

\* A request under way goes on (the event loop starves no callback, and the database and
\* Redis answer or fail); Redis expires every key that has a time to live.
Fairness ==
  /\ \A r \in Requests :
       WF_vars(Load(r)) /\ WF_vars(Fill(r)) /\ WF_vars(Write(r)) /\ WF_vars(Invalidate(r))
  /\ \A k \in Keys : WF_vars(Expire(k))

Spec == Init /\ [][Next]_vars /\ Fairness

(********************************** Properties **********************************)

TypeOK ==
  /\ row \in Row /\ writes \in Nat /\ faults \in Nat
  /\ cache \in [Keys -> Row \cup {None}] /\ late \in BOOLEAN /\ byAdmin \in BOOLEAN
  /\ pc \in [Requests -> Points]
  /\ op \in [Requests -> Ops \cup {None}]
  /\ who \in [Requests -> People \cup {None}]
  /\ seen \in [Requests -> Row \cup {None}]

\* A ban is lifted, or taken over by another deletion, only by an admin, or by a deletion
\* or restoration of the author that had read the book before the ban: no other sequence
\* of deletions, updates and restorations of the author undoes it (restoreBook: "It may have been deleted
\* by an administrator").
BanHolds ==
  [][row.deletedBy \in Admins /\ row'.deletedBy \notin Admins =>
       \E r \in Requests :
         /\ pc[r] = "write" /\ pc'[r] = "invalidate"
         /\ op[r] \in {"deleteBook", "restoreBook"}
         /\ who[r] \in Admins \/ seen[r].deletedBy \notin Admins]_vars

\* What the key of the book answers to the public is the book as it is now, and not
\* deleted, but for the gaps of the code: a copy that was stored after the change it
\* misses (or whose invalidation was lost), a change whose invalidation is still to come,
\* a ban, which invalidates nothing, and a deleted book that an admin has looked at.
PublicServed ==
  cache["id"] # None =>
    \/ cache["id"] = row /\ (row.deletedBy = None \/ byAdmin)
    \/ late
    \/ row.deletedBy \in Admins
    \/ \E r \in Requests : pc[r] = "invalidate"

\* After the last change every cached copy, of the book and of the lists, is the book as
\* it is or is gone, and stays so: the time to live repairs what no deletion of a key does.
CacheSettles == <>[](\A k \in Keys : cache[k] # None => cache[k] = Answer(k))
=================================================================================
