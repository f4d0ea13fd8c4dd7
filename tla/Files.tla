---------------------------------- MODULE Files ----------------------------------
(*********************************************************************************)
(* Uploaded files and the rows that refer to them.  A book's row has the key of   *)
(* its file and the address of its cover, a user's the address of the avatar.  A  *)
(* request stores objects, writes the row, and deletes what it replaced, or what  *)
(* it stored when a later step fails.  Each call of storage or of the database is *)
(* a step; requests interleave, fail and die.  An object's key is a fresh ULID.   *)
(*********************************************************************************)
EXTENDS Naturals

CONSTANTS
  Books, Users, Objects, Requests, None,
  MaxFaults \* bound: failed calls and dead requests

ASSUME NoneAssumption == None \notin Objects
ASSUME BoundsAssumption == MaxFaults \in Nat

VARIABLES
  object, \* each object of the buckets: "unused", "stored" or "deleted"
  refers, \* the object each field of a row refers to, or None
  pc, kind, fields, \* each request's control point, operation and fields to write
  inHand, \* what a request has stored and not written yet, or is to delete, per field
  before, \* what the fields referred to when the request read the row
  overtaken, \* history: objects replaced by a request that had read the row before them
  lost,      \* history: objects a fault left to nobody
  doubted,   \* history: objects of a new row whose creation was reported as failed
  faults

requestVars == <<pc, kind, fields, inHand, before>>
vars == <<object, refers, requestVars, overtaken, lost, doubted, faults>>

\* The fields of rows that refer to an object.
File(b) == <<b, "bookURL">>
Cover(b) == <<b, "bookCoverURL">>
Avatar(u) == <<u, "avatarURL">>
Fields == {File(b) : b \in Books} \cup {Cover(b) : b \in Books} \cup {Avatar(u) : u \in Users}
References == [Fields -> Objects \cup {None}]
Nothing == [f \in Fields |-> None]

Kinds == {"storeBook", "updateBook", "updateAvatar"}
Points == {"idle", "upload", "read", "write", "delete"}

Init ==
  /\ object = [o \in Objects |-> "unused"]
  /\ refers = Nothing
  /\ pc = [r \in Requests |-> "idle"]
  /\ kind = [r \in Requests |-> None]
  /\ fields = [r \in Requests |-> {}]
  /\ inHand = [r \in Requests |-> Nothing]
  /\ before = [r \in Requests |-> Nothing]
  /\ overtaken = {} /\ lost = {} /\ doubted = {} /\ faults = 0

Goto(r, point) == pc' = [pc EXCEPT ![r] = point]

Leave(r) ==
  /\ Goto(r, "idle")
  /\ kind' = [kind EXCEPT ![r] = None]
  /\ fields' = [fields EXCEPT ![r] = {}]
  /\ inHand' = [inHand EXCEPT ![r] = Nothing]
  /\ before' = [before EXCEPT ![r] = Nothing]

\* r goes on to delete a set of objects, or has none to delete.
Delete(r, objects) ==
  IF objects = Nothing THEN Leave(r)
  ELSE /\ Goto(r, "delete")
       /\ inHand' = [inHand EXCEPT ![r] = objects]
       /\ before' = [before EXCEPT ![r] = Nothing]
       /\ UNCHANGED <<kind, fields>>

Held(references) == {references[f] : f \in Fields} \ {None}

\* What the fields of fs refer to now.
Current(fs) == [f \in Fields |-> IF f \in fs THEN refers[f] ELSE None]

(************************************ Requests ************************************)

Enter(r, k, fs, read) ==
  /\ pc[r] = "idle"
  /\ Goto(r, "upload")
  /\ kind' = [kind EXCEPT ![r] = k]
  /\ fields' = [fields EXCEPT ![r] = fs]
  /\ before' = [before EXCEPT ![r] = read]
  /\ UNCHANGED <<object, refers, inHand, overtaken, lost, doubted, faults>>

\* A new row, for a title that no book has; its fields are nobody else's.
StoreBook(r, b) ==
  /\ refers[File(b)] = None
  /\ \A q \in Requests : File(b) \notin fields[q]
  /\ Enter(r, "storeBook", {File(b), Cover(b)}, Nothing)

\* The author sends a new file, a new cover or both; the row is read before the uploads.
UpdateBook(r, b, fs) ==
  /\ refers[File(b)] # None
  /\ fs # {} /\ fs \subseteq {File(b), Cover(b)}
  /\ Enter(r, "updateBook", fs, Current(fs))

UpdateAvatar(r, u) == Enter(r, "updateAvatar", {Avatar(u)}, Nothing)

(************************************ Uploads ************************************)

\* r stores its files one by one, the file of a book before its cover.
Missing(r) == {f \in fields[r] : inHand[r][f] = None}
CanUpload(r, f, o) ==
  /\ pc[r] = "upload" /\ object[o] = "unused"
  /\ f \in Missing(r)
  /\ \A b \in Books : f = Cover(b) => File(b) \notin Missing(r)

StoreFile(r, f, o) ==
  /\ CanUpload(r, f, o)
  /\ object' = [object EXCEPT ![o] = "stored"]
  /\ inHand' = [inHand EXCEPT ![r][f] = o]
  /\ Goto(r, IF Missing(r) # {f} THEN "upload"
             ELSE IF kind[r] = "updateAvatar" THEN "read" ELSE "write")
  /\ UNCHANGED <<refers, kind, fields, before, overtaken, lost, doubted, faults>>

\* An image is refused, or storage fails: what was stored is deleted.
UploadFails(r) ==
  /\ pc[r] = "upload"
  /\ Delete(r, inHand[r])
  /\ UNCHANGED <<object, refers, overtaken, lost, doubted, faults>>

\* Storage fails for r, but has the object.
UploadLost(r, f, o) ==
  /\ CanUpload(r, f, o) /\ faults < MaxFaults
  /\ faults' = faults + 1
  /\ object' = [object EXCEPT ![o] = "stored"]
  /\ lost' = lost \cup {o}
  /\ Delete(r, inHand[r])
  /\ UNCHANGED <<refers, overtaken, doubted>>

\* The avatar is read after the new one is stored.
ReadAvatar(r) ==
  /\ pc[r] = "read"
  /\ before' = [before EXCEPT ![r] = Current(fields[r])]
  /\ Goto(r, "write")
  /\ UNCHANGED <<object, refers, kind, fields, inHand, overtaken, lost, doubted, faults>>

(****************************** The write of the row ******************************)

Written(r) ==
  /\ refers' = [f \in Fields |-> IF f \in fields[r] THEN inHand[r][f] ELSE refers[f]]
  /\ overtaken' = overtaken \cup
       {refers[f] : f \in {g \in fields[r] : refers[g] \notin {None, before[r][g]}}}

\* Variant: what is deleted is what the row refers to after the write.
WriteThenRead(r) ==
  /\ pc[r] = "write"
  /\ Written(r)
  /\ Delete(r, IF kind[r] = "updateAvatar" THEN inHand[r] ELSE before[r])
  /\ UNCHANGED <<object, lost, doubted, faults>>
\* Variant: only the file of a book is deleted after an update.
WriteKeepCover(r) ==
  /\ pc[r] = "write"
  /\ Written(r)
  /\ Delete(r, [f \in Fields |-> IF \E b \in Books : f = Cover(b) THEN None ELSE before[r][f]])
  /\ UNCHANGED <<object, lost, doubted, faults>>
\* What was there when r read is then deleted.
Write(r) ==
  /\ pc[r] = "write"
  /\ Written(r)
  /\ Delete(r, before[r])
  /\ UNCHANGED <<object, lost, doubted, faults>>

\* The database fails, with or without the write.  The files of a new book are deleted
\* then, those of an update or of an avatar are not.
WriteFails(r) ==
  /\ pc[r] = "write" /\ faults < MaxFaults
  /\ faults' = faults + 1
  /\ IF kind[r] = "storeBook" THEN Delete(r, inHand[r]) ELSE Leave(r)
  /\ \/ /\ lost' = IF kind[r] = "storeBook" THEN lost ELSE lost \cup Held(inHand[r])
        /\ UNCHANGED <<refers, overtaken, doubted>>
     \/ /\ Written(r)
        /\ lost' = lost \cup Held(before[r])
        /\ doubted' = IF kind[r] = "storeBook" THEN doubted \cup Held(inHand[r]) ELSE doubted
  /\ UNCHANGED object

(************************************ Deletions ************************************)

Dropped(r, f) ==
  /\ pc[r] = "delete" /\ inHand[r][f] # None
  /\ Delete(r, [inHand[r] EXCEPT ![f] = None])

\* Deleting an object again does nothing.
DeleteFile(r, f) ==
  /\ Dropped(r, f)
  /\ object' = [object EXCEPT ![inHand[r][f]] = "deleted"]
  /\ UNCHANGED <<refers, overtaken, lost, doubted, faults>>

\* StorageService logs a failed deletion and goes on.
DeleteFails(r, f) ==
  /\ Dropped(r, f) /\ faults < MaxFaults
  /\ faults' = faults + 1
  /\ lost' = lost \cup {inHand[r][f]}
  /\ UNCHANGED <<object, refers, overtaken, doubted>>

\* The process stops: what the request has in hand is nobody's.
Die(r) ==
  /\ pc[r] # "idle" /\ faults < MaxFaults
  /\ faults' = faults + 1
  /\ lost' = lost \cup Held(inHand[r])
  /\ Leave(r)
  /\ UNCHANGED <<object, refers, overtaken, doubted>>

Next ==
  \E r \in Requests :
    \/ \E b \in Books :
         StoreBook(r, b) \/ \E fs \in SUBSET {File(b), Cover(b)} : UpdateBook(r, b, fs)
    \/ \E u \in Users : UpdateAvatar(r, u)
    \/ \E f \in Fields :
         \/ \E o \in Objects : StoreFile(r, f, o) \/ UploadLost(r, f, o)
         \/ DeleteFile(r, f) \/ DeleteFails(r, f)
    \/ UploadFails(r) \/ ReadAvatar(r)
    \/ Write(r) \/ WriteFails(r)
    \/ Die(r)

Spec == Init /\ [][Next]_vars

(********************************** Properties **********************************)

TypeOK ==
  /\ object \in [Objects -> {"unused", "stored", "deleted"}]
  /\ refers \in References
  /\ pc \in [Requests -> Points]
  /\ kind \in [Requests -> Kinds \cup {None}]
  /\ fields \in [Requests -> SUBSET Fields]
  /\ inHand \in [Requests -> References] /\ before \in [Requests -> References]
  /\ overtaken \subseteq Objects /\ lost \subseteq Objects /\ doubted \subseteq Objects
  /\ faults \in Nat

\* Whatever updates interleave and fail, the file, cover or avatar of a row is in storage:
\* no request deletes what another has put there.  The exception is a book whose creation
\* is reported as failed after it took place: its files are rolled back under it.
NoDangling ==
  \A f \in Fields : refers[f] # None => object[refers[f]] = "stored" \/ refers[f] \in doubted

\* Storage keeps no object that no row refers to and no request is at work on, but for two
\* reasons: a fault (updateAvatar: "Removes the previous avatar so it doesn't orphan"), or
\* two requests that both read the row before either wrote it: the second does not know of
\* what the first has put there.
OrphansExplained ==
  \A o \in Objects : object[o] = "stored" =>
    \/ o \in Held(refers)
    \/ \E r \in Requests : o \in Held(inHand[r])
    \/ o \in overtaken \cup lost
=================================================================================
