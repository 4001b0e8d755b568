------------------------------- MODULE Documents -------------------------------
(***************************************************************************)
(* A firm's documents: the storage counter on the tenant row, the document *)
(* rows, the objects in the store and the trail, which three systems hold  *)
(* and one request changes; and a screen that keeps copies of the lists.   *)
(*                                                                         *)
(* A request resolves its principal, plan limit included, in a transaction *)
(* of its own and does its work in the next one.  reserveStorage leaves    *)
(* the tenant row locked, so that the write to the object store happens    *)
(* under that lock; what a transaction wrote becomes visible in the action *)
(* that commits it.                                                        *)
(***************************************************************************)
EXTENDS Integers, FiniteSets

CONSTANTS Member,     \* those who ask
          Screen,     \* the one of them whose screen is modelled
          NoMember,   \* holder of an unlocked row
          Doc,        \* identities of documents
          Size,       \* sizes of files
          Limit,      \* values limits.storageBytes can have
          NoLimit,    \* the key is absent from plan.limits
          Category, Unclassified,
          None,       \* no document, no category, no dialog, ...
          MaxEntries  \* bound: entries about withdrawals, restores and categories

Lists == {"documents", "documents-withdrawn", "firm-documents"}

ASSUME DocumentsAssumption ==
  /\ Screen \in Member /\ NoMember \notin Member
  /\ Size \subseteq Nat \ {0} /\ Limit \subseteq Nat /\ NoLimit \notin Nat
  /\ Unclassified \in Category /\ None \notin Doc \cup Category /\ None \notin Lists
  /\ MaxEntries \in Nat

VARIABLES used,      \* tenant.storage_bytes_used
          limit,     \* storageBytes in the limits of the firm's plan
          granted,   \* history: the limits the firm had
          file,      \* the row of each document: its status, size and category
          objects,   \* keys the object store holds
          retired,   \* categories that are retired
          told,      \* the youngest entry about each document's status and about its category
          entries,   \* clock_timestamp(), counted in those entries
          holder,    \* the request holding the tenant row's lock
          docHolder, \* the request holding each document's row lock
          call,      \* what each member's request does
          place,     \* the list the screen shows
          dialog,    \* the dialog open over it
          followed,  \* the list whose copy is followed
          copy       \* that copy

firmVars == <<used, limit, granted>>
docVars == <<file, objects, retired, told, entries>>
lockVars == <<holder, docHolder>>
screenVars == <<place, dialog, followed, copy>>
vars == <<firmVars, docVars, lockVars, call, screenVars>>

Idle == [phase |-> "idle"]
Uploads == {"upload", "upload-from-firm"}
NoFile == [status |-> "none", size |-> 0, category |-> None]

Init ==
  /\ used = 0 /\ limit \in Limit /\ granted = {limit}
  /\ file = [d \in Doc |-> NoFile] /\ objects = {} /\ retired = {}
  /\ told = [d \in Doc |-> [status |-> <<0, "active">>, category |-> <<0, None>>]] /\ entries = 0
  /\ holder = NoMember /\ docHolder = [d \in Doc |-> NoMember]
  /\ call = [m \in Member |-> Idle]
  /\ place \in {None, "documents"} /\ dialog = None
  /\ followed \in IF place = None THEN {"documents"} ELSE Lists
  /\ copy = [fetch |-> IF followed = place THEN "asked" ELSE "none", has |-> FALSE,
             held |-> "nothing", coming |-> "nothing", joined |-> FALSE]

Fits(n, l) == l # NoLimit => n <= l

Stored == {d \in Doc : file[d].status # "none"}

-----------------------------------------------------------------------------
\* A request is sent: the principal is resolved, with the limit of the firm's plan.

Request(op, d, size, category) ==
  [phase |-> "resolved", op |-> op, doc |-> d, size |-> size, category |-> category,
   quota |-> limit, stamp |-> 0]

Sends(m, request) == call[m] = Idle /\ call' = [call EXCEPT ![m] = request]

Ask(m) ==
  /\ m = Screen => place = None
  /\ \/ \E s \in Size : Sends(m, Request("upload", None, s, None))
     \/ \E d \in Stored, op \in {"withdraw", "restore"} : Sends(m, Request(op, d, 0, None))
     \/ \E d \in Stored, k \in Category : Sends(m, Request("categorize", d, 0, k))
  /\ UNCHANGED <<firmVars, docVars, lockVars, screenVars>>

\* Commit and rollback alike release the locks and forget the request.
Releases(m) ==
  /\ docHolder' = [d \in Doc |-> IF docHolder[d] = m THEN NoMember ELSE docHolder[d]]
  /\ holder' = IF holder = m THEN NoMember ELSE holder

\* The screen is yet to have its answer.
Answered(m, phase) ==
  call' = [call EXCEPT ![m] = IF m = Screen /\ place # None
                              THEN [phase |-> phase, op |-> @.op, doc |-> @.doc] ELSE Idle]

Ended(m) == Releases(m) /\ call' = [call EXCEPT ![m] = Idle]

\* A refusal is told to whoever asked; the screen's dialog stays, and what it showed.
Refuse(m) == Ended(m) /\ UNCHANGED <<firmVars, docVars, screenVars>>

At(m, phase) == call[m].phase = phase
Becomes(m, phase) == call' = [call EXCEPT ![m].phase = phase]

-----------------------------------------------------------------------------
\* Uploads.

\* The category asked for, or the default one if it was not asked for one.
LookCategory(m) ==
  /\ At(m, "resolved") /\ call[m].op \in Uploads
  /\ LET k == IF call[m].category = None THEN Unclassified ELSE call[m].category
     IN  \/ /\ k \notin retired
            /\ call' = [call EXCEPT ![m].phase = "reserve", ![m].category = k]
            /\ UNCHANGED <<firmVars, docVars, lockVars, screenVars>>
         \/ k \in retired /\ Refuse(m)

\* A fresh randomUUID() names neither a row nor an object nor another upload.
Fresh(d) ==
  /\ file[d].status = "none" /\ d \notin objects
  /\ \A m \in Member : call[m].phase \in {"put", "commit"} => call[m].doc # d

\* Mutant: the limit is checked before the row's lock is waited for.
WithoutWaiting(m) == TRUE

\* The tenant row's lock can be granted to m.
RowFree(m) == holder \in {m, NoMember}

\* reserveStorage's conditional UPDATE, then the INSERT of the document.
Reserve(m) ==
  /\ At(m, "reserve") /\ RowFree(m)
  /\ Fits(used + call[m].size, call[m].quota)
  /\ holder' = m
  /\ \E d \in Doc : Fresh(d) /\ call' = [call EXCEPT ![m].phase = "put", ![m].doc = d]
  /\ UNCHANGED <<firmVars, docVars, docHolder, screenVars>>

\* No row updated: LimitReached.
OverLimit(m) == At(m, "reserve") /\ RowFree(m) /\ ~Fits(used + call[m].size, call[m].quota) /\ Refuse(m)

PutSucceeds(m) ==
  /\ At(m, "put")
  /\ objects' = objects \cup {call[m].doc}
  /\ Becomes(m, "commit")
  /\ UNCHANGED <<firmVars, file, retired, told, entries, lockVars, screenVars>>

\* Mutant: the error of put() is logged and swallowed.
PutErrorSwallowed(m) ==
  At(m, "put") /\ Becomes(m, "commit") /\ UNCHANGED <<firmVars, docVars, lockVars, screenVars>>

\* Mutant: the reservation was committed before put() was called.
PutFailsReserved(m) ==
  /\ At(m, "put")
  /\ used' = used + call[m].size
  /\ Ended(m)
  /\ UNCHANGED <<limit, granted, docVars, screenVars>>

\* put() rejects, though the object may have been written.  Whatever becomes of
\* rollbackReservation's two statements, which run in the same transaction, the
\* error is thrown again and the transaction rolls back.
PutFails(m) ==
  /\ At(m, "put")
  /\ objects' \in {objects, objects \cup {call[m].doc}}
  /\ Ended(m)
  /\ UNCHANGED <<firmVars, file, retired, told, entries, screenVars>>

-----------------------------------------------------------------------------
\* withdraw, restore and changeCategory read the row first, and then write it, whatever it
\* has become.

Status == [withdraw |-> "withdrawn", restore |-> "active"]

Changes == {"withdraw", "restore", "categorize"}

Look(m) ==
  /\ At(m, "resolved") /\ call[m].op \in Changes
  /\ LET row == file[call[m].doc]
         same == call[m].op # "categorize" /\ row.status = Status[call[m].op]
         gone == call[m].op = "categorize" /\ call[m].category \in retired
     IN  IF gone THEN Refuse(m)
         ELSE IF same THEN Releases(m) /\ Answered(m, "refused") /\ UNCHANGED <<firmVars, docVars, screenVars>>
         ELSE /\ Becomes(m, "update")
              /\ UNCHANGED <<firmVars, docVars, lockVars, screenVars>>

\* Mutant: the document's row is not held until the entry is appended.
DocAlwaysFree(m, d) == TRUE

\* The document row's lock can be granted to m.
DocFree(m, d) == docHolder[d] \in {m, NoMember}

\* UPDATE document ... WHERE id, which waits for the row and keeps it.
Update(m) ==
  /\ At(m, "update") /\ DocFree(m, call[m].doc)
  /\ docHolder' = [docHolder EXCEPT ![call[m].doc] = m]
  /\ Becomes(m, "append")
  /\ UNCHANGED <<firmVars, docVars, holder, screenVars>>

\* The audit interceptor's INSERT: occurred_at DEFAULT clock_timestamp().
Append(m) ==
  /\ At(m, "append") /\ entries < MaxEntries
  /\ entries' = entries + 1
  /\ call' = [call EXCEPT ![m].phase = "commit", ![m].stamp = entries + 1]
  /\ UNCHANGED <<firmVars, file, objects, retired, told, lockVars, screenVars>>

\* The lists that show a change: a matter's and the firm's have the active documents, with
\* their categories, another one the withdrawn ones.
Showing(c) ==
  IF c.op \in DOMAIN Status THEN Lists
  ELSE IF c.op = "categorize" /\ file[c.doc].status = "withdrawn" THEN {"documents-withdrawn"}
  ELSE {"documents", "firm-documents"}

\* What the screen has read, or is reading, lacks what it has written and not heard of yet.
Lacking(lack) == IF lack = "heard" THEN lack ELSE "unheard"

Overtaken(m) ==
  copy' = IF m # Screen \/ followed \notin Showing(call[m]) THEN copy
          ELSE [copy EXCEPT !.held = Lacking(@), !.coming = Lacking(@)]

\* The audit entry is appended and the transaction commits.
CommitUpload(m) ==
  /\ At(m, "commit") /\ call[m].op \in Uploads
  /\ used' = used + call[m].size
  /\ file' = [file EXCEPT ![call[m].doc] =
                [status |-> "active", size |-> call[m].size, category |-> call[m].category]]
  /\ Releases(m) /\ Answered(m, "answered") /\ Overtaken(m)
  /\ UNCHANGED <<limit, granted, objects, retired, told, entries, place, dialog, followed>>

\* The youngest of two entries.
Younger(entry, other) == IF entry[1] > other[1] THEN entry ELSE other

\* The row and its entry become visible together.
CommitChange(m) ==
  /\ At(m, "commit") /\ call[m].op \in Changes
  /\ LET c == call[m]
         field == IF c.op = "categorize" THEN "category" ELSE "status"
         value == IF c.op = "categorize" THEN c.category ELSE Status[c.op]
     IN  /\ file' = [file EXCEPT ![c.doc][field] = value]
         /\ told' = [told EXCEPT ![c.doc][field] = Younger(<<c.stamp, value>>, @)]
  /\ Releases(m) /\ Answered(m, "answered") /\ Overtaken(m)
  /\ UNCHANGED <<firmVars, objects, retired, entries, place, dialog, followed>>

\* The connection or the process dies: nothing was visible but the object.
Abort(m) == call[m].phase \notin {"idle", "answered", "refused"} /\ Refuse(m)

-----------------------------------------------------------------------------
\* The platform's operations.  ChangePlan compares the two plans' limits, which the caller's
\* acknowledgement overrides, and never the bytes in use.  Its UPDATE waits for the tenant
\* row, ConfigureLimits touches another one.
LimitBecomes(l) == limit' = l /\ granted' = granted \cup {l} /\ l # limit

ChangePlan ==
  /\ holder = NoMember
  /\ \E l \in Limit \cup {NoLimit} : LimitBecomes(l)
  /\ UNCHANGED <<used, docVars, lockVars, call, screenVars>>

ConfigureLimits ==
  /\ \E l \in Limit \cup {NoLimit} : LimitBecomes(l)
  /\ UNCHANGED <<used, docVars, lockVars, call, screenVars>>

RetireCategory ==
  /\ \E k \in Category \ retired : retired' = retired \cup {k}
  /\ UNCHANGED <<firmVars, file, objects, told, entries, lockVars, call, screenVars>>

-----------------------------------------------------------------------------
\* The screen.  A list on the screen may be as old as it likes: it offers whatever was ever
\* in it.

Stays == <<firmVars, docVars, lockVars, call>>
Fetching == copy.fetch \in {"asked", "read"}
Asked == [copy EXCEPT !.fetch = "asked", !.joined = FALSE]

\* A list that comes to the screen is fetched, or joins the fetch there is.
Go ==
  /\ place # None /\ dialog = None
  /\ \E p \in Lists \ {place} :
       /\ place' = p
       /\ copy' = IF p # followed THEN copy
                  ELSE IF Fetching THEN [copy EXCEPT !.joined = TRUE] ELSE Asked
  /\ UNCHANGED <<Stays, dialog, followed>>

Focus ==
  /\ place = followed /\ ~Fetching
  /\ copy' = Asked
  /\ UNCHANGED <<Stays, place, dialog, followed>>

Read ==
  /\ copy.fetch = "asked"
  /\ copy' = [copy EXCEPT !.fetch = "read", !.coming = "nothing"]
  /\ UNCHANGED <<Stays, place, dialog, followed>>

Arrive ==
  /\ copy.fetch = "read"
  /\ copy' = [copy EXCEPT !.fetch = "none", !.has = TRUE, !.held = copy.coming, !.coming = "nothing"]
  /\ UNCHANGED <<Stays, place, dialog, followed>>

\* The screen says so, and keeps what it has.
FetchFails ==
  /\ Fetching
  /\ copy' = [copy EXCEPT !.fetch = "failed", !.coming = "nothing"]
  /\ UNCHANGED <<Stays, place, dialog, followed>>

OpenDialog ==
  /\ place # None /\ dialog = None
  /\ \/ /\ place # "firm-documents"
        /\ dialog' = [op |-> "upload", doc |-> None]
     \/ /\ place = "firm-documents"
        /\ dialog' = [op |-> "upload-from-firm", doc |-> None]
     \/ /\ place = "documents"
        /\ \E d \in Stored, op \in {"withdraw", "categorize"} : dialog' = [op |-> op, doc |-> d]
  /\ UNCHANGED <<Stays, place, followed, copy>>

\* Also while its request is on the way.
CloseDialog ==
  /\ dialog # None /\ dialog' = None
  /\ UNCHANGED <<Stays, place, followed, copy>>

\* The form of an upload, with a category or without one, of a change of category, the
\* question whether to withdraw; restoring asks nothing.
Submit ==
  /\ \/ /\ dialog # None /\ dialog.op \in Uploads
        /\ \E s \in Size, k \in Category \cup {None} : Sends(Screen, Request(dialog.op, None, s, k))
     \/ /\ dialog # None /\ dialog.op = "withdraw"
        /\ Sends(Screen, Request("withdraw", dialog.doc, 0, None))
     \/ /\ dialog # None /\ dialog.op = "categorize"
        /\ \E k \in Category : Sends(Screen, Request("categorize", dialog.doc, 0, k))
     \/ /\ dialog = None /\ place = "documents-withdrawn"
        /\ \E d \in Stored : Sends(Screen, Request("restore", d, 0, None))
  /\ UNCHANGED <<firmVars, docVars, lockVars, screenVars>>

\* Mutant: a restore refreshes the list it put the document in.
InvalidatesTheOther(op) ==
  {"documents"} \cup (IF op = "upload-from-firm" THEN {"firm-documents"} ELSE {})

\* The lists that are fetched again after a change.
Invalidates(op) ==
  CASE op = "upload-from-firm" -> {"documents", "firm-documents"}
    [] op \in {"withdraw", "restore"} -> {"documents", "documents-withdrawn"}
    [] OTHER -> {"documents"}

\* A copy that is on the screen is fetched again, the firm's even off it, and the fetch in
\* flight is dropped, unless it is the first one.
Invalidated(lists) ==
  IF followed \notin lists \cap {place, "firm-documents"} THEN copy
  ELSE IF Fetching /\ ~copy.has THEN [copy EXCEPT !.joined = TRUE]
  ELSE Asked

\* The dialog that asked closes, or the one that took its place.
ClosedBy(answer) ==
  IF dialog # None /\ dialog.op = answer.op /\ (answer.op = "categorize" => dialog.doc = answer.doc)
  THEN None ELSE dialog

\* History: the changes after which nobody fetches a list again that shows them.  They are
\* those of the firm's list, but for the uploads begun from it, and the category of a
\* withdrawn document.
Overlooks(list, op) ==
  \/ list = "firm-documents" /\ op # "upload-from-firm"
  \/ list = "documents-withdrawn" /\ op = "categorize"

Heard(lack, op) ==
  IF lack # "unheard" THEN lack ELSE IF Overlooks(followed, op) THEN "overlooked" ELSE "heard"
Forgotten(lack) == IF lack = "unheard" THEN "nothing" ELSE lack

Hear ==
  /\ At(Screen, "answered")
  /\ call' = [call EXCEPT ![Screen] = Idle]
  /\ dialog' = ClosedBy(call[Screen])
  /\ LET op == call[Screen].op
     IN  copy' = [Invalidated(Invalidates(op)) EXCEPT !.held = Heard(@, op), !.coming = Heard(@, op)]
  /\ UNCHANGED <<firmVars, docVars, lockVars, place, followed>>

\* Somebody else did it before: the lists are fetched again.
HearRefusal ==
  /\ At(Screen, "refused")
  /\ call' = [call EXCEPT ![Screen] = Idle]
  /\ copy' = Invalidated({"documents"} \cup
                         (IF call[Screen].op = "restore" THEN {"documents-withdrawn"} ELSE {}))
  /\ UNCHANGED <<firmVars, docVars, lockVars, place, dialog, followed>>

\* The answer is lost.  The dialog is as it was, and offers to try again.
Lose ==
  /\ call[Screen].phase \in {"answered", "refused"}
  /\ call' = [call EXCEPT ![Screen] = Idle]
  /\ copy' = [copy EXCEPT !.held = Forgotten(@), !.coming = Forgotten(@)]
  /\ UNCHANGED <<firmVars, docVars, lockVars, place, dialog, followed>>

Upload(m) ==
  LookCategory(m) \/ Reserve(m) \/ OverLimit(m) \/ PutSucceeds(m) \/ PutFails(m) \/ CommitUpload(m)

Change(m) == Look(m) \/ Update(m) \/ Append(m) \/ CommitChange(m)

Next ==
  \/ \E m \in Member : Ask(m) \/ Upload(m) \/ Change(m) \/ Abort(m)
  \/ ChangePlan \/ ConfigureLimits \/ RetireCategory
  \/ Go \/ Focus \/ Read \/ Arrive \/ FetchFails
  \/ OpenDialog \/ CloseDialog \/ Submit \/ Hear \/ HearRefusal \/ Lose

Spec == Init /\ [][Next]_vars

-----------------------------------------------------------------------------
\* Every byte of every document there is.
Bytes == UNION {{d} \X (1 .. file[d].size) : d \in Stored}

(* The counter is the size of every document there is, withdrawn ones        *)
(* included, whatever uploads race, fail or die half way (007, D3 and D4).   *)
CounterIsSum == used = Cardinality(Bytes)

(* Every document can be opened: a row never outlives or precedes its object *)
(* although the store takes no part in the transaction.                      *)
DocumentsHaveObjects == Stored \subseteq objects

(* Uploads that race never take the firm beyond the highest limit it ever    *)
(* had (007, FR-013: the check is against what this upload would add).       *)
WithinSomeLimit == \E l \in granted : Fits(used, l)

(* The youngest entries about a document tell its status and its category,   *)
(* however changes of it overlap: entries are in the order of the commits.   *)
TrailTellsTheRow ==
  \A d \in Stored :
    /\ told[d].status[2] = file[d].status
    /\ told[d].category[1] > 0 => told[d].category[2] = file[d].category

(* A list that is on the screen and is not being fetched shows every change  *)
(* whose answer the screen has had, unless it has joined a fetch there was   *)
(* when it came to the screen, or was its first, or the change is one that   *)
(* no dialog has the list fetched for (Overlooks).                           *)
NothingOwedAtRest ==
  place = followed /\ copy.fetch = "none" /\ copy.held = "heard" => copy.joined

\* As the dialogs would have it, who fetch the lists again after each change.
NothingOwedEver == place = followed /\ copy.fetch = "none" => copy.held # "heard"

\* specs/023 FR-001: the firm's list has the firm's active documents.
FirmListFollows == place = "firm-documents" /\ followed = place /\ copy.fetch = "none" => copy.held # "overlooked"
=============================================================================
