---------------------------- MODULE Documents_proofs ----------------------------
(***************************************************************************)
(* The invariants of Documents for every number of members and documents,  *)
(* every size and limit, and entries without number.                       *)
(*                                                                         *)
(* None of them is inductive.  A row has an object because a request that  *)
(* is about to commit one has put it there.  The counter stays within a    *)
(* limit because whoever has reserved holds the tenant row until it        *)
(* commits, so that what it compared is what it adds to.  The trail tells  *)
(* the row because whoever has stamped an entry holds the document's row,  *)
(* so that no younger stamp overtakes it.                                  *)
(***************************************************************************)
EXTENDS Documents, FiniteSetTheorems, TLAPS

Asking == {"resolved", "reserve", "put", "update", "append", "commit"}

\* A request on the server, and one whose answer the screen has not had.
Requests ==
  [phase : Asking, op : Uploads \cup Changes, doc : Doc \cup {None}, size : Nat,
   category : Category \cup {None}, quota : Nat \cup {NoLimit}, stamp : Nat]

Answers == [phase : {"answered", "refused"}, op : Uploads \cup Changes, doc : Doc \cup {None}]

Rows == [status : {"none", "active", "withdrawn"}, size : Nat, category : Category \cup {None}]

Marks == [status : Nat \X {"active", "withdrawn"}, category : Nat \X (Category \cup {None})]

Dialogs == [op : {"upload", "upload-from-firm", "withdraw", "categorize"}, doc : Doc \cup {None}]

TypeInv ==
  /\ used \in Nat /\ limit \in Nat \cup {NoLimit} /\ granted \subseteq Nat \cup {NoLimit}
  /\ file \in [Doc -> Rows] /\ objects \subseteq Doc /\ retired \subseteq Category
  /\ told \in [Doc -> Marks] /\ entries \in Nat
  /\ holder \in Member \cup {NoMember} /\ docHolder \in [Doc -> Member \cup {NoMember}]
  /\ call \in [Member -> {Idle} \cup Requests \cup Answers]
  /\ dialog \in Dialogs \cup {None}

\* What a request has in hand: the phases follow what it is about, a change is of a stored
\* document, and the limit it was given is one the firm had.
InHand(m) ==
  call[m].phase \in Asking =>
    /\ call[m].quota \in granted
    /\ call[m].phase \in {"reserve", "put"} => call[m].op \in Uploads
    /\ call[m].phase \in {"update", "append"} => call[m].op \in Changes
    /\ call[m].op \in Changes => call[m].doc \in Stored

\* An upload that has reserved holds the tenant row, and its document is nobody else's.
Reserved(m) == call[m].phase = "put" \/ (call[m].phase = "commit" /\ call[m].op \in Uploads)

Reserving(m) ==
  Reserved(m) =>
    /\ holder = m /\ Fits(used + call[m].size, call[m].quota)
    /\ call[m].doc \in Doc \ Stored
    /\ call[m].phase = "commit" => call[m].doc \in objects

\* A change that has written holds the document's row; its entry is the youngest.
Changing(m) ==
  /\ call[m].phase \in {"append", "commit"} /\ call[m].op \in Changes => docHolder[call[m].doc] = m
  /\ call[m].phase = "commit" /\ call[m].op \in Changes =>
       /\ call[m].stamp <= entries
       /\ call[m].stamp > told[call[m].doc].status[1]
       /\ call[m].stamp > told[call[m].doc].category[1]

CallsInv == \A m \in Member : InHand(m) /\ Reserving(m) /\ Changing(m)

\* Entries are about stored documents, and numbered so far.
Untold == [status |-> <<0, "active">>, category |-> <<0, None>>]

MarksInv ==
  \A d \in Doc :
    /\ told[d].status[1] <= entries /\ told[d].category[1] <= entries
    /\ d \notin Stored => told[d] = Untold

DialogInv == dialog # None /\ dialog.op \in {"withdraw", "categorize"} => dialog.doc \in Stored

IInv ==
  /\ TypeInv /\ CallsInv /\ MarksInv /\ DialogInv
  /\ limit \in granted /\ DocumentsHaveObjects /\ WithinSomeLimit /\ TrailTellsTheRow

-----------------------------------------------------------------------------
(* An empty firm with a limit.                                               *)
LEMMA InitIInv == Init => IInv
<1> SUFFICES ASSUME Init PROVE IInv
  OBVIOUS
<1> USE DocumentsAssumption DEF Init, Idle, NoFile
<1>1. TypeInv
  <2>1. told \in [Doc -> Marks]
    BY DEF Marks
  <2>2. file \in [Doc -> Rows]
    BY DEF Rows
  <2>3. QED
    BY <2>1, <2>2 DEF TypeInv
<1>2. CallsInv
  BY DEF CallsInv, InHand, Reserving, Reserved, Changing, Asking
<1>3. MarksInv
  BY DEF MarksInv, Stored, Untold
<1>4. DialogInv /\ limit \in granted /\ DocumentsHaveObjects /\ TrailTellsTheRow
  BY DEF DialogInv, DocumentsHaveObjects, TrailTellsTheRow, Stored
<1>5. WithinSomeLimit
  BY DEF WithinSomeLimit, Fits
<1>6. QED
  BY <1>1, <1>2, <1>3, <1>4, <1>5 DEF IInv

\* Locks only m takes or gives back.
LocksOf(m) ==
  /\ holder' = holder \/ {holder, holder'} \subseteq {m, NoMember}
  /\ docHolder' \in [Doc -> Member \cup {NoMember}]
  /\ \A d \in Doc : docHolder'[d] = docHolder[d] \/ {docHolder[d], docHolder'[d]} \subseteq {m, NoMember}

\* A step of m that changes no row and no entry there is.
Quiet(m) ==
  /\ UNCHANGED <<used, file, told>>
  /\ limit' \in Nat \cup {NoLimit} /\ granted' = granted \cup {limit'}
  /\ objects \subseteq objects' /\ objects' \subseteq Doc /\ retired' \subseteq Category
  /\ entries' \in Nat /\ entries <= entries'
  /\ call' \in [Member -> {Idle} \cup Requests \cup Answers]
  /\ \A n \in Member \ {m} : call'[n] = call[n]
  /\ dialog' \in Dialogs \cup {None}
  /\ LocksOf(m)

(* The other requests keep what they have in hand, and the rows their        *)
(* objects, limits and entries.                                              *)
LEMMA QuietIInv ==
  ASSUME NEW m \in Member, IInv, Quiet(m), DialogInv', InHand(m)', Reserving(m)', Changing(m)'
  PROVE  IInv'
<1> USE DocumentsAssumption DEF IInv, Quiet
<1>1. Stored' = Stored
  BY DEF Stored
<1>2. TypeInv'
  BY DEF TypeInv, LocksOf
<1>3. ASSUME NEW n \in Member \ {m} PROVE (InHand(n) /\ Reserving(n) /\ Changing(n))'
  <2>1. InHand(n) /\ Reserving(n) /\ Changing(n) /\ call'[n] = call[n] /\ call[n] \in {Idle} \cup Requests \cup Answers
    BY DEF CallsInv, TypeInv
  <2>2. InHand(n)'
    BY <1>1, <2>1 DEF InHand
  <2>3. Reserving(n)'
    BY <1>1, <2>1 DEF Reserving, Reserved, LocksOf
  <2>4. call[n].phase \in Asking /\ call[n].op \in Changes => call[n].doc \in Doc
    BY <2>1 DEF InHand, Stored
  <2>5. call[n].phase \in Asking => call[n].stamp \in Nat
    BY <2>1 DEF Requests, Answers, Idle, Asking
  <2>6. Changing(n)'
    BY <2>1, <2>4, <2>5 DEF Changing, LocksOf, TypeInv, Asking
  <2>7. QED
    BY <2>2, <2>3, <2>6
<1>4. CallsInv'
  BY <1>3 DEF CallsInv
<1>5. MarksInv'
  BY <1>1 DEF MarksInv, TypeInv, Marks
<1>6. limit' \in granted' /\ DocumentsHaveObjects' /\ WithinSomeLimit' /\ TrailTellsTheRow'
  BY <1>1 DEF DocumentsHaveObjects, WithinSomeLimit, TrailTellsTheRow, Fits
<1>7. QED
  BY <1>2, <1>4, <1>5, <1>6

-----------------------------------------------------------------------------
\* A step about m's request: how it goes on, and what stays.
Goes(m, c) ==
  /\ call' = [call EXCEPT ![m] = c]
  /\ UNCHANGED <<used, limit, granted, file, retired, told, dialog>>

(* A request that ends has nothing in hand.                                  *)
LEMMA EndIInv ==
  ASSUME IInv, NEW m \in Member, NEW c \in {Idle} \cup Answers, Goes(m, c),
         Releases(m) \/ UNCHANGED lockVars, objects \subseteq objects', objects' \subseteq Doc, entries' = entries
  PROVE  IInv'
<1> USE DocumentsAssumption DEF IInv, Goes
<1>1. LocksOf(m)
  BY DEF LocksOf, Releases, lockVars, TypeInv
<1>2. Quiet(m)
  BY <1>1 DEF Quiet, TypeInv
<1>3. (InHand(m) /\ Reserving(m) /\ Changing(m))'
  <2>1. call'[m].phase \in {"idle", "answered", "refused"}
    BY DEF TypeInv, Idle, Answers
  <2>2. QED
    BY <2>1 DEF InHand, Reserving, Reserved, Changing, Asking
<1>4. DialogInv'
  BY DEF DialogInv, Stored
<1>5. QED
  BY <1>2, <1>3, <1>4, QuietIInv

(* A refusal, whatever it is for.                                            *)
LEMMA RefuseIInv == ASSUME IInv, NEW m \in Member, Refuse(m) PROVE IInv'
<1>1. Goes(m, Idle) /\ Releases(m) /\ objects' = objects /\ entries' = entries
  BY DEF Refuse, Ended, Goes, firmVars, docVars, screenVars
<1>2. objects \subseteq Doc
  BY DEF IInv, TypeInv
<1>3. QED
  BY <1>1, <1>2, EndIInv

(* A request that is sent is about a stored document, if about any, and has  *)
(* the limit of now.                                                         *)
LEMMA SendsIInv ==
  ASSUME IInv, NEW m \in Member, NEW op \in Uploads \cup Changes, NEW d \in Doc \cup {None},
         NEW n \in Nat, NEW k \in Category \cup {None}, op \in Changes => d \in Stored,
         Sends(m, Request(op, d, n, k)), UNCHANGED <<firmVars, docVars, lockVars, screenVars>>
  PROVE  IInv'
<1> USE DocumentsAssumption DEF IInv
<1> DEFINE c == Request(op, d, n, k)
<1>1. c \in Requests /\ c.phase = "resolved" /\ c.op = op /\ c.doc = d /\ c.quota = limit
  BY DEF Request, Requests, Asking, TypeInv
<1> HIDE DEF c
<1>2. Goes(m, c) /\ UNCHANGED <<objects, entries, lockVars>>
  BY DEF Sends, Goes, firmVars, docVars, screenVars, c
<1>3. Quiet(m)
  BY <1>1, <1>2 DEF Quiet, Goes, LocksOf, lockVars, TypeInv
<1>4. call'[m] = c /\ Stored' = Stored /\ granted' = granted
  BY <1>2 DEF Goes, TypeInv, Stored
<1>5. (InHand(m) /\ Reserving(m) /\ Changing(m))'
  BY <1>1, <1>4 DEF InHand, Reserving, Reserved, Changing
<1>6. DialogInv'
  BY <1>2, <1>4 DEF DialogInv, Goes
<1>7. QED
  BY <1>3, <1>5, <1>6, QuietIInv

(* The requests of whoever asks, and those of the screen.                    *)
LEMMA AskIInv == ASSUME IInv, NEW m \in Member, Ask(m) PROVE IInv'
<1> USE DocumentsAssumption DEF Uploads, Changes
<1>1. Stored \subseteq Doc
  BY DEF Stored
<1>2. CASE \E s \in Size : Sends(m, Request("upload", None, s, None))
  BY <1>2, SendsIInv DEF Ask
<1>3. CASE \E d \in Stored, op \in {"withdraw", "restore"} : Sends(m, Request(op, d, 0, None))
  BY <1>1, <1>3, SendsIInv DEF Ask
<1>4. CASE \E d \in Stored, k \in Category : Sends(m, Request("categorize", d, 0, k))
  BY <1>1, <1>4, SendsIInv DEF Ask
<1>5. QED
  BY <1>2, <1>3, <1>4 DEF Ask

LEMMA SubmitIInv == ASSUME IInv, Submit PROVE IInv'
<1> USE DocumentsAssumption DEF Changes
<1>1. Stored \subseteq Doc /\ Uploads = {"upload", "upload-from-firm"}
  BY DEF Stored, Uploads
<1>2. CASE /\ dialog # None /\ dialog.op \in Uploads
           /\ \E s \in Size, k \in Category \cup {None} : Sends(Screen, Request(dialog.op, None, s, k))
  <2>1. dialog.op \in Uploads \cup Changes /\ dialog.op \notin Changes
    BY <1>1, <1>2
  <2>2. PICK s \in Size, k \in Category \cup {None} : Sends(Screen, Request(dialog.op, None, s, k))
    BY <1>2
  <2>3. s \in Nat
    OBVIOUS
  <2>4. QED
    BY <2>1, <2>2, <2>3, SendsIInv DEF Submit
<1>3. CASE dialog # None /\ dialog.op = "withdraw" /\ Sends(Screen, Request("withdraw", dialog.doc, 0, None))
  <2>1. dialog.doc \in Stored
    BY <1>3 DEF IInv, DialogInv
  <2>2. QED
    BY <1>1, <1>3, <2>1, SendsIInv DEF Submit
<1>4. CASE /\ dialog # None /\ dialog.op = "categorize"
           /\ \E k \in Category : Sends(Screen, Request("categorize", dialog.doc, 0, k))
  <2>1. dialog.doc \in Stored
    BY <1>4 DEF IInv, DialogInv
  <2>2. QED
    BY <1>1, <1>4, <2>1, SendsIInv DEF Submit
<1>5. CASE \E d \in Stored : Sends(Screen, Request("restore", d, 0, None))
  BY <1>1, <1>5, SendsIInv DEF Submit
<1>6. QED
  BY <1>2, <1>3, <1>4, <1>5 DEF Submit

-----------------------------------------------------------------------------
(* A request that goes on keeps what it asked for and its limit.             *)
LEMMA GoesOnIInv ==
  ASSUME IInv, NEW m \in Member, call[m].phase \in Asking, NEW c \in Requests, Goes(m, c),
         c.op = call[m].op, c.quota = call[m].quota,
         c.op \in Changes => c.doc = call[m].doc,
         c.phase \in {"reserve", "put"} => c.op \in Uploads,
         c.phase \in {"update", "append"} => c.op \in Changes,
         LocksOf(m), objects \subseteq objects', objects' \subseteq Doc,
         entries' \in Nat, entries <= entries',
         Reserving(m)', Changing(m)'
  PROVE  IInv'
<1> USE DocumentsAssumption DEF IInv, Goes
<1>1. Quiet(m)
  BY DEF Quiet, TypeInv
<1>2. Stored' = Stored /\ call'[m] = c /\ granted' = granted
  BY DEF Stored, TypeInv
<1>3. InHand(m)'
  BY <1>2 DEF InHand, CallsInv
<1>4. DialogInv'
  BY <1>2 DEF DialogInv
<1>5. QED
  BY <1>1, <1>3, <1>4, QuietIInv

(* The record of a request on the server.                                    *)
LEMMA RequestOfPhase ==
  ASSUME IInv, NEW m \in Member, call[m].phase \in Asking
  PROVE  call[m] \in Requests
BY DEF IInv, TypeInv, Idle, Answers, Asking

LEMMA LookCategoryIInv == ASSUME IInv, NEW m \in Member, LookCategory(m) PROVE IInv'
<1> DEFINE k == IF call[m].category = None THEN Unclassified ELSE call[m].category
           c == [call[m] EXCEPT !.phase = "reserve", !.category = k]
<1>1. call[m].phase \in Asking /\ call[m].op \in Uploads
  BY DEF LookCategory, At, Asking
<1>2. call[m] \in Requests
  BY <1>1, RequestOfPhase
<1>3. CASE Refuse(m)
  BY <1>3, RefuseIInv
<1>4. CASE call' = [call EXCEPT ![m] = c] /\ UNCHANGED <<firmVars, docVars, lockVars, screenVars>>
  <2>1. c \in Requests /\ c.phase = "reserve" /\ c.op = call[m].op /\ c.quota = call[m].quota /\ c.op \notin Changes
    BY <1>1, <1>2, DocumentsAssumption DEF Requests, Asking, Uploads, Changes
  <2> HIDE DEF c
  <2>2. Goes(m, c) /\ objects' = objects /\ entries' = entries /\ LocksOf(m)
    BY <1>4 DEF Goes, firmVars, docVars, lockVars, screenVars, LocksOf, IInv, TypeInv
  <2>3. call'[m] = c
    BY <1>4 DEF IInv, TypeInv
  <2>4. Reserving(m)' /\ Changing(m)'
    BY <2>1, <2>3 DEF Reserving, Reserved, Changing
  <2>5. QED
    BY <1>1, <2>1, <2>2, <2>4, GoesOnIInv DEF IInv, TypeInv
<1>5. QED
  BY <1>3, <1>4 DEF LookCategory

\* The answer to a screen, or nothing.
LEMMA AnsweredGoes ==
  ASSUME IInv, NEW m \in Member, call[m].phase \in Asking,
         NEW phase \in {"answered", "refused"}, Answered(m, phase)
  PROVE  \E c \in {Idle} \cup Answers : call' = [call EXCEPT ![m] = c]
<1>1. call[m] \in Requests
  BY RequestOfPhase
<1>2. [phase |-> phase, op |-> call[m].op, doc |-> call[m].doc] \in Answers
  BY <1>1 DEF Requests, Answers
<1>3. QED
  BY <1>2 DEF Answered, IInv, TypeInv

LEMMA LookIInv == ASSUME IInv, NEW m \in Member, Look(m) PROVE IInv'
<1> DEFINE c == [call[m] EXCEPT !.phase = "update"]
<1>1. call[m].phase \in Asking /\ call[m].op \in Changes
  BY DEF Look, At, Asking
<1>2. call[m] \in Requests
  BY <1>1, RequestOfPhase
<1>3. CASE Refuse(m)
  BY <1>3, RefuseIInv
<1>4. CASE Releases(m) /\ Answered(m, "refused") /\ UNCHANGED <<firmVars, docVars, screenVars>>
  <2>1. PICK a \in {Idle} \cup Answers : call' = [call EXCEPT ![m] = a]
    BY <1>1, <1>4, AnsweredGoes
  <2>2. Goes(m, a) /\ objects' = objects /\ entries' = entries
    BY <1>4, <2>1 DEF Goes, firmVars, docVars, screenVars
  <2>3. QED
    BY <1>4, <2>2, EndIInv DEF IInv, TypeInv
<1>5. CASE call' = [call EXCEPT ![m] = c] /\ UNCHANGED <<firmVars, docVars, lockVars, screenVars>>
  <2>1. c \in Requests /\ c.phase = "update" /\ c.op = call[m].op /\ c.doc = call[m].doc /\ c.quota = call[m].quota
    BY <1>1, <1>2 DEF Requests, Asking
  <2> HIDE DEF c
  <2>2. Goes(m, c) /\ objects' = objects /\ entries' = entries /\ LocksOf(m)
    BY <1>5 DEF Goes, firmVars, docVars, lockVars, screenVars, LocksOf, IInv, TypeInv
  <2>3. call'[m] = c
    BY <1>5 DEF IInv, TypeInv
  <2>4. Reserving(m)' /\ Changing(m)'
    BY <2>1, <2>3 DEF Reserving, Reserved, Changing
  <2>5. QED
    BY <1>1, <2>1, <2>2, <2>4, GoesOnIInv DEF IInv, TypeInv
<1>6. QED
  BY <1>3, <1>4, <1>5 DEF Look, Becomes

(* The row is locked and the sum compared in one statement.                  *)
LEMMA ReserveIInv == ASSUME IInv, NEW m \in Member, Reserve(m) PROVE IInv'
<1> USE DocumentsAssumption
<1>1. call[m].phase \in Asking /\ call[m].op \in Uploads
  BY DEF Reserve, At, Asking, IInv, CallsInv, InHand
<1>2. call[m] \in Requests
  BY <1>1, RequestOfPhase
<1>3. PICK d \in Doc : Fresh(d) /\ call' = [call EXCEPT ![m].phase = "put", ![m].doc = d]
  BY DEF Reserve
<1> DEFINE c == [call[m] EXCEPT !.phase = "put", !.doc = d]
<1>4. /\ c \in Requests /\ c.phase = "put" /\ c.op = call[m].op /\ c.op \notin Changes
      /\ c.doc = d /\ c.size = call[m].size /\ c.quota = call[m].quota
  BY <1>1, <1>2 DEF Requests, Asking, Uploads, Changes
<1>5. call' = [call EXCEPT ![m] = c] /\ UNCHANGED <<firmVars, docVars, docHolder, screenVars>>
  BY <1>3 DEF Reserve
<1> HIDE DEF c
<1>6. call'[m] = c
  BY <1>5 DEF IInv, TypeInv
<1>7. holder' = m /\ LocksOf(m)
  BY <1>5 DEF Reserve, RowFree, LocksOf, IInv, TypeInv
<1>8. Goes(m, c) /\ objects' = objects /\ entries' = entries
  BY <1>5 DEF Goes, firmVars, docVars, screenVars
<1>9. Changing(m)'
  BY <1>4, <1>6 DEF Changing
<1>10. Reserving(m)'
  <2>1. Fits(used + c.size, c.quota)
    BY <1>4 DEF Reserve
  <2>2. d \notin Stored
    BY <1>3 DEF Fresh, Stored
  <2>3. QED
    BY <1>4, <1>6, <1>7, <1>8, <2>1, <2>2 DEF Reserving, Fits, Stored, Goes
<1>11. QED
  BY <1>1, <1>4, <1>7, <1>8, <1>9, <1>10, GoesOnIInv DEF IInv, TypeInv

LEMMA PutSucceedsIInv == ASSUME IInv, NEW m \in Member, PutSucceeds(m) PROVE IInv'
<1> DEFINE c == [call[m] EXCEPT !.phase = "commit"]
<1>1. call[m].phase \in Asking /\ call[m].op \in Uploads
  BY DEF PutSucceeds, At, Asking, IInv, CallsInv, InHand
<1>2. call[m] \in Requests /\ call[m].doc \in Doc
  BY <1>1, RequestOfPhase DEF PutSucceeds, At, IInv, CallsInv, Reserving, Reserved
<1>3. /\ c \in Requests /\ c.phase = "commit" /\ c.op = call[m].op /\ c.op \notin Changes
      /\ c.doc = call[m].doc /\ c.size = call[m].size /\ c.quota = call[m].quota
  BY <1>1, <1>2 DEF Requests, Asking, Uploads, Changes
<1>4. call' = [call EXCEPT ![m] = c] /\ UNCHANGED <<firmVars, file, retired, told, entries, lockVars, screenVars>>
  BY DEF PutSucceeds, Becomes
<1> HIDE DEF c
<1>5. call'[m] = c
  BY <1>4 DEF IInv, TypeInv
<1>6. Goes(m, c) /\ entries' = entries /\ LocksOf(m)
  BY <1>4 DEF Goes, firmVars, lockVars, screenVars, LocksOf, IInv, TypeInv
<1>7. objects \subseteq objects' /\ objects' \subseteq Doc /\ c.doc \in objects'
  BY <1>2, <1>3 DEF PutSucceeds, IInv, TypeInv
<1>8. Changing(m)'
  BY <1>3, <1>5 DEF Changing
<1>9. Reserving(m)'
  <2>1. Reserving(m) /\ Reserved(m)
    BY DEF IInv, CallsInv, PutSucceeds, At, Reserved
  <2>2. QED
    BY <1>3, <1>4, <1>5, <1>7, <2>1 DEF Reserving, Reserved, Fits, Stored, firmVars, lockVars
<1>10. QED
  BY <1>1, <1>3, <1>6, <1>7, <1>8, <1>9, GoesOnIInv DEF IInv, TypeInv

LEMMA PutFailsIInv == ASSUME IInv, NEW m \in Member, PutFails(m) PROVE IInv'
<1>1. call[m].doc \in Doc
  BY DEF PutFails, At, IInv, CallsInv, Reserving, Reserved
<1>2. Goes(m, Idle) /\ Releases(m) /\ entries' = entries
  BY DEF PutFails, Ended, Goes, firmVars, screenVars
<1>3. objects \subseteq objects' /\ objects' \subseteq Doc
  BY <1>1 DEF PutFails, IInv, TypeInv
<1>4. QED
  BY <1>2, <1>3, EndIInv

(* The document's row is taken only from nobody.                             *)
LEMMA UpdateIInv == ASSUME IInv, NEW m \in Member, Update(m) PROVE IInv'
<1> DEFINE c == [call[m] EXCEPT !.phase = "append"]
<1>1. call[m].phase \in Asking /\ call[m].op \in Changes /\ call[m].doc \in Doc
  BY DEF Update, At, Asking, IInv, CallsInv, InHand, Stored
<1>2. call[m] \in Requests
  BY <1>1, RequestOfPhase
<1>3. /\ c \in Requests /\ c.phase = "append" /\ c.op = call[m].op
      /\ c.doc = call[m].doc /\ c.quota = call[m].quota
  BY <1>1, <1>2 DEF Requests, Asking
<1>4. call' = [call EXCEPT ![m] = c] /\ UNCHANGED <<firmVars, docVars, holder, screenVars>>
  BY DEF Update, Becomes
<1> HIDE DEF c
<1>5. call'[m] = c
  BY <1>4 DEF IInv, TypeInv
<1>6. Goes(m, c) /\ entries' = entries /\ objects' = objects
  BY <1>4 DEF Goes, firmVars, docVars, screenVars
<1>7. LocksOf(m) /\ docHolder'[c.doc] = m
  BY <1>1, <1>3, <1>4 DEF LocksOf, Update, DocFree, IInv, TypeInv
<1>8. Changing(m)' /\ Reserving(m)'
  BY <1>3, <1>5, <1>7 DEF Changing, Reserving, Reserved
<1>9. QED
  BY <1>1, <1>3, <1>6, <1>7, <1>8, GoesOnIInv DEF IInv, TypeInv

(* The stamp is the youngest there is.                                       *)
LEMMA AppendIInv == ASSUME IInv, NEW m \in Member, Append(m) PROVE IInv'
<1> DEFINE c == [call[m] EXCEPT !.phase = "commit", !.stamp = entries + 1]
<1>1. call[m].phase \in Asking /\ call[m].op \in Changes /\ call[m].doc \in Doc
  BY DEF Append, At, Asking, IInv, CallsInv, InHand, Stored
<1>2. call[m] \in Requests /\ entries \in Nat /\ entries + 1 \in Nat
  BY <1>1, RequestOfPhase DEF IInv, TypeInv
<1>3. /\ c \in Requests /\ c.phase = "commit" /\ c.op = call[m].op /\ c.op \notin Uploads
      /\ c.doc = call[m].doc /\ c.quota = call[m].quota /\ c.stamp = entries + 1
  <2>1. c.phase = "commit" /\ c.op = call[m].op /\ c.doc = call[m].doc /\ c.quota = call[m].quota /\ c.stamp = entries + 1
    BY <1>2 DEF Requests
  <2>2. c.op \notin Uploads
    BY <1>1, <2>1 DEF Uploads, Changes
  <2>3. c \in Requests
    BY <1>2 DEF Requests, Asking
  <2>4. QED
    BY <2>1, <2>2, <2>3
<1>4. call' = [call EXCEPT ![m] = c] /\ UNCHANGED <<firmVars, file, objects, retired, told, lockVars, screenVars>>
  BY DEF Append
<1> HIDE DEF c
<1>5. call'[m] = c
  BY <1>4 DEF IInv, TypeInv
<1>6. Goes(m, c) /\ entries' = entries + 1 /\ objects' = objects /\ LocksOf(m)
  BY <1>4 DEF Goes, firmVars, lockVars, screenVars, LocksOf, Append, IInv, TypeInv
<1>7. Reserving(m)'
  BY <1>3, <1>5 DEF Reserving, Reserved
<1>8. Changing(m)'
  <2>1. docHolder[c.doc] = m
    BY <1>1, <1>3 DEF IInv, CallsInv, Changing, Append, At
  <2>2. told[c.doc] \in Marks /\ told[c.doc].status[1] <= entries /\ told[c.doc].category[1] <= entries
    BY <1>1, <1>3 DEF IInv, MarksInv, TypeInv
  <2>3. QED
    BY <1>2, <1>3, <1>4, <1>5, <1>6, <2>1, <2>2 DEF Changing, Marks, lockVars
<1>9. QED
  BY <1>1, <1>2, <1>3, <1>6, <1>7, <1>8, GoesOnIInv DEF IInv, TypeInv

-----------------------------------------------------------------------------
(* Whoever commits an upload holds the tenant row, so that nobody else has   *)
(* reserved; what it compared is what it adds to.                            *)
LEMMA CommitUploadIInv == ASSUME IInv, NEW m \in Member, CommitUpload(m) PROVE IInv'
<1> USE DocumentsAssumption
<1> DEFINE d == call[m].doc
           row == [status |-> "active", size |-> call[m].size, category |-> call[m].category]
<1>1. call[m].phase = "commit" /\ call[m].op \in Uploads /\ Reserved(m) /\ call[m].phase \in Asking
  BY DEF CommitUpload, At, Reserved, Asking
<1>2. call[m] \in Requests
  BY <1>1, RequestOfPhase
<1>3. holder = m /\ Fits(used + call[m].size, call[m].quota) /\ d \in Doc \ Stored /\ d \in objects
  BY <1>1 DEF IInv, CallsInv, Reserving
<1>4. call[m].quota \in granted
  BY <1>1 DEF IInv, CallsInv, InHand
<1>5. PICK c \in {Idle} \cup Answers : call' = [call EXCEPT ![m] = c]
  BY <1>1, AnsweredGoes DEF CommitUpload
<1>6. /\ used' = used + call[m].size /\ file' = [file EXCEPT ![d] = row] /\ Releases(m)
      /\ UNCHANGED <<limit, granted, objects, retired, told, entries, dialog>>
  BY DEF CommitUpload
<1>7. row \in Rows /\ row.status = "active"
  BY <1>2 DEF Requests, Rows
<1> HIDE DEF row
<1>8. Stored' = Stored \cup {d}
  BY <1>3, <1>6, <1>7 DEF Stored, IInv, TypeInv
<1>9. TypeInv'
  <2>1. used' \in Nat
    BY <1>2, <1>6 DEF Requests, IInv, TypeInv
  <2>2. QED
    BY <1>3, <1>5, <1>6, <1>7, <2>1 DEF IInv, TypeInv, Releases
<1>10. ASSUME NEW n \in Member PROVE (InHand(n) /\ Reserving(n) /\ Changing(n))'
  <2>1. CASE n = m
    <3>1. call'[n].phase \notin Asking
      BY <1>5, <2>1 DEF IInv, TypeInv, Idle, Answers, Asking
    <3>2. QED
      BY <3>1 DEF InHand, Reserving, Reserved, Changing, Asking
  <2>2. CASE n # m
    <3>1. call'[n] = call[n] /\ ~Reserved(n) /\ InHand(n) /\ Changing(n)
      BY <1>3, <1>5, <2>2 DEF IInv, CallsInv, Reserving, TypeInv
    <3>2. call[n].phase \in Asking /\ call[n].op \in Changes => call[n].doc \in Doc
      BY <3>1 DEF InHand, Stored
    <3>3. Changing(n)'
      BY <1>6, <2>2, <3>1, <3>2 DEF Changing, Releases, IInv, TypeInv, Asking
    <3>4. QED
      BY <1>6, <1>8, <3>1, <3>3 DEF InHand, Reserving, Reserved
  <2>3. QED
    BY <2>1, <2>2
<1>11. CallsInv'
  BY <1>10 DEF CallsInv
<1>12. MarksInv' /\ DialogInv' /\ limit' \in granted' /\ DocumentsHaveObjects'
  BY <1>3, <1>6, <1>8 DEF IInv, MarksInv, DialogInv, DocumentsHaveObjects
<1>13. WithinSomeLimit'
  BY <1>3, <1>4, <1>6 DEF WithinSomeLimit, Fits
<1>14. TrailTellsTheRow'
  <2>1. told[d].status[2] = "active" /\ told[d].category[1] = 0
    BY <1>3 DEF IInv, MarksInv, Untold
  <2>2. QED
    BY <1>3, <1>6, <1>7, <1>8, <2>1 DEF IInv, TrailTellsTheRow, TypeInv, Stored
<1>15. QED
  BY <1>9, <1>11, <1>12, <1>13, <1>14 DEF IInv

(* What a change commits in a document's row, and what its entry says.       *)
LEMMA ChangeCommits ==
  ASSUME IInv, NEW m \in Member, CommitChange(m)
  PROVE  LET d == call[m].doc
             categorize == call[m].op = "categorize"
             status == Status[call[m].op]
             entry == call[m].stamp
         IN  /\ d \in Stored
             /\ file' = [file EXCEPT ![d] = IF categorize THEN [@ EXCEPT !.category = call[m].category]
                                           ELSE [@ EXCEPT !.status = status]]
             /\ told' = [told EXCEPT ![d] = IF categorize THEN [@ EXCEPT !.category = <<entry, call[m].category>>]
                                           ELSE [@ EXCEPT !.status = <<entry, status>>]]
             /\ ~categorize => status \in {"active", "withdrawn"}
<1>1. /\ call[m].phase = "commit" /\ call[m].op \in Changes /\ call[m].phase \in Asking
  BY DEF CommitChange, At, Asking
<1>2. call[m] \in Requests
  BY <1>1, RequestOfPhase
<1>3. /\ call[m].doc \in Stored
      /\ call[m].stamp > told[call[m].doc].status[1] /\ call[m].stamp > told[call[m].doc].category[1]
  BY <1>1 DEF IInv, CallsInv, InHand, Changing
<1>4. ASSUME NEW v, NEW e, call[m].stamp > e[1] PROVE Younger(<<call[m].stamp, v>>, e) = <<call[m].stamp, v>>
  BY <1>4 DEF Younger
<1>5. CASE call[m].op = "categorize"
  BY <1>3, <1>4, <1>5 DEF CommitChange
<1>6. CASE call[m].op # "categorize"
  <2>1. Status[call[m].op] \in {"active", "withdrawn"}
    BY <1>1, <1>6 DEF Status, Changes
  <2>2. QED
    BY <1>3, <1>4, <1>6, <2>1 DEF CommitChange
<1>7. QED
  BY <1>5, <1>6

(* Whoever commits a change holds the document's row.                        *)
LEMMA CommitChangeIInv == ASSUME IInv, NEW m \in Member, CommitChange(m) PROVE IInv'
<1> USE DocumentsAssumption
<1> DEFINE d == call[m].doc
           row == IF call[m].op = "categorize" THEN [file[d] EXCEPT !.category = call[m].category]
                  ELSE [file[d] EXCEPT !.status = Status[call[m].op]]
           mark == IF call[m].op = "categorize" THEN [told[d] EXCEPT !.category = <<call[m].stamp, call[m].category>>]
                   ELSE [told[d] EXCEPT !.status = <<call[m].stamp, Status[call[m].op]>>]
<1>1. call[m].phase = "commit" /\ call[m].op \in Changes /\ call[m].phase \in Asking
  BY DEF CommitChange, At, Asking
<1>2. call[m] \in Requests
  BY <1>1, RequestOfPhase
<1>3. d \in Stored /\ d \in Doc /\ docHolder[d] = m /\ call[m].stamp <= entries
  BY <1>1 DEF IInv, CallsInv, InHand, Changing, Stored
<1>4. file' = [file EXCEPT ![d] = row] /\ told' = [told EXCEPT ![d] = mark]
  BY ChangeCommits
<1>5. PICK c \in {Idle} \cup Answers : call' = [call EXCEPT ![m] = c]
  BY <1>1, AnsweredGoes DEF CommitChange
<1>6. Releases(m) /\ UNCHANGED <<used, limit, granted, objects, retired, entries, dialog>>
  BY DEF CommitChange, firmVars
<1>7. row \in Rows /\ row.status # "none"
  <2>1. file[d] \in Rows /\ file[d].status # "none" /\ call[m].category \in Category \cup {None}
    BY <1>2, <1>3 DEF IInv, TypeInv, Stored, Requests
  <2>2. call[m].op # "categorize" => Status[call[m].op] \in {"active", "withdrawn"}
    BY ChangeCommits
  <2>3. QED
    BY <2>1, <2>2 DEF Rows
<1>8. /\ mark \in Marks /\ mark.status[1] <= entries /\ mark.category[1] <= entries
      /\ mark.status[2] = row.status
      /\ mark.category[1] > 0 => mark.category[2] = row.category
  <2>1. /\ told[d] \in Marks /\ file[d] \in Rows
        /\ told[d].status[1] <= entries /\ told[d].category[1] <= entries
        /\ told[d].status[2] = file[d].status
        /\ told[d].category[1] > 0 => told[d].category[2] = file[d].category
    BY <1>3 DEF IInv, TypeInv, MarksInv, TrailTellsTheRow
  <2>2. call[m].stamp \in Nat /\ call[m].category \in Category \cup {None}
    BY <1>2 DEF Requests
  <2>3. CASE call[m].op = "categorize"
    BY <1>3, <2>1, <2>2, <2>3 DEF Marks, Rows
  <2>4. CASE call[m].op # "categorize"
    <3>1. Status[call[m].op] \in {"active", "withdrawn"}
      BY <2>4, ChangeCommits
    <3>2. QED
      BY <1>3, <2>1, <2>2, <2>4, <3>1 DEF Marks, Rows
  <2>5. QED
    BY <2>3, <2>4
<1> HIDE DEF row, mark
<1>9. Stored' = Stored
  BY <1>3, <1>4, <1>7 DEF Stored, IInv, TypeInv
<1>10. TypeInv'
  BY <1>3, <1>4, <1>5, <1>6, <1>7, <1>8 DEF IInv, TypeInv, Releases
<1>11. ASSUME NEW n \in Member PROVE (InHand(n) /\ Reserving(n) /\ Changing(n))'
  <2>1. CASE n = m
    <3>1. call'[n].phase \notin Asking
      BY <1>5, <2>1 DEF IInv, TypeInv, Idle, Answers, Asking
    <3>2. QED
      BY <3>1 DEF InHand, Reserving, Reserved, Changing, Asking
  <2>2. CASE n # m
    <3>1. call'[n] = call[n] /\ InHand(n) /\ Reserving(n) /\ Changing(n)
      BY <1>5, <2>2 DEF IInv, CallsInv, TypeInv
    <3>2. call[n].phase \in Asking /\ call[n].op \in Changes => call[n].doc \in Doc
      BY <3>1 DEF InHand, Stored
    <3>3. Changing(n)'
      BY <1>3, <1>4, <1>6, <2>2, <3>1, <3>2 DEF Changing, Releases, IInv, TypeInv, Asking
    <3>4. Reserving(n)'
      BY <1>6, <1>9, <2>2, <3>1 DEF Reserving, Reserved, Releases, Fits
    <3>5. InHand(n)'
      BY <1>6, <1>9, <3>1 DEF InHand
    <3>6. QED
      BY <3>3, <3>4, <3>5
  <2>3. QED
    BY <2>1, <2>2
<1>12. CallsInv'
  BY <1>11 DEF CallsInv
<1>13. MarksInv'
  BY <1>3, <1>4, <1>6, <1>8, <1>9 DEF IInv, MarksInv, TypeInv
<1>14. DialogInv' /\ limit' \in granted' /\ DocumentsHaveObjects' /\ WithinSomeLimit'
  BY <1>6, <1>9 DEF IInv, DialogInv, DocumentsHaveObjects, WithinSomeLimit, Fits
<1>15. TrailTellsTheRow'
  BY <1>3, <1>4, <1>8, <1>9 DEF IInv, TrailTellsTheRow, TypeInv, Stored
<1>16. QED
  BY <1>10, <1>12, <1>13, <1>14, <1>15 DEF IInv

-----------------------------------------------------------------------------
\* The platform, and the screen on its own: no request goes on.
Aside ==
  \/ ChangePlan \/ ConfigureLimits \/ RetireCategory
  \/ Go \/ Focus \/ Read \/ Arrive \/ FetchFails \/ OpenDialog \/ CloseDialog
  \/ UNCHANGED vars

LEMMA AsideIInv == ASSUME IInv, Aside PROVE IInv'
<1> USE DocumentsAssumption DEF IInv
<1>1. /\ UNCHANGED <<used, file, objects, told, entries, lockVars, call>>
      /\ limit' \in Nat \cup {NoLimit} /\ granted' = granted \cup {limit'} /\ retired' \subseteq Category
  BY DEF Aside, ChangePlan, ConfigureLimits, LimitBecomes, RetireCategory, Go, Focus, Read, Arrive, FetchFails,
         OpenDialog, CloseDialog, Stays, firmVars, docVars, screenVars, vars, TypeInv
<1>2. Stored' = Stored /\ Stored \subseteq Doc
  BY <1>1 DEF Stored
<1>3. dialog' \in Dialogs \cup {None} /\ DialogInv'
  <2>1. CASE OpenDialog
    BY <1>2, <2>1 DEF OpenDialog, DialogInv, Dialogs
  <2>2. CASE dialog' \in {dialog, None}
    BY <1>2, <2>2 DEF DialogInv, TypeInv
  <2>3. QED
    BY <2>1, <2>2 DEF Aside, ChangePlan, ConfigureLimits, RetireCategory, Go, Focus, Read, Arrive, FetchFails,
                      CloseDialog, Stays, screenVars, vars
<1>4. LocksOf(Screen)
  BY <1>1 DEF LocksOf, lockVars, TypeInv
<1>5. Quiet(Screen)
  BY <1>1, <1>3, <1>4 DEF Quiet, TypeInv
<1>6. (InHand(Screen) /\ Reserving(Screen) /\ Changing(Screen))'
  BY <1>1, <1>2 DEF CallsInv, InHand, Reserving, Reserved, Changing, Fits, lockVars
<1>7. QED
  BY <1>3, <1>5, <1>6, QuietIInv

(* The answers the screen has, or loses.                                     *)
LEMMA HearIInv == ASSUME IInv, Hear \/ HearRefusal \/ Lose PROVE IInv'
<1> USE DocumentsAssumption DEF IInv
<1>1. /\ UNCHANGED <<firmVars, docVars, lockVars>> /\ call' = [call EXCEPT ![Screen] = Idle]
      /\ dialog' \in {dialog, None}
  BY DEF Hear, HearRefusal, Lose, ClosedBy
<1>2. Stored' = Stored
  BY <1>1 DEF Stored, docVars
<1>3. dialog' \in Dialogs \cup {None} /\ DialogInv'
  BY <1>1, <1>2 DEF DialogInv, TypeInv
<1>4. LocksOf(Screen)
  BY <1>1 DEF LocksOf, lockVars, TypeInv
<1>5. Quiet(Screen)
  BY <1>1, <1>3, <1>4 DEF Quiet, TypeInv, firmVars, docVars
<1>6. (InHand(Screen) /\ Reserving(Screen) /\ Changing(Screen))'
  BY <1>1 DEF TypeInv, InHand, Reserving, Reserved, Changing, Asking, Idle
<1>7. QED
  BY <1>3, <1>5, <1>6, QuietIInv

-----------------------------------------------------------------------------
(* Every step keeps the invariant.                                           *)
LEMMA NextIInv == IInv /\ [Next]_vars => IInv'
<1> SUFFICES ASSUME IInv, [Next]_vars PROVE IInv'
  OBVIOUS
<1>1. ASSUME NEW m \in Member, Ask(m) PROVE IInv'
  BY <1>1, AskIInv
<1>2. ASSUME NEW m \in Member, Upload(m) PROVE IInv'
  BY <1>2, LookCategoryIInv, ReserveIInv, RefuseIInv, PutSucceedsIInv, PutFailsIInv, CommitUploadIInv DEF Upload, OverLimit
<1>3. ASSUME NEW m \in Member, Change(m) PROVE IInv'
  BY <1>3, LookIInv, UpdateIInv, AppendIInv, CommitChangeIInv DEF Change
<1>4. ASSUME NEW m \in Member, Abort(m) PROVE IInv'
  BY <1>4, RefuseIInv DEF Abort
<1>5. CASE Aside
  BY <1>5, AsideIInv
<1>6. CASE Submit
  BY <1>6, SubmitIInv
<1>7. CASE Hear \/ HearRefusal \/ Lose
  BY <1>7, HearIInv
<1>8. QED
  BY <1>1, <1>2, <1>3, <1>4, <1>5, <1>6, <1>7 DEF Next, Aside

(* A row has its object, whatever dies between the two systems               *)
(* (documents.service.ts upload).                                            *)
THEOREM RowsHaveObjects == Spec => []DocumentsHaveObjects
<1>1. IInv => DocumentsHaveObjects
  BY DEF IInv
<1>2. QED
  BY <1>1, InitIInv, NextIInv, PTL DEF Spec

(* Uploads that race pass no limit they were not given                       *)
(* (documents.repository.ts reserveStorage).                                 *)
THEOREM CounterWithinLimits == Spec => []WithinSomeLimit
<1>1. IInv => WithinSomeLimit
  BY DEF IInv
<1>2. QED
  BY <1>1, InitIInv, NextIInv, PTL DEF Spec

(* The youngest entry about a document tells its row, in whatever order the  *)
(* changes looked (documents.service.ts withdraw, restore, changeCategory).  *)
THEOREM TrailInOrder == Spec => []TrailTellsTheRow
<1>1. IInv => TrailTellsTheRow
  BY DEF IInv
<1>2. QED
  BY <1>1, InitIInv, NextIInv, PTL DEF Spec

-----------------------------------------------------------------------------
(* The counter and the bytes of the documents: an upload adds its bytes to   *)
(* both in the step that commits, and no other step changes either.          *)
BytesInv == IsFiniteSet(Bytes) /\ CounterIsSum

LEMMA InitBytesInv == Init => BytesInv
<1> SUFFICES ASSUME Init PROVE BytesInv
  OBVIOUS
<1>1. Stored = {}
  BY DEF Init, Stored, NoFile
<1>2. Bytes = {}
  BY <1>1 DEF Bytes
<1>3. QED
  BY <1>2, FS_EmptySet DEF Init, BytesInv, CounterIsSum

(* The bytes of a document that is not stored yet are nobody's.              *)
LEMMA CommitUploadBytesInv == ASSUME IInv, BytesInv, NEW m \in Member, CommitUpload(m) PROVE BytesInv'
<1> DEFINE d == call[m].doc
           size == call[m].size
           row == [status |-> "active", size |-> size, category |-> call[m].category]
           added == {d} \X (1 .. size)
<1>1. call[m].phase = "commit" /\ call[m].op \in Uploads /\ Reserved(m) /\ call[m].phase \in Asking
  BY DEF CommitUpload, At, Reserved, Asking
<1>2. size \in Nat
  BY <1>1, RequestOfPhase DEF Requests
<1>3. d \in Doc \ Stored
  BY <1>1 DEF IInv, CallsInv, Reserving
<1>4. used' = used + size /\ file' = [file EXCEPT ![d] = row]
  BY DEF CommitUpload
<1>5. /\ Stored' = Stored \cup {d} /\ file'[d].size = size
      /\ \A e \in Stored : file'[e] = file[e]
  BY <1>3, <1>4 DEF Stored, IInv, TypeInv
<1> HIDE DEF d, size, row
<1>6. Bytes' = Bytes \cup added
  BY <1>5 DEF Bytes
<1>7. Bytes \cap added = {}
  BY <1>3 DEF Bytes
<1>8. IsFiniteSet(added) /\ Cardinality(added) = size
  <2>1. IsFiniteSet({d}) /\ Cardinality({d}) = 1
    BY FS_Singleton
  <2>2. IsFiniteSet(1 .. size) /\ Cardinality(1 .. size) = size
    BY <1>2, FS_Interval
  <2>3. IsFiniteSet(added) /\ Cardinality(added) = 1 * size
    BY <2>1, <2>2, FS_Product
  <2>4. QED
    BY <1>2, <2>3
<1>9. IsFiniteSet(Bytes) /\ Cardinality(Bytes) = used
  BY DEF BytesInv, CounterIsSum
<1>10. /\ IsFiniteSet(Bytes \cup added)
       /\ Cardinality(Bytes \cup added) = used + size - Cardinality(Bytes \cap added)
  BY <1>8, <1>9, FS_Union
<1>11. Cardinality(Bytes \cap added) = 0
  BY <1>7, FS_EmptySet
<1>12. Cardinality(Bytes \cup added) = used + size
  BY <1>2, <1>10, <1>11 DEF IInv, TypeInv
<1>13. QED
  BY <1>4, <1>6, <1>10, <1>12 DEF BytesInv, CounterIsSum

(* A change of status or category changes no size.                           *)
LEMMA CommitChangeBytesInv == ASSUME IInv, BytesInv, NEW m \in Member, CommitChange(m) PROVE BytesInv'
<1> DEFINE d == call[m].doc
<1>1. /\ d \in Stored /\ used' = used
      /\ \/ file' = [file EXCEPT ![d].category = call[m].category]
         \/ file' = [file EXCEPT ![d].status = Status[call[m].op]] /\ Status[call[m].op] \in {"active", "withdrawn"}
  BY ChangeCommits DEF CommitChange, firmVars
<1>2. Stored' = Stored /\ \A e \in Stored : file'[e].size = file[e].size
  BY <1>1 DEF Stored, IInv, TypeInv, Rows
<1>3. Bytes' = Bytes
  BY <1>2 DEF Bytes
<1>4. QED
  BY <1>1, <1>3 DEF BytesInv, CounterIsSum

LEMMA NextBytesInv == IInv /\ BytesInv /\ [Next]_vars => BytesInv'
<1> SUFFICES ASSUME IInv, BytesInv, [Next]_vars PROVE BytesInv'
  OBVIOUS
<1>1. ASSUME UNCHANGED <<used, file>> PROVE BytesInv'
  <2>1. Bytes' = Bytes
    BY <1>1 DEF Bytes, Stored
  <2>2. QED
    BY <1>1, <2>1 DEF BytesInv, CounterIsSum
<1>2. ASSUME NEW m \in Member, Upload(m) PROVE BytesInv'
  BY <1>1, <1>2, CommitUploadBytesInv
  DEF Upload, LookCategory, Reserve, OverLimit, PutSucceeds, PutFails, Refuse, firmVars, docVars
<1>3. ASSUME NEW m \in Member, Change(m) PROVE BytesInv'
  BY <1>1, <1>3, CommitChangeBytesInv DEF Change, Look, Update, Append, Refuse, firmVars, docVars
<1>4. ASSUME NEW m \in Member, Ask(m) \/ Abort(m) PROVE BytesInv'
  BY <1>1, <1>4 DEF Ask, Abort, Refuse, firmVars, docVars
<1>5. CASE ChangePlan \/ ConfigureLimits \/ RetireCategory \/ UNCHANGED vars
  BY <1>1, <1>5 DEF ChangePlan, ConfigureLimits, RetireCategory, firmVars, docVars, vars
<1>6. CASE Go \/ Focus \/ Read \/ Arrive \/ FetchFails \/ OpenDialog \/ CloseDialog
  BY <1>1, <1>6 DEF Go, Focus, Read, Arrive, FetchFails, OpenDialog, CloseDialog, Stays, firmVars, docVars
<1>7. CASE Submit \/ Hear \/ HearRefusal \/ Lose
  BY <1>1, <1>7 DEF Submit, Hear, HearRefusal, Lose, firmVars, docVars
<1>8. QED
  BY <1>2, <1>3, <1>4, <1>5, <1>6, <1>7 DEF Next

(* The counter is the bytes of the documents there are, whatever uploads     *)
(* race, fail or die half way (documents.repository.ts reserveStorage,       *)
(* documents.service.ts upload).                                             *)
THEOREM CounterCountsTheBytes == Spec => []CounterIsSum
<1>1. BytesInv => CounterIsSum
  BY DEF BytesInv
<1>2. QED
  BY <1>1, InitIInv, NextIInv, InitBytesInv, NextBytesInv, PTL DEF Spec

-----------------------------------------------------------------------------
\* What the copy of a list may lack.
Lacks == {"nothing", "unheard", "heard", "overlooked"}

Copies == [fetch : {"none", "asked", "read", "failed"}, has : BOOLEAN, held : Lacks, coming : Lacks, joined : BOOLEAN]

\* The list is fetched again when the answer comes, or is one that nobody fetches.
AnswersTo(op) == followed \in Invalidates(op) \/ Overlooks(followed, op)

\* The copy lacks what the screen is yet to hear of only while that answer is waited for.
Waiting == {copy.held, copy.coming} \cap {"unheard"} # {} =>
             At(Screen, "answered") /\ AnswersTo(call[Screen].op)

\* A fetch the list on the screen did not join brings whatever the screen has heard of.
ComingInv == place = followed /\ copy.fetch = "read" /\ copy.coming = "heard" => copy.joined

(* The screen that shows lists keeps what it lacks refetched: NothingOwedAtRest *)
(* needs what an answer in flight and a fetch in flight will leave behind.      *)
ScreenInv ==
  /\ copy \in Copies /\ followed \in Lists /\ place \in Lists \cup {None}
  /\ place # None => Waiting /\ ComingInv
  /\ place = followed => NothingOwedAtRest

(* Whatever a change shows in is fetched again when its answer comes, or is  *)
(* one of the lists named by Overlooks.                                      *)
LEMMA ShowingAnswers ==
  ASSUME NEW m \in Member, call[m].op \in Uploads \cup Changes, followed \in Showing(call[m])
  PROVE  AnswersTo(call[m].op)
BY DEF Uploads, Changes, Showing, Status, Lists, Invalidates, Overlooks, AnswersTo

LEMMA InitScreenInv == Init => ScreenInv
<1> SUFFICES ASSUME Init PROVE ScreenInv
  OBVIOUS
<1>1. copy \in Copies /\ copy.held = "nothing" /\ copy.coming = "nothing"
  BY DEF Init, Copies, Lacks
<1>2. followed \in Lists /\ place \in Lists \cup {None}
  BY DEF Init, Lists
<1>3. QED
  BY <1>1, <1>2 DEF ScreenInv, Waiting, ComingInv, NothingOwedAtRest

(* Nothing is unheard while the screen's request is on the server, and such  *)
(* a request has no answer yet.                                              *)
LEMMA StaysScreenInv ==
  ASSUME ScreenInv, UNCHANGED screenVars, call'[Screen] = call[Screen] \/ ~At(Screen, "answered")
  PROVE  ScreenInv'
BY DEF ScreenInv, screenVars, Waiting, ComingInv, NothingOwedAtRest, At

\* A step of the server about m's request.
Serves(m) ==
  /\ ~At(m, "answered") /\ \A n \in Member \ {m} : call'[n] = call[n]
  /\ UNCHANGED screenVars

LEMMA ServesScreenInv == ASSUME ScreenInv, NEW m \in Member, Serves(m) PROVE ScreenInv'
BY StaysScreenInv, DocumentsAssumption DEF Serves

(* What a commit writes is unheard of until its answer comes.                *)
LEMMA CommitScreenInv ==
  ASSUME IInv, ScreenInv, NEW m \in Member, At(m, "commit"), Answered(m, "answered"), Overtaken(m),
         call[m].op \in Uploads \cup Changes, UNCHANGED <<place, followed>>
  PROVE  ScreenInv'
<1> USE DocumentsAssumption
<1>1. CASE m # Screen
  <2>1. call'[Screen] = call[Screen] /\ copy' = copy
    BY <1>1 DEF Answered, Overtaken, IInv, TypeInv
  <2>2. QED
    BY <2>1 DEF ScreenInv, Waiting, ComingInv, NothingOwedAtRest, At
<1>2. CASE m = Screen /\ (place = None \/ followed \notin Showing(call[m]))
  <2>1. copy' \in Copies /\ (place # None => copy' = copy)
    BY <1>2 DEF Overtaken, ScreenInv, Copies, Lacks, Lacking
  <2>2. place # None => copy.held # "unheard" /\ copy.coming # "unheard"
    BY <1>2 DEF ScreenInv, Waiting, At
  <2>3. QED
    BY <2>1, <2>2 DEF ScreenInv, Waiting, ComingInv, NothingOwedAtRest
<1>3. CASE m = Screen /\ place # None /\ followed \in Showing(call[m])
  <2>1. call'[Screen].phase = "answered" /\ call'[Screen].op = call[Screen].op
    BY <1>3 DEF Answered, IInv, TypeInv
  <2>2. copy' = [copy EXCEPT !.held = Lacking(@), !.coming = Lacking(@)]
    BY <1>3 DEF Overtaken
  <2>3. /\ copy' \in Copies /\ copy'.fetch = copy.fetch /\ copy'.joined = copy.joined
        /\ copy'.held = "heard" => copy.held = "heard"
        /\ copy'.coming = "heard" => copy.coming = "heard"
    BY <2>2 DEF ScreenInv, Copies, Lacks, Lacking
  <2>4. AnswersTo(call[m].op)
    BY <1>3, ShowingAnswers
  <2>5. QED
    BY <1>3, <2>1, <2>3, <2>4 DEF ScreenInv, Waiting, AnswersTo, ComingInv, NothingOwedAtRest, At
<1>4. QED
  BY <1>1, <1>2, <1>3

(* Requests on their way to the server, and on it.                           *)
LEMMA RequestScreenInv ==
  ASSUME IInv, ScreenInv, NEW m \in Member, Ask(m) \/ Upload(m) \/ Change(m) \/ Abort(m)
  PROVE  ScreenInv'
<1> USE DEF IInv, TypeInv
<1>1. CASE CommitUpload(m) \/ CommitChange(m)
  <2>1. /\ At(m, "commit") /\ Answered(m, "answered") /\ Overtaken(m) /\ UNCHANGED <<place, followed>>
        /\ call[m].op \in Uploads \cup Changes
    BY <1>1 DEF CommitUpload, CommitChange
  <2>2. QED
    BY <2>1, CommitScreenInv
<1>2. CASE Ask(m)
  <2>1. Serves(m)
    BY <1>2 DEF Ask, Sends, Serves, At, Idle
  <2>2. QED
    BY <2>1, ServesScreenInv
<1>3. CASE LookCategory(m) \/ Reserve(m) \/ OverLimit(m) \/ PutSucceeds(m) \/ PutFails(m)
  <2>1. Serves(m)
    BY <1>3 DEF LookCategory, Reserve, OverLimit, PutSucceeds, PutFails, Refuse, Ended, Becomes, Serves, At, screenVars
  <2>2. QED
    BY <2>1, ServesScreenInv
<1>4. CASE Look(m) \/ Update(m) \/ Append(m) \/ Abort(m)
  <2>1. Serves(m)
    BY <1>4 DEF Look, Update, Append, Abort, Refuse, Ended, Answered, Becomes, Serves, At, screenVars
  <2>2. QED
    BY <2>1, ServesScreenInv
<1>5. QED
  BY <1>1, <1>2, <1>3, <1>4 DEF Upload, Change

(* The screen looks at a list, fetches it, opens a dialog, sends a request.  *)
LEMMA LooksScreenInv ==
  ASSUME ScreenInv, Go \/ Focus \/ Read \/ Arrive \/ FetchFails \/ OpenDialog \/ CloseDialog
  PROVE  ScreenInv'
<1> USE DEF ScreenInv, Copies, Lacks, AnswersTo
<1>1. call' = call /\ followed' = followed
  BY DEF Go, Focus, Read, Arrive, FetchFails, OpenDialog, CloseDialog, Stays
<1>2. CASE Go
  <2>1. place # None /\ place' \in Lists /\ place' # None
    BY <1>2, DocumentsAssumption DEF Go
  <2>2. CASE place' # followed /\ copy' = copy
    BY <1>1, <2>1, <2>2 DEF Waiting, ComingInv, NothingOwedAtRest, At
  <2>3. CASE Fetching /\ copy' = [copy EXCEPT !.joined = TRUE]
    BY <1>1, <2>1, <2>3 DEF Waiting, ComingInv, NothingOwedAtRest, At
  <2>4. CASE copy' = Asked
    BY <1>1, <2>1, <2>4 DEF Asked, Waiting, ComingInv, NothingOwedAtRest, At
  <2>5. QED
    BY <1>2, <2>2, <2>3, <2>4 DEF Go
<1>3. CASE Focus
  BY <1>1, <1>3 DEF Focus, Asked, Waiting, ComingInv, NothingOwedAtRest, At
<1>4. CASE Read
  BY <1>1, <1>4 DEF Read, Waiting, ComingInv, NothingOwedAtRest, At
<1>5. CASE Arrive
  BY <1>1, <1>5, DocumentsAssumption DEF Arrive, Waiting, ComingInv, NothingOwedAtRest, At
<1>6. CASE FetchFails
  BY <1>1, <1>6 DEF FetchFails, Waiting, ComingInv, NothingOwedAtRest, At
<1>7. CASE OpenDialog \/ CloseDialog
  BY <1>1, <1>7 DEF OpenDialog, CloseDialog, Waiting, ComingInv, NothingOwedAtRest, At
<1>8. QED
  BY <1>2, <1>3, <1>4, <1>5, <1>6, <1>7

(* An answer that shows in the list on the screen has it fetched anew, or    *)
(* joins its first fetch.                                                    *)
LEMMA HearScreenInv == ASSUME IInv, ScreenInv, Hear PROVE ScreenInv'
<1> DEFINE op == call[Screen].op
           again == Invalidated(Invalidates(op))
<1>1. /\ copy' = [again EXCEPT !.held = Heard(@, op), !.coming = Heard(@, op)]
      /\ At(Screen, "answered") /\ UNCHANGED <<place, followed>>
  BY DEF Hear
<1>2. place # None /\ ~Overlooks(followed, op) /\ {copy.held, copy.coming} \cap {"unheard"} # {}
        => followed \in Invalidates(op)
  BY DEF ScreenInv, Waiting, AnswersTo
<1>3. again \in Copies /\ again.held = copy.held /\ again.coming = copy.coming
  BY DEF Invalidated, Asked, ScreenInv, Copies
<1> HIDE DEF again
<1>4. copy' \in Copies /\ copy'.held # "unheard" /\ copy'.coming # "unheard"
  BY <1>1, <1>3 DEF Copies, Lacks, Heard
<1>5. /\ copy'.fetch = again.fetch /\ copy'.joined = again.joined
      /\ copy'.held = Heard(copy.held, op) /\ copy'.coming = Heard(copy.coming, op)
  BY <1>1, <1>3 DEF Copies
<1>6. ASSUME place # None, place = followed PROVE ComingInv' /\ NothingOwedAtRest'
  <2>1. CASE followed \in Invalidates(op)
    <3>1. again = Asked \/ (Fetching /\ again = [copy EXCEPT !.joined = TRUE])
      BY <1>6, <2>1 DEF Invalidated, again
    <3>2. CASE again = Asked
      BY <1>5, <3>2 DEF Asked, ScreenInv, Copies, ComingInv, NothingOwedAtRest
    <3>3. CASE Fetching /\ again = [copy EXCEPT !.joined = TRUE]
      BY <1>5, <3>3 DEF ScreenInv, Copies, ComingInv, NothingOwedAtRest
    <3>4. QED
      BY <3>1, <3>2, <3>3
  <2>2. CASE followed \notin Invalidates(op)
    <3>1. again = copy
      BY <2>2 DEF Invalidated, again
    <3>2. Heard(copy.held, op) = "heard" => copy.held = "heard"
      BY <1>2, <1>6, <2>2 DEF Heard
    <3>3. Heard(copy.coming, op) = "heard" => copy.coming = "heard"
      BY <1>2, <1>6, <2>2 DEF Heard
    <3>4. QED
      BY <1>1, <1>5, <1>6, <3>1, <3>2, <3>3 DEF ScreenInv, ComingInv, NothingOwedAtRest
  <2>3. QED
    BY <2>1, <2>2
<1>7. ~(place = None /\ place = followed)
  BY DocumentsAssumption DEF ScreenInv
<1>8. QED
  BY <1>1, <1>4, <1>6, <1>7 DEF ScreenInv, Waiting, ComingInv, NothingOwedAtRest

LEMMA UnheardScreenInv == ASSUME ScreenInv, HearRefusal \/ Lose PROVE ScreenInv'
<1> USE DEF ScreenInv, Copies, Lacks
<1>1. UNCHANGED <<place, followed>>
  BY DEF HearRefusal, Lose
<1>2. CASE HearRefusal
  <2>1. place # None => copy.held # "unheard" /\ copy.coming # "unheard"
    BY <1>2 DEF HearRefusal, Waiting, At
  <2>2. copy' \in {copy, Asked} \/ (Fetching /\ copy' = [copy EXCEPT !.joined = TRUE])
    BY <1>2 DEF HearRefusal, Invalidated
  <2>3. place \in Lists \/ place # followed
    BY DocumentsAssumption
  <2>4. CASE copy' = copy
    BY <1>1, <2>1, <2>3, <2>4 DEF Waiting, ComingInv, NothingOwedAtRest
  <2>5. CASE copy' = Asked
    BY <1>1, <2>1, <2>3, <2>5 DEF Asked, Waiting, ComingInv, NothingOwedAtRest
  <2>6. CASE Fetching /\ copy' = [copy EXCEPT !.joined = TRUE]
    BY <1>1, <2>1, <2>3, <2>6 DEF Waiting, ComingInv, NothingOwedAtRest
  <2>7. QED
    BY <2>2, <2>4, <2>5, <2>6
<1>3. CASE Lose
  <2>1. copy' = [copy EXCEPT !.held = Forgotten(@), !.coming = Forgotten(@)]
    BY <1>3 DEF Lose
  <2>2. /\ copy' \in Copies /\ copy'.fetch = copy.fetch /\ copy'.joined = copy.joined
        /\ copy'.held # "unheard" /\ (copy'.held = "heard" => copy.held = "heard")
        /\ copy'.coming # "unheard" /\ (copy'.coming = "heard" => copy.coming = "heard")
    BY <2>1 DEF Forgotten
  <2>3. QED
    BY <1>1, <2>2 DEF Waiting, ComingInv, NothingOwedAtRest
<1>4. QED
  BY <1>2, <1>3

LEMMA NextScreenInv == IInv /\ ScreenInv /\ [Next]_vars => ScreenInv'
<1> SUFFICES ASSUME IInv, ScreenInv, [Next]_vars PROVE ScreenInv'
  OBVIOUS
<1>1. ASSUME NEW m \in Member, Ask(m) \/ Upload(m) \/ Change(m) \/ Abort(m) PROVE ScreenInv'
  BY <1>1, RequestScreenInv
<1>2. CASE ChangePlan \/ ConfigureLimits \/ RetireCategory \/ UNCHANGED vars
  BY <1>2, StaysScreenInv DEF ChangePlan, ConfigureLimits, RetireCategory, vars
<1>3. CASE Go \/ Focus \/ Read \/ Arrive \/ FetchFails \/ OpenDialog \/ CloseDialog
  BY <1>3, LooksScreenInv
<1>4. CASE Submit
  <2>1. Serves(Screen)
    BY <1>4 DEF Submit, Sends, Serves, At, Idle, IInv, TypeInv
  <2>2. QED
    BY <2>1, ServesScreenInv, DocumentsAssumption
<1>5. CASE Hear \/ HearRefusal \/ Lose
  BY <1>5, HearScreenInv, UnheardScreenInv
<1>6. QED
  BY <1>1, <1>2, <1>3, <1>4, <1>5 DEF Next

(* A list at rest on the screen owes nothing the screen has heard of, but    *)
(* for a fetch it joined and for what nobody has it fetched for              *)
(* (UploadDialog.tsx, DocumentList.tsx, WithdrawnList.tsx).                  *)
THEOREM ListsAtRestOweNothing == Spec => []NothingOwedAtRest
<1>1. ScreenInv => NothingOwedAtRest
  BY DEF ScreenInv, NothingOwedAtRest
<1>2. QED
  BY <1>1, InitIInv, NextIInv, InitScreenInv, NextScreenInv, PTL DEF Spec

=============================================================================
