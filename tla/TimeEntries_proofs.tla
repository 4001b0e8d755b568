--------------------------- MODULE TimeEntries_proofs ---------------------------
(***************************************************************************)
(* The timer, the entries and the cached copies, for every number of tabs, *)
(* matters and changes.  The row locks leave no look between a check and a *)
(* write, so the row properties hold of each step; what the copies promise *)
(* needs to know that an answer under way is newer than what its copy is   *)
(* owed: hearing of a change drops the fetches that are older, or nothing  *)
(* is owed to a copy whose fetch goes on.                                  *)
(* Then the calendar, for every length of a day and of a week: what is     *)
(* stored, and what an edit in flight is about to store, was validated.    *)
(***************************************************************************)
EXTENDS TimeEntries, Calendar, SequenceTheorems, FiniteSetTheorems, TLAPS

Ops == {"none", "start", "stop", "discard", "log", "correct", "void"}

Calls ==
  [phase : {"idle", "open", "sent", "begun", "done", "refused"}, op : Ops, case : Case \cup {"none"},
   id : Nat, day : Nat, minutes : Nat, began : Nat, change : Nat,
   closed : BOOLEAN]

\* The copies a tab may have or be sent.
Copy == [has : BOOLEAN, v : Nat, ok : BOOLEAN, ids : SUBSET Nat, available : BOOLEAN]

TypeInv ==
  /\ rows \in Seq(EntryRow)
  /\ clock \in Nat /\ version \in Nat
  /\ call \in [Tab -> Calls]
  /\ view \in [Viewer -> Copy] /\ flight \in [Viewer -> SUBSET Copy]
  /\ owed \in [Viewer -> Nat] /\ stale \cup missed \subseteq Viewer
  /\ place \in [Watched -> Places]

\* A request that inserts a row is about a matter of the firm.
CaseInv ==
  \A t \in Tab :
    call[t].phase \in {"sent", "begun"} /\ call[t].op \in {"start", "log"} => call[t].case \in Case

\* A copy has ids of rows there are.
IdsInv ==
  \A x \in Viewer :
    /\ view[x].ids \subseteq DOMAIN rows
    /\ \A copy \in flight[x] : copy.ids \subseteq DOMAIN rows

\* One timer, whoever started it.
OneRunning == \A i, j \in With("running") : i = j

\* A copy on its way is as new as the one it takes the place of and as what it is owed, and
\* says that it came.
FlightInv ==
  \A x \in Viewer :
    /\ view[x].v <= version /\ owed[x] <= version
    /\ \A copy \in flight[x] :
         copy.has /\ copy.ok /\ copy.v \in view[x].v .. version /\ copy.v >= owed[x]

\* A change a tab has not heard of yet is younger than all its copies are owed.
ChangeInv ==
  \A t \in Watched :
    call[t].phase = "done" =>
      /\ call[t].change \in 1 .. version
      /\ \A q \in Query : owed[<<t, q>>] < call[t].change

IInv == TypeInv /\ CaseInv /\ IdsInv /\ OneRunning /\ FlightInv /\ ChangeInv

-----------------------------------------------------------------------------
(* An instant is in a day.                                                   *)
LEMMA TodayType == ASSUME NEW at \in Nat PROVE Today(at) \in Nat
  BY TimeAssumption DEF Today

(* Nothing was entered yet.                                                  *)
LEMMA InitIInv == Init => IInv
<1> SUFFICES ASSUME Init PROVE IInv
  OBVIOUS
<1> USE TimeAssumption DEF Init
<1>1. rows = <<>> /\ rows \in Seq(EntryRow)
  OBVIOUS
<1>2. NoCall \in Calls
  BY DEF NoCall, Calls, Ops
<1>3. TypeInv
  BY <1>1, <1>2 DEF TypeInv, Copy, NoCopy, Viewer
<1>4. CaseInv /\ ChangeInv
  BY DEF CaseInv, ChangeInv, NoCall
<1>5. IdsInv /\ FlightInv /\ OneRunning
  BY <1>1 DEF IdsInv, FlightInv, OneRunning, With, NoCopy
<1>6. QED
  BY <1>3, <1>4, <1>5 DEF IInv

-----------------------------------------------------------------------------
(* A tab's call goes on; the rows and the copies stay.                       *)
LEMMA CallIInv ==
  ASSUME IInv, NEW t \in Tab, NEW c \in Calls, call' = [call EXCEPT ![t] = c], c.phase # "done",
         c.phase \in {"sent", "begun"} /\ c.op \in {"start", "log"} => c.case \in Case,
         UNCHANGED <<Server, Screen, clock>>
  PROVE  IInv'
<1> USE DEF IInv, Server, Screen
<1>1. TypeInv' /\ call \in [Tab -> Calls]
  BY DEF TypeInv
<1>2. CaseInv'
  BY <1>1 DEF CaseInv
<1>3. ChangeInv'
  BY <1>1, TimeAssumption DEF ChangeInv
<1>4. IdsInv' /\ OneRunning' /\ FlightInv'
  BY DEF IdsInv, OneRunning, FlightInv, With
<1>5. QED
  BY <1>1, <1>2, <1>3, <1>4

(* A call stays what it is, but for what no part of the invariant names.     *)
LEMMA SameCallIInv ==
  ASSUME IInv, NEW t \in Tab, NEW c \in Calls, call' = [call EXCEPT ![t] = c], c.phase = call[t].phase,
         c.op = call[t].op, c.case = call[t].case, c.change = call[t].change,
         UNCHANGED <<Server, Screen, clock>>
  PROVE  IInv'
<1> USE DEF IInv, Server, Screen
<1>1. TypeInv' /\ call \in [Tab -> Calls]
  BY DEF TypeInv
<1>2. CaseInv'
  BY <1>1 DEF CaseInv
<1>3. ChangeInv'
  BY <1>1, TimeAssumption DEF ChangeInv
<1>4. IdsInv' /\ OneRunning' /\ FlightInv'
  BY DEF IdsInv, OneRunning, FlightInv, With
<1>5. QED
  BY <1>1, <1>2, <1>3, <1>4

(* A request is sent.                                                        *)
LEMMA SendIInv ==
  ASSUME IInv, NEW t \in Tab, NEW r \in Calls, Send(t, r), r.op \in {"start", "log"} => r.case \in Case
  PROVE  IInv'
<1> DEFINE c == [r EXCEPT !.phase = "sent"]
<1>1. c \in Calls /\ c.phase = "sent" /\ c.op = r.op /\ c.case = r.case
  BY DEF Calls
<1>2. call' = [call EXCEPT ![t] = c] /\ UNCHANGED <<Server, Screen, clock>>
  BY DEF Send
<1> HIDE DEF c
<1>3. QED
  BY <1>1, <1>2, CallIInv

LEMMA RequestType ==
  ASSUME NEW op \in Ops, NEW c \in Case \cup {"none"}, NEW id \in Nat
  PROVE  Request(op, c, id) \in Calls /\ Request(op, c, id).op = op /\ Request(op, c, id).case = c
  BY DEF Request, NoCall, Calls, Ops

(* What a screen shows are rows there are.                                   *)
LEMMA ShownRows ==
  ASSUME IInv, NEW t \in Watched, NEW q \in Query, NEW id \in Shown(t, q)
  PROVE  id \in Nat /\ rows[id] \in EntryRow /\ rows[id].case \in Case
<1>1. <<t, q>> \in Viewer
  BY DEF Viewer
<1>2. id \in DOMAIN rows /\ rows \in Seq(EntryRow)
  BY <1>1 DEF Shown, IInv, IdsInv, TypeInv
<1>3. id \in 1 .. Len(rows)
  BY <1>2
<1>4. rows[id] \in EntryRow
  BY <1>2, <1>3, ElementOfSeq
<1>5. QED
  BY <1>3, <1>4 DEF EntryRow

(* What a person presses.                                                    *)
LEMMA PressIInv ==
  ASSUME IInv, NEW t \in Watched, PressStart(t) \/ PressStop(t) \/ PressDiscard(t)
  PROVE  IInv'
<1>1. t \in Tab /\ {"start", "stop", "discard"} \subseteq Ops /\ "timer" \in Query
  BY TimeAssumption DEF Ops, Query
<1>2. CASE PressStart(t)
  <2>1. PICK c \in Case : Send(t, Request("start", c, 0))
    BY <1>2 DEF PressStart
  <2>2. QED
    BY <1>1, <2>1, RequestType, SendIInv
<1>3. CASE PressStop(t)
  <2>1. PICK id \in Shown(t, "timer") : Send(t, Request("stop", rows[id].case, id))
    BY <1>3 DEF PressStop
  <2>2. id \in Nat /\ rows[id].case \in Case
    BY <1>1, ShownRows
  <2>3. QED
    BY <1>1, <2>1, <2>2, RequestType, SendIInv
<1>4. CASE PressDiscard(t)
  <2>1. PICK id \in Shown(t, "timer") : Send(t, Request("discard", "none", id))
    BY <1>4 DEF PressDiscard
  <2>2. id \in Nat
    BY <1>1, ShownRows
  <2>3. QED
    BY <1>1, <2>1, <2>2, RequestType, SendIInv
<1>5. QED
  BY <1>2, <1>3, <1>4

(* The dialogs are opened, closed and sent.                                  *)
LEMMA DialogIInv ==
  ASSUME IInv, NEW t \in Watched, OpenDialog(t) \/ CloseDialog(t) \/ SubmitForm(t) \/ ConfirmVoid(t)
  PROVE  IInv'
<1>1. /\ t \in Tab /\ {"log", "correct", "void"} \subseteq Ops /\ "sheet" \in Query /\ call[t] \in Calls
      /\ call \in [Tab -> Calls]
  BY TimeAssumption DEF Ops, Query, IInv, TypeInv
<1>2. CASE OpenDialog(t)
  <2>1. ASSUME NEW r \in Calls, Opens(t, r) PROVE IInv'
    <3> DEFINE c == [r EXCEPT !.phase = "open"]
    <3>1. c \in Calls /\ c.phase = "open"
      BY DEF Calls
    <3> HIDE DEF c
    <3>2. call' = [call EXCEPT ![t] = c]
      BY <2>1 DEF c, Opens
    <3>3. QED
      BY <1>1, <1>2, <3>1, <3>2, CallIInv DEF OpenDialog
  <2>2. ASSUME NEW op \in {"correct", "void"}, NEW id \in Shown(t, "sheet")
        PROVE  Request(op, rows[id].case, id) \in Calls
    <3>1. id \in Nat /\ rows[id].case \in Case
      BY <1>1, ShownRows
    <3>2. QED
      BY <1>1, <3>1, RequestType
  <2>3. Request("log", "none", 0) \in Calls
    BY DEF Request, NoCall, Calls, Ops
  <2>4. QED
    BY <1>2, <2>1, <2>2, <2>3 DEF OpenDialog
<1>3. CASE CloseDialog(t)
  <2> DEFINE c == [call[t] EXCEPT !.closed = TRUE]
  <2>1. NoCall \in Calls /\ NoCall.phase = "idle"
    BY DEF NoCall, Calls, Ops
  <2>2. c \in Calls /\ c.phase = call[t].phase /\ c.op = call[t].op /\ c.case = call[t].case
        /\ c.change = call[t].change
    BY <1>1 DEF Calls
  <2>3. call' = [call EXCEPT ![t] = c] \/ call' = [call EXCEPT ![t] = NoCall]
    BY <1>1, <1>3 DEF CloseDialog
  <2>4. UNCHANGED <<Server, Screen, clock>>
    BY <1>3 DEF CloseDialog
  <2> HIDE DEF c
  <2>5. CASE call' = [call EXCEPT ![t] = c]
    BY <1>1, <2>2, <2>4, <2>5, SameCallIInv
  <2>6. QED
    BY <1>1, <2>1, <2>3, <2>4, <2>5, CallIInv
<1>4. CASE SubmitForm(t)
  <2>1. PICK day \in 0 .. Today(MaxClock), minutes \in Durations,
             case \in IF call[t].op = "log" THEN Case ELSE {call[t].case} :
          Send(t, [call[t] EXCEPT !.case = case, !.day = day, !.minutes = minutes])
    BY <1>4 DEF SubmitForm
  <2> DEFINE r == [call[t] EXCEPT !.case = case, !.day = day, !.minutes = minutes]
  <2>2. day \in Nat /\ minutes \in Nat
    BY TimeAssumption, TodayType
  <2>3. case \in Case \cup {"none"} /\ (call[t].op = "log" => case \in Case)
    BY <1>1 DEF Calls
  <2>4. call[t].op \in {"log", "correct"}
    BY <1>4 DEF SubmitForm
  <2>5. r \in Calls /\ r.op = call[t].op /\ r.case = case
    BY <1>1, <2>2, <2>3 DEF Calls
  <2> HIDE DEF r
  <2>6. Send(t, r)
    BY <2>1 DEF r
  <2>7. QED
    BY <1>1, <2>3, <2>4, <2>5, <2>6, SendIInv
<1>5. CASE ConfirmVoid(t)
  BY <1>1, <1>5, SendIInv DEF ConfirmVoid
<1>6. QED
  BY <1>2, <1>3, <1>4, <1>5

(* Another device sends anything.                                            *)
LEMMA ElsewhereIInv == ASSUME IInv, NEW t \in Tab \ Watched, SendElsewhere(t) PROVE IInv'
<1>1. PICK op \in {"start", "stop", "discard", "log", "correct", "void"}, c \in Case,
           day \in Today(clock) .. Today(clock) + 1 :
        \E id \in IF op \in {"correct", "void"} THEN DOMAIN rows ELSE {0}, minutes \in Durations :
          Send(t, [Request(op, c, id) EXCEPT !.day = IF op \in {"log", "correct"} THEN day ELSE 0,
                                             !.minutes = IF op \in {"log", "correct"} THEN minutes ELSE 0])
  BY DEF SendElsewhere
<1>2. PICK id \in IF op \in {"correct", "void"} THEN DOMAIN rows ELSE {0}, minutes \in Durations :
        Send(t, [Request(op, c, id) EXCEPT !.day = IF op \in {"log", "correct"} THEN day ELSE 0,
                                           !.minutes = IF op \in {"log", "correct"} THEN minutes ELSE 0])
  BY <1>1
<1> DEFINE d == IF op \in {"log", "correct"} THEN day ELSE 0
           n == IF op \in {"log", "correct"} THEN minutes ELSE 0
           r == [Request(op, c, id) EXCEPT !.day = d, !.minutes = n]
<1>3. id \in Nat /\ op \in Ops /\ t \in Tab
  BY DEF IInv, TypeInv, Ops
<1>4. Today(clock) \in Nat
  BY TodayType DEF IInv, TypeInv
<1>5. d \in Nat /\ n \in Nat
  BY <1>4, TimeAssumption
<1>6. Send(t, r)
  BY <1>2
<1>7. Request(op, c, id) \in Calls /\ Request(op, c, id).op = op /\ Request(op, c, id).case = c
  BY <1>3, RequestType
<1> HIDE DEF d, n
<1>8. r \in Calls /\ r.op = op /\ r.case = c
  BY <1>5, <1>7 DEF Calls
<1> HIDE DEF r
<1>9. QED
  BY <1>3, <1>6, <1>8, SendIInv

-----------------------------------------------------------------------------
(* A refused request changes no row.                                         *)
LEMMA RefuseIInv == ASSUME IInv, NEW t \in Tab, Refuse(t), UNCHANGED <<Screen, clock>> PROVE IInv'
<1> DEFINE c == IF t \in Watched THEN [call[t] EXCEPT !.phase = "refused", !.change = 0] ELSE NoCall
<1>1. call[t] \in Calls
  BY DEF IInv, TypeInv
<1>2. c \in Calls /\ c.phase \in {"refused", "idle"}
  BY <1>1 DEF Calls, NoCall, Ops
<1>3. call' = [call EXCEPT ![t] = c] /\ UNCHANGED Server
  BY <1>1 DEF Refuse, Answered, IInv, TypeInv
<1> HIDE DEF c
<1>4. QED
  BY <1>2, <1>3, CallIInv

(* A request begins on its transaction's clock.                              *)
LEMMA BeginIInv == ASSUME IInv, NEW t \in Tab, Begin(t) PROVE IInv'
<1> DEFINE c == [call[t] EXCEPT !.phase = "begun", !.began = clock]
<1>1. call[t] \in Calls /\ call \in [Tab -> Calls] /\ clock \in Nat /\ call[t].phase = "sent"
  BY DEF IInv, TypeInv, Begin
<1>2. c \in Calls /\ c.phase = "begun" /\ c.op = call[t].op /\ c.case = call[t].case
  BY <1>1 DEF Calls
<1>3. c.op \in {"start", "log"} => c.case \in Case
  BY <1>1, <1>2 DEF IInv, CaseInv
<1>4. UNCHANGED <<Server, Screen, clock>> \/ (Refuse(t) /\ UNCHANGED <<Screen, clock>>)
  BY DEF Begin
<1>5. call' = [call EXCEPT ![t] = c] \/ Refuse(t)
  BY <1>1 DEF Begin
<1>6. UNCHANGED <<Screen, clock>> /\ (call' = [call EXCEPT ![t] = c] => UNCHANGED Server)
  BY DEF Begin, Refuse
<1> HIDE DEF c
<1>7. QED
  BY <1>2, <1>3, <1>5, <1>6, CallIInv, RefuseIInv

(* Rows that a write may leave.                                              *)
Single(newRows) ==
  \A i, j \in DOMAIN newRows : newRows[i].status = "running" /\ newRows[j].status = "running" => i = j

(* A write: the tab that is told of it was told nothing as young.            *)
LEMMA WriteIInv ==
  ASSUME IInv, NEW t \in Tab, NEW newRows \in Seq(EntryRow), Write(t, newRows),
         DOMAIN rows \subseteq DOMAIN newRows, Single(newRows), UNCHANGED <<Screen, clock>>
  PROVE  IInv'
<1> USE TimeAssumption DEF IInv, Write, Screen
<1> DEFINE c == IF t \in Watched THEN [call[t] EXCEPT !.phase = "done", !.change = version + 1] ELSE NoCall
<1>1. call \in [Tab -> Calls] /\ call[t] \in Calls /\ version \in Nat /\ owed \in [Viewer -> Nat]
  BY DEF TypeInv
<1>2. c \in Calls /\ c.phase \in {"done", "idle"} /\ (c.phase = "done" => c.change = version + 1)
  <2>1. version + 1 \in Nat /\ NoCall \in Calls /\ NoCall.phase = "idle"
    BY <1>1 DEF Calls, NoCall, Ops
  <2>2. CASE t \in Watched
    BY <1>1, <2>1, <2>2 DEF Calls
  <2>3. QED
    BY <2>1, <2>2
<1>3. call' = [call EXCEPT ![t] = c]
  BY <1>1 DEF Answered
<1> HIDE DEF c
<1>4. TypeInv'
  BY <1>1, <1>2, <1>3 DEF TypeInv
<1>5. CaseInv'
  BY <1>1, <1>2, <1>3 DEF CaseInv
<1>6. IdsInv'
  BY DEF IdsInv
<1>7. OneRunning'
  BY DEF OneRunning, With, Single
<1>8. FlightInv'
  BY <1>1 DEF FlightInv, TypeInv, Copy
<1>9. ASSUME NEW s \in Watched, call'[s].phase = "done"
      PROVE  call'[s].change \in 1 .. version' /\ \A q \in Query : owed[<<s, q>>] < call'[s].change
  <2>1. \A q \in Query : <<s, q>> \in Viewer
    BY DEF Viewer
  <2>2. CASE s = t
    BY <1>1, <1>2, <1>3, <1>9, <2>1, <2>2 DEF FlightInv
  <2>3. CASE s # t
    BY <1>1, <1>3, <1>9, <2>1, <2>3 DEF ChangeInv
  <2>4. QED
    BY <2>2, <2>3
<1>10. ChangeInv'
  BY <1>9 DEF ChangeInv
<1>11. QED
  BY <1>4, <1>5, <1>6, <1>7, <1>8, <1>10

(* A row is added.                                                           *)
LEMMA AppendIInv ==
  ASSUME IInv, NEW t \in Tab, NEW row \in EntryRow, Write(t, Append(rows, row)),
         row.status = "running" => With("running") = {}, UNCHANGED <<Screen, clock>>
  PROVE  IInv'
<1>1. rows \in Seq(EntryRow)
  BY DEF IInv, TypeInv
<1> DEFINE newRows == Append(rows, row)
<1>2. /\ newRows \in Seq(EntryRow) /\ Len(newRows) = Len(rows) + 1
      /\ \A i \in 1 .. Len(rows) : newRows[i] = rows[i]
      /\ newRows[Len(rows) + 1] = row
  BY <1>1, AppendProperties
<1> HIDE DEF newRows
<1>3. DOMAIN rows = 1 .. Len(rows) /\ DOMAIN newRows = 1 .. Len(rows) + 1 /\ Len(rows) \in Nat
  BY <1>1, <1>2
<1>4. Single(newRows)
  BY <1>2, <1>3 DEF Single, With, IInv, OneRunning
<1>5. Write(t, newRows)
  BY DEF newRows
<1>6. DOMAIN rows \subseteq DOMAIN newRows
  BY <1>3
<1>7. QED
  BY <1>2, <1>4, <1>5, <1>6, WriteIInv

(* A row is changed, and does not run afterwards.                            *)
LEMMA ChangeIInv ==
  ASSUME IInv, NEW t \in Tab, NEW id, NEW row \in EntryRow, row.status # "running",
         Write(t, [rows EXCEPT ![id] = row]), UNCHANGED <<Screen, clock>>
  PROVE  IInv'
<1>1. rows \in Seq(EntryRow) /\ DOMAIN rows = 1 .. Len(rows)
  BY DEF IInv, TypeInv
<1> DEFINE newRows == [rows EXCEPT ![id] = row]
<1>2. DOMAIN newRows = DOMAIN rows /\ \A i \in DOMAIN rows : newRows[i] = IF i = id THEN row ELSE rows[i]
  OBVIOUS
<1>3. newRows \in Seq(EntryRow)
  <2>1. CASE id \in 1 .. Len(rows)
    BY <1>1, <2>1, ExceptSeq
  <2>2. CASE id \notin DOMAIN rows
    <3>1. rows = [i \in DOMAIN rows |-> rows[i]]
      BY <1>1
    <3>2. newRows = [i \in DOMAIN rows |-> rows[i]]
      BY <2>2
    <3>3. QED
      BY <1>1, <3>1, <3>2
  <2>3. QED
    BY <1>1, <2>1, <2>2
<1> HIDE DEF newRows
<1>4. Single(newRows)
  BY <1>2 DEF Single, With, IInv, OneRunning
<1>5. QED
  BY <1>2, <1>3, <1>4, WriteIInv DEF newRows

(* What a request about to commit is made of, and the rows it finds.         *)
LEMMA Committing ==
  ASSUME IInv, NEW t \in Tab, Commit(t)
  PROVE  /\ call[t] \in Calls /\ rows \in Seq(EntryRow) /\ DOMAIN rows = 1 .. Len(rows)
         /\ call[t].op \in {"start", "log"} => call[t].case \in Case
         /\ Today(call[t].began) \in Nat /\ UNCHANGED <<Screen, clock>>
<1>1. call[t] \in Calls /\ rows \in Seq(EntryRow)
  BY DEF IInv, TypeInv
<1>2. Today(call[t].began) \in Nat
  BY <1>1, TodayType DEF Calls
<1>3. QED
  BY <1>1, <1>2 DEF IInv, CaseInv, Commit

(* Whatever a request does to a row leaves a row.                            *)
LEMMA RowTypes ==
  ASSUME IInv, NEW id \in DOMAIN rows
  PROVE  rows[id] \in EntryRow
<1>1. rows \in Seq(EntryRow) /\ id \in 1 .. Len(rows)
  BY DEF IInv, TypeInv
<1>2. QED
  BY <1>1, ElementOfSeq

(* A timer starts if none runs.                                              *)
LEMMA StartIInv == ASSUME IInv, NEW t \in Tab, Commit(t), call[t].op = "start", Start(t) PROVE IInv'
<1> DEFINE row == Entry(t, "timer", "running", call[t].began)
<1>1. call[t].began \in Nat /\ Today(call[t].began) \in Nat
  BY Committing DEF Calls
<1>2. CASE call[t].case \in Case /\ With("running") = {} /\ Write(t, Append(rows, row))
  <2>1. row \in EntryRow
    BY <1>1, <1>2, TimeAssumption DEF Entry, EntryRow
  <2>2. QED
    BY <1>2, <2>1, Committing, AppendIInv
<1>3. call[t].case \in Case
  BY Committing
<1> HIDE DEF row
<1>4. Refuse(t) \/ (With("running") = {} /\ Write(t, Append(rows, row)))
  BY DEF Start, row
<1>5. QED
  BY <1>2, <1>3, <1>4, Committing, RefuseIInv

(* An entry that is logged by hand.                                          *)
LEMMA LogIInv == ASSUME IInv, NEW t \in Tab, Commit(t), call[t].op = "log", Log(t) PROVE IInv'
<1> DEFINE row == [Entry(t, "manual", "logged", call[t].began) EXCEPT
                     !.minutes = call[t].minutes, !.logged = call[t].began, !.day = call[t].day]
<1>1. /\ call[t].began \in Nat /\ call[t].day \in Nat /\ Today(call[t].began) \in Nat
      /\ call[t].case \in Case
  BY Committing DEF Calls
<1>2. CASE BodyAllows(t) /\ Write(t, Append(rows, row))
  <2>1. call[t].minutes \in 0 .. MaxMinutes
    BY <1>2, TimeAssumption DEF BodyAllows
  <2>2. row \in EntryRow /\ row.status # "running"
    BY <1>1, <2>1, TimeAssumption DEF Entry, EntryRow
  <2>3. Write(t, Append(rows, row))
    BY <1>2
  <2> HIDE DEF row
  <2>4. QED
    BY <2>2, <2>3, Committing, AppendIInv
<1>3. QED
  BY <1>2, Committing, RefuseIInv DEF Log

(* A timer that is stopped is an entry of at most a day.                     *)
LEMMA StopIInv == ASSUME IInv, NEW t \in Tab, Commit(t), Stop(t) PROVE IInv'
<1>1. call[t].began \in Nat
  BY Committing DEF Calls
<1>2. ASSUME NEW id \in Stoppable(t),
             Write(t, [rows EXCEPT ![id].status = "logged", ![id].logged = call[t].began,
                                   ![id].minutes = Elapsed(id, call[t].began)])
      PROVE  IInv'
  <2> DEFINE n == Elapsed(id, call[t].began)
             row == [rows[id] EXCEPT !.status = "logged", !.logged = call[t].began, !.minutes = n]
  <2>1. id \in DOMAIN rows /\ n <= MaxMinutes
    BY <1>2 DEF Stoppable, With
  <2>2. rows[id] \in EntryRow
    BY <2>1, RowTypes
  <2>3. n \in 0 .. MaxMinutes
    BY <1>1, <2>1, <2>2, TimeAssumption DEF Elapsed, EntryRow
  <2>4. Write(t, [rows EXCEPT ![id] = row])
    BY <1>2
  <2> HIDE DEF n
  <2>5. row \in EntryRow /\ row.status # "running"
    BY <1>1, <2>2, <2>3 DEF EntryRow
  <2> HIDE DEF row
  <2>6. QED
    BY <2>4, <2>5, Committing, ChangeIInv
<1>3. QED
  BY <1>2, Committing, RefuseIInv DEF Stop

(* A timer that is discarded.                                                *)
LEMMA DiscardIInv == ASSUME IInv, NEW t \in Tab, Commit(t), Discard(t) PROVE IInv'
<1>1. ASSUME NEW id \in With("running"), Write(t, [rows EXCEPT ![id].status = "voided"]) PROVE IInv'
  <2> DEFINE row == [rows[id] EXCEPT !.status = "voided"]
  <2>1. rows[id] \in EntryRow
    BY RowTypes DEF With
  <2>2. Write(t, [rows EXCEPT ![id] = row])
    BY <1>1
  <2>3. row \in EntryRow /\ row.status # "running"
    BY <2>1 DEF EntryRow
  <2> HIDE DEF row
  <2>4. QED
    BY <2>2, <2>3, Committing, ChangeIInv
<1>2. QED
  BY <1>1, Committing, RefuseIInv DEF Discard

(* A write to a row there is not changes none.                               *)
LEMMA NoSuchRow ==
  ASSUME NEW S, NEW seq \in Seq(S), NEW id, id \notin DOMAIN seq, NEW e
  PROVE  [seq EXCEPT ![id] = e] = seq
<1>1. seq = [i \in DOMAIN seq |-> seq[i]]
  OBVIOUS
<1>2. [seq EXCEPT ![id] = e] = [i \in DOMAIN seq |-> seq[i]]
  OBVIOUS
<1>3. QED
  BY <1>1, <1>2

(* A dialog's request changes the entry it was opened on.                    *)
LEMMA DialogWriteIInv ==
  ASSUME IInv, NEW t \in Tab, NEW id, NEW row, id \in DOMAIN rows => row \in EntryRow /\ row.status # "running",
         Write(t, [rows EXCEPT ![id] = row]), UNCHANGED <<Screen, clock>>
  PROVE  IInv'
<1>1. CASE id \in DOMAIN rows
  BY <1>1, ChangeIInv
<1>2. CASE id \notin DOMAIN rows
  <2>1. rows \in Seq(EntryRow)
    BY DEF IInv, TypeInv
  <2>2. Write(t, rows)
    BY <1>2, <2>1, NoSuchRow
  <2>3. Single(rows)
    BY DEF Single, IInv, OneRunning, With
  <2>4. QED
    BY <2>1, <2>2, <2>3, WriteIInv
<1>3. QED
  BY <1>1, <1>2

LEMMA CorrectIInv == ASSUME IInv, NEW t \in Tab, Commit(t), Correct(t) PROVE IInv'
<1> DEFINE id == call[t].id
           row == [rows[id] EXCEPT !.minutes = call[t].minutes, !.day = call[t].day]
<1>1. CASE MayCorrect(t) /\ BodyAllows(t) /\ Write(t, [rows EXCEPT ![id].minutes = call[t].minutes, ![id].day = call[t].day])
  <2>1. call[t].day \in Nat
    BY Committing DEF Calls
  <2>2. call[t].minutes \in 0 .. MaxMinutes
    BY <1>1, TimeAssumption DEF BodyAllows
  <2>3. ASSUME id \in DOMAIN rows PROVE row \in EntryRow /\ row.status # "running"
    <3>1. rows[id] \in EntryRow
      BY <2>3, RowTypes
    <3>2. QED
      BY <1>1, <2>1, <2>2, <3>1 DEF EntryRow, MayCorrect
  <2>4. Write(t, [rows EXCEPT ![id] = row])
    BY <1>1
  <2> HIDE DEF row, id
  <2>5. QED
    BY <2>3, <2>4, Committing, DialogWriteIInv
<1>2. QED
  BY <1>1, Committing, RefuseIInv DEF Correct

LEMMA VoidIInv == ASSUME IInv, NEW t \in Tab, Commit(t), Void(t) PROVE IInv'
<1> DEFINE id == call[t].id
           row == [rows[id] EXCEPT !.status = "voided"]
<1>1. CASE MayCorrect(t) /\ Write(t, [rows EXCEPT ![id].status = "voided"])
  <2>1. ASSUME id \in DOMAIN rows PROVE row \in EntryRow /\ row.status # "running"
    <3>1. rows[id] \in EntryRow
      BY <2>1, RowTypes
    <3>2. QED
      BY <3>1 DEF EntryRow
  <2>2. Write(t, [rows EXCEPT ![id] = row])
    BY <1>1
  <2> HIDE DEF row, id
  <2>3. QED
    BY <2>1, <2>2, Committing, DialogWriteIInv
<1>2. QED
  BY <1>1, Committing, RefuseIInv DEF Void

LEMMA CommitIInv == ASSUME IInv, NEW t \in Tab, Commit(t) PROVE IInv'
  BY StartIInv, StopIInv, DiscardIInv, LogIInv, CorrectIInv, VoidIInv DEF Commit

-----------------------------------------------------------------------------
(* An answer is heard: fetches that are older are dropped, or nothing is     *)
(* owed to their copies.                                                     *)
LEMMA HearIInv == ASSUME IInv, NEW t \in Watched, Hear(t) PROVE IInv'
<1> USE TimeAssumption DEF IInv, Server
<1> DEFINE X == {t} \X Invalidates(call[t].op)
           late == {x \in X : Misses(x, call[t].change)}
<1>1. /\ call' = [call EXCEPT ![t] = NoCall] /\ UNCHANGED <<rows, version, place, view, clock>>
      /\ stale' = stale \cup {x \in X : OnScreen(x) /\ (Drops(x) \/ flight[x] = {})}
      /\ flight' = [x \in Viewer |-> IF x \in X /\ Drops(x) THEN {} ELSE flight[x]]
      /\ owed' = [x \in Viewer |-> IF x \in X \ late THEN call[t].change ELSE owed[x]]
      /\ missed' = missed \cup late /\ call[t].phase = "done"
  BY DEF Hear, Invalidate
<1>2. X \subseteq Viewer /\ \A x \in X : x[1] = t
  BY DEF Viewer, Invalidates, Query
<1>3. NoCall \in Calls /\ NoCall.phase = "idle" /\ call \in [Tab -> Calls] /\ call[t].change \in Nat
  BY DEF NoCall, Calls, Ops, TypeInv
<1>4. call[t].change \in 1 .. version
  BY <1>1 DEF ChangeInv
<1>5. ASSUME NEW x \in X \ late, NEW copy \in flight'[x] PROVE copy.v >= call[t].change
  <2>1. copy \in flight[x] /\ ~Drops(x) /\ x \in Viewer
    BY <1>1, <1>2, <1>5
  <2>2. copy.v \in Nat
    BY <2>1 DEF TypeInv, Copy
  <2>3. QED
    BY <1>3, <1>5, <2>1, <2>2 DEF Misses
<1>6. \A x \in Viewer : flight'[x] \subseteq flight[x]
  BY <1>1
<1> HIDE DEF X, late
<1>7. TypeInv'
  <2>1. stale' \subseteq stale \cup X /\ late \subseteq X
    BY <1>1 DEF late
  <2>2. flight' \in [Viewer -> SUBSET Copy] /\ owed' \in [Viewer -> Nat]
    BY <1>1, <1>3 DEF TypeInv
  <2>3. QED
    BY <1>1, <1>2, <1>3, <2>1, <2>2 DEF TypeInv
<1>8. CaseInv' /\ IdsInv' /\ OneRunning'
  BY <1>1, <1>3, <1>6 DEF CaseInv, IdsInv, OneRunning, With
<1>9. FlightInv'
  <2> SUFFICES ASSUME NEW x \in Viewer
               PROVE  /\ view[x].v <= version /\ owed'[x] <= version
                      /\ \A copy \in flight'[x] :
                           copy.has /\ copy.ok /\ copy.v \in view[x].v .. version /\ copy.v >= owed'[x]
    BY <1>1 DEF FlightInv
  <2>1. view[x].v <= version /\ owed'[x] <= version
    BY <1>1, <1>3, <1>4 DEF FlightInv, TypeInv
  <2>2. \A copy \in flight'[x] : copy.has /\ copy.ok /\ copy.v \in view[x].v .. version
    BY <1>6 DEF FlightInv
  <2>3. CASE x \in X \ late
    BY <1>1, <1>5, <2>1, <2>2, <2>3
  <2>4. CASE x \notin X \ late
    BY <1>1, <1>6, <2>1, <2>2, <2>4 DEF FlightInv
  <2>5. QED
    BY <2>3, <2>4
<1>10. ASSUME NEW s \in Watched, call'[s].phase = "done", NEW q \in Query
      PROVE  call'[s].change \in 1 .. version' /\ owed'[<<s, q>>] < call'[s].change
  <2>1. s # t /\ call'[s] = call[s]
    BY <1>1, <1>3, <1>10
  <2>2. <<s, q>> \in Viewer \ X
    BY <1>2, <2>1 DEF Viewer
  <2>3. QED
    BY <1>1, <1>10, <2>1, <2>2 DEF ChangeInv
<1>11. ASSUME NEW s \in Watched, call'[s].phase = "done" PROVE call'[s].change \in 1 .. version'
  BY <1>1, <1>3, <1>11 DEF ChangeInv
<1>12. ChangeInv'
  BY <1>10, <1>11 DEF ChangeInv
<1>13. QED
  BY <1>7, <1>8, <1>9, <1>12

(* A refusal is heard, or an answer is lost.                                 *)
LEMMA MissIInv == ASSUME IInv, NEW t \in Watched, HearRefusal(t) \/ Lose(t) PROVE IInv'
<1>1. t \in Tab /\ call[t] \in Calls /\ call \in [Tab -> Calls] /\ NoCall \in Calls /\ NoCall.phase = "idle"
  BY TimeAssumption DEF IInv, TypeInv, NoCall, Calls, Ops
<1> DEFINE c == [call[t] EXCEPT !.phase = "open", !.began = 0, !.day = 0, !.minutes = 0]
<1>2. c \in Calls /\ c.phase = "open"
  BY <1>1 DEF Calls
<1>3. call' = [call EXCEPT ![t] = c] \/ call' = [call EXCEPT ![t] = NoCall]
  BY <1>1 DEF HearRefusal, Lose
<1>4. UNCHANGED <<Server, Screen, clock>>
  BY DEF HearRefusal, Lose
<1> HIDE DEF c
<1>5. QED
  BY <1>1, <1>2, <1>3, <1>4, CallIInv

-----------------------------------------------------------------------------
(* The copies are fetched: an answer is of now.                              *)
LEMMA FetchIInv == ASSUME IInv, NEW x \in Viewer, Fetch(x) PROVE IInv'
<1> USE TimeAssumption DEF IInv, Server
<1> DEFINE a == Answer(x[2])
<1>1. /\ flight' = [flight EXCEPT ![x] = {a}] /\ stale' = stale \ {x} /\ missed' = missed \ {x}
      /\ UNCHANGED <<rows, version, place, owed, call, clock>>
  BY DEF Fetch
<1>2. a.v = version /\ a.has /\ a.ok /\ a.ids \subseteq DOMAIN rows /\ a \in Copy
  <2>1. With("running") \subseteq DOMAIN rows /\ Correctable(clock) \subseteq DOMAIN rows
    BY DEF With, Correctable, Listed
  <2>2. DOMAIN rows \subseteq Nat /\ version \in Nat
    BY DEF TypeInv
  <2>3. QED
    BY <2>1, <2>2 DEF Answer, Copy
<1> HIDE DEF a
<1>3. view' \in [Viewer -> Copy] /\ \A y \in Viewer : view'[y].v = view[y].v /\ view'[y].ids = view[y].ids
  <2>1. view' = [view EXCEPT ![x].ok = @ \/ ~view[x].has]
    BY DEF Fetch
  <2>2. view \in [Viewer -> Copy]
    BY DEF TypeInv
  <2>3. QED
    BY <2>1, <2>2 DEF Copy
<1>4. TypeInv'
  BY <1>1, <1>2, <1>3 DEF TypeInv
<1>5. CaseInv' /\ OneRunning' /\ ChangeInv'
  BY <1>1 DEF CaseInv, OneRunning, With, ChangeInv
<1>6. IdsInv' /\ FlightInv'
  BY <1>1, <1>2, <1>3 DEF IdsInv, FlightInv, TypeInv, Copy
<1>7. QED
  BY <1>4, <1>5, <1>6

(* A copy comes, or an error.                                                *)
LEMMA ArriveIInv == ASSUME IInv, NEW x \in Viewer, Arrive(x) \/ FetchFails(x) PROVE IInv'
<1> USE TimeAssumption DEF IInv, Server
<1>1. /\ flight' = [flight EXCEPT ![x] = {}] /\ UNCHANGED <<rows, version, place, stale, owed, missed, call, clock>>
  BY DEF Arrive, FetchFails
<1>2. PICK copy \in Copy : /\ view' = [view EXCEPT ![x] = copy] /\ copy.ids \subseteq DOMAIN rows
                          /\ copy.v <= version /\ copy.v >= view[x].v
  <2>1. CASE Arrive(x)
    <3>1. PICK copy \in flight[x] : view' = [view EXCEPT ![x] = copy]
      BY <2>1 DEF Arrive
    <3>2. copy \in Copy /\ copy.ids \subseteq DOMAIN rows
      BY DEF IdsInv, TypeInv
    <3>3. copy.v <= version /\ copy.v >= view[x].v
      BY <3>2 DEF FlightInv, TypeInv, Copy
    <3>4. QED
      BY <3>1, <3>2, <3>3
  <2>2. CASE FetchFails(x)
    <3> DEFINE none == NoCopy(view[x].v)
               copy == [none EXCEPT !.has = view[x].has, !.ok = FALSE]
    <3>1. view \in [Viewer -> Copy] /\ view[x] \in Copy
      BY DEF TypeInv
    <3>2. view' = [view EXCEPT ![x] = copy]
      BY <2>2, <3>1 DEF FetchFails
    <3>3. none \in Copy /\ none.v = view[x].v /\ none.ids = {}
      BY <3>1 DEF NoCopy, Copy
    <3> HIDE DEF none
    <3>4. copy \in Copy /\ copy.v = view[x].v /\ copy.ids = {}
      BY <3>1, <3>3 DEF Copy
    <3> HIDE DEF copy
    <3>5. copy.v <= version /\ copy.v >= view[x].v
      BY <3>1, <3>4 DEF FlightInv, TypeInv, Copy
    <3>6. QED
      BY <3>2, <3>4, <3>5
  <2>3. QED
    BY <2>1, <2>2
<1>3. TypeInv'
  BY <1>1, <1>2 DEF TypeInv
<1>4. CaseInv' /\ OneRunning' /\ ChangeInv'
  BY <1>1 DEF CaseInv, OneRunning, With, ChangeInv
<1>5. IdsInv' /\ FlightInv'
  BY <1>1, <1>2 DEF IdsInv, FlightInv, TypeInv, Copy
<1>6. QED
  BY <1>3, <1>4, <1>5

(* Another screen, or a copy that the cache drops.                           *)
LEMMA TurnIInv ==
  ASSUME IInv, (\E t \in Watched : Turn(t)) \/ (\E x \in Viewer : Forget(x))
  PROVE  IInv'
<1> USE TimeAssumption DEF IInv, Server
<1>1. UNCHANGED <<rows, version, flight, owed, missed, call, clock>>
  BY DEF Turn, Forget
<1>2. place' \in [Watched -> Places] /\ stale' \subseteq Viewer
  BY DEF Turn, Forget, TypeInv
<1>3. /\ view' \in [Viewer -> Copy]
      /\ \A x \in Viewer : view'[x].v = view[x].v /\ view'[x].ids \subseteq view[x].ids
  <2>1. view \in [Viewer -> Copy]
    BY DEF TypeInv
  <2>2. CASE \E t \in Watched : Turn(t)
    BY <2>1, <2>2 DEF Turn
  <2>3. ASSUME NEW x \in Viewer, Forget(x)
        PROVE  /\ view' \in [Viewer -> Copy]
               /\ \A y \in Viewer : view'[y].v = view[y].v /\ view'[y].ids \subseteq view[y].ids
    <3>1. view' = [view EXCEPT ![x] = NoCopy(view[x].v)]
      BY <2>1, <2>3 DEF Forget
    <3>2. NoCopy(view[x].v) \in Copy /\ NoCopy(view[x].v).v = view[x].v /\ NoCopy(view[x].v).ids = {}
      BY <2>1 DEF NoCopy, Copy
    <3>3. QED
      BY <2>1, <3>1, <3>2
  <2>4. QED
    BY <2>2, <2>3
<1>4. TypeInv'
  BY <1>1, <1>2, <1>3 DEF TypeInv
<1>5. CaseInv' /\ OneRunning' /\ ChangeInv'
  BY <1>1 DEF CaseInv, OneRunning, With, ChangeInv
<1>6. IdsInv' /\ FlightInv'
  BY <1>1, <1>3 DEF IdsInv, FlightInv
<1>7. QED
  BY <1>4, <1>5, <1>6

(* Time and teams.                                                           *)
LEMMA WorldIInv == ASSUME IInv, Tick \/ Unassign \/ UNCHANGED vars PROVE IInv'
<1>1. UNCHANGED <<rows, version, place, view, flight, stale, owed, missed, call>> /\ clock' \in Nat
  BY DEF Tick, Unassign, vars, Server, Screen, IInv, TypeInv
<1>2. QED
  BY <1>1 DEF IInv, TypeInv, CaseInv, IdsInv, OneRunning, With, FlightInv, ChangeInv

(* Every step keeps the invariant.                                           *)
LEMMA NextIInv == IInv /\ [Next]_vars => IInv'
<1> SUFFICES ASSUME IInv, [Next]_vars PROVE IInv'
  OBVIOUS
<1>1. ASSUME NEW t \in Watched,
             \/ PressStart(t) \/ PressStop(t) \/ PressDiscard(t) \/ OpenDialog(t) \/ CloseDialog(t)
             \/ SubmitForm(t) \/ ConfirmVoid(t) \/ Hear(t) \/ HearRefusal(t) \/ Lose(t)
      PROVE  IInv'
  BY <1>1, PressIInv, DialogIInv, HearIInv, MissIInv
<1>2. ASSUME NEW t \in Tab \ Watched, SendElsewhere(t) PROVE IInv'
  BY <1>2, ElsewhereIInv
<1>3. ASSUME NEW t \in Tab, Begin(t) \/ Commit(t) PROVE IInv'
  BY <1>3, BeginIInv, CommitIInv
<1>4. ASSUME NEW x \in Viewer, Fetch(x) \/ Arrive(x) \/ FetchFails(x) PROVE IInv'
  BY <1>4, FetchIInv, ArriveIInv
<1>5. CASE (\E t \in Watched : Turn(t)) \/ (\E x \in Viewer : Forget(x))
  BY <1>5, TurnIInv
<1>6. CASE Tick \/ Unassign \/ UNCHANGED vars
  BY <1>6, WorldIInv
<1>7. QED
  BY <1>1, <1>2, <1>3, <1>4, <1>5, <1>6 DEF Next

(* A person has one running timer, however many tabs start one               *)
(* (time-entry.service.ts start, time_entry_one_running_timer).              *)
THEOREM OneTimer == Spec => []OneTimerPerMember
<1>1. IInv => OneTimerPerMember
  <2> SUFFICES ASSUME IInv PROVE Cardinality(With("running")) <= 1
    BY DEF OneTimerPerMember
  <2>1. CASE With("running") = {}
    BY <2>1, FS_EmptySet
  <2>2. ASSUME NEW i \in With("running") PROVE Cardinality(With("running")) <= 1
    <3>1. With("running") = {i}
      BY <2>2 DEF IInv, OneRunning
    <3>2. QED
      BY <3>1, FS_Singleton
  <2>3. QED
    BY <2>1, <2>2
<1>2. QED
  BY <1>1, InitIInv, NextIInv, PTL DEF Spec

\* What FinalStaysFinal says of one step.
KeepsFinal == \A id \in DOMAIN rows : Final(id) => rows'[id] = rows[id]

(* Requests that wait for a row see it as it has become, and judge the       *)
(* window by the instant they began at.                                      *)
LEMMA NextKeepsFinal == IInv /\ [Next]_vars => KeepsFinal
<1> SUFFICES ASSUME IInv, [Next]_vars, NEW id \in DOMAIN rows, Final(id) PROVE rows'[id] = rows[id]
  BY DEF KeepsFinal
<1>1. rows \in Seq(EntryRow) /\ id \in 1 .. Len(rows) /\ DOMAIN rows = 1 .. Len(rows)
  BY DEF IInv, TypeInv
<1>2. \A row : Append(rows, row)[id] = rows[id]
  BY <1>1
<1>3. ASSUME NEW t \in Tab, Commit(t) PROVE rows'[id] = rows[id]
  <2>1. call[t].phase = "begun"
    BY <1>3 DEF Commit
  <2>2. CASE Refuse(t)
    BY <2>2 DEF Refuse, Server
  <2>3. CASE Start(t) \/ Log(t)
    BY <1>2, <2>2, <2>3 DEF Start, Log, Write
  <2>4. CASE Stop(t)
    <3>1. ASSUME NEW i \in Stoppable(t), i = id PROVE FALSE
      BY <3>1 DEF Stoppable, With, Final
    <3>2. QED
      BY <2>2, <2>4, <3>1 DEF Stop, Write
  <2>5. CASE Discard(t)
    <3>1. ASSUME NEW i \in With("running"), i = id PROVE FALSE
      BY <3>1 DEF With, Final
    <3>2. QED
      BY <2>2, <2>5, <3>1 DEF Discard, Write
  <2>6. CASE Correct(t) \/ Void(t)
    <3>1. MayCorrect(t) => call[t].id # id
      BY <2>1 DEF MayCorrect, Final
    <3>2. QED
      BY <2>2, <2>6, <3>1 DEF Correct, Void, Write
  <2>7. QED
    BY <1>3, <2>3, <2>4, <2>5, <2>6 DEF Commit
<1>4. QED
  BY <1>3 DEF Next, vars, Server, PressStart, PressStop, PressDiscard, OpenDialog, CloseDialog, SubmitForm,
              ConfirmVoid, Send, Hear, HearRefusal, Lose, SendElsewhere, Begin, Refuse, Fetch, Arrive, FetchFails,
              Turn, Forget, Tick, Unassign

(* Recorded time stays recorded (time-entry.service.ts correct and void).    *)
THEOREM FinalEntriesStay == Spec => FinalStaysFinal
<1>1. Spec => [][KeepsFinal]_vars
  BY InitIInv, NextIInv, NextKeepsFinal, PTL DEF Spec
<1>2. QED
  BY <1>1 DEF FinalStaysFinal, KeepsFinal

-----------------------------------------------------------------------------
\* What is recorded: an entry is no longer than a day, not empty, and not about a day to
\* come; what runs began on a day that has come.
RowFine(row, at) ==
  /\ row.status \in {"running", "logged"} => row.day <= Today(at)
  /\ row.status = "logged" => row.minutes \in 1 .. MaxMinutes

SoundInv ==
  /\ clock <= MaxClock /\ team \subseteq Case
  /\ \A t \in Tab : call[t].phase = "begun" => call[t].began <= clock
  /\ \A id \in DOMAIN rows : RowFine(rows[id], clock)
  /\ \A x \in Viewer : \A c1, c2 \in flight[x] : c1 = c2

(* Days go on with time.                                                     *)
LEMMA DaysGoOn ==
  ASSUME NEW at \in Nat, NEW later \in Nat, at <= later
  PROVE  Today(at) <= Today(later) /\ Today(at) \in Nat /\ Today(later) \in Nat
  BY TodayType, TimeAssumption DEF Today

(* A row that is sound stays sound while it is not written.                  *)
LEMMA FineGoesOn ==
  ASSUME NEW row \in EntryRow, NEW at \in Nat, NEW later \in Nat, at <= later, RowFine(row, at)
  PROVE  RowFine(row, later)
<1>1. row.day \in Nat
  BY DEF EntryRow
<1>2. QED
  BY <1>1, DaysGoOn DEF RowFine

(* What each statement leaves in the row it writes.                          *)
LEMMA CommitSound ==
  ASSUME IInv, SoundInv, NEW t \in Tab, Commit(t), NEW id \in DOMAIN rows' PROVE RowFine(rows'[id], clock)
<1>1. /\ call[t] \in Calls /\ rows \in Seq(EntryRow) /\ DOMAIN rows = 1 .. Len(rows)
      /\ call[t].phase = "begun"
  BY Committing DEF Commit
<1>2. call[t].began \in Nat /\ clock \in Nat /\ call[t].began <= clock /\ call[t].day \in Nat
  BY <1>1 DEF SoundInv, IInv, TypeInv, Calls
<1>3. /\ Today(call[t].began) <= Today(clock) /\ Today(call[t].began) \in Nat /\ Today(clock) \in Nat
  BY <1>2, DaysGoOn
<1>4. ASSUME rows' = rows PROVE RowFine(rows'[id], clock)
  BY <1>4 DEF SoundInv
<1>5. ASSUME NEW row, rows' = Append(rows, row), RowFine(row, clock) PROVE RowFine(rows'[id], clock)
  BY <1>1, <1>5 DEF SoundInv
<1>6. ASSUME NEW i \in DOMAIN rows, NEW row, rows' = [rows EXCEPT ![i] = row], RowFine(row, clock)
      PROVE  RowFine(rows'[id], clock)
  BY <1>6 DEF SoundInv
<1>7. CASE Refuse(t)
  BY <1>4, <1>7 DEF Refuse, Server
<1>8. CASE Start(t)
  <2> DEFINE row == Entry(t, "timer", "running", call[t].began)
  <2>1. RowFine(row, clock)
    BY <1>3 DEF Entry, RowFine
  <2>2. Refuse(t) \/ rows' = Append(rows, row)
    BY <1>8 DEF Start, Write
  <2> HIDE DEF row
  <2>3. QED
    BY <1>5, <1>7, <2>1, <2>2
<1>9. CASE Log(t)
  <2> DEFINE row == [Entry(t, "manual", "logged", call[t].began) EXCEPT
                       !.minutes = call[t].minutes, !.logged = call[t].began, !.day = call[t].day]
  <2>1. BodyAllows(t) => RowFine(row, clock)
    BY <1>2, <1>3 DEF Entry, RowFine, BodyAllows
  <2>2. Refuse(t) \/ (BodyAllows(t) /\ rows' = Append(rows, row))
    BY <1>9 DEF Log, Write
  <2> HIDE DEF row
  <2>3. QED
    BY <1>5, <1>7, <2>1, <2>2
<1>10. CASE Stop(t)
  <2>1. ASSUME NEW i \in Stoppable(t),
               rows' = [rows EXCEPT ![i].status = "logged", ![i].logged = call[t].began,
                                    ![i].minutes = Elapsed(i, call[t].began)]
        PROVE  RowFine(rows'[id], clock)
    <3> DEFINE n == Elapsed(i, call[t].began)
               row == [rows[i] EXCEPT !.status = "logged", !.logged = call[t].began, !.minutes = n]
    <3>1. i \in DOMAIN rows /\ n <= MaxMinutes /\ rows[i].status = "running"
      BY <2>1 DEF Stoppable, With
    <3>2. rows[i] \in EntryRow /\ RowFine(rows[i], clock)
      BY <3>1, RowTypes DEF SoundInv
    <3>3. n \in 1 .. MaxMinutes
      BY <1>2, <3>1, <3>2, TimeAssumption DEF Elapsed, EntryRow
    <3>4. rows' = [rows EXCEPT ![i] = row]
      BY <2>1
    <3> HIDE DEF n
    <3>5. RowFine(row, clock)
      BY <3>1, <3>2, <3>3 DEF RowFine, EntryRow
    <3> HIDE DEF row
    <3>6. QED
      BY <1>6, <3>1, <3>4, <3>5
  <2>2. QED
    BY <1>7, <1>10, <2>1 DEF Stop, Write
<1>11. ASSUME NEW i \in DOMAIN rows, rows' = [rows EXCEPT ![i].status = "voided"]
       PROVE  RowFine(rows'[id], clock)
  <2> DEFINE row == [rows[i] EXCEPT !.status = "voided"]
  <2>1. rows[i] \in EntryRow
    BY <1>11, RowTypes
  <2>2. RowFine(row, clock)
    BY <2>1 DEF RowFine, EntryRow
  <2>3. rows' = [rows EXCEPT ![i] = row]
    BY <1>11
  <2> HIDE DEF row
  <2>4. QED
    BY <1>6, <2>2, <2>3
<1>12. CASE Discard(t)
  BY <1>7, <1>11, <1>12 DEF Discard, Write, With
<1>13. ASSUME NEW i, NEW row, i \notin DOMAIN rows, rows' = [rows EXCEPT ![i] = row]
       PROVE  RowFine(rows'[id], clock)
  BY <1>1, <1>4, <1>13, NoSuchRow
<1>14. CASE Correct(t)
  <2> DEFINE i == call[t].id
             row == [rows[i] EXCEPT !.minutes = call[t].minutes, !.day = call[t].day]
  <2>1. Refuse(t) \/ (BodyAllows(t) /\ rows' = [rows EXCEPT ![i] = row])
    BY <1>14 DEF Correct, Write
  <2>2. ASSUME i \in DOMAIN rows, BodyAllows(t) PROVE RowFine(row, clock)
    <3>1. rows[i] \in EntryRow
      BY <2>2, RowTypes
    <3>2. QED
      BY <1>2, <1>3, <2>2, <3>1 DEF RowFine, EntryRow, BodyAllows
  <2> HIDE DEF i, row
  <2>3. QED
    BY <1>6, <1>7, <1>13, <2>1, <2>2
<1>15. CASE Void(t)
  <2> DEFINE i == call[t].id
             row == [rows[i] EXCEPT !.status = "voided"]
  <2>1. Refuse(t) \/ rows' = [rows EXCEPT ![i].status = "voided"]
    BY <1>15 DEF Void, Write
  <2>2. ASSUME rows' = [rows EXCEPT ![i].status = "voided"] PROVE rows' = [rows EXCEPT ![i] = row]
    BY <2>2
  <2> HIDE DEF i, row
  <2>3. QED
    BY <1>7, <1>11, <1>13, <2>1, <2>2
<1>16. QED
  BY <1>8, <1>9, <1>10, <1>12, <1>14, <1>15 DEF Commit

(* A request begins when it does, and no row changes but by a commit.        *)
LEMMA SoundStep == IInv /\ SoundInv /\ [Next]_vars => SoundInv'
<1> SUFFICES ASSUME IInv, SoundInv, [Next]_vars PROVE SoundInv'
  OBVIOUS
<1>1. /\ rows \in Seq(EntryRow) /\ clock \in Nat /\ call \in [Tab -> Calls]
      /\ flight \in [Viewer -> SUBSET Copy] /\ MaxClock \in Nat /\ Watched \subseteq Tab
  BY TimeAssumption DEF IInv, TypeInv
<1> DEFINE Quiet(t) == /\ call'[t].phase # "begun" /\ \A s \in Tab \ {t} : call'[s] = call[s]
                       /\ UNCHANGED <<rows, clock, team>>
<1>2. ASSUME NEW t \in Tab, Quiet(t), \A x \in Viewer : flight'[x] \subseteq flight[x] PROVE SoundInv'
  BY <1>1, <1>2 DEF SoundInv
<1>3. ASSUME NEW t \in Tab, NEW r \in Calls, Send(t, r) PROVE Quiet(t) /\ UNCHANGED flight
  BY <1>1, <1>3 DEF Send, Server, Screen, Calls
<1>4. ASSUME NEW t \in Watched,
             \/ PressStart(t) \/ PressStop(t) \/ PressDiscard(t) \/ OpenDialog(t) \/ CloseDialog(t)
             \/ SubmitForm(t) \/ ConfirmVoid(t) \/ HearRefusal(t) \/ Lose(t)
      PROVE  SoundInv'
  <2>1. t \in Tab /\ call[t] \in Calls
    BY <1>1
  <2>2. ASSUME NEW op, NEW c, NEW id, Send(t, Request(op, c, id)) PROVE Quiet(t) /\ UNCHANGED flight
    BY <1>1, <2>1, <2>2 DEF Send, Server, Screen, Request, NoCall
  <2>3. CASE PressStart(t) \/ PressStop(t) \/ PressDiscard(t)
    BY <1>2, <2>1, <2>2, <2>3 DEF PressStart, PressStop, PressDiscard
  <2>4. CASE OpenDialog(t)
    <3>1. ASSUME NEW op, NEW c, NEW id, Opens(t, Request(op, c, id)) PROVE Quiet(t) /\ UNCHANGED flight
      BY <1>1, <2>1, <2>4, <3>1 DEF OpenDialog, Opens, Server, Screen, Request, NoCall
    <3>2. QED
      BY <1>2, <2>1, <2>4, <3>1 DEF OpenDialog
  <2>5. CASE CloseDialog(t)
    <3> DEFINE c == [call[t] EXCEPT !.closed = TRUE]
    <3>1. c.phase = call[t].phase /\ c.began = call[t].began /\ NoCall.phase = "idle"
      BY <2>1 DEF NoCall, Calls
    <3>2. call' = [call EXCEPT ![t] = c] \/ call' = [call EXCEPT ![t] = NoCall]
      BY <1>1, <2>5 DEF CloseDialog
    <3>3. UNCHANGED <<rows, clock, team, flight>>
      BY <2>5 DEF CloseDialog, Server, Screen
    <3> HIDE DEF c
    <3>4. QED
      BY <1>1, <2>1, <3>1, <3>2, <3>3 DEF SoundInv
  <2>6. CASE Lose(t) \/ HearRefusal(t)
    <3> DEFINE c == [call[t] EXCEPT !.phase = "open", !.began = 0, !.day = 0, !.minutes = 0]
    <3>1. c.phase = "open" /\ NoCall.phase = "idle"
      BY <2>1 DEF NoCall, Calls
    <3>2. call' = [call EXCEPT ![t] = c] \/ call' = [call EXCEPT ![t] = NoCall]
      BY <1>1, <2>6 DEF Lose, HearRefusal
    <3>3. UNCHANGED <<rows, clock, team, flight>>
      BY <2>6 DEF Lose, HearRefusal, Server, Screen
    <3> HIDE DEF c
    <3>4. Quiet(t)
      BY <1>1, <2>1, <3>1, <3>2, <3>3
    <3>5. QED
      BY <1>2, <2>1, <3>3, <3>4
  <2>7. CASE SubmitForm(t)
    <3>1. PICK day, minutes, c : Send(t, [call[t] EXCEPT !.case = c, !.day = day, !.minutes = minutes])
      BY <2>7 DEF SubmitForm
    <3>2. Quiet(t) /\ UNCHANGED flight
      BY <1>1, <2>1, <3>1 DEF Send, Server, Screen, Calls
    <3>3. QED
      BY <1>2, <2>1, <3>2
  <2>8. CASE ConfirmVoid(t)
    BY <1>2, <1>3, <2>1, <2>8 DEF ConfirmVoid
  <2>9. QED
    BY <1>4, <2>3, <2>4, <2>5, <2>6, <2>7, <2>8
<1>5. ASSUME NEW t \in Watched, Hear(t) PROVE SoundInv'
  <2>1. Quiet(t) /\ t \in Tab
    BY <1>1, <1>5 DEF Hear, Server, NoCall
  <2>2. \A x \in Viewer : flight'[x] \subseteq flight[x]
    BY <1>5 DEF Hear, Invalidate
  <2>3. QED
    BY <1>2, <2>1, <2>2
<1>6. ASSUME NEW t \in Tab \ Watched, SendElsewhere(t) PROVE SoundInv'
  <2>1. PICK op, c, id, day, minutes : Send(t, [Request(op, c, id) EXCEPT !.day = day, !.minutes = minutes])
    BY <1>6 DEF SendElsewhere
  <2>2. Quiet(t) /\ UNCHANGED flight
    BY <1>1, <2>1 DEF Send, Server, Screen, Request, NoCall
  <2>3. QED
    BY <1>2, <2>2
<1>7. ASSUME NEW t \in Tab, Refuse(t) \/ \E newRows : Write(t, newRows)
      PROVE  call'[t].phase # "begun" /\ \A s \in Tab \ {t} : call'[s] = call[s]
  <2>1. call[t] \in Calls /\ NoCall.phase = "idle"
    BY <1>1 DEF NoCall
  <2>2. ASSUME NEW result, NEW change, Answered(t, result, change), result # "begun"
        PROVE  call'[t].phase # "begun" /\ \A s \in Tab \ {t} : call'[s] = call[s]
    <3> DEFINE c == [call[t] EXCEPT !.phase = result, !.change = change]
    <3>1. c.phase = result
      BY <2>1 DEF Calls
    <3>2. call' = [call EXCEPT ![t] = c] \/ call' = [call EXCEPT ![t] = NoCall]
      BY <1>1, <2>2 DEF Answered
    <3> HIDE DEF c
    <3>3. QED
      BY <1>1, <2>1, <2>2, <3>1, <3>2
  <2>3. QED
    BY <1>7, <2>2 DEF Refuse, Write
<1>8. ASSUME NEW t \in Tab, Begin(t) PROVE SoundInv'
  <2>1. UNCHANGED <<rows, clock, team, flight>>
    BY <1>8 DEF Begin, Refuse, Server, Screen
  <2>2. CASE Refuse(t)
    BY <1>2, <1>7, <2>1, <2>2
  <2>3. CASE call' = [call EXCEPT ![t].phase = "begun", ![t].began = clock]
    BY <1>1, <2>1, <2>3 DEF SoundInv, Calls
  <2>4. QED
    BY <1>8, <2>2, <2>3 DEF Begin
<1>9. ASSUME NEW t \in Tab, Commit(t) PROVE SoundInv'
  <2>1. UNCHANGED <<clock, team, flight>>
    BY <1>9 DEF Commit, Screen
  <2>2. Refuse(t) \/ \E newRows : Write(t, newRows)
    BY <1>9 DEF Commit, Start, Stop, Discard, Log, Correct, Void
  <2>3. \A id \in DOMAIN rows' : RowFine(rows'[id], clock)
    BY <1>9, CommitSound
  <2>4. QED
    BY <1>1, <1>7, <2>1, <2>2, <2>3 DEF SoundInv
<1>10. ASSUME NEW x \in Viewer, Fetch(x) \/ Arrive(x) \/ FetchFails(x) PROVE SoundInv'
  <2>1. UNCHANGED <<rows, clock, team, call>>
    BY <1>10 DEF Fetch, Arrive, FetchFails, Server
  <2>2. \E a : flight' = [flight EXCEPT ![x] = {a}] \/ flight' = [flight EXCEPT ![x] = {}]
    BY <1>10 DEF Fetch, Arrive, FetchFails
  <2>3. QED
    BY <1>1, <2>1, <2>2 DEF SoundInv
<1>11. CASE Tick
  <2>1. clock < MaxClock /\ clock' = clock + 1 /\ UNCHANGED <<rows, call, team, flight>>
    BY <1>11 DEF Tick, Server, Screen
  <2>2. \A id \in DOMAIN rows : RowFine(rows[id], clock')
    BY <1>1, <2>1, FineGoesOn, RowTypes DEF SoundInv
  <2>3. \A t \in Tab : call[t] \in Calls /\ (call[t].phase = "begun" => call[t].began <= clock')
    BY <1>1, <2>1 DEF SoundInv, Calls
  <2>4. QED
    BY <1>1, <2>1, <2>2, <2>3 DEF SoundInv
<1>12. CASE (\E t \in Watched : Turn(t)) \/ (\E x \in Viewer : Forget(x)) \/ Unassign \/ UNCHANGED vars
  BY <1>12 DEF SoundInv, Turn, Forget, Unassign, Server, Screen, vars
<1>13. QED
  BY <1>4, <1>5, <1>6, <1>8, <1>9, <1>10, <1>11, <1>12 DEF Next

(* What is stored is well formed: an entry lasts at most a day and is about  *)
(* a day that has come; a tab was told and shows no change to come, and has  *)
(* one fetch of a query under way.                                           *)
THEOREM TypeCorrect == Spec => []TypeOK
<1>1. Init => SoundInv
  BY TimeAssumption DEF Init, SoundInv, NoCall
<1>2. IInv /\ SoundInv => TypeOK
  <2> SUFFICES ASSUME IInv, SoundInv PROVE TypeOK
    OBVIOUS
  <2>1. /\ rows \in Seq(EntryRow) /\ clock \in 0 .. MaxClock /\ team \subseteq Case
        /\ stale \cup missed \subseteq Viewer /\ version \in Nat
    BY TimeAssumption DEF IInv, TypeInv, SoundInv
  <2>2. \A id \in With("logged") : rows[id].minutes \in 1 .. MaxMinutes /\ rows[id].day <= Today(clock)
    BY DEF With, SoundInv, RowFine
  <2>3. ASSUME NEW x \in Viewer PROVE Cardinality(flight[x]) <= 1
    <3>1. CASE flight[x] = {}
      BY <3>1, FS_EmptySet
    <3>2. ASSUME NEW copy \in flight[x] PROVE Cardinality(flight[x]) <= 1
      <4>1. flight[x] = {copy}
        BY DEF SoundInv
      <4>2. QED
        BY <4>1, FS_Singleton
    <3>3. QED
      BY <3>1, <3>2
  <2>4. QED
    BY <2>1, <2>2, <2>3 DEF TypeOK, IInv, FlightInv
<1>3. QED
  BY <1>1, <1>2, InitIInv, NextIInv, SoundStep, PTL DEF Spec

-----------------------------------------------------------------------------
(* The tabs' copies are those CachedView speaks of, one step for one step    *)
(* (the onSuccess of TimerCard.tsx and LogTimeDialog.tsx); that copies come  *)
(* is left to TLC.                                                           *)
THEOREM Implementation == Spec => Copies!Spec
<1> DEFINE seen == [x \in Viewer |-> view[x].v]
           shown == [x \in Viewer |-> OnScreen(x) /\ view[x].has /\ view[x].ok]
<1>1. Init => Copies!Init
  <2> SUFFICES ASSUME Init PROVE Copies!Init
    OBVIOUS
  <2>1. \A x \in Viewer : shown[x] = FALSE /\ seen[x] = 0
    BY DEF Init, NoCopy
  <2>2. shown = [x \in Viewer |-> FALSE] /\ seen = [x \in Viewer |-> 0]
    BY <2>1
  <2>3. QED
    BY <2>2 DEF Init, Copies!Init
<1>2. IInv /\ [Next]_vars => [Copies!Next]_(Copies!vars)
  <2> SUFFICES ASSUME IInv, [Next]_vars PROVE [Copies!Next]_(Copies!vars)
    OBVIOUS
  <2>1. ASSUME UNCHANGED <<version, place, view, owed>> PROVE UNCHANGED Copies!vars
    BY <2>1 DEF Copies!vars, OnScreen
  <2>2. ASSUME NEW t \in Tab, NEW newRows, Write(t, newRows), UNCHANGED Screen PROVE Copies!Change
    BY <2>2 DEF Write, Screen, Copies!Change, OnScreen
  <2>3. ASSUME NEW t \in Tab, Commit(t) PROVE Copies!Change \/ UNCHANGED <<version, place, view, owed>>
    BY <2>2, <2>3 DEF Commit, Start, Stop, Discard, Log, Correct, Void, Refuse, Server, Screen
  <2>4. ASSUME NEW t \in Watched, Hear(t) PROVE Copies!Acknowledge
    <3> DEFINE X == {t} \X Invalidates(call[t].op)
               S == X \ {x \in X : Misses(x, call[t].change)}
    <3>1. /\ owed' = [x \in Viewer |-> IF x \in S THEN call[t].change ELSE owed[x]]
          /\ UNCHANGED <<version, place, view>> /\ call[t].phase = "done"
      BY <2>4 DEF Hear, Server
    <3>2. X \in SUBSET Viewer /\ S \subseteq X
      BY DEF Viewer, Invalidates, Query
    <3>3. call[t].change \in 1 .. version
      BY <3>1 DEF IInv, ChangeInv
    <3>4. \A x \in X : call[t].change > owed[x]
      <4>1. SUFFICES ASSUME NEW q \in Invalidates(call[t].op) PROVE call[t].change > owed[<<t, q>>]
        OBVIOUS
      <4>2. q \in Query /\ <<t, q>> \in Viewer
        BY DEF Invalidates, Query, Viewer
      <4>3. owed[<<t, q>>] < call[t].change /\ owed[<<t, q>>] \in Nat /\ version \in Nat
        BY <3>1, <4>2 DEF IInv, ChangeInv, TypeInv
      <4>4. QED
        BY <3>3, <4>3
    <3> HIDE DEF X, S
    <3>5. shown' = shown /\ seen' = seen
      BY <3>1 DEF OnScreen
    <3>6. QED
      BY <3>1, <3>2, <3>3, <3>4, <3>5 DEF Copies!Acknowledge
  <2>5. ASSUME NEW x \in Viewer, Arrive(x) PROVE Copies!Refetch(x)
    <3>1. PICK copy \in flight[x] : view' = [view EXCEPT ![x] = copy]
      BY <2>5 DEF Arrive
    <3>2. copy.has /\ copy.ok /\ copy.v \in view[x].v .. version /\ copy.v >= owed[x]
      BY DEF IInv, FlightInv
    <3>3. seen' = [seen EXCEPT ![x] = copy.v]
      BY <3>1 DEF IInv, TypeInv
    <3>4. shown' = [shown EXCEPT ![x] = TRUE] \/ shown' = shown
      <4>1. view \in [Viewer -> Copy] /\ place' = place /\ view'[x] = copy
        BY <2>5, <3>1 DEF IInv, TypeInv, Arrive
      <4>2. \A y \in Viewer : y # x => shown'[y] = shown[y]
        BY <3>1, <4>1 DEF OnScreen
      <4>3. shown'[x] = OnScreen(x)
        BY <3>2, <4>1 DEF OnScreen
      <4>4. CASE OnScreen(x)
        <5>1. shown'[x] = TRUE
          BY <4>3, <4>4
        <5>2. QED
          BY <4>2, <5>1
      <4>5. CASE ~OnScreen(x)
        <5>1. shown[x] = FALSE /\ shown'[x] = FALSE
          BY <4>3, <4>5
        <5>2. QED
          BY <4>2, <5>1
      <4>6. QED
        BY <4>4, <4>5
    <3>5. UNCHANGED <<version, owed>> /\ seen[x] = view[x].v
      BY <2>5 DEF Arrive, Server
    <3> HIDE DEF seen, shown
    <3>6. QED
      BY <3>2, <3>3, <3>4, <3>5 DEF Copies!Refetch, seen, shown
  <2>6. ASSUME UNCHANGED <<version, owed>>, \A x \in Viewer : view'[x].v = view[x].v PROVE Copies!Turn
    BY <2>6 DEF Copies!Turn
  <2>7. ASSUME NEW x \in Viewer, Fetch(x) \/ FetchFails(x) \/ Forget(x) PROVE Copies!Turn
    <3>1. view \in [Viewer -> Copy]
      BY DEF IInv, TypeInv
    <3>2. \A y \in Viewer : view'[y].v = view[y].v
      <4>1. CASE Fetch(x)
        BY <3>1, <4>1 DEF Fetch, Copy
      <4>2. CASE FetchFails(x) \/ Forget(x)
        <5>1. PICK copy : view' = [view EXCEPT ![x] = copy] /\ copy.v = view[x].v
          BY <3>1, <4>2 DEF FetchFails, Forget, NoCopy
        <5>2. QED
          BY <3>1, <5>1
      <4>3. QED
        BY <2>7, <4>1, <4>2
    <3>3. UNCHANGED <<version, owed>>
      BY <2>7 DEF Fetch, FetchFails, Forget, Server
    <3>4. QED
      BY <2>6, <3>2, <3>3
  <2>8. ASSUME NEW t \in Watched, Turn(t) PROVE Copies!Turn
    BY <2>6, <2>8 DEF Turn, Server
  <2>9. ASSUME NEW t \in Tab, Begin(t) PROVE UNCHANGED <<version, place, view, owed>>
    BY <2>9 DEF Begin, Refuse, Server, Screen
  <2>10. QED
    <3>1. Copies!Change \/ Copies!Acknowledge \/ Copies!Turn \/ (\E x \in Viewer : Copies!Refetch(x))
            => Copies!Next
      BY DEF Copies!Next
    <3>2. QED
      BY <2>1, <2>3, <2>4, <2>5, <2>7, <2>8, <2>9, <3>1
      DEF Next, vars, Server, Screen, PressStart, PressStop, PressDiscard, OpenDialog, CloseDialog, SubmitForm,
          ConfirmVoid, Send, HearRefusal, Lose, SendElsewhere, Tick, Unassign
<1>3. QED
  BY <1>1, <1>2, InitIInv, NextIInv, PTL DEF Spec, Copies!Spec

-----------------------------------------------------------------------------
\* The calendar: the fields of an event are what a form can hold.
IsInput(input) ==
  /\ DOMAIN input = Fields
  /\ input.allDay \in BOOLEAN /\ input.case \in Matter \cup {NoCase}
  /\ \A f \in Fields \ {"case", "allDay"} : input[f] \in Nat \cup {NoTime}

\* So are the fields an edit sends.
IsPatch(patch) ==
  /\ "allDay" \in DOMAIN patch => patch.allDay \in BOOLEAN
  /\ "case" \in DOMAIN patch => patch.case \in Matter \cup {NoCase}
  /\ \A f \in (Fields \cap DOMAIN patch) \ {"case", "allDay"} : patch[f] \in Nat \cup {NoTime}

\* What is stored was validated whole.
EventsInv ==
  /\ events = [e \in Event |-> events[e]]
  /\ \A e \in Stored :
       /\ events[e] = Row(events[e].input, events[e].status)
       /\ events[e].status \in {"scheduled", "cancelled"}
       /\ IsInput(events[e].input) /\ Valid(events[e].input)

WorldInv ==
  matters \in [Member -> SUBSET Matter] /\ instant \in 0 .. MaxInstant /\ panel \in [Member -> SUBSET Event]

\* What a request carries when its turn to write comes.
Carries(d) ==
  /\ d.phase \in {"idle", "creating", "editing", "cancelling", "create", "update", "write", "cancel",
                  "strike"}
  /\ d.phase # "idle" => d.event \in Event
  /\ d.phase \in {"create", "write"} => IsInput(d.input) /\ Valid(d.input)
  /\ d.phase = "update" => IsPatch(d.patch)
  /\ d.phase \in {"write", "strike"} => d.event \in Stored

DeskInv == desk = [m \in Member |-> desk[m]] /\ \A m \in Member : Carries(desk[m])

CalendarInv == EventsInv /\ WorldInv /\ DeskInv

(* A form's body has the fields of an event.                                 *)
LEMMA InputsAreInputs == ASSUME NEW input \in Inputs PROVE IsInput(input)
<1>1. PICK t \in Times, c \in Matter \cup {NoCase} :
        input = [f \in Fields |-> IF f = "case" THEN c ELSE t[f]]
  BY DEF Inputs
<1>2. t \in Shapes
  BY CalendarAssumption
<1>3. \A f \in Fields \ {"case", "allDay"} : t[f] \in Nat \cup {NoTime}
  BY <1>2 DEF Shapes, Fields
<1>4. t.allDay \in BOOLEAN
  BY <1>2 DEF Shapes
<1>5. DOMAIN input = Fields /\ input.allDay = t.allDay /\ input.case = c
  BY <1>1 DEF Fields
<1>6. QED
  BY <1>1, <1>3, <1>4, <1>5 DEF IsInput

(* What an edit sends is part of a form's body.                              *)
LEMMA ChangesAreAPatch ==
  ASSUME NEW before, NEW after, IsInput(after) PROVE IsPatch(ChangedBody(before, after))
  BY DEF IsInput, IsPatch, ChangedBody, Fields

(* An event with a patch merged into it has the fields of an event.          *)
LEMMA MergedIsInput ==
  ASSUME NEW before, NEW patch, IsInput(before), IsPatch(patch) PROVE IsInput(Merged(before, patch))
<1> DEFINE raw == [f \in Fields |-> IF f \in DOMAIN patch THEN patch[f] ELSE before[f]]
<1>1. DOMAIN raw = Fields /\ raw.allDay \in BOOLEAN /\ raw.case \in Matter \cup {NoCase}
  BY DEF IsInput, IsPatch, Fields
<1>2. \A f \in Fields \ {"case", "allDay"} : raw[f] \in Nat \cup {NoTime}
  BY DEF IsInput, IsPatch
<1>3. Merged(before, patch) = Normalised(raw)
  BY DEF Merged
<1> HIDE DEF raw
<1>4. IsInput(Normalised(raw))
  <2>1. DOMAIN Normalised(raw) = Fields /\ Normalised(raw).allDay = raw.allDay /\ Normalised(raw).case = raw.case
    BY DEF Normalised, Fields
  <2>2. \A f \in Fields : Normalised(raw)[f] \in {raw[f], NoTime}
    BY DEF Normalised
  <2>3. QED
    BY <1>1, <1>2, <2>1, <2>2 DEF IsInput
<1>5. QED
  BY <1>3, <1>4

LEMMA InitCalendarInv == CalendarInit => CalendarInv
<1> SUFFICES ASSUME CalendarInit PROVE CalendarInv
  OBVIOUS
<1>1. EventsInv
  BY DEF CalendarInit, EventsInv, Stored
<1>2. WorldInv
  BY CalendarAssumption DEF CalendarInit, WorldInv
<1>3. DeskInv
  BY DEF CalendarInit, DeskInv, Carries, Idle
<1>4. QED
  BY <1>1, <1>2, <1>3 DEF CalendarInv

(* A dialog or a request moves on, and the events stay.                      *)
LEMMA DeskMoves ==
  ASSUME CalendarInv, NEW m \in Member, NEW d, Goes(m, d), Carries(d), UNCHANGED <<events, World>>
  PROVE  CalendarInv'
<1>1. EventsInv' /\ WorldInv'
  BY DEF CalendarInv, EventsInv, WorldInv, World, Stored
<1>2. \A x \in Member : desk'[x] = IF x = m THEN d ELSE desk[x]
  BY DEF CalendarInv, DeskInv, Goes
<1>3. desk' = [x \in Member |-> desk'[x]]
  BY DEF CalendarInv, DeskInv, Goes
<1>4. Stored' = Stored
  BY DEF Stored
<1>5. \A x \in Member : Carries(desk[x])
  BY DEF CalendarInv, DeskInv
<1>6. \A x \in Member : Carries(desk'[x])
  BY <1>2, <1>5
<1>7. DeskInv'
  BY <1>3, <1>4, <1>6 DEF DeskInv, Carries
<1>8. QED
  BY <1>1, <1>7 DEF CalendarInv

(* A request writes its event and is done.                                   *)
LEMMA RowWritten ==
  ASSUME CalendarInv, NEW m \in Member, NEW e \in Event, NEW input, NEW status \in {"scheduled", "cancelled"},
         IsInput(input), Valid(input), Goes(m, Idle), UNCHANGED World,
         events' = [events EXCEPT ![e] = Row(input, status)]
  PROVE  CalendarInv'
<1>1. \A x \in Event : events'[x] = IF x = e THEN Row(input, status) ELSE events[x]
  BY DEF CalendarInv, EventsInv
<1>2. events' = [x \in Event |-> events'[x]]
  BY DEF CalendarInv, EventsInv
<1>3. Stored' = Stored \cup {e}
  BY <1>1 DEF Stored, Row, Nothing
<1>4. EventsInv'
  <2>1. ASSUME NEW x \in Stored'
        PROVE  /\ events'[x] = Row(events'[x].input, events'[x].status)
               /\ events'[x].status \in {"scheduled", "cancelled"}
               /\ IsInput(events'[x].input) /\ Valid(events'[x].input)
    <3>1. CASE x = e
      <4>1. events'[x].input = input /\ events'[x].status = status /\ events'[x] = Row(input, status)
        BY <1>1, <3>1 DEF Row
      <4>2. QED
        BY <4>1
    <3>2. CASE x # e
      <4>1. x \in Stored /\ events'[x] = events[x]
        BY <1>1, <1>3, <3>2 DEF Stored
      <4>2. QED
        BY <4>1 DEF CalendarInv, EventsInv
    <3>3. QED
      BY <3>1, <3>2
  <2>2. QED
    BY <1>2, <2>1 DEF EventsInv
<1>5. \A x \in Member : desk'[x] = IF x = m THEN Idle ELSE desk[x]
  BY DEF CalendarInv, DeskInv, Goes
<1>6. desk' = [x \in Member |-> desk'[x]]
  BY DEF CalendarInv, DeskInv, Goes
<1>7. \A x \in Member : Carries(desk[x])
  BY DEF CalendarInv, DeskInv
<1>8. DeskInv'
  BY <1>3, <1>5, <1>6, <1>7 DEF DeskInv, Carries, Idle
<1>9. WorldInv'
  BY DEF CalendarInv, WorldInv, World
<1>10. QED
  BY <1>4, <1>8, <1>9 DEF CalendarInv

(* Every step keeps what is stored, and what is about to be stored, valid.   *)
LEMMA NextCalendarInv == CalendarInv /\ [CalendarNext]_calendarVars => CalendarInv'
<1> SUFFICES ASSUME CalendarInv, [CalendarNext]_calendarVars PROVE CalendarInv'
  OBVIOUS
<1>idle. Carries(Idle)
  BY DEF Carries, Idle
<1>1. ASSUME NEW m \in Member, OpenForm(m) PROVE CalendarInv'
  <2>1. PICK e \in Event :
          \/ Goes(m, [phase |-> "creating", event |-> e])
          \/ Goes(m, [phase |-> "editing", event |-> e, form |-> FromEvent(events[e].input)])
          \/ Goes(m, [phase |-> "cancelling", event |-> e])
    BY <1>1 DEF OpenForm
  <2>2. /\ Carries([phase |-> "creating", event |-> e])
        /\ Carries([phase |-> "editing", event |-> e, form |-> FromEvent(events[e].input)])
        /\ Carries([phase |-> "cancelling", event |-> e])
    BY DEF Carries
  <2>3. UNCHANGED <<events, World>>
    BY <1>1 DEF OpenForm
  <2>4. QED
    BY <2>1, <2>2, <2>3, DeskMoves
<1>2. ASSUME NEW m \in Member, CloseForm(m) PROVE CalendarInv'
  BY <1>2, <1>idle, DeskMoves DEF CloseForm
<1>3. ASSUME NEW m \in Member, SendForm(m) PROVE CalendarInv'
  <2>1. PICK input \in Inputs :
          /\ Valid(input)
          /\ \/ At(m, "creating") /\ Goes(m, [phase |-> "create", event |-> desk[m].event, input |-> input])
             \/ /\ At(m, "editing")
                /\ Goes(m, [phase |-> "update", event |-> desk[m].event,
                            patch |-> ChangedBody(desk[m].form, input)])
    BY <1>3 DEF SendForm, FormTakes
  <2>2. IsInput(input) /\ IsPatch(ChangedBody(desk[m].form, input))
    BY InputsAreInputs, ChangesAreAPatch
  <2>3. desk[m].phase \in {"creating", "editing"} => desk[m].event \in Event
    BY DEF CalendarInv, DeskInv, Carries
  <2>4. UNCHANGED <<events, World>>
    BY <1>3 DEF SendForm
  <2>5. CASE At(m, "creating") /\ Goes(m, [phase |-> "create", event |-> desk[m].event, input |-> input])
    <3>1. Carries([phase |-> "create", event |-> desk[m].event, input |-> input])
      BY <2>1, <2>2, <2>3, <2>5 DEF Carries, At
    <3>2. QED
      BY <2>4, <2>5, <3>1, DeskMoves
  <2>6. CASE /\ At(m, "editing")
             /\ Goes(m, [phase |-> "update", event |-> desk[m].event, patch |-> ChangedBody(desk[m].form, input)])
    <3>1. Carries([phase |-> "update", event |-> desk[m].event, patch |-> ChangedBody(desk[m].form, input)])
      BY <2>2, <2>3, <2>6 DEF Carries, At
    <3>2. QED
      BY <2>4, <2>6, <3>1, DeskMoves
  <2>7. QED
    BY <2>1, <2>5, <2>6
<1>4. ASSUME NEW m \in Member, ConfirmCancel(m) PROVE CalendarInv'
  <2>1. Carries([phase |-> "cancel", event |-> desk[m].event])
    BY <1>4 DEF CalendarInv, DeskInv, Carries, ConfirmCancel, At
  <2>2. QED
    BY <1>4, <2>1, DeskMoves DEF ConfirmCancel
<1>5. ASSUME NEW m \in Member, Create(m) PROVE CalendarInv'
  <2>1. desk[m].event \in Event /\ IsInput(desk[m].input) /\ Valid(desk[m].input)
    BY <1>5 DEF CalendarInv, DeskInv, Carries, Create, At
  <2>2. CASE Refused(m)
    BY <1>5, <2>2, <1>idle, DeskMoves DEF Create, Refused
  <2>3. CASE /\ events' = [events EXCEPT ![desk[m].event] = Row(desk[m].input, "scheduled")]
             /\ Goes(m, Idle)
    BY <1>5, <2>1, <2>3, RowWritten DEF Create
  <2>4. QED
    BY <1>5, <2>2, <2>3 DEF Create
<1>6. ASSUME NEW m \in Member, UpdateRead(m) PROVE CalendarInv'
  <2> DEFINE e == desk[m].event
             after == Merged(events[e].input, desk[m].patch)
             d == [phase |-> "write", event |-> e, patch |-> desk[m].patch, input |-> after,
                   status |-> events[e].status]
  <2>1. CASE e \in Visible(m) /\ Valid(after) /\ Goes(m, d)
    <3>1. e \in Stored /\ e \in Event /\ IsInput(events[e].input)
      BY <2>1 DEF Visible, Stored, CalendarInv, EventsInv
    <3>2. IsPatch(desk[m].patch)
      BY <1>6 DEF UpdateRead, At, CalendarInv, DeskInv, Carries
    <3>3. IsInput(after)
      BY <3>1, <3>2, MergedIsInput
    <3> HIDE DEF after, e
    <3>4. Carries(d)
      BY <2>1, <3>1, <3>3 DEF Carries
    <3> HIDE DEF d
    <3>5. QED
      BY <1>6, <2>1, <3>4, DeskMoves DEF UpdateRead
  <2>2. CASE Goes(m, Idle)
    BY <1>6, <2>2, <1>idle, DeskMoves DEF UpdateRead
  <2>3. QED
    BY <1>6, <2>1, <2>2 DEF UpdateRead, MayAttach
<1>7. ASSUME NEW m \in Member, UpdateWrite(m) PROVE CalendarInv'
  <2>1. desk[m].event \in Stored /\ IsInput(desk[m].input) /\ Valid(desk[m].input)
    BY <1>7 DEF CalendarInv, DeskInv, Carries, UpdateWrite, At
  <2>2. desk[m].event \in Event /\ events[desk[m].event].status \in {"scheduled", "cancelled"}
    BY <2>1 DEF CalendarInv, EventsInv, Stored
  <2>3. Written(m) = Row(desk[m].input, events[desk[m].event].status) /\ Written(m).input = desk[m].input
    BY DEF Written, Row
  <2>4. QED
    BY <1>7, <2>1, <2>2, <2>3, RowWritten DEF UpdateWrite
<1>8. ASSUME NEW m \in Member, CancelRead(m) \/ CancelWrite(m) PROVE CalendarInv'
  <2> DEFINE e == desk[m].event
  <2>1. CASE CancelRead(m)
    <3> DEFINE d == [phase |-> "strike", event |-> e]
    <3>1. CASE e \in Visible(m) \cap Scheduled /\ Goes(m, d)
      <4>1. e \in Stored /\ e \in Event
        BY <3>1 DEF Scheduled, Stored
      <4>2. Carries(d)
        BY <4>1 DEF Carries
      <4> HIDE DEF d
      <4>3. QED
        BY <2>1, <3>1, <4>2, DeskMoves DEF CancelRead
    <3>2. CASE Goes(m, Idle)
      BY <2>1, <3>2, <1>idle, DeskMoves DEF CancelRead
    <3>3. QED
      BY <2>1, <3>1, <3>2 DEF CancelRead
  <2>2. CASE CancelWrite(m)
    <3>1. e \in Stored
      BY <2>2 DEF CalendarInv, DeskInv, Carries, CancelWrite, At
    <3>2. /\ e \in Event /\ IsInput(events[e].input) /\ Valid(events[e].input)
          /\ events[e] = Row(events[e].input, events[e].status)
      BY <3>1 DEF Stored, CalendarInv, EventsInv
    <3>3. [events[e] EXCEPT !.status = "cancelled"] = Row(events[e].input, "cancelled")
      BY <3>2 DEF Row
    <3>4. events' = [events EXCEPT ![e] = Row(events[e].input, "cancelled")]
      BY <2>2, <3>3 DEF CancelWrite
    <3>5. QED
      BY <2>2, <3>2, <3>4, RowWritten DEF CancelWrite
  <2>3. QED
    BY <1>8, <2>1, <2>2
<1>9. CASE \/ \E m \in Member : Poll(m)
           \/ TimePasses \/ LeaveMatter \/ UNCHANGED calendarVars
  <2>1. UNCHANGED <<events, desk>>
    BY <1>9 DEF Poll, TimePasses, LeaveMatter, calendarVars
  <2>2. EventsInv' /\ DeskInv'
    BY <2>1 DEF CalendarInv, EventsInv, DeskInv, Stored, Carries
  <2>3. WorldInv'
    <3>1. ASSUME NEW m \in Member, Poll(m) PROVE WorldInv'
      <4>1. Reminders(m) \subseteq Event
        BY DEF Reminders, DueFor, Visible, Stored
      <4>2. QED
        BY <3>1, <4>1 DEF Poll, CalendarInv, WorldInv
    <3>2. ASSUME LeaveMatter PROVE WorldInv'
      BY <3>2 DEF LeaveMatter, CalendarInv, WorldInv
    <3>3. ASSUME TimePasses \/ UNCHANGED calendarVars PROVE WorldInv'
      BY <3>3, CalendarAssumption DEF TimePasses, calendarVars, CalendarInv, WorldInv
    <3>4. QED
      BY <1>9, <3>1, <3>2, <3>3
  <2>4. QED
    BY <2>2, <2>3 DEF CalendarInv
<1>10. QED
  BY <1>1, <1>2, <1>3, <1>4, <1>5, <1>6, <1>7, <1>8, <1>9 DEF CalendarNext

LEMMA AlwaysCalendarInv == CalendarSpec => []CalendarInv
  BY InitCalendarInv, NextCalendarInv, PTL DEF CalendarSpec

(* Whatever the forms and edits in flight, an event has its fields and a     *)
(* status (schema.ts, calendar_event).                                       *)
THEOREM CalendarTypeCorrect == CalendarSpec => []CalendarTypeOK
<1>1. CalendarInv => CalendarTypeOK
  BY DEF CalendarInv, EventsInv, WorldInv, CalendarTypeOK, IsInput
<1>2. QED
  BY <1>1, AlwaysCalendarInv, PTL

(* However many edits of the same event overlap between their read and their *)
(* write, the constraints of calendar_event refuse none                      *)
(* (calendar.repository.ts, update).                                         *)
THEOREM NoConstraintFires == CalendarSpec => []ConstraintsNeverFire
<1>1. CalendarInv => ConstraintsNeverFire
  BY DEF CalendarInv, DeskInv, Carries, ConstraintsNeverFire, At
<1>2. QED
  BY <1>1, AlwaysCalendarInv, PTL

KeepsCancelled == \A e \in Stored : events[e].status = "cancelled" => events'[e].status = "cancelled"

(* The statements that overlap with a cancellation: an event's creation      *)
(* finds its place taken, and an edit's write keeps the status.              *)
LEMMA NextKeepsCancelled == CalendarInv /\ [CalendarNext]_calendarVars => KeepsCancelled
<1> SUFFICES ASSUME CalendarInv, [CalendarNext]_calendarVars, NEW e \in Stored, events[e].status = "cancelled"
             PROVE  events'[e].status = "cancelled"
  BY DEF KeepsCancelled
<1>1. e \in Event /\ events = [x \in Event |-> events[x]]
  BY DEF CalendarInv, EventsInv, Stored
<1>2. ASSUME NEW m \in Member, Create(m) PROVE events'[e] = events[e]
  <2>1. \/ events' = events
        \/ desk[m].event # e /\ events' = [events EXCEPT ![desk[m].event] = Row(desk[m].input, "scheduled")]
    BY <1>2 DEF Create, Refused
  <2>2. QED
    BY <1>1, <2>1
<1>3. ASSUME NEW m \in Member, UpdateWrite(m) PROVE events'[e].status = "cancelled"
  <2>1. Written(m).status = events[desk[m].event].status
    BY DEF Written, Row
  <2>2. events' = events \/ events' = [events EXCEPT ![desk[m].event] = Written(m)]
    BY <1>3 DEF UpdateWrite
  <2>3. events'[e] = events[e] \/ (e = desk[m].event /\ events'[e] = Written(m))
    BY <2>2, <1>1
  <2>4. QED
    BY <2>1, <2>3
<1>4. ASSUME NEW m \in Member, CancelWrite(m) PROVE events'[e].status = "cancelled"
  <2>1. events' = [events EXCEPT ![desk[m].event].status = "cancelled"]
    BY <1>4 DEF CancelWrite
  <2>2. e # desk[m].event => events'[e] = events[e]
    BY <1>1, <2>1
  <2>3. e = desk[m].event => events'[e] = [events[e] EXCEPT !.status = "cancelled"]
    BY <1>1, <2>1
  <2>4. events[e] = Row(events[e].input, events[e].status)
    BY DEF CalendarInv, EventsInv
  <2>5. [events[e] EXCEPT !.status = "cancelled"].status = "cancelled"
    BY <2>4 DEF Row
  <2>6. QED
    BY <2>2, <2>3, <2>5
<1>5. QED
  BY <1>2, <1>3, <1>4
  DEF CalendarNext, calendarVars, OpenForm, CloseForm, SendForm, ConfirmCancel, UpdateRead, CancelRead,
      Poll, TimePasses, LeaveMatter

(* No edit in flight brings a cancelled event back: the statement of         *)
(* CalendarRepository.update sets every column but the status.               *)
THEOREM CancellationIsFinal == CalendarSpec => CancelledIsFinal
<1>1. CalendarSpec => [][KeepsCancelled]_calendarVars
  BY InitCalendarInv, NextCalendarInv, NextKeepsCancelled, PTL DEF CalendarSpec
<1>2. QED
  BY <1>1 DEF CancelledIsFinal, KeepsCancelled

WithinReach ==
  \A m \in Member :
    (At(m, "update") /\ desk'[m].phase = "write") => Reaches(m, desk'[m].input.case)

(* An edit's read and its checks.                                            *)
LEMMA NextWithinReach == CalendarInv /\ [CalendarNext]_calendarVars => WithinReach
<1> SUFFICES ASSUME CalendarInv, [CalendarNext]_calendarVars, NEW m \in Member,
                    At(m, "update"), desk'[m].phase = "write"
             PROVE  Reaches(m, desk'[m].input.case)
  BY DEF WithinReach
<1>1. desk = [x \in Member |-> desk[x]]
  BY DEF CalendarInv, DeskInv
<1>2. UpdateRead(m)
  <2>1. desk[m].phase = "update" /\ desk'[m].phase # desk[m].phase
    BY DEF At
  <2>2. ASSUME NEW x \in Member, NEW d, Goes(x, d) PROVE x = m
    BY <1>1, <2>1, <2>2 DEF Goes
  <2>3. QED
    BY <2>1, <2>2
    DEF CalendarNext, calendarVars, OpenForm, CloseForm, SendForm, ConfirmCancel, Create, Refused, UpdateRead,
        UpdateWrite, CancelRead, CancelWrite, Poll, TimePasses, LeaveMatter, At, Idle
<1> DEFINE e == desk[m].event
           before == events[e].input
           after == Merged(before, desk[m].patch)
           d == [phase |-> "write", event |-> e, patch |-> desk[m].patch, input |-> after,
                 status |-> events[e].status]
<1>3. e \in Visible(m) /\ MayAttach(m, before, after) /\ Goes(m, d)
  <2>1. ~Goes(m, Idle)
    BY <1>1 DEF Goes, Idle
  <2>2. QED
    BY <1>2, <2>1 DEF UpdateRead
<1>4. Reaches(m, before.case)
  BY <1>3 DEF Visible
<1> HIDE DEF before, after, e
<1>5. desk'[m].input = after
  BY <1>1, <1>3 DEF Goes
<1>6. QED
  BY <1>3, <1>4, <1>5 DEF MayAttach

(* An edit that goes on to its write puts the event on a matter its member   *)
(* reached as it was read: a new matter is looked up, and the old one is     *)
(* what made the event visible (CalendarService.assertCaseReachable).        *)
THEOREM AttachedWithinReach == CalendarSpec => AttachesWithinReach
<1>1. CalendarSpec => [][WithinReach]_calendarVars
  BY InitCalendarInv, NextCalendarInv, NextWithinReach, PTL DEF CalendarSpec
<1>2. QED
  BY <1>1 DEF AttachesWithinReach, WithinReach

-----------------------------------------------------------------------------
(* What the grid's arithmetic needs of a day.                                *)
LEMMA DayType == ASSUME NEW at \in Nat PROVE DayOf(at) \in Nat
  BY CalendarAssumption DEF DayOf

(* Both readings of an instant agree on which side of midnight it is.        *)
LEMMA DayBefore ==
  ASSUME NEW at \in Nat, NEW day \in Nat PROVE at < day * DayLen <=> DayOf(at) < day
  BY CalendarAssumption DEF DayOf

LEMMA DaysInOrder ==
  ASSUME NEW a \in Nat, NEW b \in Nat, a <= b PROVE DayOf(a) <= DayOf(b)
  BY CalendarAssumption DEF DayOf

(* The last of consecutive days.                                             *)
LEMMA LastDay == ASSUME NEW a \in Int, NEW b \in Int, a <= b PROVE Max(a .. b) = b
  BY DEF Max

(* The grid begins and ends with a whole week around the month, and asks for *)
(* its days and no more.                                                     *)
LEMMA GridIsItsRange ==
  ASSUME NEW month \in Months
  PROVE  /\ GridRange(month).from \in Nat /\ GridRange(month).to \in Nat
         /\ GridRange(month).from < GridRange(month).to
         /\ GridDays(month) = GridRange(month).from .. (GridRange(month).to - 1)
<1> DEFINE last == month[2] + (Week - 1 - (month[2] % Week))
<1>1. month[1] \in Nat /\ month[2] \in Nat /\ month[1] <= month[2] /\ Week \in Nat \ {0}
  BY CalendarAssumption
<1>2. month[1] % Week \in 0 .. (Week - 1) /\ month[2] % Week \in 0 .. (Week - 1)
  BY <1>1
<1>3. month[1] % Week <= month[1]
  BY <1>1
<1>4. FirstOf(month) \in Nat /\ last \in Nat /\ FirstOf(month) <= last
  BY <1>1, <1>2, <1>3 DEF FirstOf
<1>5. GridDays(month) = FirstOf(month) .. last
  BY DEF GridDays
<1> HIDE DEF last
<1>6. Max(GridDays(month)) = last
  BY <1>4, <1>5, LastDay
<1>7. GridRange(month).from = FirstOf(month) /\ GridRange(month).to = last + 1
  BY <1>6 DEF GridRange
<1>8. QED
  BY <1>4, <1>5, <1>7

(* The query returns an event exactly if one of its days is among the days   *)
(* of the range.                                                             *)
LEMMA RangeMeetsDays ==
  ASSUME NEW input, IsInput(input), Valid(input), NEW range, range.from \in Nat, range.to \in Nat,
         range.from < range.to
  PROVE  InRange(input, range) <=> \E day \in range.from .. (range.to - 1) : day \in EventDays(input)
<1> DEFINE first == IF input.allDay THEN Begins(input) ELSE DayOf(Begins(input))
           last == IF input.allDay THEN LastOf(input) ELSE DayOf(LastOf(input))
<1>1. Begins(input) \in Nat /\ LastOf(input) \in Nat /\ Begins(input) <= LastOf(input)
  <2>1. Begins(input) \in Nat \cup {NoTime} /\ Ends(input) \in Nat \cup {NoTime} /\ Begins(input) # NoTime
    BY DEF Begins, Ends, IsInput, Valid, Fields
  <2>2. Ends(input) # NoTime => Ends(input) >= Begins(input)
    BY DEF Valid
  <2>3. QED
    BY <2>1, <2>2 DEF LastOf
<1>2. first \in Nat /\ last \in Nat /\ first <= last
  BY <1>1, DayType, DaysInOrder
<1>3. EventDays(input) = first .. last
  BY DEF EventDays
<1>4. InRange(input, range) <=> first < range.to /\ last >= range.from
  <2>1. CASE input.allDay
    BY <2>1 DEF InRange
  <2>2. CASE ~input.allDay
    <3>1. Begins(input) < range.to * DayLen <=> DayOf(Begins(input)) < range.to
      BY <1>1, DayBefore
    <3>2. LastOf(input) < range.from * DayLen <=> DayOf(LastOf(input)) < range.from
      BY <1>1, DayBefore
    <3>3. LastOf(input) >= range.from * DayLen <=> DayOf(LastOf(input)) >= range.from
      <4>1. range.from * DayLen \in Nat /\ DayOf(LastOf(input)) \in Nat
        BY <1>1, DayType, CalendarAssumption
      <4>2. QED
        BY <3>2, <4>1, <1>1
    <3>4. QED
      BY <2>2, <3>1, <3>3 DEF InRange
  <2>3. QED
    BY <2>1, <2>2
<1> HIDE DEF first, last
<1>5. (first < range.to /\ last >= range.from) <=> \E day \in range.from .. (range.to - 1) : day \in first .. last
  <2>1. ASSUME first < range.to, last >= range.from
        PROVE  \E day \in range.from .. (range.to - 1) : day \in first .. last
    <3>1. CASE first >= range.from
      <4>1. first \in range.from .. (range.to - 1) /\ first \in first .. last
        BY <1>2, <2>1, <3>1
      <4>2. QED
        BY <4>1
    <3>2. CASE first < range.from
      <4>1. range.from \in range.from .. (range.to - 1) /\ range.from \in first .. last
        BY <1>2, <2>1, <3>2
      <4>2. QED
        BY <4>1
    <3>3. QED
      BY <1>2, <3>1, <3>2
  <2>2. QED
    BY <1>2, <2>1
<1>6. QED
  BY <1>3, <1>4, <1>5

(* For every length of a day and a week and every month: what listEvents     *)
(* answers, by instants and dates, is what the grid files under its days, so *)
(* no event is fetched and not shown, nor missed (month-grid.ts,             *)
(* CalendarRepository.listInRange).                                          *)
THEOREM TheGridShowsItsRange == CalendarSpec => []GridShowsItsRange
<1>1. ASSUME CalendarInv, NEW m \in Member, NEW month \in Months
      PROVE  /\ Fetched(m, month) = UNION Range(Cells(m, month))
             /\ \A e \in Visible(m), day \in GridDays(month) :
                  day \in EventDays(events[e].input) => e \in Cells(m, month)[day]
  <2> DEFINE fetched == Fetched(m, month)
             cells == Cells(m, month)
  <2>1. \A e \in Visible(m) :
          e \in fetched <=> \E day \in GridDays(month) : day \in EventDays(events[e].input)
    <3>1. ASSUME NEW e \in Visible(m)
          PROVE  e \in fetched <=> \E day \in GridDays(month) : day \in EventDays(events[e].input)
      <4>1. IsInput(events[e].input) /\ Valid(events[e].input)
        BY <1>1 DEF Visible, CalendarInv, EventsInv
      <4>2. InRange(events[e].input, GridRange(month))
              <=> \E day \in GridDays(month) : day \in EventDays(events[e].input)
        BY <4>1, GridIsItsRange, RangeMeetsDays
      <4>3. QED
        BY <4>2 DEF Fetched
    <3>2. QED
      BY <3>1
  <2>2. fetched \subseteq Visible(m)
    BY DEF Fetched
  <2>3. DOMAIN cells = GridDays(month)
    BY DEF Cells
  <2>4. \A day \in GridDays(month) : cells[day] = {e \in fetched : day \in EventDays(events[e].input)}
    <3>1. ASSUME NEW day \in GridDays(month)
          PROVE  cells[day] = {e \in fetched : day \in EventDays(events[e].input)}
      <4> DEFINE byDay == ByDay(fetched)
      <4>1. cells[day] = IF day \in DOMAIN byDay THEN byDay[day] ELSE {}
        BY DEF Cells
      <4>2. DOMAIN byDay = UNION {EventDays(events[e].input) : e \in fetched}
        BY DEF ByDay
      <4>3. day \in DOMAIN byDay => byDay[day] = {e \in fetched : day \in EventDays(events[e].input)}
        BY DEF ByDay
      <4>4. day \notin DOMAIN byDay => \A e \in fetched : day \notin EventDays(events[e].input)
        BY <4>2
      <4> HIDE DEF byDay, fetched, cells
      <4>5. CASE day \in DOMAIN byDay
        BY <4>1, <4>3, <4>5
      <4>6. CASE day \notin DOMAIN byDay
        BY <4>1, <4>4, <4>6
      <4>7. QED
        BY <4>5, <4>6
    <3>2. QED
      BY <3>1
  <2> HIDE DEF fetched, cells
  <2>5. fetched = UNION Range(cells)
    BY <2>1, <2>2, <2>3, <2>4 DEF Range
  <2>6. \A e \in Visible(m), day \in GridDays(month) : day \in EventDays(events[e].input) => e \in cells[day]
    BY <2>1, <2>4
  <2>7. QED
    BY <2>5, <2>6 DEF fetched, cells
<1>2. CalendarInv => GridShowsItsRange
  BY <1>1 DEF GridShowsItsRange
<1>3. QED
  BY <1>2, AlwaysCalendarInv, PTL
=============================================================================
