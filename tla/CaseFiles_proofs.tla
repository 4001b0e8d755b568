---------------------------- MODULE CaseFiles_proofs ----------------------------
(***************************************************************************)
(* The dates and the ends of matters, for every number of members, matters *)
(* and statuses.  A write stores what a request read two statements        *)
(* earlier: the invariant says what is still true of it then.              *)
(* And the directory of clients: the pages a screen shows, for every size  *)
(* of a page, and the clients the forms write.                             *)
(***************************************************************************)
EXTENDS CaseFiles, Clients, FiniteSetTheorems, WellFoundedInduction, TLAPS

\* What the server may be working on.
Requests ==
  [phase : {"create", "createStatus", "move", "moveStatus"}, case : Case, to : Status]
    \cup [phase : {"insert", "moveWrite"}, case : Case, to : Status, closing : BOOLEAN]
    \cup [phase : {"declare", "declareWrite"}, case : Case, to : Outcomes]

TypeInv == TypeOK /\ req \in [Member -> {Idle} \cup Requests]

\* Whether a status that was read still closes, unless somebody redefined it.
ReadInv ==
  \A m \in Member :
    req[m].phase \in {"insert", "moveWrite"} /\ req[m].to \notin redefined =>
      req[m].closing = entries[req[m].to].closing

\* A request past its first look is about a matter there is.
FoundInv ==
  \A m \in Member :
    req[m].phase \in {"moveStatus", "moveWrite", "declareWrite"} => files[req[m].case] \in Files

\* The constraint of the table holds of every row.
StoredInv == \A c \in Case : files[c] \in Files => MayStore(files[c])

\* DateTellsStatus of every row.
DateInv ==
  \A c \in Case :
    files[c] \in Files /\ files[c].status \notin redefined =>
      (files[c].closed # None <=> entries[files[c].status].closing)

IInv == TypeInv /\ ReadInv /\ FoundInv /\ StoredInv /\ DateInv

-----------------------------------------------------------------------------
(* There is no matter yet, and the statuses mean what they were seeded with. *)
LEMMA InitIInv == Init => IInv
<1> SUFFICES ASSUME Init PROVE IInv
  OBVIOUS
<1> USE CaseAssumption DEF Init
<1>1. TypeInv
  BY DEF TypeInv, TypeOK, Idle
<1>2. ReadInv /\ FoundInv
  BY DEF ReadInv, FoundInv, Idle
<1>3. StoredInv /\ DateInv
  BY DEF StoredInv, DateInv
<1>4. QED
  BY <1>1, <1>2, <1>3 DEF IInv

-----------------------------------------------------------------------------
\* A request may go on as r.
Ready(r) ==
  /\ r.phase \in {"insert", "moveWrite"} /\ r.to \notin redefined => r.closing = entries[r.to].closing
  /\ r.phase \in {"moveStatus", "moveWrite", "declareWrite"} => files[r.case] \in Files

(* One request goes on, and nothing is written.                              *)
LEMMA GoesIInv ==
  ASSUME IInv, NEW m \in Member, NEW r \in {Idle} \cup Requests, Ready(r), Goes(m, r), UNCHANGED <<files, Firm>>
  PROVE  IInv'
<1> USE DEF IInv, Goes, Firm
<1>1. TypeInv'
  BY DEF TypeInv, TypeOK
<1>2. req' = [req EXCEPT ![m] = r] /\ req \in [Member -> {Idle} \cup Requests]
  BY DEF TypeInv
<1>3. ReadInv'
  BY <1>2 DEF ReadInv, Ready
<1>4. FoundInv'
  BY <1>2 DEF FoundInv, Ready
<1>5. StoredInv' /\ DateInv'
  BY DEF StoredInv, DateInv
<1>6. QED
  BY <1>1, <1>3, <1>4, <1>5

(* A request that is answered has nothing in hand.                           *)
LEMMA AnsweredIInv == ASSUME IInv, NEW m \in Member, Answered(m), UNCHANGED <<files, Firm>> PROVE IInv'
<1>1. Ready(Idle)
  BY DEF Ready, Idle
<1>2. QED
  BY <1>1, GoesIInv DEF Answered

\* A row whose date tells its status, if the status means what it was seeded with.
Dated(f) == f.status \notin redefined => (f.closed # None <=> entries[f.status].closing)

(* A row is written, and the request answered.                               *)
LEMMA StoresIInv ==
  ASSUME IInv, NEW m \in Member, NEW c \in Case, NEW f \in Files, MayStore(f), Dated(f),
         files' = [files EXCEPT ![c] = f], Answered(m), UNCHANGED Firm
  PROVE  IInv'
<1> USE DEF IInv, Answered, Goes, Firm
<1>1. TypeInv'
  BY DEF TypeInv, TypeOK
<1>2. /\ req' = [req EXCEPT ![m] = Idle] /\ req \in [Member -> {Idle} \cup Requests]
      /\ files \in [Case -> Files \cup {None}]
  BY DEF TypeInv, TypeOK
<1>3. ReadInv'
  BY <1>2 DEF ReadInv, Idle
<1>4. ASSUME NEW n \in Member, req'[n].phase \in {"moveStatus", "moveWrite", "declareWrite"}
      PROVE  files'[req'[n].case] \in Files
  <2>1. n # m
    BY <1>2, <1>4 DEF Idle
  <2>2. req'[n] = req[n] /\ files[req[n].case] \in Files
    BY <1>2, <1>4, <2>1 DEF FoundInv
  <2>3. req[n].case \in Case
    BY <1>2, <1>4, <2>2 DEF Requests, Idle
  <2>4. QED
    BY <1>2, <2>2, <2>3
<1>5. FoundInv'
  BY <1>4 DEF FoundInv
<1>6. StoredInv'
  BY <1>2 DEF StoredInv, MayStore
<1>7. ASSUME NEW d \in Case, files'[d] \in Files, files'[d].status \notin redefined
      PROVE  files'[d].closed # None <=> entries[files'[d].status].closing
  BY <1>2, <1>7 DEF DateInv, Dated
<1>8. DateInv'
  BY <1>7 DEF DateInv
<1>9. QED
  BY <1>1, <1>3, <1>5, <1>6, <1>8

-----------------------------------------------------------------------------
(* The forms send what they offer.                                           *)
LEMMA PressIInv == ASSUME IInv, NEW m \in Member, PickStatus(m) \/ PickOutcome(m) \/ SubmitCase(m) PROVE IInv'
<1>1. CASE PickStatus(m)
  <2>1. PICK c \in Case, s \in Status : Goes(m, [phase |-> "move", case |-> c, to |-> s])
    BY <1>1 DEF PickStatus
  <2> DEFINE r == [phase |-> "move", case |-> c, to |-> s]
  <2>2. r \in Requests /\ Ready(r)
    BY DEF Requests, Ready
  <2>3. QED
    BY <1>1, <2>1, <2>2, GoesIInv DEF PickStatus
<1>2. CASE PickOutcome(m)
  <2>1. PICK c \in Case, o \in Outcomes : Goes(m, [phase |-> "declare", case |-> c, to |-> o])
    BY <1>2 DEF PickOutcome
  <2> DEFINE r == [phase |-> "declare", case |-> c, to |-> o]
  <2>2. r \in Requests /\ Ready(r)
    BY DEF Requests, Ready
  <2>3. QED
    BY <1>2, <2>1, <2>2, GoesIInv DEF PickOutcome
<1>3. CASE SubmitCase(m)
  <2>1. PICK c \in Case, s \in Status : Goes(m, [phase |-> "create", case |-> c, to |-> s])
    BY <1>3 DEF SubmitCase
  <2> DEFINE r == [phase |-> "create", case |-> c, to |-> s]
  <2>2. r \in Requests /\ Ready(r)
    BY DEF Requests, Ready
  <2>3. QED
    BY <1>3, <2>1, <2>2, GoesIInv DEF SubmitCase
<1>4. QED
  BY <1>1, <1>2, <1>3

(* The panel reads.                                                          *)
LEMMA PanelIInv == ASSUME IInv, UNCHANGED <<files, Firm, req>> PROVE IInv'
  BY DEF IInv, TypeInv, TypeOK, ReadInv, FoundInv, StoredInv, DateInv, Firm

(* The looks of a creation: the status is remembered as it is now.           *)
LEMMA CreateIInv == ASSUME IInv, NEW m \in Member, CreateClient(m) \/ CreateStatus(m) PROVE IInv'
<1>1. req[m] \in {Idle} \cup Requests /\ entries \in [Status -> [active : BOOLEAN, closing : BOOLEAN]]
  BY DEF IInv, TypeInv, TypeOK
<1>2. CASE CreateClient(m)
  <2> DEFINE r == [req[m] EXCEPT !.phase = "createStatus"]
  <2>1. r \in Requests /\ Ready(r)
    BY <1>1, <1>2 DEF Requests, Ready, CreateClient, At, Idle
  <2>2. Goes(m, r) \/ Answered(m)
    BY <1>2 DEF CreateClient
  <2> HIDE DEF r
  <2>3. QED
    BY <1>2, <2>1, <2>2, GoesIInv, AnsweredIInv DEF CreateClient
<1>3. CASE CreateStatus(m)
  <2> DEFINE r == [phase |-> "insert", case |-> req[m].case, to |-> req[m].to, closing |-> entries[req[m].to].closing]
  <2>1. req[m].case \in Case /\ req[m].to \in Status
    BY <1>1, <1>3 DEF Requests, CreateStatus, At, Idle
  <2>2. r \in Requests /\ Ready(r)
    BY <1>1, <2>1 DEF Requests, Ready
  <2>3. Goes(m, r) \/ Answered(m)
    BY <1>3 DEF CreateStatus
  <2> HIDE DEF r
  <2>4. QED
    BY <1>3, <2>2, <2>3, GoesIInv, AnsweredIInv DEF CreateStatus
<1>4. QED
  BY <1>2, <1>3

(* A matter closed at birth has the day of its opening, or today's.          *)
LEMMA InsertIInv == ASSUME IInv, NEW m \in Member, CreateInsert(m) PROVE IInv'
<1> DEFINE r == req[m]
<1>1. r \in {Idle} \cup Requests /\ r.phase = "insert" /\ month \in Nat
  BY DEF IInv, TypeInv, TypeOK, CreateInsert, At
<1>2. r.case \in Case /\ r.to \in Status /\ r.closing \in BOOLEAN
  BY <1>1 DEF Requests, Idle
<1>3. CASE r.case \in Filed
  BY <1>3, AnsweredIInv DEF CreateInsert, Refused
<1>4. CASE r.case \notin Filed
  <2> DEFINE New(days) == [status |-> r.to, opened |-> days[1], outcome |-> None,
                           closed |-> IF r.closing THEN days[2] ELSE None]
  <2>1. PICK days \in Birth : files' = [files EXCEPT ![r.case] = New(days)]
    BY <1>4 DEF CreateInsert
  <2>2. days[1] \in Nat /\ days[2] \in Nat /\ days[2] # None
    BY <1>1, CaseAssumption DEF Today, Birth
  <2>3. New(days) \in Files
    BY <1>2, <2>2 DEF Files
  <2>4. MayStore(New(days))
    BY DEF MayStore
  <2>5. r.to \notin redefined => r.closing = entries[r.to].closing
    BY <1>1 DEF IInv, ReadInv
  <2>6. Dated(New(days))
    BY <1>2, <2>2, <2>5 DEF Dated
  <2>7. Answered(m) /\ UNCHANGED Firm
    BY <1>4 DEF CreateInsert
  <2> HIDE DEF New
  <2>8. QED
    BY <1>2, <2>1, <2>3, <2>4, <2>6, <2>7, StoresIInv
<1>5. QED
  BY <1>3, <1>4

(* The looks of a move and of a declaration: the matter is there.            *)
LEMMA LookIInv == ASSUME IInv, NEW m \in Member, MoveRead(m) \/ MoveStatus(m) \/ DeclareRead(m) PROVE IInv'
<1> DEFINE r == req[m]
<1>1. /\ r \in {Idle} \cup Requests /\ files \in [Case -> Files \cup {None}]
      /\ entries \in [Status -> [active : BOOLEAN, closing : BOOLEAN]]
  BY DEF IInv, TypeInv, TypeOK
<1>2. CASE MoveRead(m)
  <2> DEFINE q == [r EXCEPT !.phase = "moveStatus"]
  <2>1. CASE Reaches(m, r.case) /\ files[r.case].status # r.to
    <3>1. q \in Requests /\ Ready(q)
      BY <1>1, <1>2, <2>1 DEF Requests, Ready, MoveRead, At, Idle, Reaches, Filed
    <3>2. Goes(m, q)
      BY <1>2, <2>1 DEF MoveRead
    <3> HIDE DEF q
    <3>3. QED
      BY <1>2, <3>1, <3>2, GoesIInv DEF MoveRead
  <2>2. QED
    BY <1>2, <2>1, AnsweredIInv DEF MoveRead
<1>3. CASE MoveStatus(m)
  <2> DEFINE q == [phase |-> "moveWrite", case |-> r.case, to |-> r.to, closing |-> entries[r.to].closing]
  <2>1. r.case \in Case /\ r.to \in Status /\ files[r.case] \in Files
    BY <1>1, <1>3 DEF Requests, MoveStatus, At, Idle, IInv, FoundInv
  <2>2. q \in Requests /\ Ready(q)
    BY <1>1, <2>1 DEF Requests, Ready
  <2>3. Goes(m, q) \/ Answered(m)
    BY <1>3 DEF MoveStatus
  <2> HIDE DEF q
  <2>4. QED
    BY <1>3, <2>2, <2>3, GoesIInv, AnsweredIInv DEF MoveStatus
<1>4. CASE DeclareRead(m)
  <2> DEFINE q == [r EXCEPT !.phase = "declareWrite"]
  <2>1. CASE Reaches(m, r.case) /\ files[r.case].closed # None
    <3>1. q \in Requests /\ Ready(q)
      BY <1>1, <1>4, <2>1 DEF Requests, Ready, DeclareRead, At, Idle, Reaches, Filed
    <3>2. Goes(m, q)
      BY <1>4, <2>1 DEF DeclareRead
    <3> HIDE DEF q
    <3>3. QED
      BY <1>4, <3>1, <3>2, GoesIInv DEF DeclareRead
  <2>2. QED
    BY <1>4, <2>1, AnsweredIInv DEF DeclareRead
<1>5. QED
  BY <1>2, <1>3, <1>4

(* What a request about to write knows.                                      *)
LEMMA Writing ==
  ASSUME IInv, NEW m \in Member, req[m].phase \in {"moveWrite", "declareWrite"}
  PROVE  /\ req[m].case \in Case /\ files[req[m].case] \in Files /\ month \in Nat
         /\ req[m].phase = "moveWrite" => req[m].to \in Status /\ req[m].closing \in BOOLEAN
         /\ req[m].phase = "declareWrite" => req[m].to \in Outcomes
  BY DEF IInv, TypeInv, TypeOK, FoundInv, Requests, Idle

(* A matter moves with the meaning its new status had when it was read.      *)
LEMMA MoveIInv == ASSUME IInv, NEW m \in Member, MoveWrite(m) PROVE IInv'
<1> DEFINE r == req[m]
           f == files[r.case]
<1>1. r.phase = "moveWrite" /\ UNCHANGED Firm
  BY DEF MoveWrite, At
<1>2. r.case \in Case /\ f \in Files /\ month \in Nat /\ r.to \in Status /\ r.closing \in BOOLEAN
  BY <1>1, Writing
<1>3. PICK today \in Today :
        \/ MayStore(Moved(f, r, today)) /\ files' = [files EXCEPT ![r.case] = Moved(f, r, today)] /\ Answered(m)
        \/ Refused(m)
  BY DEF MoveWrite
<1>4. today \in Nat /\ today # None
  BY <1>2, CaseAssumption DEF Today
<1>5. Moved(f, r, today) \in Files
  BY <1>2, <1>4 DEF Moved, Files
<1>6. r.to \notin redefined => r.closing = entries[r.to].closing
  BY <1>1 DEF IInv, ReadInv
<1>7. Moved(f, r, today).status = r.to /\ (Moved(f, r, today).closed # None <=> r.closing)
  BY <1>2, <1>4 DEF Moved, Files
<1>8. Dated(Moved(f, r, today))
  BY <1>6, <1>7 DEF Dated
<1>9. CASE Refused(m)
  BY <1>1, <1>9, AnsweredIInv DEF Refused
<1>10. QED
  BY <1>1, <1>2, <1>3, <1>5, <1>8, <1>9, StoresIInv

(* An outcome touches neither the status nor the date.                       *)
LEMMA DeclareIInv == ASSUME IInv, NEW m \in Member, DeclareWrite(m) PROVE IInv'
<1> DEFINE c == req[m].case
           g == [files[c] EXCEPT !.outcome = req[m].to]
<1>1. req[m].phase = "declareWrite" /\ UNCHANGED Firm
  BY DEF DeclareWrite, At
<1>2. c \in Case /\ files[c] \in Files /\ req[m].to \in Outcomes
  BY <1>1, Writing
<1>3. g \in Files /\ g.status = files[c].status /\ g.closed = files[c].closed
  BY <1>2 DEF Files
<1>4. Dated(g)
  BY <1>2, <1>3 DEF Dated, IInv, DateInv
<1>5. \/ MayStore(g) /\ files' = [files EXCEPT ![c] = g] /\ Answered(m)
      \/ Refused(m)
  BY DEF DeclareWrite
<1>6. CASE Refused(m)
  BY <1>1, <1>6, AnsweredIInv DEF Refused
<1> HIDE DEF g
<1>7. QED
  BY <1>1, <1>2, <1>3, <1>4, <1>5, <1>6, StoresIInv

(* A status that is redefined is no longer spoken of; time and teams are not *)
(* either.                                                                   *)
LEMMA FirmIInv ==
  ASSUME IInv, RetireStatus \/ SetIsClosing \/ Unassign \/ NextMonth
  PROVE  IInv'
<1>1. /\ UNCHANGED <<files, req>> /\ redefined \subseteq redefined'
      /\ entries' \in [Status -> [active : BOOLEAN, closing : BOOLEAN]]
      /\ \A s \in Status : s \notin redefined' => entries'[s].closing = entries[s].closing
      /\ team' \subseteq team /\ month' \in Nat /\ redefined' \subseteq Status
  <2> USE DEF IInv, TypeInv, TypeOK
  <2>1. CASE RetireStatus
    <3>1. PICK s \in Status : entries' = [entries EXCEPT ![s].active = FALSE]
      BY <2>1 DEF RetireStatus, Active
    <3>2. UNCHANGED <<files, req, redefined, team, month>>
      BY <2>1 DEF RetireStatus
    <3>3. entries \in [Status -> [active : BOOLEAN, closing : BOOLEAN]]
      OBVIOUS
    <3>4. /\ entries' \in [Status -> [active : BOOLEAN, closing : BOOLEAN]]
          /\ \A x \in Status : entries'[x].closing = entries[x].closing
      BY <3>1, <3>3
    <3>5. QED
      BY <3>2, <3>4
  <2>2. CASE SetIsClosing
    BY <2>2 DEF SetIsClosing
  <2>3. CASE Unassign \/ NextMonth
    BY <2>3 DEF Unassign, NextMonth
  <2>4. QED
    BY <2>1, <2>2, <2>3
<1>2. TypeInv' /\ FoundInv' /\ StoredInv'
  BY <1>1 DEF IInv, TypeInv, TypeOK, FoundInv, StoredInv
<1>3. ASSUME NEW m \in Member, req[m].phase \in {"insert", "moveWrite"}, req[m].to \notin redefined'
      PROVE  req[m].closing = entries'[req[m].to].closing
  <2>1. req[m].to \in Status
    BY <1>3 DEF IInv, TypeInv, Requests, Idle
  <2>2. QED
    BY <1>1, <1>3, <2>1 DEF IInv, ReadInv
<1>4. ReadInv'
  BY <1>1, <1>3 DEF ReadInv
<1>5. ASSUME NEW c \in Case, files[c] \in Files, files[c].status \notin redefined'
      PROVE  files[c].closed # None <=> entries'[files[c].status].closing
  <2>1. files[c].status \in Status /\ files[c].status \notin redefined
    BY <1>1, <1>5 DEF Files
  <2>2. QED
    BY <1>1, <1>5, <2>1 DEF IInv, DateInv
<1>6. DateInv'
  BY <1>1, <1>5 DEF DateInv
<1>7. QED
  BY <1>2, <1>4, <1>6 DEF IInv

-----------------------------------------------------------------------------
(* Every step keeps the invariant.                                           *)
LEMMA NextIInv == IInv /\ [Next]_vars => IInv'
<1> SUFFICES ASSUME IInv, [Next]_vars PROVE IInv'
  OBVIOUS
<1>1. CASE UNCHANGED <<files, Firm, req>>
  BY <1>1, PanelIInv
<1>2. ASSUME NEW m \in Member, OpenPanel(m) \/ ClosePanel(m) \/ Forget(m) PROVE IInv'
  BY <1>2, PanelIInv DEF OpenPanel, ClosePanel, Forget
<1>3. ASSUME NEW m \in Member,
             \/ PickStatus(m) \/ PickOutcome(m) \/ SubmitCase(m)
             \/ CreateClient(m) \/ CreateStatus(m) \/ CreateInsert(m)
             \/ MoveRead(m) \/ MoveStatus(m) \/ MoveWrite(m) \/ DeclareRead(m) \/ DeclareWrite(m)
      PROVE  IInv'
  BY <1>3, PressIInv, CreateIInv, InsertIInv, LookIInv, MoveIInv, DeclareIInv
<1>4. CASE RetireStatus \/ SetIsClosing \/ Unassign \/ NextMonth
  BY <1>4, FirmIInv
<1>5. QED
  BY <1>1, <1>2, <1>3, <1>4 DEF Next, vars, Firm

(* The types of matters and statuses.                                        *)
THEOREM TypeCorrect == Spec => []TypeOK
<1>1. IInv => TypeOK
  BY DEF IInv, TypeInv
<1>2. QED
  BY <1>1, InitIInv, NextIInv, PTL DEF Spec

(* A date tells the status it was stamped for, however moves, creations and  *)
(* redefinitions interleave (case.service.ts changeStatus).                  *)
THEOREM DatesTellStatuses == Spec => []DateTellsStatus
<1>1. IInv => DateTellsStatus
  BY DEF IInv, TypeInv, TypeOK, DateInv, DateTellsStatus, Filed
<1>2. QED
  BY <1>1, InitIInv, NextIInv, PTL DEF Spec

\* What EndIsKept says of one step.
KeepsEnds == \A c \in Filed : files[c].outcome # None => files'[c].outcome # None /\ files'[c].closed # None

(* No write takes an end back, whatever was read before it.                  *)
LEMMA NextKeepsEnds == IInv /\ [Next]_vars => KeepsEnds
<1> SUFFICES ASSUME IInv, [Next]_vars, NEW c \in Filed, files[c].outcome # None
             PROVE  files'[c].outcome # None /\ files'[c].closed # None
  BY DEF KeepsEnds
<1>1. files \in [Case -> Files \cup {None}] /\ c \in Case /\ files[c] \in Files
  BY DEF IInv, TypeInv, TypeOK, Filed
<1>2. files[c].closed # None
  BY <1>1 DEF IInv, StoredInv, MayStore
<1>3. CASE UNCHANGED files
  BY <1>2, <1>3
<1>4. ASSUME NEW m \in Member, CreateInsert(m) PROVE UNCHANGED files \/ files'[c] = files[c]
  BY <1>1, <1>4 DEF CreateInsert, Refused
<1>5. ASSUME NEW m \in Member, MoveWrite(m) PROVE files'[c].outcome # None /\ files'[c].closed # None
  <2> DEFINE r == req[m]
  <2>1. r.case \in Case /\ files[r.case] \in Files
    BY <1>5, Writing DEF MoveWrite, At
  <2>2. PICK today \in Today :
          \/ MayStore(Moved(files[r.case], r, today)) /\ files' = [files EXCEPT ![r.case] = Moved(files[r.case], r, today)]
          \/ UNCHANGED files
    BY <1>5 DEF MoveWrite, Refused
  <2>3. Moved(files[r.case], r, today).outcome = files[r.case].outcome
    BY <2>1 DEF Moved, Files
  <2>4. QED
    BY <1>1, <1>2, <2>1, <2>2, <2>3 DEF MayStore
<1>6. ASSUME NEW m \in Member, DeclareWrite(m) PROVE files'[c].outcome # None /\ files'[c].closed # None
  <2> DEFINE d == req[m].case
             g == [files[d] EXCEPT !.outcome = req[m].to]
  <2>1. d \in Case /\ files[d] \in Files /\ req[m].to \in Outcomes
    BY <1>6, Writing DEF DeclareWrite, At
  <2>2. g.outcome = req[m].to /\ req[m].to # None
    BY <2>1, CaseAssumption DEF Files
  <2>3. (MayStore(g) /\ files' = [files EXCEPT ![d] = g]) \/ UNCHANGED files
    BY <1>6 DEF DeclareWrite, Refused
  <2> HIDE DEF g
  <2>4. QED
    BY <1>1, <1>2, <2>1, <2>2, <2>3 DEF MayStore
<1>7. QED
  BY <1>2, <1>3, <1>4, <1>5, <1>6
  DEF Next, vars, OpenPanel, ClosePanel, Forget, PickStatus, PickOutcome, SubmitCase, CreateClient, CreateStatus,
      MoveRead, MoveStatus, DeclareRead, RetireStatus, SetIsClosing, Unassign, NextMonth

(* The end of a matter is corrected and never taken back                     *)
(* (case.service.ts declareOutcome).                                         *)
THEOREM EndsAreKept == Spec => EndIsKept
<1>1. Spec => [][KeepsEnds]_vars
  BY InitIInv, NextIInv, NextKeepsEnds, PTL DEF Spec
<1>2. QED
  BY <1>1 DEF EndIsKept, KeepsEnds

-----------------------------------------------------------------------------
(* A window holds today and begins where the one before it ends.             *)
LEMMA WindowsFollow ==
  ASSUME month \in Nat, NEW kind \in {"month", "quarter", "year"}
  PROVE  LET w == Windows(kind)
         IN  w.previous[2] + 1 = w.current[1] /\ month \in w.current[1] .. w.current[2]
<1>1. month % 3 \in 0 .. 2 /\ month % 12 \in 0 .. 11
  OBVIOUS
<1>2. CASE kind = "month"
  BY <1>2 DEF Windows
<1>3. CASE kind = "quarter"
  <2> DEFINE q == QuarterOf(month)
  <2>1. q \in Int /\ q <= month /\ month <= q + 2
    BY <1>1 DEF QuarterOf
  <2>2. Windows(kind) = [current |-> <<q, q + 2>>, previous |-> <<q - 3, q - 1>>]
    BY <1>3 DEF Windows
  <2> HIDE DEF q
  <2>3. QED
    BY <2>1, <2>2
<1>4. CASE kind = "year"
  <2> DEFINE y == month - (month % 12)
  <2>1. y \in Int /\ y <= month /\ month <= y + 11
    BY <1>1
  <2>2. Windows(kind) = [current |-> <<y, y + 11>>, previous |-> <<y - 12, y - 1>>]
    BY <1>4 DEF Windows
  <2> HIDE DEF y
  <2>3. QED
    BY <2>1, <2>2
<1>5. QED
  BY <1>2, <1>3, <1>4

(* A set with an element has a rate of one declared outcome or more.         *)
LEMMA SomeRate ==
  ASSUME NEW S \in SUBSET Case, NEW minimum \in Nat \ {0}
  PROVE  /\ RateOf(S, minimum) # None => S # {}
         /\ S # {} => RateOf(S, 1) # None
<1>1. IsFiniteSet(S)
  BY CaseAssumption, FS_Subset
<1>2. Cardinality(S) \in Nat /\ (Cardinality(S) = 0 <=> S = {})
  BY <1>1, FS_CardinalityType, FS_EmptySet
<1>3. Cardinality({c \in S : files[c].outcome \in Successes}) \in Nat
  <2>1. {c \in S : files[c].outcome \in Successes} \in SUBSET S
    OBVIOUS
  <2>2. IsFiniteSet({c \in S : files[c].outcome \in Successes})
    BY <1>1, <2>1, FS_Subset
  <2>3. QED
    BY <2>2, FS_CardinalityType
<1>4. RateOf(S, minimum) # None => S # {}
  BY <1>2 DEF RateOf
<1>5. S # {} => RateOf(S, 1) # None
  BY <1>2, <1>3, CaseAssumption DEF RateOf
<1>6. QED
  BY <1>4, <1>5

(* The kinds of matter share out what the tile counts, the people the load.  *)
LEMMA SharesAreWhole ==
  ASSUME team \subseteq Case \X Member, NEW window
  PROVE  /\ Declared(window) = UNION {ByMatter(window)[t] : t \in DOMAIN ByMatter(window)}
         /\ ActiveCases = UNION {Load[m] : m \in DOMAIN Load}
<1>1. Declared(window) = UNION {ByMatter(window)[t] : t \in DOMAIN ByMatter(window)}
  <2> DEFINE bars == ByMatter(window)
  <2>1. /\ DOMAIN bars = {MatterOf[c] : c \in ClosedIn(window)}
        /\ \A t \in DOMAIN bars : bars[t] = {c \in Declared(window) : MatterOf[c] = t}
    BY DEF ByMatter
  <2>2. \A c \in Declared(window) : MatterOf[c] \in DOMAIN bars
    BY <2>1 DEF Declared
  <2> HIDE DEF bars
  <2>3. ASSUME NEW c \in Declared(window) PROVE c \in UNION {bars[t] : t \in DOMAIN bars}
    BY <2>1, <2>2
  <2>4. QED
    BY <2>1, <2>3 DEF bars
<1>2. ASSUME NEW c \in ActiveCases PROVE \E m \in DOMAIN Load : c \in Load[m]
  <2>1. CASE \A n \in Member : <<c, n>> \notin team
    <3>1. None \in DOMAIN Load /\ c \in Load[None]
      BY <2>1 DEF Load
    <3>2. QED
      BY <3>1
  <2>2. CASE \E n \in Member : <<c, n>> \in team
    <3>1. PICK n \in Member : <<c, n>> \in team
      BY <2>2
    <3>2. n \in DOMAIN Load /\ c \in Load[n]
      BY <3>1, CaseAssumption DEF Load
    <3>3. QED
      BY <3>2
  <2>3. QED
    BY <2>1, <2>2
<1>3. \A m \in DOMAIN Load : Load[m] \subseteq ActiveCases
  BY DEF Load
<1>4. QED
  BY <1>1, <1>2, <1>3

(* The last two bars of the trend are this quarter and the one before.       *)
LEMMA TrendEndsToday ==
  ASSUME month \in Nat
  PROVE  LET w == Windows("quarter")
         IN  Trend(6)[6] = Resolved(w.current) /\ Trend(6)[5] = Resolved(w.previous)
<1>1. QuarterOf(month) \in Int
  BY DEF QuarterOf
<1>2. QuarterStart(6, 6) = QuarterOf(month) /\ QuarterStart(5, 6) = QuarterOf(month) - 3
  BY <1>1 DEF QuarterStart
<1>3. <<QuarterStart(6, 6), QuarterStart(6, 6) + 2>> = Windows("quarter").current
  BY <1>2 DEF Windows
<1>4. <<QuarterStart(5, 6), QuarterStart(5, 6) + 2>> = Windows("quarter").previous
  BY <1>1, <1>2 DEF Windows
<1>5. Trend(6)[6] = Resolved(<<QuarterStart(6, 6), QuarterStart(6, 6) + 2>>)
  BY DEF Trend
<1>6. Trend(6)[5] = Resolved(<<QuarterStart(5, 6), QuarterStart(5, 6) + 2>>)
  BY DEF Trend
<1>7. QED
  BY <1>3, <1>4, <1>5, <1>6

(* The figures of one answer, whatever is stored.                            *)
LEMMA FiguresAgree == TypeOK => KpisAgree
<1> SUFFICES ASSUME TypeOK, NEW kind \in {"month", "quarter", "year"}
             PROVE  LET s == Summary(kind)
                        w == Windows(kind)
                        d == Dashboard(s)
                    IN  /\ s.declared = UNION {s.types[t] : t \in DOMAIN s.types}
                        /\ s.active = UNION {s.load[m] : m \in DOMAIN s.load}
                        /\ w.previous[2] + 1 = w.current[1] /\ month \in w.current[1] .. w.current[2]
                        /\ d.enough => d.types # {}
                        /\ kind = "quarter" => /\ s.trend[6] = s.resolved /\ s.trend[5] = s.resolvedBefore
                                               /\ 6 \in d.trend <=> d.average
  BY DEF KpisAgree
<1> DEFINE s == Summary(kind)
           w == Windows(kind)
           d == Dashboard(s)
<1>1. month \in Nat /\ team \subseteq Case \X Member
  BY DEF TypeOK
<1>2. /\ s.active = ActiveCases /\ s.load = Load /\ s.trend = Trend(6)
      /\ s.resolved = Resolved(w.current) /\ s.resolvedBefore = Resolved(w.previous)
      /\ s.declared = Declared(w.current) /\ s.types = ByMatter(w.current)
      /\ s.rate = RateOf(Declared(w.current), MinDeclared)
  BY DEF Summary
<1>3. /\ d.enough = (s.rate # None) /\ d.types = TypeBars(s)
      /\ d.trend = TrendBars(s) /\ d.average = (s.resolved # {})
  BY DEF Dashboard
<1> HIDE DEF s, w, d
<1>4. s.declared = UNION {s.types[t] : t \in DOMAIN s.types} /\ s.active = UNION {s.load[m] : m \in DOMAIN s.load}
  BY <1>1, <1>2, SharesAreWhole
<1>5. w.previous[2] + 1 = w.current[1] /\ month \in w.current[1] .. w.current[2]
  BY <1>1, WindowsFollow DEF w
<1>6. d.enough => d.types # {}
  <2> SUFFICES ASSUME d.enough PROVE d.types # {}
    OBVIOUS
  <2>1. Declared(w.current) \in SUBSET Case
    BY DEF Declared, ClosedIn, Filed
  <2>2. Declared(w.current) # {}
    BY <1>2, <1>3, <2>1, SomeRate, CaseAssumption
  <2>3. PICK t \in DOMAIN s.types : s.types[t] # {}
    BY <1>2, <1>4, <2>2
  <2>4. s.types[t] \in SUBSET Case
    BY <1>2, <1>4, <2>1
  <2>5. RateOf(s.types[t], 1) # None
    BY <2>3, <2>4, SomeRate
  <2>6. QED
    BY <1>3, <2>3, <2>5 DEF TypeBars
<1>7. ASSUME kind = "quarter"
      PROVE  s.trend[6] = s.resolved /\ s.trend[5] = s.resolvedBefore /\ (6 \in d.trend <=> d.average)
  <2>1. s.trend[6] = s.resolved /\ s.trend[5] = s.resolvedBefore
    BY <1>1, <1>2, <1>7, TrendEndsToday DEF w
  <2>2. 6 \in DOMAIN s.trend
    BY <1>2 DEF Trend
  <2>3. QED
    BY <1>3, <2>1, <2>2 DEF TrendBars
<1>8. QED
  BY <1>4, <1>5, <1>6, <1>7 DEF s, w, d

(* The dashboard agrees with itself, in every month and with every minimum   *)
(* (kpi.service.ts, kpi.repository.ts).                                      *)
THEOREM TheFiguresAgree == Spec => []KpisAgree
BY TypeCorrect, FiguresAgree, PTL

-----------------------------------------------------------------------------
\* The directory of clients: pages, and what is owed to their reader.

LEMMA ClientsAreFew == IsFiniteSet(Client) /\ Client \subseteq Nat
BY FS_Interval, ClientAssumption DEF Client

\* Among some clients that go down with their measure there is one with the least.
LEMMA Extreme ==
  ASSUME NEW S \in SUBSET Client, S # {}, NEW M, M \in [Client -> SUBSET Client]
  PROVE  \E c \in S : \A d \in S : ~(M[d] \subseteq M[c] /\ M[d] # M[c])
<1> DEFINE T == {M[c] : c \in S}
<1>1. T \subseteq FiniteSubsetsOf(Client) /\ T # {}
  <2>1. \A X \in SUBSET Client : IsFiniteSet(X)
    BY ClientsAreFew, FS_Subset
  <2>2. \A c \in S : M[c] \in SUBSET Client
    OBVIOUS
  <2>3. \A c \in S : M[c] \in FiniteSubsetsOf(Client)
    BY <2>1, <2>2 DEF FiniteSubsetsOf
  <2>4. QED
    BY <2>3
<1>2. PICK U \in T : \A V \in T : ~(<<V, U>> \in StrictSubsetOrdering(Client))
  <2> HIDE DEF T
  <2>1. QED
    BY <1>1, FS_StrictSubsetOrderingWellFounded, WFMin
<1>3. PICK c \in S : U = M[c]
  OBVIOUS
<1>4. ASSUME NEW d \in S, M[d] \subseteq M[c], M[d] # M[c] PROVE FALSE
  <2>1. <<M[d], M[c]>> \in StrictSubsetOrdering(Client)
    BY <1>4 DEF StrictSubsetOrdering
  <2>2. QED
    BY <1>2, <1>3, <2>1
<1>5. QED
  BY <1>4

\* There is no other induction than that of finite sets under strict inclusion.
LEMMA Newest ==
  ASSUME NEW S \in SUBSET Client, S # {} PROVE \E c \in S : \A d \in S : d <= c
<1> DEFINE M == [c \in Client |-> {d \in Client : d > c}]
<1>1. PICK c \in S : \A d \in S : ~(M[d] \subseteq M[c] /\ M[d] # M[c])
  <2>1. M \in [Client -> SUBSET Client]
    OBVIOUS
  <2> HIDE DEF M
  <2>2. QED
    BY <2>1, Extreme
<1>2. ASSUME NEW d \in S, ~(d <= c) PROVE FALSE
  <2>1. d > c /\ d \in Nat /\ c \in Nat
    BY ClientsAreFew, <1>2
  <2>2. d \in M[c] /\ d \notin M[d]
    BY <2>1
  <2>3. ASSUME NEW e \in M[d] PROVE e \in M[c]
    BY <2>1, ClientsAreFew
  <2>4. QED
    BY <1>1, <2>2, <2>3
<1>3. QED
  BY <1>2

LEMMA Oldest ==
  ASSUME NEW S \in SUBSET Client, S # {} PROVE \E c \in S : \A d \in S : c <= d
<1> DEFINE M == [c \in Client |-> {d \in Client : d < c}]
<1>1. PICK c \in S : \A d \in S : ~(M[d] \subseteq M[c] /\ M[d] # M[c])
  <2>1. M \in [Client -> SUBSET Client]
    OBVIOUS
  <2> HIDE DEF M
  <2>2. QED
    BY <2>1, Extreme
<1>2. ASSUME NEW d \in S, ~(c <= d) PROVE FALSE
  <2>1. d < c /\ d \in Nat /\ c \in Nat
    BY ClientsAreFew, <1>2
  <2>2. d \in M[c] /\ d \notin M[d]
    BY <2>1
  <2>3. ASSUME NEW e \in M[d] PROVE e \in M[c]
    BY <2>1, ClientsAreFew
  <2>4. QED
    BY <1>1, <2>2, <2>3
<1>3. QED
  BY <1>2

-----------------------------------------------------------------------------
\* One page.

Page == [items : SUBSET Client, next : Client \cup {Absent}]

LEMMA CountsFall ==
  ASSUME NEW all \in SUBSET Client, NEW c \in Client, NEW d \in Client, c <= d
  PROVE  Cardinality({e \in all : e > d}) <= Cardinality({e \in all : e > c})
<1>1. {e \in all : e > d} \subseteq {e \in all : e > c}
  <2>1. c \in Nat /\ d \in Nat
    BY ClientsAreFew
  <2>2. ASSUME NEW e \in all, e > d PROVE e > c
    <3>1. e \in Nat
      BY ClientsAreFew
    <3>2. QED
      BY <2>1, <2>2, <3>1
  <2>3. QED
    BY <2>2
<1>2. IsFiniteSet({e \in all : e > c})
  BY ClientsAreFew, FS_Subset
<1>3. QED
  BY <1>1, <1>2, FS_Subset

LEMMA Counted ==
  ASSUME NEW some \in SUBSET Client PROVE IsFiniteSet(some) /\ Cardinality(some) \in Nat
BY ClientsAreFew, FS_Subset, FS_CardinalityType

LEMMA LimitCounts == Limit \in Nat /\ 0 < Limit /\ Absent \notin Client
<1>1. Limit \in Nat \ {0} /\ Absent \notin Nat
  BY ClientAssumption
<1>2. Limit \in Nat /\ 0 < Limit
  BY <1>1
<1>3. Absent \notin Client
  BY <1>1, ClientsAreFew
<1>4. QED
  BY <1>2, <1>3

LEMMA PageShape ==
  ASSUME NEW items \in SUBSET Client, NEW last \in Client \cup {Absent}
  PROVE  [items |-> items, next |-> last] \in Page
BY DEF Page

\* A page that ends the list has all there is; another ends at its oldest client and has all
\* there is down to it, and is full.
LEMMA PageIsPrefix ==
  ASSUME NEW all \in SUBSET Client,
         NEW rows, rows = {c \in all : Cardinality({d \in all : d > c}) <= Limit},
         NEW page, page = ToPage(rows)
  PROVE  /\ page \in Page
         /\ page.items \subseteq all
         /\ page.next = Absent => all \subseteq page.items
         /\ page.next # Absent =>
              /\ page.next \in page.items
              /\ \A c \in page.items : page.next <= c
              /\ \A c \in all : page.next <= c => c \in page.items
              /\ ~(Cardinality(page.items) < Limit)
<1> DEFINE newest == {c \in rows : Cardinality({d \in rows : d > c}) < Limit}
<1>1. rows \in SUBSET Client /\ rows \subseteq all /\ newest \in SUBSET Client
  OBVIOUS
<1>2. CASE Cardinality(rows) <= Limit
  <2>1. page = [items |-> rows, next |-> Absent]
    BY <1>2 DEF ToPage
  <2>2. SUFFICES ASSUME all \ rows # {} PROVE FALSE
    <3>1. SUFFICES ASSUME all \subseteq rows
                   PROVE  page \in Page /\ page.items = rows /\ page.next = Absent
      BY <1>1, LimitCounts
    <3>2. page = [items |-> rows, next |-> Absent]
      BY <2>1
    <3>3. rows \in SUBSET Client
      BY <1>1
    <3> HIDE DEF newest
    <3>4. page \in Page
      <4>1. [items |-> rows, next |-> Absent] \in Page
        BY <3>3, PageShape
      <4>2. QED
        BY <3>2, <4>1
    <3>5. page.items = rows
      BY ONLY <3>2
    <3>6. page.next = Absent
      BY ONLY <3>2
    <3>7. QED
      BY <3>4, <3>5, <3>6
  <2>3. PICK c \in all \ rows : \A d \in all \ rows : d <= c
    <3>1. all \ rows \in SUBSET Client
      OBVIOUS
    <3>2. QED
      BY <2>2, <3>1, Newest
  <2>4. {d \in all : d > c} \subseteq rows
    <3>1. \A d \in all : d \in Nat
      BY ClientsAreFew
    <3>2. QED
      BY <2>3, <3>1
  <2>5. Cardinality({d \in all : d > c}) <= Cardinality(rows)
    BY <1>1, <2>4, Counted, FS_Subset
  <2>6. Cardinality({d \in all : d > c}) <= Limit
    <3>1. {d \in all : d > c} \in SUBSET Client
      OBVIOUS
    <3>2. Cardinality({d \in all : d > c}) \in Nat /\ Cardinality(rows) \in Nat
      BY <1>1, <3>1, Counted
    <3>3. QED
      BY <1>2, <2>5, <3>2, LimitCounts
  <2>7. QED
    BY <2>3, <2>6
<1>3. CASE ~(Cardinality(rows) <= Limit)
  <2>1. page = [items |-> newest, next |-> CHOOSE c \in newest : \A d \in newest : c <= d]
    BY <1>3 DEF ToPage
  <2>2. rows # {}
    <3>1. SUFFICES ASSUME rows = {} PROVE Cardinality(rows) <= Limit
      BY <1>3
    <3>2. Cardinality(rows) = 0
      BY <3>1, FS_EmptySet
    <3>3. QED
      BY <3>2, LimitCounts
  <2>3. PICK c \in rows : \A d \in rows : d <= c
    BY <1>1, <2>2, Newest
  <2>4. {d \in rows : d > c} = {}
    <3>1. SUFFICES ASSUME NEW d \in rows, d > c PROVE FALSE
      OBVIOUS
    <3>2. d \in Nat /\ c \in Nat /\ d <= c
      BY <1>1, <2>3, ClientsAreFew
    <3>3. QED
      BY <3>1, <3>2
  <2>5. c \in newest
    BY <2>3, <2>4, FS_EmptySet, LimitCounts
  <2> DEFINE last == CHOOSE e \in newest : \A d \in newest : e <= d
  <2>6. last \in newest /\ \A d \in newest : last <= d
    <3>1. \E e \in newest : \A d \in newest : e <= d
      <4> HIDE DEF newest
      <4>1. QED
        BY <1>1, <2>5, Oldest
    <3> HIDE DEF newest
    <3>2. QED
      BY <3>1, Zenon DEF last
  <2>7. page.items = newest /\ page.next = last /\ page \in Page /\ last \in Client /\ last # Absent
    <3> HIDE DEF newest
    <3>1. page = [items |-> newest, next |-> last]
      BY <2>1 DEF last
    <3> HIDE DEF last
    <3>2. page.items = newest /\ page.next = last
      BY <3>1
    <3>3. last \in Client
      BY <1>1, <2>6
    <3>4. page \in Page
      BY <1>1, <3>1, <3>3, PageShape
    <3>5. QED
      BY <3>2, <3>3, <3>4, LimitCounts
  <2> HIDE DEF last
  <2>8. ASSUME NEW e \in all, last <= e PROVE e \in newest
    <3>1. last \in rows /\ last \in Client /\ e \in Client
      BY <1>1, <2>6
    <3>2. Cardinality({d \in all : d > e}) <= Cardinality({d \in all : d > last})
      BY <2>8, <3>1, CountsFall
    <3>3. Cardinality({d \in rows : d > e}) <= Cardinality({d \in rows : d > last})
      BY <1>1, <2>8, <3>1, CountsFall
    <3>4. /\ Cardinality({d \in all : d > last}) <= Limit
          /\ Cardinality({d \in rows : d > last}) < Limit
      BY <2>6, <3>1
    <3>5. /\ Cardinality({d \in all : d > e}) \in Nat /\ Cardinality({d \in all : d > last}) \in Nat
          /\ Cardinality({d \in rows : d > e}) \in Nat /\ Cardinality({d \in rows : d > last}) \in Nat
      <4>1. /\ {d \in all : d > e} \in SUBSET Client /\ {d \in all : d > last} \in SUBSET Client
            /\ {d \in rows : d > e} \in SUBSET Client /\ {d \in rows : d > last} \in SUBSET Client
        BY <1>1
      <4>2. QED
        BY <4>1, Counted
    <3>6. /\ Cardinality({d \in all : d > e}) <= Limit
          /\ Cardinality({d \in rows : d > e}) < Limit
      BY <3>2, <3>3, <3>4, <3>5, LimitCounts
    <3>7. QED
      BY <3>6
  <2>9. ~(Cardinality(newest) < Limit)
    <3>1. SUFFICES ASSUME Cardinality(newest) < Limit PROVE FALSE
      OBVIOUS
    <3>2. rows \ newest # {}
      <4>1. SUFFICES ASSUME newest = rows PROVE FALSE
        OBVIOUS
      <4>2. Cardinality(rows) < Limit /\ Cardinality(rows) \in Nat
        <5> HIDE DEF newest
        <5>1. QED
          BY <1>1, <3>1, <4>1, Counted
      <4>3. QED
        BY <1>3, <4>2, LimitCounts
    <3>3. PICK e \in rows \ newest : \A d \in rows \ newest : d <= e
      <4>1. rows \ newest \in SUBSET Client
        BY <1>1
      <4> HIDE DEF newest
      <4>2. QED
        BY <3>2, <4>1, Newest
    <3> DEFINE newer == {d \in rows : d > e}
    <3>4. newer \subseteq newest
      <4>1. SUFFICES ASSUME NEW d \in rows, d > e, d \notin newest PROVE FALSE
        BY DEF newer
      <4>2. d <= e /\ d \in Nat /\ e \in Nat
        <5> HIDE DEF newest
        <5>1. QED
          BY <1>1, <3>3, <4>1, ClientsAreFew
      <4>3. QED
        BY <4>1, <4>2
    <3>5. ~(Cardinality(newer) < Limit)
      BY <3>3
    <3>6. newer \in SUBSET Client
      BY <1>1
    <3> HIDE DEF newest, newer
    <3>7. Cardinality(newer) <= Cardinality(newest)
      BY <1>1, <3>4, Counted, FS_Subset
    <3>8. Cardinality(newer) \in Nat /\ Cardinality(newest) \in Nat
      BY <1>1, <3>6, Counted
    <3>9. QED
      BY <3>1, <3>5, <3>7, <3>8, LimitCounts
  <2>10. QED
    <3> HIDE DEF newest
    <3>1. newest \subseteq all
      BY <1>1 DEF newest
    <3>2. QED
      BY <2>6, <2>7, <2>8, <2>9, <3>1
<1>4. QED
  BY <1>2, <1>3

-----------------------------------------------------------------------------
\* A list of pages, and what it shows.

Asked == [name |-> Absent, status |-> Absent]

Matching(table, f) == {c \in Client : Matches(f, table[c])}

\* Every page is older than those before it, and the list ends at its oldest client; a page
\* that is not full is the last.
Follows(pages) ==
  /\ pages \in Seq(Page)
  /\ \A i \in DOMAIN pages :
       /\ pages[i].next = Absent => i = Len(pages)
       /\ Cardinality(pages[i].items) < Limit => pages[i].next = Absent
  /\ \A i, j \in DOMAIN pages : i < j => \A c \in pages[i].items, d \in pages[j].items : d < c
  /\ NextOf(pages) # Absent => \A i \in DOMAIN pages : \A c \in pages[i].items : NextOf(pages) <= c

Lists(pages) == UNION {pages[i].items : i \in DOMAIN pages}

\* The list shows all of those clients, down to its end.
Covers(pages, set) ==
  pages # <<>> => \A c \in set : NextOf(pages) = Absent \/ NextOf(pages) <= c => c \in Lists(pages)

Ongoing(pages) == pages = <<>> \/ NextOf(pages) # Absent

LEMMA Appended ==
  ASSUME NEW pages \in Seq(Page), NEW page \in Page
  PROVE  LET after == Append(pages, page)
         IN  /\ after \in Seq(Page) /\ after # <<>> /\ NextOf(after) = page.next
             /\ Len(after) = Len(pages) + 1 /\ Len(pages) \in Nat
             /\ DOMAIN after = 1 .. Len(pages) + 1 /\ DOMAIN pages = 1 .. Len(pages)
             /\ \A i \in DOMAIN pages : after[i] = pages[i]
             /\ after[Len(pages) + 1] = page
             /\ Lists(after) = Lists(pages) \cup page.items
<1> DEFINE after == Append(pages, page)
<1>1. /\ after \in Seq(Page) /\ Len(after) = Len(pages) + 1 /\ Len(pages) \in Nat
      /\ DOMAIN after = 1 .. Len(pages) + 1 /\ DOMAIN pages = 1 .. Len(pages)
      /\ \A i \in DOMAIN pages : after[i] = pages[i]
      /\ after[Len(pages) + 1] = page
  OBVIOUS
<1>2. after # <<>>
  BY <1>1
<1>3. NextOf(after) = page.next
  BY <1>1, <1>2 DEF NextOf
<1> HIDE DEF after
<1>4. Lists(after) = Lists(pages) \cup page.items
  <2>1. \A i \in DOMAIN after : i \in DOMAIN pages \/ i = Len(pages) + 1
    BY <1>1
  <2>2. \A i \in DOMAIN pages : i \in DOMAIN after
    BY <1>1
  <2>3. Len(pages) + 1 \in DOMAIN after
    BY <1>1
  <2>4. \A c \in Lists(after) : c \in Lists(pages) \cup page.items
    BY <1>1, <2>1 DEF Lists
  <2>5. \A c \in Lists(pages) : c \in Lists(after)
    BY <1>1, <2>2 DEF Lists
  <2>6. \A c \in page.items : c \in Lists(after)
    BY <1>1, <2>3 DEF Lists
  <2>7. QED
    BY <2>4, <2>5, <2>6
<1>5. QED
  BY <1>1, <1>2, <1>3, <1>4 DEF after

\* A page read from the end of a list goes on with it and leaves out nothing.
LEMMA PageContinues ==
  ASSUME NEW pages, Follows(pages), Ongoing(pages), NEW f,
         NEW page, page = PageOf(f, NextOf(pages)),
         NEW set, set \subseteq Matching(clients, f), Covers(pages, set)
  PROVE  LET after == Append(pages, page)
         IN  /\ page \in Page /\ Follows(after) /\ Covers(after, set)
             /\ page.items \subseteq Stored /\ NextOf(after) = page.next /\ after # <<>>
<1> DEFINE cursor == NextOf(pages)
           all == {c \in Stored : Matches(f, clients[c]) /\ (cursor # Absent => c < cursor)}
           rows == {c \in all : Cardinality({d \in all : d > c}) <= Limit}
           after == Append(pages, page)
<1>1. page = ToPage(rows)
  BY DEF PageOf, Fetched
<1>2. all \in SUBSET Client
  BY DEF Stored
<1>3. /\ page \in Page
      /\ page.items \subseteq all
      /\ page.next = Absent => all \subseteq page.items
      /\ page.next # Absent =>
           /\ page.next \in page.items
           /\ \A c \in page.items : page.next <= c
           /\ \A c \in all : page.next <= c => c \in page.items
           /\ ~(Cardinality(page.items) < Limit)
  <2> HIDE DEF all
  <2>1. QED
    BY <1>1, <1>2, PageIsPrefix
<1>4. pages \in Seq(Page)
  BY DEF Follows
<1>5. /\ after \in Seq(Page) /\ after # <<>> /\ NextOf(after) = page.next
      /\ Len(after) = Len(pages) + 1 /\ Len(pages) \in Nat
      /\ DOMAIN after = 1 .. Len(pages) + 1 /\ DOMAIN pages = 1 .. Len(pages)
      /\ \A i \in DOMAIN pages : after[i] = pages[i]
      /\ after[Len(pages) + 1] = page
      /\ Lists(after) = Lists(pages) \cup page.items
  BY <1>3, <1>4, Appended
<1>6. pages = <<>> => DOMAIN pages = {} /\ cursor = Absent
  BY <1>5 DEF NextOf
<1>7. cursor # Absent =>
        /\ \A c \in page.items : c < cursor
        /\ \A i \in DOMAIN pages : \A c \in pages[i].items : cursor <= c
  BY <1>3 DEF Follows
<1>8. cursor = Absent => DOMAIN pages = {}
  BY <1>6 DEF Ongoing
<1>9. cursor # Absent => cursor \in Nat
  <2>1. CASE pages = <<>>
    BY <2>1, <1>6
  <2>2. CASE pages # <<>>
    <3>1. cursor = pages[Len(pages)].next /\ pages[Len(pages)] \in Page
      BY <1>4, <2>2 DEF NextOf
    <3>2. QED
      BY <3>1, ClientsAreFew DEF Page
  <2>3. QED
    BY <2>1, <2>2
<1>10. /\ page.items \subseteq Nat /\ (page.next # Absent => page.next \in Nat)
       /\ \A i \in DOMAIN pages : pages[i].items \subseteq Nat
  <2>1. \A i \in DOMAIN pages : pages[i] \in Page
    BY <1>4
  <2>2. QED
    BY <1>3, <2>1, ClientsAreFew DEF Page
<1> HIDE DEF after, all, rows, cursor
<1>11. ASSUME NEW i \in DOMAIN pages, NEW c \in pages[i].items, NEW d \in page.items PROVE d < c
  <2>1. cursor # Absent
    BY <1>8
  <2>2. d < cursor /\ cursor <= c
    BY <1>7, <2>1
  <2>3. d \in Nat /\ cursor \in Nat /\ c \in Nat
    BY <1>9, <1>10, <2>1
  <2>4. QED
    BY <2>2, <2>3
<1>12. Follows(after)
  <2>1. ASSUME NEW i \in DOMAIN after, NEW j \in DOMAIN after, i < j,
               NEW c \in after[i].items, NEW d \in after[j].items
        PROVE  d < c
    <3>1. i \in DOMAIN pages
      BY <1>5, <2>1
    <3>2. CASE j \in DOMAIN pages
      <4>1. c \in pages[i].items /\ d \in pages[j].items
        BY <1>5, <3>1, <3>2
      <4>2. QED
        BY <2>1, <3>1, <3>2, <4>1 DEF Follows
    <3>3. CASE j \notin DOMAIN pages
      <4>1. after[j] = page
        BY <1>5, <3>3
      <4>2. c \in pages[i].items /\ d \in page.items
        BY <1>5, <3>1, <4>1
      <4>3. QED
        BY <1>11, <3>1, <4>2
    <3>4. QED
      BY <3>2, <3>3
  <2>2. ASSUME page.next # Absent, NEW i \in DOMAIN after, NEW c \in after[i].items
        PROVE  page.next <= c
    <3>1. CASE i \in DOMAIN pages
      <4>1. c \in pages[i].items /\ page.next \in page.items
        BY <1>3, <1>5, <2>2, <3>1
      <4>2. page.next < c
        BY <1>11, <3>1, <4>1
      <4>3. page.next \in Nat /\ c \in Nat
        BY <1>10, <2>2, <3>1, <4>1
      <4>4. QED
        BY <4>2, <4>3
    <3>2. CASE i \notin DOMAIN pages
      <4>1. after[i] = page
        BY <1>5, <3>2
      <4>2. QED
        BY <1>3, <2>2, <4>1
    <3>3. QED
      BY <3>1, <3>2
  <2>3. ASSUME NEW i \in DOMAIN after
        PROVE  /\ after[i].next = Absent => i = Len(after)
               /\ Cardinality(after[i].items) < Limit => after[i].next = Absent
    <3>1. CASE i \in DOMAIN pages
      <4>1. after[i] = pages[i]
        BY <1>5, <3>1
      <4>2. pages[i].next # Absent
        <5>1. SUFFICES ASSUME pages[i].next = Absent PROVE FALSE
          OBVIOUS
        <5>2. i = Len(pages) /\ pages # <<>>
          BY <1>6, <3>1, <5>1 DEF Follows
        <5>3. NextOf(pages) = Absent
          BY <5>1, <5>2 DEF NextOf
        <5>4. QED
          BY <5>2, <5>3 DEF Ongoing
      <4>3. QED
        BY <3>1, <4>1, <4>2 DEF Follows
    <3>2. CASE i \notin DOMAIN pages
      <4>1. i = Len(pages) + 1
        BY <1>5, <3>2
      <4>2. after[i] = page /\ i = Len(after)
        BY <1>5, <4>1
      <4>3. QED
        BY <1>3, <4>2
    <3>3. QED
      BY <3>1, <3>2
  <2>4. QED
    BY <1>5, <2>1, <2>2, <2>3 DEF Follows
<1>13. ASSUME NEW c \in set, page.next = Absent \/ page.next <= c PROVE c \in Lists(after)
  <2>1. c \in Client /\ c \in Stored /\ Matches(f, clients[c])
    BY DEF Matching, Stored, Matches
  <2>2. CASE cursor # Absent /\ ~(c < cursor)
    <3>1. c \in Nat /\ cursor \in Nat
      BY <1>9, <2>1, <2>2, ClientsAreFew
    <3>2. pages # <<>> /\ NextOf(pages) <= c
      BY <1>6, <2>2, <3>1 DEF cursor
    <3>3. QED
      BY <1>5, <3>2 DEF Covers
  <2>3. CASE cursor # Absent => c < cursor
    <3>1. c \in all
      BY <2>1, <2>3 DEF all
    <3>2. c \in page.items
      BY <1>3, <1>13, <3>1
    <3>3. QED
      BY <1>5, <3>2
  <2>4. QED
    BY <2>2, <2>3
<1>14. page.items \subseteq Stored
  BY <1>3 DEF all
<1>15. QED
  BY <1>3, <1>5, <1>12, <1>13, <1>14 DEF Covers, after

-----------------------------------------------------------------------------
\* What a reader sees of a table.

Statuses == {"active", "inactive"}

Fetch == [kind : {"none", "more"}] \cup [kind : {"all"}, want : Nat, got : Seq(Page)]
ScreenType == [filter : Filter, pages : Seq(Page), fetch : Fetch, owed : BOOLEAN]
SettledType == [shown : SUBSET Client, coming : SUBSET Client]

StoredIn(table) == {c \in Client : table[c] # Absent}

\* The pages of a screen list what is stored, each older than the one before, and all that
\* settled; and so do the pages that are coming.
Reads(table, s, e) ==
  /\ s \in ScreenType /\ e \in SettledType
  /\ Follows(s.pages) /\ Lists(s.pages) \subseteq StoredIn(table)
  /\ s.fetch.kind = "more" => NextOf(s.pages) # Absent
  /\ e.shown \subseteq Matching(table, s.filter) /\ e.coming \subseteq Matching(table, s.filter)
  /\ Covers(s.pages, e.shown)
  /\ s.fetch.kind = "all" =>
       /\ Follows(s.fetch.got) /\ Lists(s.fetch.got) \subseteq StoredIn(table)
       /\ Ongoing(s.fetch.got) /\ Covers(s.fetch.got, e.coming)

ReadersInv ==
  /\ screen \in [Reader -> ScreenType] /\ settled \in [Reader -> SettledType]
  /\ \A m \in Reader : Reads(clients, screen[m], settled[m])

\* What the server works on.
Doings ==
  {Free} \cup [phase : {"insert", "edit"}, client : Client, name : Name]
    \cup [phase : {"editWrite"}, client : Client, name : Name, previous : Name]
    \cup [phase : {"status", "statusWrite"}, client : Client, to : Statuses]
    \cup [phase : {"matter", "matterWrite"}, client : Client]

\* A client that is being registered is new, and any other that is named is stored.
DoingInv ==
  /\ clients \in [Client -> Row \cup {Absent}] /\ begun \in 0 .. MaxClients
  /\ doing \in [Person -> Doings]
  /\ \A c \in Stored : c <= begun
  /\ \A m \in Person : Does(m, "insert") =>
       /\ doing[m].client \notin Stored /\ doing[m].client <= begun
       /\ \A q \in Person : Does(q, "insert") /\ doing[q].client = doing[m].client => q = m
  /\ \A m \in Person : ~Does(m, "idle") /\ ~Does(m, "insert") => doing[m].client \in Stored

DirectoryInv == ReadersInv /\ DoingInv

-----------------------------------------------------------------------------
\* Steps of a screen.

LEMMA NothingListed ==
  /\ <<>> \in Seq(Page) /\ Follows(<<>>) /\ Lists(<<>>) = {} /\ Ongoing(<<>>) /\ NextOf(<<>>) = Absent
  /\ \A set : Covers(<<>>, set)
<1>1. <<>> \in Seq(Page) /\ DOMAIN <<>> = {}
  OBVIOUS
<1>2. NextOf(<<>>) = Absent
  BY DEF NextOf
<1>3. Lists(<<>>) = {}
  BY <1>1 DEF Lists
<1>4. QED
  BY <1>1, <1>2, <1>3 DEF Follows, Ongoing, Covers

LEMMA BlankReads ==
  ASSUME NEW table, NEW f \in Filter
  PROVE  Reads(table, Blank(f), Unread) /\ Blank(f) \in ScreenType /\ Unread \in SettledType
<1> DEFINE fetch == [kind |-> "all", want |-> 1, got |-> <<>>]
<1>1. fetch \in Fetch
  BY NothingListed DEF Fetch
<1>2. Blank(f) = [filter |-> f, pages |-> <<>>, fetch |-> fetch, owed |-> FALSE]
  BY DEF Blank
<1>3. fetch.got = <<>>
  OBVIOUS
<1> HIDE DEF fetch
<1>4. Blank(f) \in ScreenType
  BY <1>1, <1>2, NothingListed DEF ScreenType
<1>5. Unread \in SettledType /\ Unread.shown = {} /\ Unread.coming = {}
  BY DEF Unread, SettledType
<1>6. Blank(f).pages = <<>> /\ Blank(f).fetch = fetch
  BY <1>2
<1>7. fetch.kind = "all"
  BY DEF fetch
<1>8. QED
  BY <1>3, <1>4, <1>5, <1>6, <1>7, NothingListed DEF Reads

LEMMA ScreenParts ==
  ASSUME NEW s \in ScreenType
  PROVE  /\ s.filter \in Filter /\ s.pages \in Seq(Page) /\ s.fetch \in Fetch /\ s.owed \in BOOLEAN
         /\ s.fetch.kind \in {"none", "more", "all"}
         /\ s.fetch.kind = "all" => /\ s.fetch \in [kind : {"all"}, want : Nat, got : Seq(Page)]
                                    /\ s.fetch.want \in Nat /\ s.fetch.got \in Seq(Page)
<1>1. s.filter \in Filter /\ s.pages \in Seq(Page) /\ s.fetch \in Fetch /\ s.owed \in BOOLEAN
  BY DEF ScreenType
<1>2. QED
  BY <1>1 DEF Fetch

\* Another read begins, or a read ends with nothing.
LEMMA FetchReads ==
  ASSUME NEW table, NEW s, NEW e, Reads(table, s, e),
         NEW fetch \in Fetch,
         fetch.kind = "more" => NextOf(s.pages) # Absent,
         fetch.kind = "all" => fetch.got = <<>>,
         NEW after, after = [s EXCEPT !.fetch = fetch]
  PROVE  Reads(table, after, e)
<1>1. s \in ScreenType /\ e \in SettledType
  BY DEF Reads
<1>2. after \in ScreenType
  BY <1>1 DEF ScreenType
<1>3. after.filter = s.filter /\ after.pages = s.pages /\ after.fetch = fetch
  BY <1>1 DEF ScreenType
<1>4. QED
  BY <1>1, <1>2, <1>3, NothingListed DEF Reads

LEMMA RefreshReads ==
  ASSUME NEW table, NEW s, NEW e, Reads(table, s, e) PROVE Reads(table, Refreshing(s), e)
<1> DEFINE fetch == [kind |-> "all", want |-> IF s.pages = <<>> THEN 1 ELSE Len(s.pages), got |-> <<>>]
<1>1. s.pages \in Seq(Page)
  BY ScreenParts DEF Reads
<1>2. (IF s.pages = <<>> THEN 1 ELSE Len(s.pages)) \in Nat
  BY <1>1
<1>3. fetch \in Fetch
  BY <1>2, NothingListed DEF Fetch
<1>4. fetch.kind = "all" /\ fetch.got = <<>>
  OBVIOUS
<1>5. Refreshing(s) = [s EXCEPT !.fetch = fetch]
  BY DEF Refreshing
<1> HIDE DEF fetch
<1>6. QED
  BY <1>3, <1>4, <1>5, FetchReads

LEMMA OwedReads ==
  ASSUME NEW table, NEW s, NEW e, Reads(table, s, e), NEW b \in BOOLEAN
  PROVE  Reads(table, [s EXCEPT !.owed = b], e)
<1> DEFINE after == [s EXCEPT !.owed = b]
<1>1. s \in ScreenType
  BY DEF Reads
<1>2. after \in ScreenType /\ after.filter = s.filter /\ after.pages = s.pages /\ after.fetch = s.fetch
  BY <1>1 DEF ScreenType
<1> HIDE DEF after
<1>3. Reads(table, after, e)
  BY <1>2 DEF Reads
<1>4. QED
  BY <1>3 DEF after

LEMMA MoreReads ==
  ASSUME NEW s, NEW e, Reads(clients, s, e), s.fetch.kind = "more",
         NEW page, page = PageOf(s.filter, NextOf(s.pages)),
         NEW after, after = [s EXCEPT !.pages = Append(@, page), !.fetch = NotFetching]
  PROVE  Reads(clients, after, e)
<1>1. s \in ScreenType /\ e \in SettledType
  BY DEF Reads
<1>2. /\ page \in Page /\ Follows(Append(s.pages, page)) /\ Covers(Append(s.pages, page), e.shown)
      /\ page.items \subseteq Stored
  BY PageContinues DEF Reads, Ongoing
<1>3. Lists(Append(s.pages, page)) \subseteq StoredIn(clients) /\ Append(s.pages, page) \in Seq(Page)
  <2>1. s.pages \in Seq(Page)
    BY <1>1, ScreenParts
  <2>2. Lists(Append(s.pages, page)) = Lists(s.pages) \cup page.items
    BY <1>2, <2>1, Appended
  <2>3. QED
    BY <1>2, <2>1, <2>2 DEF Reads, StoredIn, Stored
<1>4. NotFetching \in Fetch /\ NotFetching.kind = "none"
  BY DEF NotFetching, Fetch
<1>5. after \in ScreenType
  BY <1>1, <1>3, <1>4 DEF ScreenType
<1>6. after.filter = s.filter /\ after.pages = Append(s.pages, page) /\ after.fetch = NotFetching
  BY <1>1 DEF ScreenType
<1>7. QED
  BY <1>1, <1>2, <1>3, <1>4, <1>5, <1>6 DEF Reads

\* The clients that are to come settle as the first page is read, and those that are shown
\* once the last is.
Coming(s, e) ==
  IF s.fetch.got = <<>> THEN {c \in Stored : Matches(s.filter, clients[c])} ELSE e.coming

LEMMA PageReads ==
  ASSUME NEW s, NEW e, Reads(clients, s, e), s.fetch.kind = "all",
         NEW after, after = AfterPage(s, PageOf(s.filter, NextOf(s.fetch.got))),
         NEW to, to = [shown |-> IF after.fetch = NotFetching THEN Coming(s, e) ELSE e.shown,
                       coming |-> Coming(s, e)]
  PROVE  Reads(clients, after, to)
<1> DEFINE page == PageOf(s.filter, NextOf(s.fetch.got))
           got == Append(s.fetch.got, page)
<1>1. s \in ScreenType /\ e \in SettledType /\ s.fetch.got \in Seq(Page)
      /\ s.fetch \in [kind : {"all"}, want : Nat, got : Seq(Page)]
  BY ScreenParts DEF Reads
<1>2. Coming(s, e) \subseteq Matching(clients, s.filter) /\ Coming(s, e) \subseteq Client
  BY <1>1 DEF Reads, Coming, Matching, Stored, SettledType
<1>3. Covers(s.fetch.got, Coming(s, e))
  BY NothingListed DEF Reads, Coming
<1>4. /\ page \in Page /\ Follows(got) /\ Covers(got, Coming(s, e))
      /\ page.items \subseteq Stored /\ NextOf(got) = page.next /\ got # <<>>
  <2> HIDE DEF page
  <2>1. Follows(s.fetch.got) /\ Ongoing(s.fetch.got)
    BY DEF Reads
  <2>2. QED
    BY <1>2, <1>3, <2>1, PageContinues DEF page
<1> HIDE DEF page
<1>5. Lists(got) \subseteq StoredIn(clients) /\ got \in Seq(Page)
  <2>1. Lists(got) = Lists(s.fetch.got) \cup page.items /\ got \in Seq(Page)
    BY <1>1, <1>4, Appended
  <2>2. QED
    BY <1>4, <2>1 DEF Reads, StoredIn, Stored
<1> HIDE DEF got
<1>6. CASE page.next = Absent \/ Len(got) = s.fetch.want
  <2>1. after = [s EXCEPT !.pages = got, !.fetch = NotFetching, !.owed = FALSE]
    BY <1>6 DEF AfterPage, page, got
  <2>2. NotFetching \in Fetch /\ NotFetching.kind = "none"
    BY DEF NotFetching, Fetch
  <2>3. after \in ScreenType
    BY <1>1, <1>5, <2>1, <2>2 DEF ScreenType
  <2>4. after.filter = s.filter /\ after.pages = got /\ after.fetch = NotFetching
    BY <1>1, <2>1 DEF ScreenType
  <2>5. to \in SettledType /\ to.shown = Coming(s, e) /\ to.coming = Coming(s, e)
    BY <1>1, <1>2, <2>4 DEF SettledType
  <2>6. QED
    BY <1>2, <1>4, <1>5, <2>2, <2>3, <2>4, <2>5 DEF Reads
<1>7. CASE ~(page.next = Absent \/ Len(got) = s.fetch.want)
  <2>1. after = [s EXCEPT !.fetch.got = got]
    BY <1>7 DEF AfterPage, page, got
  <2>2. [s.fetch EXCEPT !.got = got] \in Fetch
    BY <1>1, <1>5 DEF Fetch
  <2>3. [s.fetch EXCEPT !.got = got].kind = "all" /\ [s.fetch EXCEPT !.got = got].got = got
    BY <1>1
  <2>4. after \in ScreenType
    BY <1>1, <2>1, <2>2 DEF ScreenType
  <2>5. after.filter = s.filter /\ after.pages = s.pages /\ after.fetch = [s.fetch EXCEPT !.got = got]
    BY <1>1, <2>1 DEF ScreenType
  <2>6. after.fetch.kind = "all" /\ after.fetch.got = got /\ after.fetch # NotFetching
    BY <2>3, <2>5 DEF NotFetching
  <2>7. to \in SettledType /\ to.shown = e.shown /\ to.coming = Coming(s, e)
    BY <1>1, <1>2, <2>6 DEF SettledType
  <2>8. Ongoing(got)
    BY <1>4, <1>7 DEF Ongoing
  <2>9. QED
    <3>1. Covers(after.pages, to.shown) /\ to.shown \subseteq Matching(clients, after.filter)
      BY <2>5, <2>7 DEF Reads
    <3>2. Follows(after.pages) /\ Lists(after.pages) \subseteq StoredIn(clients)
      BY <2>5 DEF Reads
    <3>3. QED
      BY <1>2, <1>4, <1>5, <2>4, <2>5, <2>6, <2>7, <2>8, <3>1, <3>2 DEF Reads
<1>8. QED
  BY <1>6, <1>7

LEMMA RowsAreThere == Absent \notin Row
BY ClientAssumption DEF Row

\* A row is written: what no longer matches is no longer owed.
LEMMA WrittenReads ==
  ASSUME NEW table, table \in [Client -> Row \cup {Absent}], NEW c \in Client, NEW row \in Row,
         NEW s, NEW e, Reads(table, s, e),
         NEW wrote, wrote = [table EXCEPT ![c] = row],
         NEW to, to = [shown |-> IF Matches(s.filter, row) THEN e.shown ELSE e.shown \ {c},
                       coming |-> IF Matches(s.filter, row) THEN e.coming ELSE e.coming \ {c}]
  PROVE  Reads(wrote, s, to)
<1>1. row # Absent
  BY RowsAreThere
<1>2. StoredIn(table) \subseteq StoredIn(wrote)
  BY <1>1 DEF StoredIn
<1>3. ASSUME NEW d \in Matching(table, s.filter), Matches(s.filter, row) \/ d # c
      PROVE  d \in Matching(wrote, s.filter)
  BY <1>3 DEF Matching
<1>4. s \in ScreenType /\ e \in SettledType
  BY DEF Reads
<1>5. to \in SettledType
  BY <1>4 DEF SettledType
<1>6. to.shown \subseteq e.shown /\ to.coming \subseteq e.coming
  OBVIOUS
<1>7. to.shown \subseteq Matching(wrote, s.filter) /\ to.coming \subseteq Matching(wrote, s.filter)
  BY <1>3 DEF Reads
<1>8. Covers(s.pages, to.shown) /\ (s.fetch.kind = "all" => Covers(s.fetch.got, to.coming))
  BY <1>6 DEF Reads, Covers
<1>9. QED
  BY <1>2, <1>4, <1>5, <1>7, <1>8 DEF Reads

LEMMA MatchingIsStored == ASSUME NEW f PROVE Matching(clients, f) = {c \in Stored : Matches(f, clients[c])}
BY DEF Matching, Matches, Stored

-----------------------------------------------------------------------------
\* Steps that move one screen.

LEMMA OneScreen ==
  ASSUME ReadersInv, NEW m \in Reader, NEW s, NEW e, Reads(clients, s, e),
         screen' = [screen EXCEPT ![m] = s], settled' = [settled EXCEPT ![m] = e],
         UNCHANGED clients
  PROVE  ReadersInv'
<1>1. s \in ScreenType /\ e \in SettledType
  BY DEF Reads
<1>2. screen' \in [Reader -> ScreenType] /\ settled' \in [Reader -> SettledType]
  BY <1>1 DEF ReadersInv
<1>3. ASSUME NEW q \in Reader PROVE Reads(clients, screen'[q], settled'[q])
  BY DEF ReadersInv
<1>4. QED
  BY <1>2, <1>3 DEF ReadersInv

LEMMA SameSettled == ASSUME ReadersInv, NEW m \in Reader PROVE settled = [settled EXCEPT ![m] = settled[m]]
BY DEF ReadersInv

LEMMA ScreenSteps ==
  ASSUME ReadersInv, NEW m \in Person,
         \/ ChooseFilter(m) \/ Focus(m) \/ LoadMore(m) \/ ReadPage(m) \/ ReadMore(m) \/ FetchFails(m)
  PROVE  ReadersInv' /\ UNCHANGED <<clients, begun, changes, doing>>
<1> DEFINE s == screen[m]
           e == settled[m]
<1>1. UNCHANGED <<clients, begun, changes, doing>> /\ m \in Reader
  BY DEF ChooseFilter, Focus, LoadMore, ReadPage, ReadMore, FetchFails
<1>2. Reads(clients, s, e) /\ s \in ScreenType /\ e \in SettledType
  BY <1>1 DEF ReadersInv
<1>3. CASE ChooseFilter(m)
  <2>1. PICK f \in Filter : screen' = [screen EXCEPT ![m] = Blank(f)]
    BY <1>3 DEF ChooseFilter, Screen
  <2>2. settled' = [settled EXCEPT ![m] = Unread]
    BY <1>3 DEF ChooseFilter
  <2>3. Reads(clients, Blank(f), Unread)
    BY BlankReads
  <2>4. QED
    BY <1>1, <2>1, <2>2, <2>3, OneScreen
<1>4. CASE Focus(m)
  <2>1. screen' = [screen EXCEPT ![m] = Refreshing(s)] /\ settled' = [settled EXCEPT ![m] = e]
    BY <1>1, <1>4, SameSettled DEF Focus, Screen
  <2>2. Reads(clients, Refreshing(s), e)
    BY <1>2, RefreshReads
  <2>3. QED
    BY <1>1, <2>1, <2>2, OneScreen
<1>5. CASE LoadMore(m)
  <2>1. screen' = [screen EXCEPT ![m] = [s EXCEPT !.fetch = [kind |-> "more"]]]
        /\ settled' = [settled EXCEPT ![m] = e] /\ NextOf(s.pages) # Absent
    BY <1>1, <1>5, SameSettled DEF LoadMore, Screen, HasNext
  <2>2. [kind |-> "more"] \in Fetch
    BY DEF Fetch
  <2>3. Reads(clients, [s EXCEPT !.fetch = [kind |-> "more"]], e)
    <3> DEFINE fetch == [kind |-> "more"]
    <3>1. fetch.kind = "more"
      OBVIOUS
    <3> HIDE DEF fetch
    <3>2. Reads(clients, [s EXCEPT !.fetch = fetch], e)
      <4>1. fetch \in Fetch
        BY <2>2 DEF fetch
      <4> HIDE DEF s, e
      <4>2. QED
        BY <1>2, <2>1, <3>1, <4>1, FetchReads
    <3>3. QED
      BY <3>2 DEF fetch
  <2>4. QED
    BY <1>1, <2>1, <2>3, OneScreen
<1>6. CASE ReadPage(m)
  <2> DEFINE after == AfterPage(s, PageOf(s.filter, NextOf(s.fetch.got)))
             to == [shown |-> IF after.fetch = NotFetching THEN Coming(s, e) ELSE e.shown,
                    coming |-> Coming(s, e)]
  <2>1. screen' = [screen EXCEPT ![m] = after] /\ s.fetch.kind = "all"
    BY <1>6 DEF ReadPage, Screen
  <2>2. settled' = [settled EXCEPT ![m] = to]
    BY <1>1, <1>6 DEF ReadPage, Settles, Coming, ReadersInv
  <2>3. Reads(clients, after, to)
    <3> HIDE DEF s, e
    <3>1. QED
      BY <1>2, <2>1, PageReads
  <2> HIDE DEF after, to
  <2>4. QED
    BY <1>1, <2>1, <2>2, <2>3, OneScreen
<1>7. CASE ReadMore(m)
  <2> DEFINE page == PageOf(s.filter, NextOf(s.pages))
             after == [s EXCEPT !.pages = Append(@, page), !.fetch = NotFetching]
  <2>1. screen' = [screen EXCEPT ![m] = after] /\ s.fetch.kind = "more"
    BY <1>7 DEF ReadMore, Screen
  <2>2. settled' = [settled EXCEPT ![m] = e]
    BY <1>1, <1>7, SameSettled DEF ReadMore
  <2>3. Reads(clients, after, e)
    <3> HIDE DEF s, e
    <3>1. QED
      BY <1>2, <2>1, MoreReads
  <2> HIDE DEF after
  <2>4. QED
    BY <1>1, <2>1, <2>2, <2>3, OneScreen
<1>8. CASE FetchFails(m)
  <2>1. screen' = [screen EXCEPT ![m] = [s EXCEPT !.fetch = NotFetching]]
        /\ settled' = [settled EXCEPT ![m] = e]
    BY <1>1, <1>8, SameSettled DEF FetchFails, Screen
  <2>2. NotFetching \in Fetch /\ NotFetching.kind = "none"
    BY DEF NotFetching, Fetch
  <2>3. Reads(clients, [s EXCEPT !.fetch = NotFetching], e)
    <3> HIDE DEF s, e
    <3>1. QED
      BY <1>2, <2>2, FetchReads
  <2>4. QED
    BY <1>1, <2>1, <2>3, OneScreen
<1>9. QED
  BY <1>1, <1>3, <1>4, <1>5, <1>6, <1>7, <1>8

-----------------------------------------------------------------------------
\* Steps of the forms and of the server.

LEMMA DoingParts ==
  ASSUME NEW r \in Doings
  PROVE  /\ r.phase # "idle" => r.client \in Client
         /\ r.phase \in {"insert", "edit", "editWrite"} => r.name \in Name
         /\ r.phase \in {"status", "statusWrite"} =>
              r \in [phase : {"status", "statusWrite"}, client : Client, to : Statuses]
         /\ r.phase \in {"matter", "matterWrite"} => r \in [phase : {"matter", "matterWrite"}, client : Client]
BY DEF Doings, Free

\* A request begins or goes on, about a client that is stored, and writes nothing.
LEMMA Continued ==
  ASSUME DoingInv, NEW m \in Person, NEW r \in Doings, doing' = [doing EXCEPT ![m] = r],
         r.phase # "insert", r.phase # "idle" => r.client \in Stored, UNCHANGED <<clients, begun>>
  PROVE  DoingInv'
<1>1. doing' \in [Person -> Doings] /\ Stored' = Stored
  BY DEF DoingInv, Stored
<1>2. \A q \in Person : doing'[q] = IF q = m THEN r ELSE doing[q]
  BY DEF DoingInv
<1>3. QED
  BY <1>1, <1>2 DEF DoingInv, Does

LEMMA ReadersStay ==
  ASSUME ReadersInv, UNCHANGED <<clients, screen, settled>> PROVE ReadersInv'
BY DEF ReadersInv

\* What the followed person hears of a request: the pages are read again.
LEMMA Learned ==
  ASSUME ReadersInv, NEW m \in Person, Learns(m), NEW table, NEW seen, seen \in [Reader -> SettledType],
         \A q \in Reader : Reads(table, screen[q], seen[q])
  PROVE  /\ screen' \in [Reader -> ScreenType]
         /\ \A q \in Reader : Reads(table, screen'[q], seen[q])
<1>1. screen \in [Reader -> ScreenType]
  BY DEF ReadersInv
<1>2. CASE m \in Reader
  <2> DEFINE after == [Refreshing(screen[m]) EXCEPT !.owed = TRUE]
  <2>1. Reads(table, after, seen[m])
    BY <1>2, RefreshReads, OwedReads
  <2>2. after \in ScreenType
    BY <2>1 DEF Reads
  <2>3. screen' = [screen EXCEPT ![m] = after]
    BY <1>2 DEF Learns, Screen
  <2> HIDE DEF after
  <2>4. QED
    BY <1>1, <2>1, <2>2, <2>3
<1>3. CASE m \notin Reader
  BY <1>1, <1>3 DEF Learns
<1>4. QED
  BY <1>2, <1>3

LEMMA RefusalKeeps ==
  ASSUME DirectoryInv, NEW m \in Person, Refuses(m) PROVE DirectoryInv'
<1>1. /\ doing' = [doing EXCEPT ![m] = Free] /\ Learns(m)
      /\ UNCHANGED <<clients, begun, changes, settled>>
  BY DEF Refuses, Ends, Turns
<1>2. Free \in Doings /\ Free.phase = "idle"
  BY DEF Doings, Free
<1>3. DoingInv'
  BY <1>1, <1>2, Continued DEF DirectoryInv
<1>4. ReadersInv'
  BY <1>1, Learned DEF DirectoryInv, ReadersInv
<1>5. QED
  BY <1>3, <1>4 DEF DirectoryInv

LEMMA Kept ==
  ASSUME ReadersInv, clients \in [Client -> Row \cup {Absent}],
         NEW c \in Client, NEW row \in Row, clients' = [clients EXCEPT ![c] = row], Keep(c, row)
  PROVE  /\ settled' \in [Reader -> SettledType]
         /\ \A q \in Reader : Reads(clients', screen[q], settled'[q])
<1>1. ASSUME NEW q \in Reader PROVE Reads(clients', screen[q], settled'[q])
  <2> DEFINE s == screen[q]
             e == settled[q]
  <2>1. settled'[q] = [shown |-> IF Matches(s.filter, row) THEN e.shown ELSE e.shown \ {c},
                       coming |-> IF Matches(s.filter, row) THEN e.coming ELSE e.coming \ {c}]
    BY DEF Keep
  <2>2. Reads(clients, s, e)
    BY DEF ReadersInv
  <2> HIDE DEF s, e
  <2>3. Reads(clients', s, settled'[q])
    BY <2>1, <2>2, WrittenReads
  <2>4. QED
    BY <2>3 DEF s
<1>2. \A q \in Reader : settled'[q] \in SettledType
  BY <1>1 DEF Reads
<1>3. settled' = [q \in Reader |-> settled'[q]]
  BY DEF Keep
<1>4. settled' \in [Reader -> SettledType]
  BY <1>2, <1>3
<1>5. QED
  BY <1>1, <1>4

\* The client that is written is stored, or new.
LEMMA Written ==
  ASSUME DirectoryInv, NEW m \in Person, NEW c \in Client, NEW row \in Row, Stores(m, c, row),
         c \in Stored \/ (Does(m, "insert") /\ c = doing[m].client)
  PROVE  DirectoryInv'
<1>1. /\ clients' = [clients EXCEPT ![c] = row] /\ Keep(c, row) /\ Learns(m)
      /\ doing' = [doing EXCEPT ![m] = Free] /\ UNCHANGED <<begun, changes>>
  BY DEF Stores, Ends, Turns
<1>2. ReadersInv'
  <2>1. clients \in [Client -> Row \cup {Absent}] /\ ReadersInv
    BY DEF DirectoryInv, DoingInv
  <2>2. settled' \in [Reader -> SettledType] /\ \A q \in Reader : Reads(clients', screen[q], settled'[q])
    BY <1>1, <2>1, Kept
  <2> DEFINE table == clients'
             seen == settled'
  <2>3. \A q \in Reader : Reads(table, screen'[q], seen[q])
    <3>1. seen \in [Reader -> SettledType] /\ \A q \in Reader : Reads(table, screen[q], seen[q])
      BY <2>2
    <3> HIDE DEF table, seen
    <3>2. QED
      BY <1>1, <2>1, <3>1, Learned
  <2>4. screen' \in [Reader -> ScreenType]
    <3>1. seen \in [Reader -> SettledType] /\ \A q \in Reader : Reads(table, screen[q], seen[q])
      BY <2>2
    <3> HIDE DEF table, seen
    <3>2. QED
      BY <1>1, <2>1, <3>1, Learned
  <2>5. QED
    BY <2>2, <2>3, <2>4 DEF ReadersInv
<1>3. Stored' = Stored \cup {c}
  BY <1>1, RowsAreThere DEF DirectoryInv, DoingInv, Stored
<1>4. DoingInv'
  <2>1. clients' \in [Client -> Row \cup {Absent}] /\ begun' \in 0 .. MaxClients
    BY <1>1 DEF DirectoryInv, DoingInv
  <2>2. Free \in Doings /\ Free.phase = "idle"
    BY DEF Doings, Free
  <2>3. doing' \in [Person -> Doings] /\ \A q \in Person : doing'[q] = IF q = m THEN Free ELSE doing[q]
    BY <1>1, <2>2 DEF DirectoryInv, DoingInv
  <2>4. c <= begun
    BY DEF DirectoryInv, DoingInv
  <2>5. \A d \in Stored' : d <= begun'
    BY <1>1, <1>3, <2>4 DEF DirectoryInv, DoingInv
  <2>6. ASSUME NEW q \in Person, Does(q, "insert")'
        PROVE  /\ doing'[q].client \notin Stored' /\ doing'[q].client <= begun'
               /\ \A p \in Person : Does(p, "insert")' /\ doing'[p].client = doing'[q].client => p = q
    <3>1. q # m /\ doing'[q] = doing[q] /\ Does(q, "insert")
      BY <2>2, <2>3, <2>6 DEF Does
    <3>2. doing[q].client # c
      BY <3>1 DEF DirectoryInv, DoingInv
    <3>3. \A p \in Person : Does(p, "insert")' => doing'[p] = doing[p] /\ Does(p, "insert")
      BY <2>2, <2>3 DEF Does
    <3>4. QED
      BY <1>1, <1>3, <3>1, <3>2, <3>3 DEF DirectoryInv, DoingInv
  <2>7. ASSUME NEW q \in Person, ~Does(q, "idle")', ~Does(q, "insert")' PROVE doing'[q].client \in Stored'
    <3>1. q # m /\ doing'[q] = doing[q] /\ ~Does(q, "idle") /\ ~Does(q, "insert")
      BY <2>2, <2>3, <2>7 DEF Does
    <3>2. QED
      BY <1>3, <3>1 DEF DirectoryInv, DoingInv
  <2>8. QED
    BY <2>1, <2>3, <2>5, <2>6, <2>7 DEF DoingInv
<1>5. QED
  BY <1>2, <1>4 DEF DirectoryInv

LEMMA Named ==
  ASSUME DoingInv, NEW m \in Person, ~Does(m, "idle")
  PROVE  /\ doing[m] \in Doings /\ doing[m].client \in Client
         /\ ~Does(m, "insert") =>
              /\ doing[m].client \in Stored /\ clients[doing[m].client] \in Row
<1>1. doing[m] \in Doings
  BY DEF DoingInv
<1>2. doing[m].client \in Client
  BY <1>1, DoingParts DEF Does
<1>3. QED
  BY <1>1, <1>2 DEF DoingInv, Stored

LEMMA RowParts ==
  ASSUME NEW row \in Row PROVE row.name \in Name /\ row.status \in Statuses
BY DEF Row, Statuses

LEMMA OffersAreStored == ASSUME ReadersInv, NEW m \in Person PROVE Offers(m) \subseteq Stored
<1>1. ASSUME m \in Reader PROVE Shown(m) \subseteq Stored
  <2>1. Shown(m) = Lists(screen[m].pages)
    BY DEF Shown, Lists
  <2>2. Reads(clients, screen[m], settled[m])
    BY <1>1 DEF ReadersInv
  <2>3. Lists(screen[m].pages) \subseteq StoredIn(clients) /\ Stored = StoredIn(clients)
    BY <2>2 DEF Reads, StoredIn, Stored
  <2>4. QED
    BY <2>1, <2>3
<1>2. QED
  BY <1>1 DEF Offers

LEMMA DirectoryStarts == DirectoryInit => DirectoryInv
<1> SUFFICES ASSUME DirectoryInit PROVE DirectoryInv
  OBVIOUS
<1>1. clients = [c \in Client |-> Absent] /\ begun = 0 /\ doing = [m \in Person |-> Free]
  BY DEF DirectoryInit
<1>2. Stored = {}
  BY <1>1 DEF Stored
<1>3. Free \in Doings /\ Free.phase = "idle" /\ begun \in 0 .. MaxClients
  <2>1. MaxClients \in Nat
    BY ClientAssumption
  <2>2. QED
    BY <1>1, <2>1 DEF Doings, Free
<1>4. DoingInv
  BY <1>1, <1>2, <1>3 DEF DoingInv, Does
<1>5. Asked \in Filter
  BY ClientAssumption DEF Asked
<1>6. screen = [m \in Reader |-> Blank(Asked)] /\ settled = [m \in Reader |-> Unread]
  BY DEF DirectoryInit, Asked
<1>7. ReadersInv
  BY <1>5, <1>6, BlankReads DEF ReadersInv
<1>8. QED
  BY <1>4, <1>7 DEF DirectoryInv

LEMMA DirectoryKeeps == DirectoryInv /\ [DirectoryNext]_directoryVars => DirectoryInv'
<1> SUFFICES ASSUME DirectoryInv, [DirectoryNext]_directoryVars PROVE DirectoryInv'
  OBVIOUS
<1> USE DEF DirectoryInv
<1>1. CASE UNCHANGED directoryVars
  BY <1>1 DEF directoryVars, ReadersInv, DoingInv, Stored, Does
<1>2. ASSUME NEW m \in Person,
             \/ ChooseFilter(m) \/ Focus(m) \/ LoadMore(m) \/ ReadPage(m) \/ ReadMore(m) \/ FetchFails(m)
      PROVE  DirectoryInv'
  <2>1. ReadersInv' /\ UNCHANGED <<clients, begun, changes, doing>>
    BY <1>2, ScreenSteps
  <2>2. QED
    BY <2>1 DEF DoingInv, Stored, Does
<1>3. ASSUME NEW m \in Person, SubmitNew(m) PROVE DirectoryInv'
  <2>1. PICK n \in Name : doing' = [doing EXCEPT ![m] = [phase |-> "insert", client |-> begun + 1, name |-> n]]
    BY <1>3 DEF SubmitNew, Turns
  <2> DEFINE r == [phase |-> "insert", client |-> begun + 1, name |-> n]
  <2>2. begun' = begun + 1 /\ begun' \in 0 .. MaxClients /\ begun + 1 \in Client
    BY <1>3, ClientAssumption DEF SubmitNew, DoingInv, Client
  <2>3. r \in Doings /\ r.phase = "insert" /\ r.client = begun + 1
    BY <2>2 DEF Doings
  <2> HIDE DEF r
  <2>4. doing' = [doing EXCEPT ![m] = r]
    BY <2>1 DEF r
  <2>5. doing' \in [Person -> Doings] /\ \A q \in Person : doing'[q] = IF q = m THEN r ELSE doing[q]
    BY <2>3, <2>4 DEF DoingInv
  <2>6. UNCHANGED <<clients, screen, settled>> /\ Stored' = Stored
    BY <1>3 DEF SubmitNew, Stored
  <2>7. \A d \in Stored : d <= begun
    BY DEF DoingInv
  <2>8. \A d \in Stored' : d <= begun' /\ d # begun + 1
    <3>1. begun \in Nat /\ \A d \in Stored : d \in Nat
      BY ClientsAreFew DEF DoingInv, Stored
    <3>2. QED
      BY <2>2, <2>6, <2>7, <3>1
  <2>9. ASSUME NEW q \in Person, Does(q, "insert")'
        PROVE  /\ doing'[q].client \notin Stored' /\ doing'[q].client <= begun'
               /\ \A p \in Person : Does(p, "insert")' /\ doing'[p].client = doing'[q].client => p = q
    <3>1. \A p \in Person : p # m /\ Does(p, "insert")' =>
            doing'[p] = doing[p] /\ Does(p, "insert") /\ doing[p].client <= begun
      BY <2>5 DEF Does, DoingInv
    <3>2. \A p \in Person : p # m /\ Does(p, "insert")' => doing'[p].client # begun + 1 /\ doing'[p].client <= begun + 1
      <4>1. ASSUME NEW p \in Person, p # m, Does(p, "insert")'
            PROVE  doing'[p].client # begun + 1 /\ doing'[p].client <= begun + 1
        <5>1. doing'[p].client <= begun /\ begun \in Nat
          BY <3>1, <4>1 DEF DoingInv
        <5>2. doing'[p].client \in Nat
          <6>1. doing[p] \in Doings /\ doing[p].phase # "idle" /\ doing'[p] = doing[p]
            BY <3>1, <4>1 DEF DoingInv, Does
          <6>2. QED
            BY <6>1, DoingParts, ClientsAreFew
        <5>3. QED
          BY <5>1, <5>2
      <4>2. QED
        BY <4>1
    <3>3. doing'[m].client = begun + 1
      BY <2>3, <2>5
    <3>4. CASE q = m
      BY <2>2, <2>8, <3>2, <3>3, <3>4 DEF DoingInv
    <3>5. CASE q # m
      <4>1. doing'[q] = doing[q] /\ Does(q, "insert")
        BY <2>9, <3>1, <3>5
      <4>2. doing[q].client \notin Stored
            /\ \A p \in Person : Does(p, "insert") /\ doing[p].client = doing[q].client => p = q
        BY <4>1 DEF DoingInv
      <4>3. ASSUME NEW p \in Person, Does(p, "insert")', doing'[p].client = doing'[q].client PROVE p = q
        <5>1. p # m
          BY <2>9, <3>2, <3>3, <3>5, <4>3
        <5>2. QED
          BY <3>1, <4>1, <4>2, <4>3, <5>1
      <4>4. QED
        BY <2>2, <2>6, <2>9, <3>2, <3>5, <4>1, <4>2, <4>3
    <3>6. QED
      BY <3>4, <3>5
  <2>10. ASSUME NEW q \in Person, ~Does(q, "idle")', ~Does(q, "insert")' PROVE doing'[q].client \in Stored'
    <3>1. q # m /\ doing'[q] = doing[q] /\ ~Does(q, "idle") /\ ~Does(q, "insert")
      BY <2>3, <2>5, <2>10 DEF Does
    <3>2. QED
      BY <2>6, <3>1 DEF DoingInv
  <2>11. QED
    BY <2>2, <2>5, <2>6, <2>8, <2>9, <2>10, ReadersStay DEF DoingInv
<1>4. ASSUME NEW m \in Person, SubmitEdit(m) PROVE DirectoryInv'
  <2>1. PICK c \in Offers(m), n \in Name : doing' = [doing EXCEPT ![m] = [phase |-> "edit", client |-> c, name |-> n]]
    BY <1>4 DEF SubmitEdit, Turns
  <2>2. UNCHANGED <<clients, begun, screen, settled>>
    BY <1>4 DEF SubmitEdit
  <2>3. c \in Stored /\ c \in Client
    BY OffersAreStored DEF Stored
  <2> DEFINE r == [phase |-> "edit", client |-> c, name |-> n]
  <2>4. r \in Doings /\ r.phase = "edit" /\ r.client = c
    BY <2>3 DEF Doings
  <2> HIDE DEF r
  <2>5. doing' = [doing EXCEPT ![m] = r]
    BY <2>1 DEF r
  <2>6. QED
    BY <2>2, <2>3, <2>4, <2>5, Continued, ReadersStay
<1>5. ASSUME NEW m \in Person, SubmitStatus(m) PROVE DirectoryInv'
  <2>1. PICK c \in Offers(m), status \in Statuses :
          doing' = [doing EXCEPT ![m] = [phase |-> "status", client |-> c, to |-> status]]
    BY <1>5 DEF SubmitStatus, Turns, Statuses
  <2>2. UNCHANGED <<clients, begun, screen, settled>>
    BY <1>5 DEF SubmitStatus
  <2>3. c \in Stored /\ c \in Client
    BY OffersAreStored DEF Stored
  <2> DEFINE r == [phase |-> "status", client |-> c, to |-> status]
  <2>4. r \in Doings /\ r.phase = "status" /\ r.client = c
    BY <2>3 DEF Doings
  <2> HIDE DEF r
  <2>5. doing' = [doing EXCEPT ![m] = r]
    BY <2>1 DEF r
  <2>6. QED
    BY <2>2, <2>3, <2>4, <2>5, Continued, ReadersStay
<1>6. ASSUME NEW m \in Person, SubmitMatter(m) PROVE DirectoryInv'
  <2>1. PICK c \in Stored : doing' = [doing EXCEPT ![m] = [phase |-> "matter", client |-> c]]
    BY <1>6 DEF SubmitMatter, Turns
  <2>2. UNCHANGED <<clients, begun, screen, settled>>
    BY <1>6 DEF SubmitMatter
  <2>3. c \in Client
    BY DEF Stored
  <2> DEFINE r == [phase |-> "matter", client |-> c]
  <2>4. r \in Doings /\ r.phase = "matter" /\ r.client = c
    BY <2>3 DEF Doings
  <2> HIDE DEF r
  <2>5. doing' = [doing EXCEPT ![m] = r]
    BY <2>1 DEF r
  <2>6. QED
    BY <2>2, <2>4, <2>5, Continued, ReadersStay
<1>7. ASSUME NEW m \in Person, Insert(m) PROVE DirectoryInv'
  <2> DEFINE row == [name |-> doing[m].name, status |-> "active"]
  <2>1. doing[m].phase = "insert" /\ Stores(m, doing[m].client, row)
    BY <1>7 DEF Insert, Does
  <2>2. doing[m] \in Doings /\ doing[m].client \in Client
    BY <2>1, Named DEF Does
  <2>3. row \in Row
    BY <2>1, <2>2, DoingParts DEF Row
  <2> HIDE DEF row
  <2>4. QED
    BY <2>1, <2>2, <2>3, Written DEF Does
<1>8. ASSUME NEW m \in Person, EditRead(m) PROVE DirectoryInv'
  <2> DEFINE c == doing[m].client
             r == [phase |-> "editWrite", client |-> c, name |-> doing[m].name, previous |-> clients[c].name]
  <2>1. doing[m].phase = "edit" /\ doing[m] \in Doings /\ c \in Client /\ c \in Stored /\ clients[c] \in Row
    BY <1>8, Named DEF EditRead, Does
  <2>2. Continues(m, r) \/ Refuses(m)
    BY <1>8 DEF EditRead
  <2>3. r \in Doings /\ r.phase = "editWrite" /\ r.client = c
    <3>1. doing[m].name \in Name /\ clients[c].name \in Name
      BY <2>1, DoingParts, RowParts
    <3>2. QED
      BY <2>1, <3>1 DEF Doings
  <2> HIDE DEF r, c
  <2>4. ASSUME Continues(m, r) PROVE DirectoryInv'
    <3>1. doing' = [doing EXCEPT ![m] = r] /\ UNCHANGED <<clients, begun, screen, settled>>
      BY <2>4 DEF Continues, Turns
    <3>2. QED
      BY <2>1, <2>3, <3>1, Continued, ReadersStay
  <2>5. QED
    BY <2>2, <2>4, RefusalKeeps
<1>9. ASSUME NEW m \in Person, EditWrite(m) PROVE DirectoryInv'
  <2> DEFINE c == doing[m].client
             row == [clients[c] EXCEPT !.name = doing[m].name]
  <2>1. doing[m].phase = "editWrite" /\ doing[m] \in Doings /\ c \in Client /\ c \in Stored /\ clients[c] \in Row
    BY <1>9, Named DEF EditWrite, Does
  <2>2. Stores(m, c, row) \/ Refuses(m)
    BY <1>9 DEF EditWrite
  <2>3. row \in Row
    BY <2>1, DoingParts DEF Row
  <2> HIDE DEF row, c
  <2>4. QED
    BY <2>1, <2>2, <2>3, Written, RefusalKeeps
<1>10. ASSUME NEW m \in Person, StatusRead(m) PROVE DirectoryInv'
  <2> DEFINE r == [doing[m] EXCEPT !.phase = "statusWrite"]
  <2>1. doing[m].phase = "status" /\ doing[m] \in Doings /\ doing[m].client \in Stored
    BY <1>10, Named DEF StatusRead, Does
  <2>2. Continues(m, r) \/ Refuses(m)
    BY <1>10 DEF StatusRead
  <2>3. r \in Doings /\ r.phase = "statusWrite" /\ r.client = doing[m].client
    <3>1. doing[m] \in [phase : {"status", "statusWrite"}, client : Client, to : Statuses]
      BY <2>1, DoingParts
    <3>2. QED
      BY <3>1 DEF Doings
  <2> HIDE DEF r
  <2>4. ASSUME Continues(m, r) PROVE DirectoryInv'
    <3>1. doing' = [doing EXCEPT ![m] = r] /\ UNCHANGED <<clients, begun, screen, settled>>
      BY <2>4 DEF Continues, Turns
    <3>2. QED
      BY <2>1, <2>3, <3>1, Continued, ReadersStay
  <2>5. QED
    BY <2>2, <2>4, RefusalKeeps
<1>11. ASSUME NEW m \in Person, StatusWrite(m) PROVE DirectoryInv'
  <2> DEFINE c == doing[m].client
             row == [clients[c] EXCEPT !.status = doing[m].to]
  <2>1. doing[m].phase = "statusWrite" /\ doing[m] \in Doings /\ c \in Client /\ c \in Stored /\ clients[c] \in Row
    BY <1>11, Named DEF StatusWrite, Does
  <2>2. Stores(m, c, row) \/ Refuses(m)
    BY <1>11 DEF StatusWrite
  <2>3. row \in Row
    <3>1. doing[m].to \in Statuses
      BY <2>1, DoingParts
    <3>2. QED
      BY <2>1, <3>1 DEF Row, Statuses
  <2> HIDE DEF row, c
  <2>4. QED
    BY <2>1, <2>2, <2>3, Written, RefusalKeeps
<1>12. ASSUME NEW m \in Person, MatterRead(m) PROVE DirectoryInv'
  <2> DEFINE r == IF clients[doing[m].client].status = "active" THEN [doing[m] EXCEPT !.phase = "matterWrite"]
                  ELSE Free
  <2>1. doing[m].phase = "matter" /\ doing[m] \in Doings /\ doing[m].client \in Stored
    BY <1>12, Named DEF MatterRead, Does
  <2>2. doing' = [doing EXCEPT ![m] = r] /\ UNCHANGED <<clients, begun, screen, settled>>
    BY <1>12 DEF MatterRead, Continues, Turns
  <2>3. r \in Doings /\ r.phase # "insert" /\ (r.phase # "idle" => r.client = doing[m].client)
    <3>1. doing[m] \in [phase : {"matter", "matterWrite"}, client : Client]
      BY <2>1, DoingParts
    <3>2. QED
      BY <3>1 DEF Doings, Free
  <2> HIDE DEF r
  <2>4. QED
    BY <2>1, <2>2, <2>3, Continued, ReadersStay
<1>13. ASSUME NEW m \in Person, MatterWrite(m) PROVE DirectoryInv'
  <2>1. doing' = [doing EXCEPT ![m] = Free] /\ UNCHANGED <<clients, begun, screen, settled>>
    BY <1>13 DEF MatterWrite, Continues, Turns
  <2>2. Free \in Doings /\ Free.phase = "idle"
    BY DEF Doings, Free
  <2>3. QED
    BY <2>1, <2>2, Continued, ReadersStay
<1>14. QED
  BY <1>1, <1>2, <1>3, <1>4, <1>5, <1>6, <1>7, <1>8, <1>9, <1>10, <1>11, <1>12, <1>13 DEF DirectoryNext

LEMMA DirectoryInvHolds == DirectorySpec => []DirectoryInv
BY DirectoryStarts, DirectoryKeeps, PTL DEF DirectorySpec

(* The directory's variables hold what they may, for every number of people,  *)
(* names, filters and clients on a page.                                      *)
THEOREM DirectoryTypeCorrect == DirectorySpec => []DirectoryTypeOK
<1>1. DirectoryInv => DirectoryTypeOK
  <2> SUFFICES ASSUME DirectoryInv PROVE DirectoryTypeOK
    OBVIOUS
  <2>1. ASSUME NEW m \in Reader PROVE screen[m].filter \in Filter
    BY ScreenParts DEF DirectoryInv, ReadersInv
  <2>2. QED
    BY <2>1 DEF DirectoryInv, DoingInv, ReadersInv, SettledType, DirectoryTypeOK
<1>2. QED
  BY <1>1, DirectoryInvHolds, PTL

(* Paging to the end shows every client that matched all along, and none      *)
(* twice, whatever was registered, edited, withdrawn or restored meanwhile    *)
(* and however often the pages were read again (client.repository.ts list).   *)
THEOREM PagesLeaveOutNothing == DirectorySpec => []PagesMissNothing
<1>1. DirectoryInv => PagesMissNothing
  <2> SUFFICES ASSUME DirectoryInv, NEW m \in Reader
               PROVE  LET pages == screen[m].pages
                      IN  /\ \A i, j \in DOMAIN pages : i # j => pages[i].items \cap pages[j].items = {}
                          /\ pages # <<>> /\ ~HasNext(m) => settled[m].shown \subseteq Shown(m)
    BY DEF PagesMissNothing
  <2> DEFINE pages == screen[m].pages
  <2>1. Reads(clients, screen[m], settled[m])
    BY DEF DirectoryInv, ReadersInv
  <2>2. Follows(pages) /\ Covers(pages, settled[m].shown)
    BY <2>1 DEF Reads
  <2>3. ASSUME NEW i \in DOMAIN pages, NEW j \in DOMAIN pages, i # j,
               NEW c \in pages[i].items \cap pages[j].items
        PROVE  FALSE
    <3>1. pages \in Seq(Page)
      BY <2>2 DEF Follows
    <3> HIDE DEF pages
    <3>2. i \in Nat /\ j \in Nat /\ pages[i] \in Page
      BY <3>1
    <3>3. c \in Nat
      BY <3>2, ClientsAreFew DEF Page
    <3>4. i < j \/ j < i
      BY <2>3, <3>2
    <3>5. c < c
      BY <2>2, <3>4 DEF Follows
    <3>6. QED
      BY <3>3, <3>5
  <2>4. ASSUME pages # <<>>, ~HasNext(m) PROVE settled[m].shown \subseteq Shown(m)
    <3>1. Shown(m) = Lists(pages) /\ NextOf(pages) = Absent
      BY <2>4 DEF Shown, Lists, HasNext
    <3>2. QED
      BY <2>2, <2>4, <3>1 DEF Covers
  <2>5. QED
    BY <2>3, <2>4
<1>2. QED
  BY <1>1, DirectoryInvHolds, PTL

(* A page that is not the last is full: a filter shortens no page             *)
(* (client.repository.ts list).                                               *)
THEOREM PagesComeFull == DirectorySpec => []PagesAreFull
<1>1. DirectoryInv => PagesAreFull
  <2> SUFFICES ASSUME DirectoryInv, NEW m \in Reader, NEW i \in DOMAIN screen[m].pages,
                      Cardinality(screen[m].pages[i].items) < Limit
               PROVE  screen[m].pages[i].next = Absent /\ i = Len(screen[m].pages)
    BY DEF PagesAreFull
  <2>1. Follows(screen[m].pages)
    BY DEF DirectoryInv, ReadersInv, Reads
  <2>2. QED
    BY <2>1 DEF Follows
<1>2. QED
  BY <1>1, DirectoryInvHolds, PTL

KeepsWithdrawn ==
  \A c \in Stored : clients[c].status = "inactive" => clients'[c].name = clients[c].name

\* Only three steps write a client, and each leaves every other one alone.
LEMMA WithdrawnAreKept == DirectoryInv /\ [DirectoryNext]_directoryVars => KeepsWithdrawn
<1> SUFFICES ASSUME DirectoryInv, [DirectoryNext]_directoryVars,
                    NEW c \in Stored, clients[c].status = "inactive"
             PROVE  clients'[c].name = clients[c].name
  BY DEF KeepsWithdrawn
<1>1. clients[c] \in Row /\ c \in Client /\ clients \in [Client -> Row \cup {Absent}]
  BY DEF DirectoryInv, DoingInv, Stored
<1>2. CASE UNCHANGED clients
  BY <1>2
<1>3. ASSUME NEW m \in Person, Insert(m) PROVE clients'[c].name = clients[c].name
  <2>1. Does(m, "insert") /\ doing[m].client # c
    BY <1>3 DEF Insert, DirectoryInv, DoingInv
  <2>2. clients'[c] = clients[c]
    BY <1>1, <1>3, <2>1 DEF Insert, Stores
  <2>3. QED
    BY <2>2
<1>4. ASSUME NEW m \in Person, EditWrite(m), ~UNCHANGED clients PROVE clients'[c].name = clients[c].name
  <2>1. Editable(clients[doing[m].client]) /\ clients' =
          [clients EXCEPT ![doing[m].client] = [clients[doing[m].client] EXCEPT !.name = doing[m].name]]
    BY <1>4 DEF EditWrite, Stores, Refuses
  <2>2. doing[m].client # c
    BY <2>1 DEF Editable
  <2>3. QED
    BY <1>1, <2>1, <2>2
<1>5. ASSUME NEW m \in Person, StatusWrite(m), ~UNCHANGED clients PROVE clients'[c].name = clients[c].name
  <2>1. clients' =
          [clients EXCEPT ![doing[m].client] = [clients[doing[m].client] EXCEPT !.status = doing[m].to]]
    BY <1>5 DEF StatusWrite, Stores, Refuses
  <2>2. QED
    BY <1>1, <2>1 DEF Row
<1>6. CASE UNCHANGED directoryVars
  BY <1>2, <1>6 DEF directoryVars
<1>7. ASSUME NEW m \in Person,
             \/ SubmitNew(m) \/ SubmitEdit(m) \/ SubmitStatus(m) \/ SubmitMatter(m)
             \/ EditRead(m) \/ StatusRead(m) \/ MatterRead(m) \/ MatterWrite(m)
      PROVE  UNCHANGED clients
  BY <1>7 DEF SubmitNew, SubmitEdit, SubmitStatus, SubmitMatter, EditRead, StatusRead, MatterRead,
              MatterWrite, Continues, Refuses
<1>8. ASSUME NEW m \in Person,
             \/ ChooseFilter(m) \/ Focus(m) \/ LoadMore(m) \/ ReadPage(m) \/ ReadMore(m) \/ FetchFails(m)
      PROVE  UNCHANGED clients
  BY <1>8, ScreenSteps DEF DirectoryInv
<1>9. QED
  BY <1>2, <1>3, <1>4, <1>5, <1>6, <1>7, <1>8 DEF DirectoryNext

(* A withdrawn client keeps its name, even when the withdrawal passes between *)
(* the read and the write of an edit (client.repository.ts update).           *)
THEOREM WithdrawnKeepTheirName == DirectorySpec => WithdrawnIsNotEdited
<1>1. DirectorySpec => [][KeepsWithdrawn]_directoryVars
  BY DirectoryInvHolds, WithdrawnAreKept, PTL DEF DirectorySpec
<1>2. QED
  BY <1>1 DEF WithdrawnIsNotEdited, KeepsWithdrawn
===============================================================================
