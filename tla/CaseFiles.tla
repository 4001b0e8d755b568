------------------------------- MODULE CaseFiles -------------------------------
(***************************************************************************)
(* The firm's matters.  A member opens one from the register in a panel,   *)
(* moves it between the firm's own statuses and declares how it ended; a   *)
(* request reads the matter, the status and writes, with the other         *)
(* members' requests between its statements.  The status catalog changes   *)
(* under them.  The KPIs are computed from what is stored.  A matter is    *)
(* named by its file number; names, references and money are left out.     *)
(***************************************************************************)
EXTENDS Integers, FiniteSets

CONSTANTS Member,        \* people with the register open
          Watched,       \* those of them whose panel and cache are followed (bound)
          Unrestricted,  \* those of them whose role sees every matter (MP, SA)
          Case,          \* file numbers
          Outcomes,      \* how a matter ends
          Successes,     \* the outcomes that count as a success
          MatterOf,      \* the kind of each matter, chosen when it is created, or None
          Status,        \* entries of the status catalog
          Closing,       \* the entries seeded as ending a matter
          None,
          Entered,       \* the months of opening a form may give (bound)
          Start,         \* the month the model begins in, counted from January of year 0
          MaxMonth,      \* bound: the last month
          MinDeclared,   \* outcomes a rate needs: 5
          MaxRedefined   \* bound: statuses whose meaning is changed, once each

\* The columns of case_file that follow its life.
Files == [status : Status, opened : Nat, closed : Nat \cup {None},
          outcome : Outcomes \cup {None}]

ASSUME CaseAssumption ==
  /\ Unrestricted \cup Watched \subseteq Member /\ Closing \subseteq Status /\ Successes \subseteq Outcomes
  /\ None \notin Member \cup Status \cup Outcomes \cup Nat \cup Files \cup (Nat \X Nat)
  /\ IsFiniteSet(Case) /\ MinDeclared \in Nat \ {0}
  /\ Entered \subseteq Nat /\ Start \in Nat /\ MaxMonth \in Nat /\ MaxRedefined \in Nat

VARIABLES files,    \* case_file: files[c] is the matter, or None
          entries,  \* case_status: active or retired, and is_closing
          team,     \* pairs of a matter and a member with a live assignment
          month,    \* the calendar
          redefined,  \* the statuses whose meaning was changed
          req,      \* req[m]: the request of m the server works on
          tab       \* tab[m]: the panel of m, if watched, and what the cache holds

vars == <<files, entries, team, month, redefined, req, tab>>

Filed == {c \in Case : files[c] # None}
Active == {s \in Status : entries[s].active}

\* AssignedScopeResolver: whether a member's request on a matter goes past the guard.
Reaches(m, c) == c \in Filed /\ (m \in Unrestricted \/ <<c, m>> \in team)

\* The register: the query keeps only the matters the member reaches.
Register(m) == {c \in Filed : Reaches(m, c)}

Idle == [phase |-> "idle"]
Closed == [shown |-> None, detail |-> None, audited |-> FALSE]

\* The firm is provisioned with a catalog of statuses; nobody has opened a matter.
Init ==
  /\ files = [c \in Case |-> None]
  /\ entries = [s \in Status |-> [active |-> TRUE, closing |-> s \in Closing]]
  /\ team = Case \X (Member \ Unrestricted)
  /\ month = Start
  /\ redefined = {}
  /\ req = [m \in Member |-> Idle]
  /\ tab = [m \in Watched |-> Closed]

Firm == <<entries, team, month, redefined>>

At(m, phase) == req[m].phase = phase
Goes(m, r) == req' = [req EXCEPT ![m] = r]
Tab(m, t) == tab' = [tab EXCEPT ![m] = t]

-----------------------------------------------------------------------------
\* The register's panel and forms.

\* What the panel keeps of a matter.
Detail(f) == [status |-> f.status, over |-> f.closed # None, outcome |-> f.outcome]

\* The panel is a snapshot.  A copy in the cache is shown as it is, and only a read
\* of the server is an audited access; a matter the member is not on reads as absent.
OpenPanel(m) ==
  /\ m \in Watched /\ tab[m].shown = None
  /\ \E c \in Case :
       IF tab[m].detail # None
       THEN Tab(m, [tab[m] EXCEPT !.shown = c, !.audited = FALSE])
       ELSE Reaches(m, c) /\ Tab(m, [tab[m] EXCEPT !.shown = c, !.detail = Detail(files[c]), !.audited = TRUE])
  /\ UNCHANGED <<files, Firm, req>>

ClosePanel(m) ==
  /\ m \in Watched /\ tab[m].shown # None
  /\ Tab(m, [tab[m] EXCEPT !.shown = None, !.audited = FALSE])
  /\ UNCHANGED <<files, Firm, req>>

\* The cache drops a copy five minutes after the panel was closed.
Forget(m) ==
  /\ m \in Watched /\ tab[m].shown = None /\ tab[m].detail # None
  /\ Tab(m, [tab[m] EXCEPT !.detail = None])
  /\ UNCHANGED <<files, Firm, req>>

\* Picking in the panel's select sends at once.  The catalog is kept for five minutes,
\* so an entry may be offered that was retired since.
PickStatus(m) ==
  /\ At(m, "idle")
  /\ \E c \in Case, s \in Status :
       /\ m \in Watched => tab[m].shown = c /\ tab[m].detail.status # s
       /\ Goes(m, [phase |-> "move", case |-> c, to |-> s])
  /\ UNCHANGED <<files, Firm, tab>>

\* The control is there when the snapshot shows a closed matter.
PickOutcome(m) ==
  /\ At(m, "idle")
  /\ \E c \in Case, o \in Outcomes :
       /\ m \in Watched => tab[m].shown = c /\ tab[m].detail.over /\ tab[m].detail.outcome # o
       /\ Goes(m, [phase |-> "declare", case |-> c, to |-> o])
  /\ UNCHANGED <<files, Firm, tab>>

\* The form of a new matter: its lists may be old.  A number that is taken already
\* is refused as one taken in the meantime is.
SubmitCase(m) ==
  /\ At(m, "idle")
  /\ \E c \in Case \ Filed, s \in Status : Goes(m, [phase |-> "create", case |-> c, to |-> s])
  /\ UNCHANGED <<files, Firm, tab>>

-----------------------------------------------------------------------------
\* The server's statements.

Answered(m) == Goes(m, Idle)

\* A refusal, or an error of the database nobody caught, leaves the matter alone.
Refused(m) == Answered(m) /\ UNCHANGED files

\* What the panel does with an answer: a success makes it read the matter again.
Hears(m, c) ==
  IF m \in Watched /\ tab[m].shown = c THEN Tab(m, [tab[m] EXCEPT !.detail = Detail(files'[c]), !.audited = TRUE]) ELSE UNCHANGED tab

\* create: the client, the status and then the row.  The clients are a module of their
\* own: here the client is found active or is not.
CreateClient(m) ==
  /\ At(m, "create")
  /\ Goes(m, [req[m] EXCEPT !.phase = "createStatus"]) \/ Answered(m)
  /\ UNCHANGED <<files, Firm, tab>>

CreateStatus(m) ==
  /\ At(m, "createStatus")
  /\ LET s == req[m].to IN
       IF entries[s].active
       THEN Goes(m, [phase |-> "insert", case |-> req[m].case, to |-> s, closing |-> entries[s].closing])
       ELSE Answered(m)
  /\ UNCHANGED <<files, Firm, tab>>

\* The server takes its days from UTC: on the last evening of a month of the firm's it is
\* the next month already.
Today == {month, month + 1}

\* The day the form gave, whichever it is, or today's, which the database tells of the opening
\* and the server of the end.
Birth == {<<day, day>> : day \in Entered} \cup (Today \X Today)

\* A matter in a closing status is closed at birth.
CreateInsert(m) ==
  /\ At(m, "insert")
  /\ LET r == req[m] IN
       IF r.case \in Filed
       THEN Refused(m)
       ELSE /\ \E days \in Birth :
                 files' = [files EXCEPT ![r.case] = [status |-> r.to, opened |-> days[1], outcome |-> None,
                                                     closed |-> IF r.closing THEN days[2] ELSE None]]
            /\ Answered(m)
  /\ UNCHANGED <<Firm, tab>>

\* changeStatus: the guard's scope, the matter and its status, the new status, the write.
MoveRead(m) ==
  /\ At(m, "move")
  /\ LET r == req[m] IN
       IF Reaches(m, r.case) /\ files[r.case].status # r.to
       THEN Goes(m, [r EXCEPT !.phase = "moveStatus"]) ELSE Answered(m)
  /\ UNCHANGED <<files, Firm, tab>>

MoveStatus(m) ==
  /\ At(m, "moveStatus")
  /\ LET r == req[m] IN
       IF entries[r.to].active
       THEN Goes(m, [phase |-> "moveWrite", case |-> r.case, to |-> r.to, closing |-> entries[r.to].closing])
       ELSE Answered(m)
  /\ UNCHANGED <<files, Firm, tab>>

\* Mutant: the date is stamped and never cleared.
MovedKeepingDate(f, r, today) == [f EXCEPT !.status = r.to, !.closed = IF r.closing THEN today ELSE @]

\* Mutant: a matter that is reopened starts over.
MovedAnew(f, r, today) ==
  [f EXCEPT !.status = r.to, !.closed = IF r.closing THEN today ELSE None,
            !.outcome = IF r.closing THEN @ ELSE None]

Moved(f, r, today) == [f EXCEPT !.status = r.to, !.closed = IF r.closing THEN today ELSE None]

\* case_file_outcome_requires_closed.
MayStore(f) == f.outcome # None => f.closed # None

MoveWrite(m) ==
  /\ At(m, "moveWrite")
  /\ \E today \in Today :
       LET c == req[m].case
           moved == Moved(files[c], req[m], today)
       IN  IF MayStore(moved)
           THEN files' = [files EXCEPT ![c] = moved] /\ Answered(m) /\ Hears(m, c)
           ELSE Refused(m) /\ UNCHANGED tab
  /\ UNCHANGED Firm

\* declareOutcome: a closed matter is read, and the outcome written.
DeclareRead(m) ==
  /\ At(m, "declare")
  /\ LET r == req[m] IN
       IF Reaches(m, r.case) /\ files[r.case].closed # None
       THEN Goes(m, [r EXCEPT !.phase = "declareWrite"]) ELSE Answered(m)
  /\ UNCHANGED <<files, Firm, tab>>

DeclareWrite(m) ==
  /\ At(m, "declareWrite")
  /\ LET c == req[m].case
         declared == [files[c] EXCEPT !.outcome = req[m].to]
     IN  IF MayStore(declared)
         THEN files' = [files EXCEPT ![c] = declared] /\ Answered(m) /\ Hears(m, c)
         ELSE Refused(m) /\ UNCHANGED tab
  /\ UNCHANGED Firm

-----------------------------------------------------------------------------
\* The firm around them.

RetireStatus ==
  /\ \E s \in Active : entries' = [entries EXCEPT ![s].active = FALSE]
  /\ UNCHANGED <<files, team, month, redefined, req, tab>>

\* setIsClosing changes what a status means, and no matter.
SetIsClosing ==
  /\ Cardinality(redefined) < MaxRedefined
  /\ \E s \in Status \ redefined :
       entries' = [entries EXCEPT ![s].closing = ~@] /\ redefined' = redefined \cup {s}
  /\ UNCHANGED <<files, team, month, req, tab>>

Unassign ==
  /\ \E pair \in team : team' = team \ {pair}
  /\ UNCHANGED <<files, entries, month, redefined, req, tab>>

NextMonth ==
  /\ month < MaxMonth /\ month' = month + 1
  /\ UNCHANGED <<files, entries, team, redefined, req, tab>>

Next ==
  \/ \E m \in Member :
       \/ OpenPanel(m) \/ ClosePanel(m) \/ Forget(m)
       \/ PickStatus(m) \/ PickOutcome(m) \/ SubmitCase(m)
       \/ CreateClient(m) \/ CreateStatus(m) \/ CreateInsert(m)
       \/ MoveRead(m) \/ MoveStatus(m) \/ MoveWrite(m) \/ DeclareRead(m) \/ DeclareWrite(m)
  \/ RetireStatus \/ SetIsClosing \/ Unassign \/ NextMonth

Spec == Init /\ [][Next]_vars

-----------------------------------------------------------------------------
\* The KPIs.  A window is a pair of months, both included.

QuarterOf(m) == m - (m % 3)

Windows(kind) ==
  CASE kind = "month" -> [current |-> <<month, month>>, previous |-> <<month - 1, month - 1>>]
    [] kind = "quarter" -> LET q == QuarterOf(month)
                           IN  [current |-> <<q, q + 2>>, previous |-> <<q - 3, q - 1>>]
    [] kind = "year" -> LET y == month - (month % 12)
                        IN  [current |-> <<y, y + 11>>, previous |-> <<y - 12, y - 1>>]

In(window, m) == m # None /\ window[1] <= m /\ m <= window[2]

\* Mutant: the bars are three months long from today's month back.
RollingStart(i, count) == month - 3 * (count - i)

\* The first month of a quarter of the trend, the oldest first; each bar has three months.
QuarterStart(i, count) == QuarterOf(month) - 3 * (count - i)

ActiveCases == {c \in Filed : ~entries[files[c].status].closing}
ClosedIn(window) == {c \in Filed : In(window, files[c].closed)}

\* Matters whose dates cannot be true are counted in no average.
Resolved(window) == {c \in ClosedIn(window) : files[c].closed >= files[c].opened}

Declared(window) == {c \in ClosedIn(window) : files[c].outcome # None}

\* A rate is a pair of counts; below the minimum of declared outcomes there is none.
RateOf(matters, minimum) ==
  IF Cardinality(matters) < minimum THEN None
  ELSE <<Cardinality({c \in matters : files[c].outcome \in Successes}), Cardinality(matters)>>

ByMatter(window) ==
  [t \in {MatterOf[c] : c \in ClosedIn(window)} |-> {c \in Declared(window) : MatterOf[c] = t}]

Trend(count) == [i \in 1 .. count |-> Resolved(<<QuarterStart(i, count), QuarterStart(i, count) + 2>>)]

\* Active matters by the member who leads them, with a group of those nobody leads.
Load ==
  [m \in Member \cup {None} |->
     {c \in ActiveCases : IF m = None THEN \A n \in Member : <<c, n>> \notin team ELSE <<c, m>> \in team}]

\* The answer of GET /kpis.
Summary(kind) ==
  LET w == Windows(kind)
  IN  [active |-> ActiveCases, resolved |-> Resolved(w.current), resolvedBefore |-> Resolved(w.previous),
       declared |-> Declared(w.current), undeclared |-> ClosedIn(w.current) \ Declared(w.current),
       rate |-> RateOf(Declared(w.current), MinDeclared),
       types |-> ByMatter(w.current), trend |-> Trend(6), load |-> Load]

\* The charts: a bar per kind of matter with a rate, per quarter with matters, per person.
TypeBars(s) == {t \in DOMAIN s.types : RateOf(s.types[t], 1) # None}
TrendBars(s) == {i \in DOMAIN s.trend : s.trend[i] # {}}
LoadBars(s) == {m \in DOMAIN s.load : s.load[m] # {}}

\* The dashboard: a tile without a figure says that there is not enough data.
Dashboard(s) ==
  [enough |-> s.rate # None, average |-> s.resolved # {}, sample |-> Cardinality(s.declared),
   types |-> TypeBars(s), trend |-> TrendBars(s), load |-> LoadBars(s)]

-----------------------------------------------------------------------------
TypeOK ==
  /\ files \in [Case -> Files \cup {None}]
  /\ entries \in [Status -> [active : BOOLEAN, closing : BOOLEAN]]
  /\ team \subseteq Case \X Member /\ month \in Nat /\ redefined \subseteq Status

\* The end of a matter is a statement that is corrected and never taken back: a matter
\* with an outcome keeps one, and keeps being closed.  (case.service.ts declareOutcome.)
EndIsKept ==
  [][\A c \in Filed : files[c].outcome # None => files'[c].outcome # None /\ files'[c].closed # None]_vars

\* While nobody redefines a status, a matter has a closing date exactly when its status
\* ends a matter.  (case.service.ts changeStatus: the single place the date moves.)
DateTellsStatus ==
  \A c \in Filed :
    files[c].status \notin redefined => (files[c].closed # None <=> entries[files[c].status].closing)

\* The dashboard agrees with itself: the last two bars of the trend are the quarter's tile
\* and the one before, its kinds of matter share out the rate's, every active matter is in
\* somebody's load or nobody's, and a period ends where the next begins.  (kpi.service.ts.)
KpisAgree ==
  \A kind \in {"month", "quarter", "year"} :
    LET s == Summary(kind)
        w == Windows(kind)
        d == Dashboard(s)
    IN  /\ s.declared = UNION {s.types[t] : t \in DOMAIN s.types}
        /\ s.active = UNION {s.load[m] : m \in DOMAIN s.load}
        /\ w.previous[2] + 1 = w.current[1] /\ month \in w.current[1] .. w.current[2]
        /\ d.enough => d.types # {}
        /\ kind = "quarter" => /\ s.trend[6] = s.resolved /\ s.trend[5] = s.resolvedBefore
                               /\ 6 \in d.trend <=> d.average

\* case.service.ts says that a matter closed at 23:50 in Mexico City reads as that day.
ClosedTheSameDay ==
  [][\A m \in Member :
       At(m, "moveWrite") /\ files' # files =>
         files'[req[m].case].closed \in {None, month}]_vars

\* kpi.repository.ts says that closed is always case_status.is_closing and never the
\* date alone: no matter counts as active and as closed.
CountedOnce ==
  \A c \in ActiveCases : files[c].closed = None

\* CaseDetailPanel.tsx says that one deliberate open is one entry of the access log.
EveryOpenIsAudited == \A m \in Watched : tab[m].shown # None => tab[m].audited

\* case.service.ts says that no change of status is a no-op.
NoMoveIsNoOp ==
  [][\A m \in Member :
       At(m, "moveWrite") /\ ~At(m, "moveWrite")' /\ files' # files =>
         files'[req[m].case].status # files[req[m].case].status]_vars
=============================================================================
