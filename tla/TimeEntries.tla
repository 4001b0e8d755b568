------------------------------ MODULE TimeEntries ------------------------------
(***************************************************************************)
(* The hours of one member: the timer and the entries on the server, and   *)
(* the tabs of /horas that show cached copies of them and send what the    *)
(* person presses.  A request is one transaction whose clock stands still  *)
(* at its BEGIN: Begin takes the clock and asks the scope resolver, Commit *)
(* runs the statements under their row locks.  A tab shows one range of    *)
(* days; the copies of the timer and of one range are followed.  What is   *)
(* written from another range is what any device may send.  Descriptions   *)
(* and the day's zone are left out; a unit of time is a part of a day.     *)
(***************************************************************************)
EXTENDS Naturals, Sequences, FiniteSets, FiniteSetsExt

CONSTANTS Tab,           \* tabs and devices, each with at most one call under way
          Watched,       \* those whose screens are followed; the others send anything
          Case,          \* matters of the firm
          Unrestricted,  \* the member is a managing partner
          Window,        \* the correction window of 24 hours
          MaxMinutes,    \* the longest entry: one day
          DayLength,     \* units of time in a day
          Durations,     \* the durations people enter
          MaxClock,      \* bound: the latest time
          MaxChanges     \* bound: how many calls may change rows

ASSUME TimeAssumption ==
  /\ Watched \subseteq Tab /\ Unrestricted \in BOOLEAN
  /\ Window \in Nat /\ MaxMinutes \in Nat \ {0} /\ DayLength \in Nat \ {0}
  /\ Durations \subseteq Nat /\ MaxClock \in Nat /\ MaxChanges \in Nat

Query == {"timer", "sheet"}
Viewer == Watched \X Query

\* A tab is at /horas with the range that is followed, there with another one, or elsewhere.
Places == {"range", "other range", "elsewhere"}
DialogOps == {"log", "correct", "void"}

VARIABLES rows,     \* time_entry: the member's rows, by the order they were inserted in
          clock,    \* now
          team,     \* the matters the member has a live assignment on
          call,     \* call[t]: the dialog or request of tab t
          place,    \* place[t]: what the screen of t shows
          view,     \* view[x]: the cached copy a tab has of a query
          flight,   \* flight[x]: the answers of x's fetch under way, none or one
          stale,    \* the copies a fetch was sent for
          version,  \* committed changes so far
          owed,     \* history: owed[x]: the latest change that x's next copy is to show
          missed    \* history: the copies with a fetch that is older than what their tab was told

vars == <<rows, clock, team, call, place, view, flight, stale, version, owed, missed>>

-----------------------------------------------------------------------------
\* Rows and what the queries answer.

EntryRow == [status : {"running", "logged", "voided"}, source : {"timer", "manual"}, case : Case,
             started : Nat, minutes : 0 .. MaxMinutes, logged : Nat, day : Nat]

Today(at) == at \div DayLength

With(status) == {id \in DOMAIN rows : rows[id].status = status}

Reachable(c) == Unrestricted \/ c \in team

Listed == {id \in With("logged") : Reachable(rows[id].case)}

WindowOpen(id, at) == rows[id].logged + Window > at

Correctable(at) == {id \in Listed : WindowOpen(id, at)}

\* A timer on a matter out of reach is shown without its matter.
Answer(q) ==
  [has |-> TRUE, v |-> version, ok |-> TRUE,
   ids |-> IF q = "timer" THEN With("running") ELSE Correctable(clock),
   available |-> q = "timer" => \A id \in With("running") : Reachable(rows[id].case)]

SumMinutes(ids) == MapThenSumSet(LAMBDA id : rows[id].minutes, ids)

\* Mutant: a day's total is its longest entry.
LongestOfDay(ids) ==
  [d \in {rows[id].day : id \in ids} |-> Max({rows[id].minutes : id \in {i \in ids : rows[i].day = d}})]

DayTotals(ids) ==
  [d \in {rows[id].day : id \in ids} |-> SumMinutes({id \in ids : rows[id].day = d})]

-----------------------------------------------------------------------------
NoCall == [phase |-> "idle", op |-> "none", case |-> "none", id |-> 0,
           day |-> 0, minutes |-> 0, began |-> 0, change |-> 0, closed |-> FALSE]

OnScreen(x) == place[x[1]] = "range" \/ (place[x[1]] = "other range" /\ x[2] = "timer")

\* Nothing was fetched yet; the version is that of the copy there was before.
NoCopy(v) == [has |-> FALSE, v |-> v, ok |-> TRUE, ids |-> {}, available |-> TRUE]

Init ==
  /\ rows = <<>> /\ clock = 0 /\ team = Case /\ version = 0
  /\ call = [t \in Tab |-> NoCall]
  /\ place \in [Watched -> Places] /\ stale = {x \in Viewer : OnScreen(x)}
  /\ view = [x \in Viewer |-> NoCopy(0)]
  /\ flight = [x \in Viewer |-> {}]
  /\ owed = [x \in Viewer |-> 0] /\ missed = {}

Screen == <<place, view, flight, stale, owed, missed>>
Server == <<rows, version>>

Pending == {t \in Tab : call[t].phase \in {"sent", "begun"}}
MayChange == version + Cardinality(Pending) < MaxChanges

Request(op, c, id) == [NoCall EXCEPT !.op = op, !.case = c, !.id = id]

Send(t, request) ==
  /\ MayChange
  /\ call' = [call EXCEPT ![t] = [request EXCEPT !.phase = "sent"]]
  /\ UNCHANGED <<Server, Screen, clock, team>>

-----------------------------------------------------------------------------
\* The screens: what a person can press, judged by the tab's copies.

Shown(t, q) == IF view[t, q].ok THEN view[t, q].ids ELSE {}

\* The timer card without a timer, or before it has its first copy: a matter is chosen and
\* the timer started.
PressStart(t) ==
  /\ call[t].phase = "idle" /\ place[t] # "elsewhere" /\ view[t, "timer"].ok /\ view[t, "timer"].ids = {}
  /\ \E c \in Case : Send(t, Request("start", c, 0))

PressStop(t) ==
  /\ call[t].phase = "idle" /\ place[t] # "elsewhere" /\ view[t, "timer"].available
  /\ \E id \in Shown(t, "timer") : Send(t, Request("stop", rows[id].case, id))

PressDiscard(t) ==
  /\ call[t].phase = "idle" /\ place[t] # "elsewhere"
  /\ \E id \in Shown(t, "timer") : Send(t, Request("discard", "none", id))

\* A dialog keeps the entry it was opened on, whatever the list shows later.
Opens(t, request) == call' = [call EXCEPT ![t] = [request EXCEPT !.phase = "open"]]

OpenDialog(t) ==
  /\ call[t].phase = "idle" /\ place[t] # "elsewhere"
  /\ \/ Opens(t, Request("log", "none", 0))
     \/ /\ place[t] = "range"
        /\ \E op \in {"correct", "void"}, id \in Shown(t, "sheet") : Opens(t, Request(op, rows[id].case, id))
  /\ UNCHANGED <<Server, Screen, clock, team>>

DialogUp(t) == call[t].op \in DialogOps /\ ~call[t].closed

\* Also while its request is under way, which goes on.
CloseDialog(t) ==
  /\ DialogUp(t)
  /\ call' = [call EXCEPT ![t] = IF @.phase = "open" THEN NoCall ELSE [@ EXCEPT !.closed = TRUE]]
  /\ UNCHANGED <<Server, Screen, clock, team>>

\* Another range, another page, or back.  A copy that comes to the screen is fetched, or joins
\* the fetch there is; one that leaves it keeps its data, and its fetch goes on.
Turn(t) ==
  /\ ~DialogUp(t)
  /\ \E p \in Places \ {place[t]} : place' = [place EXCEPT ![t] = p]
  /\ stale' = stale \cup {x \in Viewer : OnScreen(x)' /\ ~OnScreen(x) /\ flight[x] = {}}
  /\ UNCHANGED <<Server, call, view, flight, owed, missed, clock, team>>

\* The cache drops a copy that no screen has used for minutes.
Forget(x) ==
  /\ ~OnScreen(x) /\ view[x].has /\ flight[x] = {} /\ x \notin stale
  /\ view' = [view EXCEPT ![x] = NoCopy(@.v)]
  /\ UNCHANGED <<Server, call, place, flight, stale, owed, missed, clock, team>>

\* The form's rules: a day that is not in the future, a duration of at most a day.
FormAllows(day, minutes) == day <= Today(clock) /\ minutes \in 1 .. MaxMinutes

SubmitForm(t) ==
  /\ call[t].phase = "open" /\ call[t].op \in {"log", "correct"}
  /\ \E day \in 0 .. Today(MaxClock), minutes \in Durations,
        c \in IF call[t].op = "log" THEN Case ELSE {call[t].case} :
       /\ FormAllows(day, minutes)
       /\ Send(t, [call[t] EXCEPT !.case = c, !.day = day, !.minutes = minutes])

ConfirmVoid(t) ==
  /\ call[t].phase = "open" /\ call[t].op = "void"
  /\ Send(t, call[t])

\* Another device, whose screen may show anything, sends any request.
SendElsewhere(t) ==
  /\ call[t].phase = "idle"
  /\ \E op \in {"start", "stop", "discard", "log", "correct", "void"}, c \in Case,
        day \in Today(clock) .. Today(clock) + 1 :
       \E id \in IF op \in {"correct", "void"} THEN DOMAIN rows ELSE {0}, minutes \in Durations :
         Send(t, [Request(op, c, id) EXCEPT !.day = IF op \in {"log", "correct"} THEN day ELSE 0,
                                            !.minutes = IF op \in {"log", "correct"} THEN minutes ELSE 0])

-----------------------------------------------------------------------------
\* The server.

Answered(t, result, change) ==
  call' = [call EXCEPT ![t] = IF t \in Watched
                              THEN [@ EXCEPT !.phase = result, !.change = change]
                              ELSE NoCall]

Refuse(t) == Answered(t, "refused", 0) /\ UNCHANGED Server

Write(t, newRows) ==
  /\ rows' = newRows
  /\ version' = version + 1
  /\ Answered(t, "done", version + 1)

\* BEGIN, the scope resolver and, for a start, the look at the running timer.
Begin(t) ==
  /\ call[t].phase = "sent"
  /\ IF \/ call[t].op # "discard" /\ ~Reachable(call[t].case)
        \/ call[t].op = "start" /\ With("running") # {}
     THEN Refuse(t)
     ELSE call' = [call EXCEPT ![t].phase = "begun", ![t].began = clock] /\ UNCHANGED Server
  /\ UNCHANGED <<Screen, clock, team>>

Entry(t, source, status, at) ==
  [status |-> status, source |-> source, case |-> call[t].case, started |-> at, minutes |-> 0,
   logged |-> 0, day |-> Today(at)]

\* Mutant: no unique index, only the look before the insert.
StartWithoutIndex(t) == Write(t, Append(rows, Entry(t, "timer", "running", call[t].began)))

\* time_entry_one_running_timer refuses the insert a second timer would make.
Start(t) ==
  IF With("running") # {}
  THEN Refuse(t)
  ELSE Write(t, Append(rows, Entry(t, "timer", "running", call[t].began)))

\* The elapsed time on the transaction's clock; at least one, also when it is negative.
Elapsed(id, at) == IF at > rows[id].started THEN at - rows[id].started ELSE 1

\* Mutant: no limit on how long a timer runs.
StoppableAnyLength(t) ==
  {id \in With("running") : rows[id].case = call[t].case /\ call[t].began >= rows[id].started}

\* lockRunningOn, exceedsDay and time_entry_stop_after_start.
Stoppable(t) ==
  {id \in With("running") : /\ rows[id].case = call[t].case
                            /\ Elapsed(id, call[t].began) <= MaxMinutes
                            /\ call[t].began >= rows[id].started}

Stop(t) ==
  \/ /\ Stoppable(t) = {}
     /\ Refuse(t)
  \/ \E id \in Stoppable(t) :
       Write(t, [rows EXCEPT ![id].status = "logged", ![id].logged = call[t].began,
                             ![id].minutes = Elapsed(id, call[t].began)])

\* The statement names no row: it voids the timer that runs now.
Discard(t) ==
  \/ With("running") = {} /\ Refuse(t)
  \/ \E id \in With("running") : Write(t, [rows EXCEPT ![id].status = "voided"])

\* The body's bounds, again on the server, and the day on the transaction's clock.
BodyAllows(t) == call[t].minutes \in 1 .. MaxMinutes /\ call[t].day <= Today(call[t].began)

Log(t) ==
  IF BodyAllows(t)
  THEN Write(t, Append(rows, [Entry(t, "manual", "logged", call[t].began) EXCEPT
                                !.minutes = call[t].minutes, !.logged = call[t].began, !.day = call[t].day]))
  ELSE Refuse(t)

\* Mutant: the window is judged by the screen that offers the dialog.
MayCorrectListed(t) == rows[call[t].id].case = call[t].case /\ rows[call[t].id].status = "logged"

\* lockOwn and correctable: judged on the row as it is under the lock.
MayCorrect(t) ==
  LET row == rows[call[t].id]
  IN  row.case = call[t].case /\ row.status = "logged" /\ WindowOpen(call[t].id, call[t].began)

Correct(t) ==
  IF MayCorrect(t) /\ BodyAllows(t)
  THEN Write(t, [rows EXCEPT ![call[t].id].minutes = call[t].minutes, ![call[t].id].day = call[t].day])
  ELSE Refuse(t)

Void(t) ==
  IF MayCorrect(t)
  THEN Write(t, [rows EXCEPT ![call[t].id].status = "voided"])
  ELSE Refuse(t)

Commit(t) ==
  /\ call[t].phase = "begun"
  /\ \/ call[t].op = "start" /\ Start(t)
     \/ call[t].op = "stop" /\ Stop(t)
     \/ call[t].op = "discard" /\ Discard(t)
     \/ call[t].op = "log" /\ Log(t)
     \/ call[t].op = "correct" /\ Correct(t)
     \/ call[t].op = "void" /\ Void(t)
  /\ UNCHANGED <<Screen, clock, team>>

-----------------------------------------------------------------------------
\* Answers and cached copies.

\* The timer's buttons refresh both queries, the dialogs the sheet.
Invalidates(op) == IF op \in {"start", "stop", "discard"} THEN Query ELSE {"sheet"}

\* Mutant: a fetch under way still delivers.
InvalidateLetting(X) == stale' = stale \cup {x \in X : OnScreen(x)} /\ flight' = flight

\* A fetch is dropped if its copy is on the screen and has data; a first fetch is joined, and
\* that of a copy off the screen goes on.
Drops(x) == OnScreen(x) /\ view[x].has

\* invalidateQueries: the copies on the screen are fetched again.
Invalidate(X) ==
  /\ stale' = stale \cup {x \in X : OnScreen(x) /\ (Drops(x) \/ flight[x] = {})}
  /\ flight' = [x \in Viewer |-> IF x \in X /\ Drops(x) THEN {} ELSE flight[x]]

\* The fetch that goes on has read before the change.
Misses(x, change) == ~Drops(x) /\ \E copy \in flight[x] : copy.v < change

Hear(t) ==
  /\ call[t].phase = "done"
  /\ call' = [call EXCEPT ![t] = NoCall]
  /\ LET X == {t} \X Invalidates(call[t].op)
         late == {x \in X : Misses(x, call[t].change)}
     IN  /\ Invalidate(X)
         /\ owed' = [x \in Viewer |-> IF x \in X \ late THEN call[t].change ELSE owed[x]]
         /\ missed' = missed \cup late
  /\ UNCHANGED <<Server, place, view, clock, team>>

\* A refused dialog stays open, unless it was closed; a refused button says why.
HearRefusal(t) ==
  /\ call[t].phase = "refused"
  /\ call' = [call EXCEPT ![t] = IF DialogUp(t)
                                 THEN [@ EXCEPT !.phase = "open", !.began = 0, !.day = 0, !.minutes = 0]
                                 ELSE NoCall]
  /\ UNCHANGED <<Server, Screen, clock, team>>

\* The answer is lost: the tab refreshes nothing.
Lose(t) ==
  /\ call[t].phase \in {"done", "refused"}
  /\ call' = [call EXCEPT ![t] = NoCall]
  /\ UNCHANGED <<Server, Screen, clock, team>>

\* The server reads for the fetch that was sent, or for one that is sent as the window gets
\* the focus.  A copy without data shows no error while it is being fetched.
Fetch(x) ==
  /\ x \in stale \/ (OnScreen(x) /\ stale = {})
  /\ flight[x] = {}
  /\ flight' = [flight EXCEPT ![x] = {Answer(x[2])}]
  /\ view' = [view EXCEPT ![x].ok = @ \/ ~view[x].has]
  /\ stale' = stale \ {x} /\ missed' = missed \ {x}
  /\ UNCHANGED <<Server, place, owed, call, clock, team>>

Arrive(x) ==
  /\ \E copy \in flight[x] : view' = [view EXCEPT ![x] = copy]
  /\ flight' = [flight EXCEPT ![x] = {}]
  /\ UNCHANGED <<Server, place, stale, owed, missed, call, clock, team>>

\* No retry: the screen shows the error instead of the copy.
FetchFails(x) ==
  /\ flight[x] # {}
  /\ view' = [view EXCEPT ![x] = [NoCopy(@.v) EXCEPT !.has = view[x].has, !.ok = FALSE]]
  /\ flight' = [flight EXCEPT ![x] = {}]
  /\ UNCHANGED <<Server, place, stale, owed, missed, call, clock, team>>

-----------------------------------------------------------------------------
\* The world: time, and the partner who takes the member off a team.

Tick ==
  /\ clock < MaxClock
  /\ clock' = clock + 1
  /\ UNCHANGED <<Server, Screen, call, team>>

Unassign ==
  /\ \E c \in team : team' = team \ {c}
  /\ UNCHANGED <<Server, Screen, call, clock>>

Next ==
  \/ \E t \in Watched : PressStart(t) \/ PressStop(t) \/ PressDiscard(t) \/ OpenDialog(t) \/ CloseDialog(t)
                        \/ SubmitForm(t) \/ ConfirmVoid(t) \/ Turn(t) \/ Hear(t) \/ HearRefusal(t) \/ Lose(t)
  \/ \E t \in Tab \ Watched : SendElsewhere(t)
  \/ \E t \in Tab : Begin(t) \/ Commit(t)
  \/ \E x \in Viewer : Fetch(x) \/ Arrive(x) \/ FetchFails(x) \/ Forget(x)
  \/ Tick \/ Unassign

\* A request is answered, and a fetch is sent and ends; nobody has to press anything.
Spec == Init /\ [][Next]_vars
FairSpec ==
  /\ Spec
  /\ \A x \in Viewer : WF_vars(x \in stale /\ Fetch(x)) /\ WF_vars(Arrive(x) \/ FetchFails(x))

-----------------------------------------------------------------------------
TypeOK ==
  /\ rows \in Seq(EntryRow)
  /\ clock \in 0 .. MaxClock /\ team \subseteq Case /\ stale \cup missed \subseteq Viewer /\ version \in Nat
  /\ \A id \in With("logged") : rows[id].minutes \in 1 .. MaxMinutes /\ rows[id].day <= Today(clock)
  /\ \A x \in Viewer : view[x].v <= version /\ owed[x] <= version /\ Cardinality(flight[x]) <= 1

\* A person has one running timer, however many tabs start one at once.
OneTimerPerMember == Cardinality(With("running")) <= 1

\* The day totals of the sheet add up to its total (duration.ts).
TotalsAddUp ==
  LET totals == DayTotals(Listed)
  IN  MapThenSumSet(LAMBDA d : totals[d], DOMAIN totals) = SumMinutes(Listed)

\* A voided entry stays as it is, and so does a logged one once its window has
\* closed for every call under way: no stale dialog rewrites recorded time.
Final(id) ==
  \/ rows[id].status = "voided"
  \/ /\ rows[id].status = "logged" /\ ~WindowOpen(id, clock)
     /\ \A t \in Tab : call[t].phase = "begun" => ~WindowOpen(id, call[t].began)
FinalStaysFinal == [][\A id \in DOMAIN rows : Final(id) => rows'[id] = rows[id]]_vars

\* The tabs keep what CachedView promises: a write whose answer a tab has had is
\* in its next copies, and they come, or the tab says that they do not.  Not owed is a write
\* to a copy whose fetch went on, as a first one does, and had read before the write.
Copies == INSTANCE CachedView WITH
  seen <- [x \in Viewer |-> view[x].v],
  shown <- [x \in Viewer |-> OnScreen(x) /\ view[x].has /\ view[x].ok]
ImplementsCachedView == Copies!FairSpec

\* The dialogs and buttons have the lists fetched again after a write: what is on the screen
\* and not being fetched has it.
WritesAreShown ==
  \A x \in missed : OnScreen(x) /\ view[x].has /\ view[x].ok => flight[x] # {} \/ x \in stale

\* The code's comment (TimerCard.tsx): a second tab shows the same timer.  What a
\* stop or discard ends is the timer its tab showed.
EndsWhatIsShown ==
  [][\A t \in Watched, id \in DOMAIN rows :
       (call[t].phase = "begun" /\ call'[t].phase = "done" /\ call[t].op \in {"stop", "discard"}
          /\ rows'[id] # rows[id]) => id = call[t].id]_vars
=============================================================================
