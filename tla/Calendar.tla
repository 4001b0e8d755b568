------------------------------- MODULE Calendar -------------------------------
(***************************************************************************)
(* The firm's calendar: members create, edit and cancel events through     *)
(* dialogs.  An edit sends the fields its form changed; the server reads   *)
(* the event, merges them into it, validates the whole and later writes    *)
(* the whole back, without a lock in between.  The month grid and the      *)
(* reminders panel read what is stored.  Titles and places are left out.   *)
(***************************************************************************)
EXTENDS Naturals, FiniteSets, FiniteSetsExt, Functions

CONSTANTS Member,      \* people with the calendar open
          Partner,     \* those of them who are managing partners
          Event,       \* events there is room for (bound), numbered in the order of their ids
          Matter,      \* matters of the firm
          Times,       \* the shapes people enter: records of the time fields
          NoCase, NoTime,
          PageSize,    \* reminders a panel has room for: 50
          DayLen,      \* instants in a day
          Week,        \* days in a week: 7
          Months,      \* pairs of a month's first and last day
          MaxInstant   \* bound: the last instant

\* What a form can hold besides a matter.
Shapes == LET Time == Nat \cup {NoTime} IN
  [allDay : BOOLEAN, startsAt : Time, endsAt : Time, startsOn : Time, endsOn : Time, remind : Time]

ASSUME CalendarAssumption ==
  /\ Partner \subseteq Member /\ Event \subseteq Nat /\ NoCase \notin Matter /\ PageSize \in Nat \ {0}
  /\ Times \subseteq Shapes
  /\ \A month \in Months : month \in Nat \X Nat /\ month[1] <= month[2]
  /\ DayLen \in Nat \ {0} /\ Week \in Nat \ {0} /\ MaxInstant \in Nat

VARIABLES events,   \* calendar_event: events[e] is the event, or Nothing
          matters,  \* the matters each member has a live assignment on
          instant,  \* the clock
          desk,     \* desk[m]: the dialog or request of m
          panel     \* panel[m]: the reminders that m sees

calendarVars == <<events, matters, instant, desk, panel>>

\* An event is all day, with dates, or timed, with instants.
Fields == {"case", "allDay", "startsAt", "endsAt", "startsOn", "endsOn", "remind"}

Nothing == [status |-> "none"]
Row(input, status) == [status |-> status, input |-> input]

Stored == {e \in Event : events[e] # Nothing}
Scheduled == {e \in Stored : events[e].status = "scheduled"}

Reaches(m, c) == m \in Partner \/ c = NoCase \/ c \in matters[m]

Visible(m) == {e \in Stored : Reaches(m, events[e].input.case)}

\* The form's bodies: a time, with a matter or without.
Inputs == {[f \in Fields |-> IF f = "case" THEN c ELSE t[f]] : t \in Times, c \in Matter \cup {NoCase}}

Begins(input) == IF input.allDay THEN input.startsOn ELSE input.startsAt
Ends(input) == IF input.allDay THEN input.endsOn ELSE input.endsAt

\* normaliseEventInput: the fields of the other shape are dropped.
Normalised(raw) ==
  [f \in Fields |-> IF f \in (IF raw.allDay THEN {"startsAt", "endsAt"} ELSE {"startsOn", "endsOn"})
                   THEN NoTime ELSE raw[f]]

\* Its refusals, which the constraints of the table repeat.
Valid(input) ==
  /\ Begins(input) # NoTime /\ Normalised(input) = input
  /\ Ends(input) # NoTime => Ends(input) >= Begins(input)

-----------------------------------------------------------------------------
\* Days, the month grid and the range it asks for.

\* Days are numbered so that day 0 begins a week.
DayOf(at) == at \div DayLen

LastOf(input) == IF Ends(input) = NoTime THEN Begins(input) ELSE Ends(input)

\* The days an event touches, as the grid files it.
EventDays(input) ==
  IF input.allDay
  THEN Begins(input) .. LastOf(input)
  ELSE DayOf(Begins(input)) .. DayOf(LastOf(input))

\* Whole weeks that cover the month, and the range [from, to) asked for.
FirstOf(month) == month[1] - (month[1] % Week)
GridDays(month) == FirstOf(month) .. (month[2] + (Week - 1 - (month[2] % Week)))
GridRange(month) == [from |-> FirstOf(month), to |-> Max(GridDays(month)) + 1]

\* Mutant: an event is looked up by its start.
StartInRange(input, range) ==
  IF input.allDay
  THEN Begins(input) \in range.from .. (range.to - 1)
  ELSE DayOf(Begins(input)) \in range.from .. (range.to - 1)

\* listInRange: what overlaps the range.
InRange(input, range) ==
  IF input.allDay
  THEN Begins(input) < range.to /\ LastOf(input) >= range.from
  ELSE Begins(input) < range.to * DayLen /\ LastOf(input) >= range.from * DayLen

\* What listEvents answers, filed by day, and the cells of the month.
ByDay(shown) == [day \in UNION {EventDays(events[e].input) : e \in shown} |->
                    {e \in shown : day \in EventDays(events[e].input)}]
Fetched(m, month) == {e \in Visible(m) : InRange(events[e].input, GridRange(month))}
Cells(m, month) ==
  LET byDay == ByDay(Fetched(m, month))
  IN  [day \in GridDays(month) |-> IF day \in DOMAIN byDay THEN byDay[day] ELSE {}]

StartOf(input) == IF input.allDay THEN Begins(input) * DayLen ELSE Begins(input)

\* The reminder's time has come and the start has not.
Due(e) ==
  /\ events[e].status = "scheduled" /\ events[e].input.remind # NoTime
  /\ instant < StartOf(events[e].input)
  /\ StartOf(events[e].input) <= instant + events[e].input.remind

DueFor(m) == {e \in Visible(m) : Due(e)}

\* Those that start before e, or with it and have the smaller id.
Ahead(m, e) ==
  LET start(f) == StartOf(events[f].input)
  IN  {f \in DueFor(m) : start(f) < start(e) \/ (start(f) = start(e) /\ f < e)}

\* Mutant: the latest first.
LatestFirst(m) == {e \in DueFor(m) : Cardinality(DueFor(m) \ ({e} \cup Ahead(m, e))) < PageSize}

\* listDueReminders: the soonest that fit the page.
Reminders(m) == {e \in DueFor(m) : Cardinality(Ahead(m, e)) < PageSize}

-----------------------------------------------------------------------------
Idle == [phase |-> "idle"]

CalendarInit ==
  /\ events = [e \in Event |-> Nothing]
  /\ matters = [m \in Member |-> Matter]
  /\ instant = 0
  /\ desk = [m \in Member |-> Idle]
  /\ panel = [m \in Member |-> {}]

World == <<matters, instant, panel>>

At(m, phase) == desk[m].phase = phase

Goes(m, d) == desk' = [desk EXCEPT ![m] = d]

\* The form keeps the hours of a timed event on the day it starts.
FormTakes(input) ==
  /\ Valid(input)
  /\ ~input.allDay /\ input.endsAt # NoTime => DayOf(input.endsAt) = DayOf(input.startsAt)

\* fromEvent: the event as the form shows it, its end moved to the day of its start.
FromEvent(input) ==
  IF input.allDay \/ input.endsAt = NoTime THEN input
  ELSE [input EXCEPT !.endsAt = DayOf(input.startsAt) * DayLen + (@ % DayLen)]

\* The dialog of an event: its form holds the event as the grid showed it.
OpenForm(m) ==
  /\ At(m, "idle")
  /\ \E e \in Event :
       \/ e \notin Stored /\ Goes(m, [phase |-> "creating", event |-> e])
       \/ e \in Visible(m) \cap Scheduled
          /\ \/ Goes(m, [phase |-> "editing", event |-> e, form |-> FromEvent(events[e].input)])
             \/ Goes(m, [phase |-> "cancelling", event |-> e])
  /\ UNCHANGED <<events, World>>

CloseForm(m) ==
  /\ desk[m].phase \in {"creating", "editing", "cancelling"}
  /\ Goes(m, Idle)
  /\ UNCHANGED <<events, World>>

\* changedBody: only the fields that differ from the form as it was opened are sent.
ChangedBody(before, after) == [f \in {g \in Fields : before[g] # after[g]} |-> after[f]]

SendForm(m) ==
  /\ \E input \in Inputs :
       /\ FormTakes(input)
       /\ \/ At(m, "creating") /\ Goes(m, [phase |-> "create", event |-> desk[m].event, input |-> input])
          \/ At(m, "editing")
             /\ Goes(m, [phase |-> "update", event |-> desk[m].event,
                         patch |-> ChangedBody(desk[m].form, input)])
  /\ UNCHANGED <<events, World>>

ConfirmCancel(m) ==
  /\ At(m, "cancelling")
  /\ Goes(m, [phase |-> "cancel", event |-> desk[m].event])
  /\ UNCHANGED <<events, World>>

-----------------------------------------------------------------------------
\* The server.  A dialog whose call is refused says so; a raw error is a bug.

Refused(m) == Goes(m, Idle) /\ UNCHANGED events

Create(m) ==
  /\ At(m, "create")
  /\ IF Reaches(m, desk[m].input.case) /\ desk[m].event \notin Stored
     THEN /\ events' = [events EXCEPT ![desk[m].event] = Row(desk[m].input, "scheduled")]
          /\ Goes(m, Idle)
     ELSE Refused(m)
  /\ UNCHANGED World

Merged(before, patch) == Normalised([f \in Fields |-> IF f \in DOMAIN patch THEN patch[f] ELSE before[f]])

\* The merged event is valid, and a new matter is one the member reaches.
MayAttach(m, before, after) ==
  Valid(after) /\ (after.case # before.case => Reaches(m, after.case))

\* findVisible, the merge and its checks; an edit that changes nothing ends here.
UpdateRead(m) ==
  /\ At(m, "update")
  /\ LET e == desk[m].event
         before == events[e].input
         after == Merged(before, desk[m].patch)
     IN  IF /\ e \in Visible(m) /\ events[e].status = "scheduled"
            /\ MayAttach(m, before, after) /\ after # before
         THEN Goes(m, [phase |-> "write", event |-> e, patch |-> desk[m].patch, input |-> after,
                       status |-> events[e].status])
         ELSE Goes(m, Idle)
  /\ UNCHANGED <<events, World>>

\* Mutant: the statement sets the fields of the patch and no others.
ChangedFieldsOnly(m) ==
  LET row == events[desk[m].event]
  IN  Row(Merged(row.input, desk[m].patch), row.status)

\* Mutant: the statement sets the status too, as it was read.
WithStatusRead(m) == Row(desk[m].input, desk[m].status)

\* update: every column but the status, whatever the row has become.
Written(m) == Row(desk[m].input, events[desk[m].event].status)

UpdateWrite(m) ==
  /\ At(m, "write")
  /\ IF Valid(Written(m).input)
     THEN events' = [events EXCEPT ![desk[m].event] = Written(m)] /\ Goes(m, Idle)
     ELSE Goes(m, [phase |-> "error"]) /\ UNCHANGED events
  /\ UNCHANGED World

\* findVisible, then the UPDATE; a row that was cancelled between them stays so.
CancelRead(m) ==
  /\ At(m, "cancel")
  /\ Goes(m, IF desk[m].event \in Visible(m) \cap Scheduled
             THEN [phase |-> "strike", event |-> desk[m].event] ELSE Idle)
  /\ UNCHANGED <<events, World>>

CancelWrite(m) ==
  /\ At(m, "strike")
  /\ events' = [events EXCEPT ![desk[m].event].status = "cancelled"]
  /\ Goes(m, Idle)
  /\ UNCHANGED World

-----------------------------------------------------------------------------
\* The reminders panel asks every minute.
Poll(m) ==
  /\ panel' = [panel EXCEPT ![m] = Reminders(m)]
  /\ UNCHANGED <<events, matters, instant, desk>>

TimePasses ==
  /\ instant < MaxInstant
  /\ instant' = instant + 1
  /\ UNCHANGED <<events, matters, desk, panel>>

\* Of the managing partners a live assignment decides nothing.
LeaveMatter ==
  /\ \E m \in Member \ Partner, c \in Matter :
       c \in matters[m] /\ matters' = [matters EXCEPT ![m] = @ \ {c}]
  /\ UNCHANGED <<events, instant, desk, panel>>

CalendarNext ==
  \/ \E m \in Member : OpenForm(m) \/ CloseForm(m) \/ SendForm(m) \/ ConfirmCancel(m) \/ Create(m)
                       \/ UpdateRead(m) \/ UpdateWrite(m) \/ CancelRead(m) \/ CancelWrite(m) \/ Poll(m)
  \/ TimePasses \/ LeaveMatter

CalendarSpec == CalendarInit /\ [][CalendarNext]_calendarVars

\* refetchInterval keeps the panel asking.
CalendarFairSpec == CalendarSpec /\ \A m \in Member : WF_calendarVars(Poll(m))

-----------------------------------------------------------------------------
CalendarTypeOK ==
  /\ \A e \in Stored : events[e].status \in {"scheduled", "cancelled"} /\ DOMAIN events[e].input = Fields
  /\ matters \in [Member -> SUBSET Matter] /\ instant \in 0 .. MaxInstant /\ panel \in [Member -> SUBSET Event]

\* However edits overlap, the database's constraints refuse none: what is written
\* was validated whole.
ConstraintsNeverFire == \A m \in Member : ~At(m, "error")

\* No edit that read the event before its cancellation brings it back.
CancelledIsFinal ==
  [][\A e \in Stored : events[e].status = "cancelled" => events'[e].status = "cancelled"]_calendarVars

\* The grid shows every event its range query returns, and no query misses one
\* the grid has a day for: two independent readings of a date agree.
GridShowsItsRange ==
  \A m \in Member, month \in Months :
    /\ Fetched(m, month) = UNION Range(Cells(m, month))
    /\ \A e \in Visible(m), day \in GridDays(month) :
         day \in EventDays(events[e].input) => e \in Cells(m, month)[day]

\* A reminder that is due, and stays due, reaches the panel of everybody who sees it, unless a
\* page of them comes before it.
RemindersArrive ==
  \A m \in Member, e \in Event :
    e \in DueFor(m) ~> (e \in panel[m] \/ e \notin DueFor(m) \/ Cardinality(Ahead(m, e)) >= PageSize)

\* specs/013 SC-004: an event appears in the panel once its reminder's time passes.
PanelShowsWhatIsDue ==
  [][\A m \in Member : panel'[m] # panel[m] => DueFor(m) \subseteq panel'[m]]_calendarVars

\* Who puts an event on a matter has reached that matter in the same request.
\* The code's claim is that a case the caller cannot reach answers 404 (calendar.service.ts).
AttachesWithinReach ==
  [][\A m \in Member :
       (At(m, "update") /\ desk'[m].phase = "write") => Reaches(m, desk'[m].input.case)]_calendarVars

\* The code's audit names the fields an edit changed (calendar.controller.ts): what
\* changes is what the patch asked for.
ChangesWhatItNames ==
  [][\A m \in Member :
       (At(m, "write") /\ desk'[m] = Idle) =>
          \A f \in Fields :
            events'[desk[m].event].input[f] # events[desk[m].event].input[f]
              => f \in DOMAIN desk[m].patch]_calendarVars
=============================================================================
