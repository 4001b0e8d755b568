------------------------------ MODULE MCCalendar ------------------------------
EXTENDS Calendar

Timed(start, end, remind) ==
  [allDay |-> FALSE, startsAt |-> start, endsAt |-> end, startsOn |-> NoTime, endsOn |-> NoTime, remind |-> remind]
AllDay(start, end, remind) ==
  [allDay |-> TRUE, startsAt |-> NoTime, endsAt |-> NoTime, startsOn |-> start, endsOn |-> end, remind |-> remind]

\* Instants and days from 1, so that 0 can stand for an absent one.
MCTimes == {Timed(2, 3, 2), Timed(4, 0, 3), AllDay(1, 2, 0)}

\* Either the members edit one event, or the one who may lose a matter creates and cancels two
\* and both are reminded of them.
Either ==
  \/ /\ \A m \in Member : panel[m] = {} /\ (desk[m].phase \in {"idle", "error"} \/ desk[m].event = 1)
     /\ Stored \subseteq {1}
  \/ /\ \A m \in Partner : desk[m] = Idle
     /\ \A m \in Member : desk[m].phase \notin {"editing", "update", "write"}

MCMonths == {<<0, 1>>, <<2, 2>>}
=============================================================================
