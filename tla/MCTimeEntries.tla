---------------------------- MODULE MCTimeEntries ----------------------------
EXTENDS TimeEntries

\* One fetch under way at a time: those of different copies have nothing in common.
OneFlight == Cardinality({x \in Viewer : flight[x] # {}}) <= 1

\* Either the followed tabs stay at the range, with a copy of each list, and everything else
\* happens; or they have no copies yet, turn to other screens and close dialogs too early,
\* while no time passes, nobody leaves a matter and no other device sends.
Either ==
  \/ /\ \A t \in Watched : place[t] = "range" /\ ~call[t].closed
     /\ \A x \in Viewer : view[x].has /\ x \notin missed
  \/ clock = 0 /\ team = Case /\ \A t \in Tab \ Watched : call[t] = NoCall
=============================================================================
