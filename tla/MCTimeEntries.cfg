CONSTANTS
  Tab = {t1, t2}
  Watched = {t1}
  Case = {c1}
  Unrestricted = FALSE
  Window = 1
  MaxMinutes = 1
  DayLength = 2
  Durations = {1}
  MaxClock = 2
  MaxChanges = 2
SPECIFICATION FairSpec
INVARIANT OneTimerPerMember
PROPERTIES FinalStaysFinal ImplementsCachedView
CONSTRAINTS OneFlight Either
CHECK_DEADLOCK FALSE
