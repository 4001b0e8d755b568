CONSTANTS
  Member = {a, b}
  Partner = {b}
  Event = {1, 2}
  PageSize = 1
  Matter = {c1}
  NoCase = NoCase
  NoTime = 0
  DayLen = 2
  Week = 2
  MaxInstant = 2
  Times <- MCTimes
  Months <- MCMonths
SPECIFICATION CalendarFairSpec
INVARIANTS ConstraintsNeverFire GridShowsItsRange
PROPERTIES CancelledIsFinal RemindersArrive
CONSTRAINT Either
CHECK_DEADLOCK FALSE
