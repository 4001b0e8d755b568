CONSTANTS
  Member = {a, b}
  Unrestricted = {b}
  Case = {c1}
  Outcomes = {favorable, desfavorable}
  Successes = {favorable}
  t1 = t1
  MatterOf <- MCMatterOf
  Watched = {a}
  Status = {open, done}
  Closing = {done}
  None = None
  Entered = {8}
  Start = 11
  MaxMonth = 12
  MinDeclared = 1
  MaxRedefined = 1
SPECIFICATION Spec
INVARIANTS DateTellsStatus KpisAgree
PROPERTIES EndIsKept
CHECK_DEADLOCK FALSE
