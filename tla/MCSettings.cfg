CONSTANTS
  Person = {a, b}
  Administrators = {a, b}
  Visitor = {v, w}
  Platform = Platform
  Watched = {a}
  Invitation = {i1, i2}
  e1 = e1
  e2 = e2
  Entry = {e1, e2}
  Position = {e1, e2}
  NameOf <- MCName
  Seeded = {}
  HourlyCap = 1
  MaxFailed = 1
  MaxRequests = 4
  None = None
SPECIFICATION Spec
INVARIANTS RecordsAgree
PROPERTIES ImplementsOnboarding AttemptsEnd
CHECK_DEADLOCK FALSE
