CONSTANTS
  Tab = {t1, t2}
  f = f
  g = g
  Firm <- MCFirm
  Beginnings <- MCBeginnings
  Remembered = {None, f}
  Roles = {"MP", "BM"}
  Reading = "clientes"
  MaxSessions = 2
  MaxTurns = 2
  None = None
SPECIFICATION BrowserSpec
INVARIANTS OneFirmIsEntered DrawnIsAdmitted
PROPERTIES NavigationEnds NoLateAnswerOfTheFirmLeft
CONSTRAINT Either
