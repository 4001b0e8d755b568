CONSTANTS
  Client = {c1, c2, c3}
  Position = {1, 2}
  MaxSecret = 2
  MaxChallenge = 2
  MaxSet = 2
SPECIFICATION Spec
INVARIANT ConfirmedHasCodes OneSessionPerChallenge RecoveriesCostCodes
SYMMETRY Calls
CHECK_DEADLOCK FALSE
