CONSTANTS
  Caller = {c1, c2}
  Totp = {3}
  Backup = {9}
  Threshold = 2
  LockFor = 3
  MaxTime = 5
SPECIFICATION GuardSpec
INVARIANT GuessRateBounded PromptCallsAcceptOnce
PROPERTY LockoutRunsItsTime
SYMMETRY Calls
