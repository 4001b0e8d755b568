CONSTANTS
  Row = {1, 2, 3, 4}
  NoRow = 0
  Client = {c1, c2}
  NoClient = NoClient
SPECIFICATION FairSpec
INVARIANT ReuseKillsFamily
PROPERTY ImplementsLineage EveryCallAnswers
ACTION_CONSTRAINT InOrder
