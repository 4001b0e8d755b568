CONSTANTS
  Member = {s, o}
  Screen = s
  NoMember = NoMember
  Doc = {1, 2}
  Size = {1}
  Limit = {1}
  NoLimit = NoLimit
  Category = {u, c}
  Unclassified = u
  None = None
  MaxEntries = 2
SPECIFICATION Spec
INVARIANT CounterIsSum DocumentsHaveObjects WithinSomeLimit TrailTellsTheRow NothingOwedAtRest
ACTION_CONSTRAINT InOrder
CONSTRAINT Either
