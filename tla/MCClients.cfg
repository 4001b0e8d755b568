CONSTANTS
  Person = {a, b}
  Reader = {a}
  n1 = n1
  n2 = n2
  Name = {n1, n2}
  Filter <- MCFilter
  MaxClients = 4
  MaxChanges = 3
  Limit = 1
  Absent = Absent
SPECIFICATION DirectorySpec
INVARIANTS PagesMissNothing
PROPERTIES WithdrawnIsNotEdited
CONSTRAINT Bounded
CHECK_DEADLOCK FALSE
