SPECIFICATION Spec
CONSTANTS
  F = F
  M = M
  A = A
  B = B
  D = D
  e1 = e1
  e2 = e2
  x1 = x1
  x2 = x2
  Unset = Unset
  Nil = Nil
  Holders <- MCHolders
  Roots = {F}
  Own <- MCOwn
  Extra <- MCExtra
  FileOf <- MCFileOf
  Graphs <- MCGraphs
  MaxFile = 4
  MaxRoom = 1
  MaxHeld = 2
CHECK_DEADLOCK FALSE
INVARIANTS ListsStay DependentsImport UnusedIsUnused
PROPERTY AnswersAreAll
