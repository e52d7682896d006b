SPECIFICATION Spec
CONSTANTS
  A = A
  B = B
  C = C
  D = D
  Nodes <- Four
  Graphs <- MCGraphs
  MaxQueries = 2
CHECK_DEADLOCK FALSE
INVARIANT EveryAnswerComplete
