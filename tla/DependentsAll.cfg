SPECIFICATION FairSpec
CONSTANTS
  A = A
  B = B
  C = C
  D = D
  Nodes <- Four
  Graphs <- MCGraphs
  MaxQueries = 3
CHECK_DEADLOCK FALSE
INVARIANTS TypeOK Sound CompleteIfAcyclic FirstAnswerComplete
PROPERTIES AnswersStable CallsReturn
