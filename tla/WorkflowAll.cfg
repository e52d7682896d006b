SPECIFICATION FairSpec
CONSTANTS
  g1 = g1
  g2 = g2
  g3 = g3
  m1 = m1
  m2 = m2
  Callers <- ThreeCallers
  Modules <- TwoModules
  MayPanic = TRUE
  MaxCalls = 2
CHECK_DEADLOCK FALSE
INVARIANTS TypeOK StagesExclusive ModuleProtocol OneFullResponse
PROPERTIES ImplementsPromise CallsEnd
