SPECIFICATION Spec
CONSTANTS
  pkg = pkg
  fa = fa
  fb = fb
  E = E
  ev = ev
  M = M
  N = N
  x = x
  y = y
  o = o
  Entry = Entry
  key = key
  S = S
  call = call
  ext = ext
  inner = inner
  G = G
  Nil = Nil
  Nobody = Nobody
  Nodes <- MCNodes
  KindOf <- MCKindOf
  Decl <- MCDecl
  file <- fa
  Paths <- MCPaths
  Meaning <- MCMeaning
  Visitors = {v1, v2}
CHECK_DEADLOCK FALSE
INVARIANTS VisitsFindComments DepthFirst VisitorInherited AllButSkipped
