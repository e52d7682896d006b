SPECIFICATION Spec
CONSTANTS
  f1 = f1
  f2 = f2
  p1 = p1
  p2 = p2
  M = M
  N = N
  Entry = Entry
  P = P
  E = E
  a = a
  b = b
  c = c
  key = key
  value = value
  ext = ext
  Files <- MCFiles
  Packages <- MCPackages
  Messages <- MCMessages
  Enums <- MCEnums
  Fields <- MCFields
  Requests <- MCRequests
  Nobody = Nobody
  Embedded = Embedded
CHECK_DEADLOCK FALSE
INVARIANTS TypeOK WellFormedIsBuilt GraphIsWired EdgesAreInverse
