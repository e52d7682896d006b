SPECIFICATION Spec
CONSTANTS
  a = a
  b = b
  p = p
  q = q
  refused = refused
  noName = noName
  noFile = noFile
  Raw <- MCRaw
  Names <- MCNames
  CleanName <- MCCleanName
  Refused <- refused
  NoName <- noName
  Paths <- MCPaths
  NoFile <- noFile
  Artifacts <- AllArtifacts
  Matches <- MCMatches
  MaxArtifacts = 5
CHECK_DEADLOCK FALSE
INVARIANTS TypeOK AppendsInPlace OverwriteIsNoDuplicate NothingLost DiskIsLastWrite
PROPERTY ImplementsFiles
