SPECIFICATION Spec
CONSTANTS
  a = a
  b = b
  p = p
  q = q
  refused = refused
  noName = noName
  noFile = noFile
  Raw <- MCRaw
  Names <- MCNames
  CleanName <- MCCleanName
  Refused <- refused
  NoName <- noName
  Paths <- MCNoPaths
  NoFile <- noFile
  Artifacts <- SpliceArtifacts
  Matches <- MCMatches
  MaxArtifacts = 4
CHECK_DEADLOCK FALSE
INVARIANT OverwriteReplaces
