SPECIFICATION Spec
CONSTANTS
  Modules = {"golang", "docs"}
  Order <- MCOrder
  Tags = {"x"}
  Dirs <- AnyDirs
  Roots <- AnyRoots
  MaxDepth <- MCDepth
  MaxAdded = 3
CHECK_DEADLOCK FALSE
INVARIANTS TypeOK PathsAreClean ArtifactsArriveOnce
PROPERTY PopsUndoPushes
