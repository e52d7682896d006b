SPECIFICATION Spec
CONSTANTS
  Modules = {"golang", "docs"}
  Order <- MCOrder
  Tags = {"x"}
  Dirs <- AnyDirs
  Roots <- AnyRoots
  MaxDepth <- MCDepth
  MaxAdded = 1
CHECK_DEADLOCK FALSE
INVARIANT AbsoluteDirsReplace
