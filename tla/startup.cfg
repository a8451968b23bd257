SPECIFICATION Spec
CONSTANTS
  Files <- AllFiles
  Numbers <- MCNumbers
  UriPaths <- MCUriPaths
  Locations <- LocationParts
  Traversals <- TraversalParts
  Directories <- FolderNames
  Interpreters <- KnownSuffixes
  MaxBodySize = "1000000"
  MaxTokens = 26
  MaxUniquePorts = 2
  Failures <- AllCalls
INVARIANTS
  TypeOK
  PathsAreLexical
  SettingsAreLexical
  StartsWhole
  ExitsClean
CHECK_DEADLOCK FALSE
