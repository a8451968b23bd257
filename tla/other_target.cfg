SPECIFICATION Spec
CONSTANTS
  Numbers <- MCNumbers
  UriPaths <- MCUriPaths
  Locations <- LocationParts
  Traversals <- TraversalParts
  Directories <- FolderNames
  Interpreters <- KnownSuffixes
  MaxBodySize = "1000000"
  MaxTokens = 100
  Servers <- MCServers
  Requests <- MCRequests
  Decoded <- MCDecoded
  Now = "file_1"
  SizeOf <- MCSizes
  PageSize = 430
  KnownCodes <- MCKnownCodes
  FirstFiles <- MCFiles
  Changes <- MCChanges
  Denied <- MCDenied
  MAX_BODY_SIZE = 1096
  MAX_CHUNKSIZE = 1000
  HeaderSize = 90
  MaxRequests = 2
  MaxChanges = 2
INVARIANTS
  OtherTargetsSurvived
CHECK_DEADLOCK FALSE
