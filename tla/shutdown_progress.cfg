SPECIFICATION FairSpec
CONSTANTS
  Faults <- PeerFails
  Refusals <- Nothing
  Endings <- AllEndings
  CgiFrames = FALSE
  Throws <- AllThrows
  Slots <- OneSlot
  MaxEvents = 9
  MaxConns = 1
  MaxAge = 3
  Signals <- WithSigint
  Routes <- Nothing
  NoClient = NoClient
PROPERTIES
  ShutdownCompletes
CHECK_DEADLOCK FALSE
