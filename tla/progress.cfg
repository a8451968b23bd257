SPECIFICATION FairSpec
CONSTANTS
  Faults <- Nothing
  Refusals <- Nothing
  Endings <- Nothing
  CgiFrames = FALSE
  Throws <- AllThrows
  Slots <- OneSlot
  MaxEvents = 9
  MaxConns = 1
  MaxAge = 3
  Signals <- Nothing
  Routes <- CgiRoute
  NoClient = NoClient
PROPERTIES
  ClientsLeave
CHECK_DEADLOCK FALSE
