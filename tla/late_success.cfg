SPECIFICATION Spec
CONSTANTS
  Faults <- Nothing
  Refusals <- Nothing
  Endings <- AllEndings
  CgiFrames = FALSE
  Throws <- Nothing
  Slots <- OneSlot
  MaxEvents = 9
  MaxConns = 1
  MaxAge = 1
  Signals <- Nothing
  Routes <- CgiRoute
  NoClient = NoClient
INVARIANTS
  CgiTimeoutAnsweredWithError
CHECK_DEADLOCK FALSE
