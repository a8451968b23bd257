SPECIFICATION Spec
CONSTANTS
  Faults <- ForkFails
  Refusals <- Nothing
  Endings <- AllEndings
  CgiFrames = FALSE
  Throws <- Nothing
  Slots <- OneSlot
  MaxEvents = 9
  MaxConns = 1
  MaxAge = 2
  Signals <- Nothing
  Routes <- CgiRoute
  NoClient = NoClient
INVARIANTS
  SignalsOwnChild
CHECK_DEADLOCK FALSE
