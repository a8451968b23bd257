SPECIFICATION Spec
CONSTANTS
  Faults <- Memory
  Refusals <- HeaderOnly
  Endings <- AllEndings
  CgiFrames = TRUE
  Throws <- AllThrows
  Slots <- OneSlot
  MaxEvents = 9
  MaxConns = 1
  MaxAge = 3
  Signals <- WithSigint
  Routes <- CgiRoute
  NoClient = NoClient
INVARIANTS
  HeadersPresent
  BodyDeliveredWhole
  AnsweredOnce
  CgiForwardedOnSuccess
PROPERTIES
  KeepsPromise
CHECK_DEADLOCK FALSE
