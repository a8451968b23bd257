SPECIFICATION Spec
CONSTANTS
  Faults <- Accepting
  Refusals <- Nothing
  Endings <- AllEndings
  CgiFrames = FALSE
  Throws <- AllThrows
  Slots <- TwoSlots
  MaxEvents = 9
  MaxConns = 2
  MaxAge = 0
  Signals <- WithSigint
  Routes <- Nothing
  NoClient = NoClient
INVARIANTS
  TypeOK
  RecvOnlyWhenReadable
  ShutdownMarksAll
  ExitIsClean
CHECK_DEADLOCK FALSE
