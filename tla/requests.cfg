SPECIFICATION Spec
CONSTANTS
  Faults <- PeerFails
  Refusals <- AllRefusals
  Endings <- AllEndings
  CgiFrames = FALSE
  Throws <- AllThrows
  Slots <- OneSlot
  MaxEvents = 9
  MaxConns = 1
  MaxAge = 3
  Signals <- WithSigint
  Routes <- AllRoutes
  NoClient = NoClient
INVARIANTS
  ChildFdsPresent
  EventsNameOpenFds
  CgiFlagTracksChild
  NoChildLeftAlive
  SignalsOwnChild
  OneChild
  OnlyGeneratedSent
  PartOnlyAtEnd
PROPERTIES
  ErrorIsFinal
  AnswerIsFinal
CHECK_DEADLOCK FALSE
