SPECIFICATION FairSpec
CONSTANTS
  Streams <- AllStreams
  MaxLine = 40
  LineCuts = FALSE
  Unset <- AnyUnset
INVARIANTS
  TypeOK
  FramedAsSent
  CompleteWhenDelivered
  OnlyLastChunkForgiven
  BodySizeExact
PROPERTIES
  LoopEnds
  ResultsAreParsed
CHECK_DEADLOCK FALSE
