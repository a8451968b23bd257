SPECIFICATION Spec
CONSTANTS
  Streams <- AllStreams
  MaxLine = 40
  LineCuts = TRUE
  Unset <- AnyUnset
INVARIANTS
  CompleteWhenDelivered
CHECK_DEADLOCK FALSE
