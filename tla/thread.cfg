\* Calls of Do race three Stops, two of which may be cancelled.
SPECIFICATION FairSpec
CONSTANTS
  d1 = d1  d2 = d2  s1 = s1  s2 = s2  s3 = s3
  NoCall = NoCall
  Dos <- TwoDos
  Stops <- ThreeStops
  Cancellable <- SomeCancelled
INVARIANTS RefusedNeverRan StopMeansClosed RefusesForAReason
PROPERTIES DoReturns ImplementsSerialWorker
CHECK_DEADLOCK FALSE
