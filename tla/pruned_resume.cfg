\* A pull resumes after a start that pruned some of its part files.
SPECIFICATION Spec
CONSTANTS
  p1 = p1  p2 = p2
  NoPuller = NoPuller
  Pullers <- TwoPullers
  MediaPullers = {}
  Cancellable <- FirstPuller
  NParts = 2
  BadParts = {}
  NoLength = FALSE
  FullDisk = FALSE
  Prunes = TRUE
  MaxCrashes = 1
INVARIANTS CancelledPullsResume
CHECK_DEADLOCK FALSE
