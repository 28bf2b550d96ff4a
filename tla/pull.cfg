\* Two pulls, one of a media file; a client that leaves, a restart, a full disk, no length.
SPECIFICATION FairSpec
CONSTANTS
  p1 = p1  p2 = p2
  NoPuller = NoPuller
  Pullers <- TwoPullers
  MediaPullers = {p2}
  Cancellable <- FirstPuller
  NParts = 2
  BadParts = {}
  NoLength = TRUE
  FullDisk = TRUE
  Prunes = TRUE
  MaxCrashes = 1
INVARIANTS TypeOK OneWriter RecordedBytes WholeBeforePublished
PROPERTY PullEnds
CHECK_DEADLOCK FALSE
