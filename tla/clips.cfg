\* A clip, its watch and the handlers of later calls: a client that leaves,
\* an engine that exits, answers that fail.
SPECIFICATION FairSpec
CONSTANTS
  j1 = j1  q1 = q1  e1 = e1
  NoEngine = NoEngine  NoJob = NoJob
  Keep = 2
  Fetched = 1
  Jobs <- OneJob
  Requests <- OneRequest
  Engines <- OneEngine
INVARIANTS EngineHeld RunningClipKept HoldBounded
PROPERTY JobEnds
CHECK_DEADLOCK FALSE
