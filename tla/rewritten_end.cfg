\* An engine that exits while two polls are under way.
SPECIFICATION Spec
CONSTANTS
  j1 = j1  q1 = q1  e1 = e1
  NoEngine = NoEngine  NoJob = NoJob
  Keep = 2
  Fetched = 1
  Jobs <- OneJob
  Requests <- OneRequest
  Engines <- OneEngine
INVARIANT LostIsFailed
CHECK_DEADLOCK FALSE
