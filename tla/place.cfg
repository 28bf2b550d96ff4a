\* A model each, caps per kind, loads that need room, run out of memory or are refused.
SPECIFICATION Spec
CONSTANTS
  r1 = r1  r2 = r2  r3 = r3
  Requests <- R3
  NoRunner = NoRunner
  Models = {1, 2, 3}
  ModelOf <- ModelOfEach
  CfgOf <- SameCfg
  KeepAliveOf <- KeepAliveUnset
  DefaultKeepAlive = 1
  FullFitModels = {1, 2}
  MediaModels = {1, 2}
  AutoCtx = {r2}
  Pinned <- PinnedR1
  Opencoti <- R3
  GpusOf <- TwoGpus
  Kinds = {1, 2}
  KindsOf <- KindsOfTwo
  KindLimit <- OneOfKindOne
  MaxRunners = 0
  AutoRunners = 1
  MaxQueue = 3
  RefCounts = 6
  Timeouts = FALSE
  Cancellable = {r2}
  MaxStops = 0
  MaxCrashes = 1
INVARIANTS
  WakeupInSight ActiveLoadingCurrent CapsRespected
CHECK_DEADLOCK FALSE
